---------------------------- MODULE MCDedupRing ----------------------------
\* DedupRing for TLC; the ids of the .cfg files are model values.
EXTENDS DedupRing
============================================================================
