------------------------------- MODULE MCHub -------------------------------
\* Hub for TLC; the sets of the .cfg files are model values.
EXTENDS Hub
============================================================================
