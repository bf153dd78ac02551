----------------------------- MODULE MCHostApp -----------------------------
EXTENDS HostApp
============================================================================
