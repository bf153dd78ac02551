------------------------------ MODULE MCRelay ------------------------------
EXTENDS Relay, TLC

\* Sockets are interchangeable, and so are commands.
Symmetry == Permutations(Sockets) \cup Permutations(Cmds)
============================================================================
