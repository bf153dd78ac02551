------------------------------ MODULE MCServer ------------------------------
EXTENDS Server, TLC

\* Connections are interchangeable; used with safety properties only.
Symmetry == Permutations(Conns)
============================================================================
