------------------------------ MODULE MCTiming ------------------------------
EXTENDS Timing, TLC

GaugesAreAlike == Permutations(Conns)
============================================================================
