----------------------------- MODULE MCPipeline -----------------------------
EXTENDS Pipeline, TLC

RelaysAreAlike == Permutations(Relays)
============================================================================
