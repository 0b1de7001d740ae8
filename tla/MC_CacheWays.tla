---------------------------- MODULE MC_CacheWays ----------------------------
EXTENDS CacheWays, TLC

Swaps == Permutations(Blocks)
=============================================================================
