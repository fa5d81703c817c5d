---------------------------- MODULE MCPosixTimers ----------------------------
EXTENDS PosixTimers, TLC

Symmetry == Permutations(Threads) \cup Permutations(Addrs) \cup Permutations(Kids)
=============================================================================
