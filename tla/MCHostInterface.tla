--------------------------- MODULE MCHostInterface ---------------------------
EXTENDS HostInterface, TLC

Interchangeable == Permutations(Threads) \cup Permutations(Handles)
=============================================================================
