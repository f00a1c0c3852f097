---------------------------- MODULE MCChainBase ----------------------------
(* ChainBaseHistory on a small table: symmetric keys and data. *)
EXTENDS ChainBaseHistory, TLC

Symm == Permutations(Key) \cup Permutations(Data)
=============================================================================
