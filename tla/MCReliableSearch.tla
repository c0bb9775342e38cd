-------------------------- MODULE MCReliableSearch --------------------------
(***************************************************************************)
(* An instance of ReliableSearch for TLC.                                  *)
(***************************************************************************)
EXTENDS ReliableSearch, TLC

SearchSymmetry == Permutations(Threads) \cup Permutations(RequestIds)
=============================================================================
