---------------------------- MODULE MCGoKVStore ----------------------------
(***************************************************************************)
(* Instances of GoKVStore for TLC.  Goroutines are interchangeable, and so  *)
(* are keys: no definition of GoKVStore compares two of them.              *)
(***************************************************************************)
EXTENDS GoKVStoreInv, TLC

Symmetry == Permutations(Procs) \cup Permutations(Keys)
=============================================================================
