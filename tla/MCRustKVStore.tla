--------------------------- MODULE MCRustKVStore ---------------------------
(***************************************************************************)
(* Instances of RustKVStore for TLC; tasks are interchangeable, so are keys. *)
(***************************************************************************)
EXTENDS RustKVStoreInv, TLC

Symmetry == Permutations(Procs) \cup Permutations(Keys)
=============================================================================
