------------------------- MODULE MCGoKVStoreReopen -------------------------
(***************************************************************************)
(* Instances of GoKVStoreReopen for TLC; goroutines are interchangeable, so  *)
(* are keys.  Two writes in each life make two blobs, of which the second   *)
(* can hide the first of a later life.                                     *)
(***************************************************************************)
EXTENDS GoKVStoreReopenInv, TLC

CONSTANT MaxWritesPerLife   \* bound on the number of Puts and Deletes in a life

Symmetry == Permutations(Procs) \cup Permutations(Keys)

LifeBound == writes - base <= MaxWritesPerLife
=============================================================================
