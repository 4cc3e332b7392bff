-------------------------- MODULE MCBufferedWriter --------------------------
(***************************************************************************)
(* Instances of BufferedWriter for TLC; goroutines are interchangeable, and  *)
(* no liveness is checked of them.                                         *)
(***************************************************************************)
EXTENDS BufferedWriterInv, TLC

Symmetry == Permutations(Procs)
=============================================================================
