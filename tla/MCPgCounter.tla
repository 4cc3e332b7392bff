---------------------------- MODULE MCPgCounter ----------------------------
(***************************************************************************)
(* Instances of PgCounter for TLC; callers are interchangeable.            *)
(***************************************************************************)
EXTENDS PgCounterInv, TLC

Symmetry == Permutations(Callers)
=============================================================================
