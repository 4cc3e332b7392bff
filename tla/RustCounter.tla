----------------------------- MODULE RustCounter -----------------------------
(***************************************************************************)
(* What the two counters of rust/src/counter.rs have in common: one atomic,  *)
(* called by many threads at once.                                         *)
(***************************************************************************)
EXTENDS Integers

CONSTANTS
    Procs,      \* threads that call the counter
    Limit       \* limit

ASSUME LimitAssumption == Limit \in Nat

VARIABLES
    value,      \* the atomic
    pc          \* where each thread is

\* A new counter, and no call of it.
AtomicInit ==
    /\ value = 0
    /\ pc = [p \in Procs |-> "idle"]
=============================================================================
