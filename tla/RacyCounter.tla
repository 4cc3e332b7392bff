----------------------------- MODULE RacyCounter -----------------------------
(***************************************************************************)
(* BadMemCounter of rust/src/counter.rs: a call loads the atomic value to   *)
(* compare it with the limit and then adds to whatever the value has become *)
(* meanwhile, so calls that pass the comparison together overshoot.         *)
(***************************************************************************)
EXTENDS RustCounter, FiniteSets

badVars == <<value, pc>>

\* The comparisons of inc and dec.
MutantBelowLimit == value <= Limit
BelowLimit == value < Limit
MutantAboveZero == value >= 0
AboveZero == value > 0

\* inc loads a value below the limit, then fetch_add; a call that loads any
\* other value does nothing.
CheckInc(p) ==
    /\ pc[p] = "idle"
    /\ BelowLimit
    /\ pc' = [pc EXCEPT ![p] = "adding"]
    /\ UNCHANGED value

FetchAdd(p) ==
    /\ pc[p] = "adding"
    /\ value' = value + 1
    /\ pc' = [pc EXCEPT ![p] = "idle"]

\* dec loads a value above zero, then fetch_sub.
CheckDec(p) ==
    /\ pc[p] = "idle"
    /\ AboveZero
    /\ pc' = [pc EXCEPT ![p] = "subtracting"]
    /\ UNCHANGED value

FetchSub(p) ==
    /\ pc[p] = "subtracting"
    /\ value' = value - 1
    /\ pc' = [pc EXCEPT ![p] = "idle"]

BadNext == \E p \in Procs : CheckInc(p) \/ FetchAdd(p) \/ CheckDec(p) \/ FetchSub(p)

BadSpec == AtomicInit /\ [][BadNext]_badVars

-----------------------------------------------------------------------------
(* Properties *)

Adding == {p \in Procs : pc[p] = "adding"}
Subtracting == {p \in Procs : pc[p] = "subtracting"}

BadTypeOK ==
    /\ value \in Int
    /\ pc \in [Procs -> {"idle", "adding", "subtracting"}]

\* How far the source's "concurrency bug" (counter.rs:3) takes it out of
\* counter.fizz's WithinRange: however the calls overlap, the value and the
\* additions that are decided and not yet made stay less than the number of
\* threads past the limit, and likewise below zero (counter.rs:15-26).
OvershootBounded ==
    Procs # {} =>
        /\ value + Cardinality(Adding) <= Limit + Cardinality(Procs) - 1
        /\ value - Cardinality(Subtracting) >= 1 - Cardinality(Procs)
=============================================================================
