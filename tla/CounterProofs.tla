---------------------------- MODULE CounterProofs ----------------------------
(***************************************************************************)
(* The counters that implement counter.fizz: GoodMemCounter, for any number  *)
(* of threads and calls and any limit; and those of Go, TypeScript and Java, *)
(* for every width of the integers and every limit below the largest int.   *)
(* Then how far BadMemCounter, which implements nothing, leaves its range.  *)
(***************************************************************************)
EXTENDS CasCounter, RacyCounter, FiniteSetTheorems, TLAPS

CONSTANT MaxInt
VARIABLES style, limit

\* The counters whose methods hold a lock.
Mem == INSTANCE MemCounter

\* A thread that is about to give up, or that would be if it looked again, has
\* been at its bound since its call began.
BlockedInv ==
    \A p \in Procs : pc[p] = "updating" =>
        /\ ~Allowed(current[p], delta[p]) => p \in blocked
        /\ AtBound(value, delta[p]) => p \in blocked

IInv == TypeOK /\ NoLostUpdate /\ IdleOnlyAtBound /\ BlockedInv

\* Within the range, an update is refused exactly at its bound, and stays within
\* the range when it is not.
LEMMA RefusedAtBound ==
    ASSUME NEW v \in 0..Limit, NEW d \in {1, -1}
    PROVE  /\ ~Allowed(v, d) <=> AtBound(v, d)
           /\ Allowed(v, d) => v + d \in 0..Limit
  BY LimitAssumption DEF Allowed, AtBound

-----------------------------------------------------------------------------
LEMMA InitInv == Init => IInv
  BY LimitAssumption, MaxCallsAssumption
  DEF Init, AtomicInit, IInv, TypeOK, NoLostUpdate, IdleOnlyAtBound, BlockedInv

LEMMA LoadInv ==
    ASSUME IInv, NEW p \in Procs, NEW d \in {1, -1}, Load(p, d)
    PROVE  IInv'
<1>1. TypeOK'
  BY MaxCallsAssumption DEF IInv, TypeOK, Load, AtBound
<1>2. NoLostUpdate' /\ IdleOnlyAtBound'
  BY DEF IInv, Load, NoLostUpdate, IdleOnlyAtBound
<1>3. BlockedInv'
  <2> SUFFICES ASSUME NEW q \in Procs, pc'[q] = "updating"
               PROVE  /\ ~Allowed(current'[q], delta'[q]) => q \in blocked'
                      /\ AtBound(value', delta'[q]) => q \in blocked'
    BY DEF BlockedInv
  <2>1. CASE q = p
    BY <2>1, RefusedAtBound DEF IInv, TypeOK, Load
  <2>2. CASE q # p
    BY <2>2 DEF IInv, TypeOK, Load, BlockedInv
  <2> QED
    BY <2>1, <2>2
<1> QED
  BY <1>1, <1>2, <1>3 DEF IInv

LEMMA ExchangeInv ==
    ASSUME IInv, NEW p \in Procs, Exchange(p)
    PROVE  IInv'
<1>1. value' = value + delta[p] /\ value' \in 0..Limit
  BY RefusedAtBound DEF IInv, TypeOK, Exchange, Unchanged
<1>2. TypeOK'
  BY <1>1 DEF IInv, TypeOK, Exchange, BlockedAt
<1>3. NoLostUpdate' /\ IdleOnlyAtBound'
  BY <1>1 DEF IInv, TypeOK, Exchange, NoLostUpdate, IdleOnlyAtBound
<1>4. BlockedInv'
  BY DEF IInv, TypeOK, Exchange, BlockedAt, BlockedInv
<1> QED
  BY <1>2, <1>3, <1>4 DEF IInv

LEMMA ExchangeFailsInv ==
    ASSUME IInv, NEW p \in Procs, ExchangeFails(p)
    PROVE  IInv'
<1>1. TypeOK'
  BY DEF IInv, TypeOK, ExchangeFails, ghosts, Seen
<1>2. NoLostUpdate' /\ IdleOnlyAtBound'
  BY DEF IInv, ExchangeFails, ghosts, NoLostUpdate, IdleOnlyAtBound
<1>3. BlockedInv'
  <2> SUFFICES ASSUME NEW q \in Procs, pc'[q] = "updating"
               PROVE  /\ ~Allowed(current'[q], delta'[q]) => q \in blocked'
                      /\ AtBound(value', delta'[q]) => q \in blocked'
    BY DEF BlockedInv
  <2>1. CASE q = p
    BY <2>1, RefusedAtBound DEF IInv, TypeOK, ExchangeFails, ghosts, Seen, BlockedInv
  <2>2. CASE q # p
    BY <2>2 DEF IInv, TypeOK, ExchangeFails, ghosts, BlockedInv
  <2> QED
    BY <2>1, <2>2
<1> QED
  BY <1>1, <1>2, <1>3 DEF IInv

LEMMA GiveUpInv ==
    ASSUME IInv, NEW p \in Procs, GiveUp(p)
    PROVE  IInv'
<1>1. TypeOK'
  BY DEF IInv, TypeOK, GiveUp
<1>2. NoLostUpdate' /\ IdleOnlyAtBound'
  BY DEF IInv, GiveUp, NoLostUpdate, IdleOnlyAtBound, BlockedInv
<1>3. BlockedInv'
  BY DEF IInv, TypeOK, GiveUp, BlockedInv
<1> QED
  BY <1>1, <1>2, <1>3 DEF IInv

LEMMA NextInv ==
    ASSUME IInv, [Next]_vars
    PROVE  IInv'
<1>1. ASSUME NEW p \in Procs, NEW d \in {1, -1}, Load(p, d)
      PROVE  IInv'
  BY <1>1, LoadInv
<1>2. ASSUME NEW p \in Procs, Exchange(p)
      PROVE  IInv'
  BY <1>2, ExchangeInv
<1>3. ASSUME NEW p \in Procs, ExchangeFails(p)
      PROVE  IInv'
  BY <1>3, ExchangeFailsInv
<1>4. ASSUME NEW p \in Procs, GiveUp(p)
      PROVE  IInv'
  BY <1>4, GiveUpInv
<1>5. CASE UNCHANGED vars
  BY <1>5 DEF vars, ghosts, IInv, TypeOK, NoLostUpdate, IdleOnlyAtBound, BlockedInv
<1> QED
  BY <1>1, <1>2, <1>3, <1>4, <1>5 DEF Next, Step

LEMMA Invariant == Spec => []IInv
  BY InitInv, NextInv, PTL DEF Spec

\* The atomic never leaves 0..limit, whatever calls overlap (counter.rs:45-71).
THEOREM TypeCorrect == Spec => []TypeOK
  BY Invariant, PTL DEF IInv

\* No exchange installs what was computed from a value that has changed since: the
\* value is what the successful calls add up to (counter.rs:45-71).
THEOREM NothingLost == Spec => []NoLostUpdate
  BY Invariant, PTL DEF IInv

\* A call that changes nothing was at its bound at some moment while it ran
\* (counter.rs:49-55, 63-69).
THEOREM RefusedAtBoundOnly == Spec => []IdleOnlyAtBound
  BY Invariant, PTL DEF IInv

-----------------------------------------------------------------------------
\* A step of the counter is an Inc, a Dec, or invisible.
LEMMA StepImplements ==
    ASSUME IInv, [Next]_vars
    PROVE  [Counter!CounterNext]_(Counter!counterVars)
<1>1. ASSUME NEW p \in Procs, Exchange(p)
      PROVE  Counter!CounterNext
  BY <1>1, LimitAssumption
  DEF IInv, TypeOK, Exchange, Unchanged, Allowed, Counter!CounterNext, Counter!Inc,
      Counter!Dec, Counter!Incremented, Counter!Decremented
<1>2. CASE value' = value
  BY <1>2 DEF Counter!counterVars
<1>3. ASSUME NEW p \in Procs, (\E d \in {1, -1} : Load(p, d)) \/ ExchangeFails(p) \/ GiveUp(p)
      PROVE  value' = value
  BY <1>3 DEF Load, ExchangeFails, GiveUp
<1>4. CASE UNCHANGED vars
  BY <1>2, <1>4 DEF vars
<1> QED
  BY <1>1, <1>2, <1>3, <1>4 DEF Next, Step

\* The calls of GoodMemCounter are a sequence of Incs and Decs of counter.fizz.
THEOREM Refinement == Spec => ImplementsCounter
<1>1. Init => Counter!CounterInit
  BY LimitAssumption DEF Init, AtomicInit, Counter!CounterInit
<1> QED
  BY <1>1, Invariant, StepImplements, PTL DEF Spec, ImplementsCounter, Counter!CounterSpec

-----------------------------------------------------------------------------
(* Go, TypeScript and Java *)

\* A result between MinInt and MaxInt does not wrap.
LEMMA NoWrap ==
    ASSUME MaxInt \in Nat, NEW n \in Mem!MinInt..MaxInt
    PROVE  Mem!Wrap(n) = n
  BY DEF Mem!Wrap, Mem!MinInt

LEMMA MemInit ==
    ASSUME MaxInt \in Nat, Mem!Init
    PROVE  Mem!Room /\ Mem!Counter!CounterInit
  BY DEF Mem!Init, Mem!Room, Mem!Counter!CounterInit

\* With room for one more, what a call computes is what counter.fizz computes.
LEMMA StepUp ==
    ASSUME MaxInt \in Nat, Mem!Room, Mem!IncCompares \/ Mem!IncClamps
    PROVE  Mem!Counter!Inc
<1>1. Mem!Wrap(value + 1) = value + 1
  BY NoWrap DEF Mem!Room, Mem!MinInt
<1>2. CASE Mem!IncCompares
  BY <1>1, <1>2 DEF Mem!Room, Mem!IncCompares, Mem!InRange, Mem!Counter!Inc, Mem!Counter!Incremented
<1>3. CASE Mem!IncClamps
  BY <1>1, <1>3 DEF Mem!Room, Mem!IncClamps, Mem!Least, Mem!Counter!Inc, Mem!Counter!Incremented
<1> QED
  BY <1>2, <1>3

LEMMA StepDown ==
    ASSUME MaxInt \in Nat, Mem!Room, Mem!DecCompares \/ Mem!DecClamps
    PROVE  Mem!Counter!Dec
<1>1. Mem!Wrap(value - 1) = value - 1
  BY NoWrap DEF Mem!Room, Mem!MinInt
<1>2. CASE Mem!DecCompares
  BY <1>1, <1>2 DEF Mem!Room, Mem!DecCompares, Mem!Counter!Dec, Mem!Counter!Decremented
<1>3. CASE Mem!DecClamps
  BY <1>1, <1>3 DEF Mem!Room, Mem!DecClamps, Mem!Greatest, Mem!Counter!Dec, Mem!Counter!Decremented
<1> QED
  BY <1>2, <1>3

LEMMA MemStepImplements ==
    ASSUME MaxInt \in Nat, Mem!Room, [Mem!Next]_(Mem!vars)
    PROVE  Mem!Room' /\ [Mem!Counter!CounterNext]_(Mem!Counter!counterVars)
<1>1. CASE Mem!IncCompares \/ Mem!IncClamps
  <2>1. Mem!Counter!Inc
    BY <1>1, StepUp
  <2>2. UNCHANGED style
    BY <1>1 DEF Mem!IncCompares, Mem!IncClamps
  <2> QED
    BY <2>1, <2>2 DEF Mem!Room, Mem!Counter!CounterNext, Mem!Counter!Inc, Mem!Counter!Incremented
<1>2. CASE Mem!DecCompares \/ Mem!DecClamps
  <2>1. Mem!Counter!Dec
    BY <1>2, StepDown
  <2>2. UNCHANGED style
    BY <1>2 DEF Mem!DecCompares, Mem!DecClamps
  <2> QED
    BY <2>1, <2>2 DEF Mem!Room, Mem!Counter!CounterNext, Mem!Counter!Dec, Mem!Counter!Decremented
<1>3. CASE UNCHANGED Mem!vars
  BY <1>3 DEF Mem!vars, Mem!Room, Mem!Counter!counterVars
<1> QED
  BY <1>1, <1>2, <1>3 DEF Mem!Next

\* The counters of Go, TypeScript and Java are the counter of counter.fizz, for
\* every limit below the largest int (mem_counter.go:21-42, mem_counter.ts:18-32,
\* MemCounter.java:16-28).
THEOREM MemRefinement ==
    ASSUME MaxInt \in Nat
    PROVE  Mem!Spec => Mem!ImplementsCounter
  BY MemInit, MemStepImplements, PTL
  DEF Mem!Spec, Mem!ImplementsCounter, Mem!Counter!CounterSpec

-----------------------------------------------------------------------------
(* BadMemCounter: BadTypeOK and OvershootBounded together are inductive.    *)

\* Sets of threads are finite, and lose one thread at a time.
LEMMA SomeThreads ==
    ASSUME IsFiniteSet(Procs), NEW S \in SUBSET Procs
    PROVE  /\ IsFiniteSet(S)
           /\ Cardinality(S) \in Nat
           /\ Cardinality(S) <= Cardinality(Procs)
           /\ Cardinality(Procs) \in Nat
  BY FS_Subset, FS_CardinalityType

LEMMA OneLess ==
    ASSUME IsFiniteSet(Procs), NEW S \in SUBSET Procs, NEW p \in S
    PROVE  Cardinality(S \ {p}) = Cardinality(S) - 1
  BY SomeThreads, FS_RemoveElement

LEMMA InitBounded ==
    ASSUME IsFiniteSet(Procs)
    PROVE  AtomicInit => BadTypeOK /\ OvershootBounded
<1> SUFFICES ASSUME AtomicInit PROVE BadTypeOK /\ OvershootBounded
  OBVIOUS
<1>1. BadTypeOK
  BY DEF AtomicInit, BadTypeOK
<1>2. Adding = {} /\ Subtracting = {}
  BY DEF AtomicInit, Adding, Subtracting
<1>3. Procs # {} => Cardinality(Procs) >= 1
  BY FS_EmptySet, FS_CardinalityType, SomeThreads
<1>4. Cardinality({}) = 0
  BY FS_EmptySet
<1> QED
  BY <1>1, <1>2, <1>3, <1>4, LimitAssumption, SomeThreads DEF AtomicInit, OvershootBounded

LEMMA CheckIncBounded ==
    ASSUME IsFiniteSet(Procs), BadTypeOK, OvershootBounded, NEW p \in Procs, CheckInc(p)
    PROVE  BadTypeOK' /\ OvershootBounded'
<1>1. BadTypeOK'
  BY DEF BadTypeOK, CheckInc
<1>2. Adding' \in SUBSET Procs /\ Subtracting' = Subtracting
  BY DEF BadTypeOK, CheckInc, Adding, Subtracting
<1>3. value' = value /\ value < Limit /\ value \in Int
  BY DEF BadTypeOK, CheckInc, BelowLimit
<1> QED
  BY <1>1, <1>2, <1>3, SomeThreads, LimitAssumption DEF OvershootBounded

LEMMA FetchAddBounded ==
    ASSUME IsFiniteSet(Procs), BadTypeOK, OvershootBounded, NEW p \in Procs, FetchAdd(p)
    PROVE  BadTypeOK' /\ OvershootBounded'
<1>1. BadTypeOK'
  BY DEF BadTypeOK, FetchAdd
<1>2. Adding' = Adding \ {p} /\ p \in Adding /\ Subtracting' = Subtracting
  BY DEF BadTypeOK, FetchAdd, Adding, Subtracting
<1>3. Adding \in SUBSET Procs /\ Subtracting \in SUBSET Procs
  BY DEF Adding, Subtracting
<1>4. value' = value + 1 /\ value \in Int
  BY DEF BadTypeOK, FetchAdd
<1>5. Cardinality(Adding') = Cardinality(Adding) - 1
  BY <1>2, <1>3, OneLess
<1> QED
  BY <1>1, <1>2, <1>3, <1>4, <1>5, SomeThreads, LimitAssumption DEF OvershootBounded

LEMMA CheckDecBounded ==
    ASSUME IsFiniteSet(Procs), BadTypeOK, OvershootBounded, NEW p \in Procs, CheckDec(p)
    PROVE  BadTypeOK' /\ OvershootBounded'
<1>1. BadTypeOK'
  BY DEF BadTypeOK, CheckDec
<1>2. Subtracting' \in SUBSET Procs /\ Adding' = Adding
  BY DEF BadTypeOK, CheckDec, Adding, Subtracting
<1>3. value' = value /\ value > 0 /\ value \in Int
  BY DEF BadTypeOK, CheckDec, AboveZero
<1> QED
  BY <1>1, <1>2, <1>3, SomeThreads, LimitAssumption DEF OvershootBounded

LEMMA FetchSubBounded ==
    ASSUME IsFiniteSet(Procs), BadTypeOK, OvershootBounded, NEW p \in Procs, FetchSub(p)
    PROVE  BadTypeOK' /\ OvershootBounded'
<1>1. BadTypeOK'
  BY DEF BadTypeOK, FetchSub
<1>2. Subtracting' = Subtracting \ {p} /\ p \in Subtracting /\ Adding' = Adding
  BY DEF BadTypeOK, FetchSub, Adding, Subtracting
<1>3. Adding \in SUBSET Procs /\ Subtracting \in SUBSET Procs
  BY DEF Adding, Subtracting
<1>4. value' = value - 1 /\ value \in Int
  BY DEF BadTypeOK, FetchSub
<1>5. Cardinality(Subtracting') = Cardinality(Subtracting) - 1
  BY <1>2, <1>3, OneLess
<1> QED
  BY <1>1, <1>2, <1>3, <1>4, <1>5, SomeThreads, LimitAssumption DEF OvershootBounded

\* However many threads overlap, a BadMemCounter exceeds its limit, and falls
\* below zero, by less than the number of threads (counter.rs:15-26).
THEOREM Overshoot ==
    ASSUME IsFiniteSet(Procs)
    PROVE  BadSpec => [](BadTypeOK /\ OvershootBounded)
<1>1. AtomicInit => BadTypeOK /\ OvershootBounded
  BY InitBounded
<1>2. BadTypeOK /\ OvershootBounded /\ [BadNext]_badVars => (BadTypeOK /\ OvershootBounded)'
  <2> SUFFICES ASSUME BadTypeOK, OvershootBounded, [BadNext]_badVars
               PROVE  (BadTypeOK /\ OvershootBounded)'
    OBVIOUS
  <2>1. ASSUME NEW p \in Procs, CheckInc(p)
        PROVE  (BadTypeOK /\ OvershootBounded)'
    BY <2>1, CheckIncBounded
  <2>2. ASSUME NEW p \in Procs, FetchAdd(p)
        PROVE  (BadTypeOK /\ OvershootBounded)'
    BY <2>2, FetchAddBounded
  <2>3. ASSUME NEW p \in Procs, CheckDec(p)
        PROVE  (BadTypeOK /\ OvershootBounded)'
    BY <2>3, CheckDecBounded
  <2>4. ASSUME NEW p \in Procs, FetchSub(p)
        PROVE  (BadTypeOK /\ OvershootBounded)'
    BY <2>4, FetchSubBounded
  <2>5. CASE UNCHANGED badVars
    BY <2>5 DEF badVars, BadTypeOK, OvershootBounded, Adding, Subtracting
  <2> QED
    BY <2>1, <2>2, <2>3, <2>4, <2>5 DEF BadNext
<1> QED
  BY <1>1, <1>2, PTL DEF BadSpec
=============================================================================
