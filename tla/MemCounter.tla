----------------------------- MODULE MemCounter -----------------------------
(***************************************************************************)
(* The in-memory counters of Go, TypeScript and Java.  Every method runs    *)
(* alone: under a mutex (Go), synchronized (Java), without an await         *)
(* (TypeScript); so a call is a step, and what is left to get wrong is the  *)
(* arithmetic.  Go and TypeScript compare before they step; Java steps and   *)
(* then clamps, in integers of a fixed width that wrap around.              *)
(***************************************************************************)
EXTENDS Integers

CONSTANT MaxInt     \* the largest int

MinInt == -MaxInt - 1

VARIABLES style, limit, value

vars == <<style, limit, value>>

Least(a, b) == IF a <= b THEN a ELSE b
Greatest(a, b) == IF a >= b THEN a ELSE b

\* Two's complement, for a result that leaves the range by one at most.
Wrap(n) == IF n > MaxInt THEN MinInt ELSE IF n < MinInt THEN MaxInt ELSE n

InRange(v) == v < limit

Init ==
    /\ style \in {"compares", "clamps"}
    /\ limit \in 0..(MaxInt - 1)
    /\ value = 0

IncCompares ==
    /\ style = "compares"
    /\ value' = IF InRange(value) THEN Wrap(value + 1) ELSE value
    /\ UNCHANGED <<style, limit>>

DecCompares ==
    /\ style = "compares"
    /\ value' = IF value > 0 THEN Wrap(value - 1) ELSE value
    /\ UNCHANGED <<style, limit>>

IncClamps ==
    /\ style = "clamps"
    /\ value' = Least(Wrap(value + 1), limit)
    /\ UNCHANGED <<style, limit>>

DecClamps ==
    /\ style = "clamps"
    /\ value' = Greatest(Wrap(value - 1), 0)
    /\ UNCHANGED <<style, limit>>

Next == IncCompares \/ DecCompares \/ IncClamps \/ DecClamps

Spec == Init /\ [][Next]_vars

-----------------------------------------------------------------------------
(* Properties *)

\* Every counter is the counter of counter.fizz, for every limit below the
\* largest int, however its methods are written.  (At the largest int the Java
\* counter, which adds before it clamps, wraps to MinInt: MemCounter.java:17.)
Counter == INSTANCE BoundedCounter
ImplementsCounter == Counter!CounterSpec

\* The state of a counter: its limit leaves room for one more.
Room == value \in 0..limit /\ limit \in 0..(MaxInt - 1) /\ style \in {"compares", "clamps"}
=============================================================================
