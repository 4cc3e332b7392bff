--------------------------- MODULE BoundedCounter ---------------------------
(***************************************************************************)
(* counter.fizz: a counter that Inc and Dec leave alone once it is at its   *)
(* limit or at 0.  The limit is a variable that no step changes, so that an *)
(* implementation may map a constant, a field or a column to it.            *)
(***************************************************************************)
EXTENDS Integers

VARIABLES value, limit

counterVars == <<value, limit>>

\* min(self.value + 1, MAX) and max(self.value - 1, 0).
Incremented(v, top) == IF v + 1 <= top THEN v + 1 ELSE top
Decremented(v) == IF v - 1 >= 0 THEN v - 1 ELSE 0

\* The effect of one update by delta, 1 or -1.
Updated(v, delta, top) == IF delta = 1 THEN Incremented(v, top) ELSE Decremented(v)

CounterInit == value = 0 /\ limit \in Nat

Inc == value' = Incremented(value, limit) /\ UNCHANGED limit
Dec == value' = Decremented(value) /\ UNCHANGED limit

CounterNext == Inc \/ Dec

CounterSpec == CounterInit /\ [][CounterNext]_counterVars
=============================================================================
