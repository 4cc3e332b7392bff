----------------------------- MODULE CasCounter -----------------------------
(***************************************************************************)
(* GoodMemCounter of rust/src/counter.rs.  inc and dec are a fetch_update,   *)
(* that is a load followed by compare-and-exchange attempts: the closure    *)
(* decides on the value last seen, and an attempt succeeds only if the      *)
(* atomic still has that value.  A failed attempt returns the value it      *)
(* found, for the next decision.  A weak compare-and-exchange that fails    *)
(* for no reason finds the value it expected: a step that changes nothing.  *)
(***************************************************************************)
EXTENDS RustCounter

CONSTANT MaxCalls   \* bound on the number of calls of inc and dec

ASSUME MaxCallsAssumption == MaxCalls \in Nat

VARIABLES
    delta,      \* of each thread, 1 in inc and -1 in dec
    current,    \* of each thread, the value it last saw
    calls,      \* ghost: number of calls so far
    net,        \* ghost: updates made upwards less those made downwards
    blocked,    \* ghost: the threads whose update was impossible at some moment
                \* of their call
    idled       \* ghost: the threads that ended a call without an update and
                \* without having been blocked

ghosts == <<calls, net, blocked, idled>>
vars == <<value, pc, delta, current, ghosts>>

\* The closures of inc and dec: may a value be updated by d.
MutantAllowedAtLimit(v, d) == IF d = 1 THEN v <= Limit ELSE v > 0
MutantNotAllowedBelowLimit(v, d) == IF d = 1 THEN v + 1 < Limit ELSE v > 0
Allowed(v, d) == IF d = 1 THEN v < Limit ELSE v > 0

\* compare_exchange: does the atomic still have the value the closure saw.
MutantUnchanged(p) == TRUE
Unchanged(p) == value = current[p]

\* A failed attempt: what the next decision is made on.
MutantSeen(p) == current[p]
Seen(p) == value

Init ==
    /\ AtomicInit
    /\ delta = [p \in Procs |-> 1]
    /\ current = [p \in Procs |-> 0]
    /\ calls = 0
    /\ net = 0
    /\ blocked = {}
    /\ idled = {}

\* An update by d is impossible at v: for the ghosts.
AtBound(v, d) == v = IF d = 1 THEN Limit ELSE 0
BlockedAt(v) == {q \in Procs : pc[q] = "updating" /\ AtBound(v, delta[q])}

\* fetch_update: the first load.
Load(p, d) ==
    /\ pc[p] = "idle"
    /\ calls < MaxCalls
    /\ calls' = calls + 1
    /\ pc' = [pc EXCEPT ![p] = "updating"]
    /\ delta' = [delta EXCEPT ![p] = d]
    /\ current' = [current EXCEPT ![p] = value]
    /\ blocked' = IF AtBound(value, d) THEN blocked \cup {p} ELSE blocked \ {p}
    /\ UNCHANGED <<value, net, idled>>

\* The closure returns Some and the exchange succeeds.
Exchange(p) ==
    /\ pc[p] = "updating"
    /\ Allowed(current[p], delta[p])
    /\ Unchanged(p)
    /\ value' = current[p] + delta[p]
    /\ net' = net + delta[p]
    /\ pc' = [pc EXCEPT ![p] = "idle"]
    /\ blocked' = blocked \cup BlockedAt(value')
    /\ UNCHANGED <<delta, current, calls, idled>>

\* The closure returns Some and the exchange fails.
ExchangeFails(p) ==
    /\ pc[p] = "updating"
    /\ Allowed(current[p], delta[p])
    /\ ~Unchanged(p)
    /\ current' = [current EXCEPT ![p] = Seen(p)]
    /\ UNCHANGED <<value, pc, delta, ghosts>>

\* The closure returns None: fetch_update gives up, the call returns.
GiveUp(p) ==
    /\ pc[p] = "updating"
    /\ ~Allowed(current[p], delta[p])
    /\ pc' = [pc EXCEPT ![p] = "idle"]
    /\ idled' = idled \cup ({p} \ blocked)
    /\ UNCHANGED <<value, delta, current, calls, net, blocked>>

Step(p) ==
    \/ \E d \in {1, -1} : Load(p, d)
    \/ Exchange(p) \/ ExchangeFails(p) \/ GiveUp(p)

Next == \E p \in Procs : Step(p)

Spec == Init /\ [][Next]_vars

\* A thread inside a call keeps running.
FairSpec ==
    Spec /\ \A p \in Procs : WF_vars(Exchange(p) \/ ExchangeFails(p) \/ GiveUp(p))

-----------------------------------------------------------------------------
(* Properties *)

\* Every variable has its type, and the atomic stays within its bounds
\* (counter.fizz:23-25) whatever calls overlap.
TypeOK ==
    /\ value \in 0..Limit
    /\ pc \in [Procs -> {"idle", "updating"}]
    /\ delta \in [Procs -> {1, -1}]
    /\ current \in [Procs -> 0..Limit]
    /\ calls \in 0..MaxCalls
    /\ net \in Int
    /\ blocked \subseteq Procs
    /\ idled \subseteq Procs

\* No update is lost or made twice: the value is what the successful calls add
\* up to, although each computed it from a value it had seen earlier (45-71).
NoLostUpdate == value = net

\* A call that changes nothing was entitled to: at some moment between its start
\* and its end the value was at the bound it is not to pass (49-55, 63-69).
IdleOnlyAtBound == idled = {}

\* Every call returns: a retry is caused by another call's success, and there
\* are only so many of those.
CallsReturn == \A p \in Procs : pc[p] = "updating" ~> pc[p] = "idle"

\* The calls of any number of threads are a sequence of whole Incs and Decs of
\* counter.fizz.
Counter == INSTANCE BoundedCounter WITH limit <- Limit
ImplementsCounter == Counter!CounterSpec
=============================================================================
