---------------------------- MODULE PgCounterInv ----------------------------
(***************************************************************************)
(* The inductive invariant of PgCounter: where a session is, what it and    *)
(* the sessions of the same name may still have on its way, and what the    *)
(* row is by then.                                                         *)
(***************************************************************************)
EXTENDS PgCounter

\* What is left of an init that has begun.
Rests == IF fixedName
         THEN {<<"insert">>, <<"delete", "insert">>, <<"insert", "delete", "insert">>}
         ELSE {<<"insert">>}

\* A session sends the statements of its phase and no other; only one that has
\* crashed leaves statements behind, at most one of init or cleanup.
SentBy(s) ==
    /\ phase[s] = "unborn" => setup[s] = << >>
    /\ phase[s] = "starting" => setup[s] \in Rests
    /\ phase[s] = "running" => setup[s] = << >>
    /\ phase[s] = "ending" => setup[s] = <<"delete">>
    /\ Over(s) /\ s \in crashed => setup[s] \in {<< >>, <<"insert">>, <<"delete">>}
    /\ Over(s) /\ s \notin crashed => setup[s] = << >>
    /\ phase[s] # "running" /\ s \notin crashed => \A c \in Callers : call[s][c] = "none"
    /\ s \in crashed => Over(s)

\* TypeScript's sessions take turns.
TurnsInv ==
    fixedName => \A s, t \in Sessions : t < s /\ phase[s] # "unborn" => Over(t)

\* The last INSERT of an init finds no row, and nothing was counted before it.
FreshFor(s) ==
    /\ phase[s] = "unborn" /\ ~fixedName => counters[NameOf(s)] = NoRow
    /\ phase[s] \in {"unborn", "starting"} => expected[s] = 0
    /\ phase[s] = "starting" /\ setup[s] = <<"insert">> =>
          counters[NameOf(s)] = NoRow \/ stray[NameOf(s)]

\* TypeOK and the two properties with what they rest on.
IInv ==
    /\ TypeOK
    /\ TurnsInv
    /\ \A s \in Sessions : SentBy(s) /\ FreshFor(s)
    /\ OwnCount
    /\ Cleaned
=============================================================================
