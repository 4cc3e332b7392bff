------------------------------ MODULE PgCounter ------------------------------
(***************************************************************************)
(* The PostgreSQL counters of Go, Java and TypeScript in the sessions that   *)
(* their test adapters and the demo program make of them: init creates the   *)
(* counter, callers use it, cleanup deletes it.  Every access is one SQL     *)
(* statement, which the server executes as a whole some time after it was    *)
(* sent, also when the session that sent it has crashed by then.            *)
(*                                                                         *)
(* Go and Java name every counter anew and their sessions may overlap.  The  *)
(* TypeScript adapter and main.ts take the same name, with limits of their   *)
(* own, delete what they find under it, and run one after the other.        *)
(***************************************************************************)
EXTENDS Integers, Sequences

CONSTANTS
    NumSessions,    \* number of sessions
    Callers,        \* what calls the counter concurrently in a session
    Max,            \* the limit the adapters give their counters
    DemoMax         \* the limit main.ts gives its counter

ASSUME NumSessionsAssumption == NumSessions \in Nat
ASSUME MaxAssumption == Max \in Nat /\ DemoMax \in Nat

Sessions == 1..NumSessions

VARIABLES
    fixedName,  \* TRUE: the sessions are TypeScript's; FALSE: Go's or Java's
    program,    \* what each session runs: the test adapter or the demo, main.ts
    counters,   \* the table: a row or NoRow by name
    phase,      \* where the adapter of each session is
    setup,      \* the statements of init or cleanup each session still waits for,
                \* of which it has sent the first
    call,       \* the statement each caller of a session has sent, or "none"
    crashed,    \* ghost: the sessions that did not end by themselves
    expected,   \* ghost: of each session, its counter according to counter.fizz
    stray       \* ghost: by name, was a statement of a session that was over
                \* executed since the last init of that name began with a DELETE

ghosts == <<crashed, expected, stray>>
vars == <<fixedName, program, counters, phase, setup, call, ghosts>>

NoRow == [value |-> -1, max |-> -1]

LimitOf(s) == IF program[s] = "demo" THEN DemoMax ELSE Max

\* What a session expects of its counter is the counter of counter.fizz.
Counter(s) == INSTANCE BoundedCounter WITH value <- expected[s], limit <- LimitOf(s)

\* The name of a session's counter: a fresh uuid, or 'test-counter'.
MutantNameOf(s) == "test-counter"
NameOf(s) == IF fixedName THEN "test-counter" ELSE s
Names == {NameOf(s) : s \in Sessions}

\* The statements of init; main.ts creates the counter in order to delete it.
MutantStatements(s) == IF program[s] = "demo" THEN <<"insert">> ELSE <<"delete", "insert">>
Statements(s) ==
    CASE ~fixedName          -> <<"insert">>
      [] program[s] = "demo" -> <<"insert", "delete", "insert">>
      [] OTHER               -> <<"delete", "insert">>

\* The WHERE clause of update.
MutantUpdatable(row, delta) == row.value + delta >= 0
Updatable(row, delta) == row.value + delta >= 0 /\ row.value + delta <= row.max

\* The effect of DELETE FROM counters WHERE name = $1.
MutantWithout(s) == IF phase[s] = "starting"
                    THEN [counters EXCEPT ![NameOf(s)] = NoRow]
                    ELSE counters
Without(s) == [counters EXCEPT ![NameOf(s)] = NoRow]

\* The effect of INSERT ... ON CONFLICT (name) DO NOTHING.
With(s) == IF counters[NameOf(s)] = NoRow
           THEN [counters EXCEPT ![NameOf(s)] = [value |-> 0, max |-> LimitOf(s)]]
           ELSE counters

Over(s) == phase[s] = "over"
Delta(op) == IF op = "inc" THEN 1 ELSE -1

Init ==
    /\ fixedName \in BOOLEAN
    /\ program \in [Sessions -> IF fixedName THEN {"adapter", "demo"} ELSE {"adapter"}]
    /\ counters = [n \in Names |-> NoRow]
    /\ phase = [s \in Sessions |-> "unborn"]
    /\ setup = [s \in Sessions |-> << >>]
    /\ call = [s \in Sessions |-> [c \in Callers |-> "none"]]
    /\ crashed = {}
    /\ expected = [s \in Sessions |-> 0]
    /\ stray = [n \in Names |-> FALSE]

-----------------------------------------------------------------------------
(* The sessions *)

\* init; a TypeScript session ends before the next begins.
Begin(s) ==
    /\ phase[s] = "unborn"
    /\ fixedName => \A t \in Sessions : t < s => Over(t)
    /\ phase' = [phase EXCEPT ![s] = "starting"]
    /\ setup' = [setup EXCEPT ![s] = Statements(s)]
    /\ UNCHANGED <<fixedName, program, counters, call, ghosts>>

\* actionInc, actionDec and actionGet send their statement; the demo awaits one
\* call before the next.
Call(s, c, op) ==
    /\ phase[s] = "running"
    /\ call[s][c] = "none"
    /\ program[s] = "demo" => \A d \in Callers : call[s][d] = "none"
    /\ call' = [call EXCEPT ![s][c] = op]
    /\ UNCHANGED <<fixedName, program, counters, phase, setup, ghosts>>

\* cleanup, after the last call has returned.
Cleanup(s) ==
    /\ phase[s] = "running"
    /\ \A c \in Callers : call[s][c] = "none"
    /\ phase' = [phase EXCEPT ![s] = "ending"]
    /\ setup' = [setup EXCEPT ![s] = <<"delete">>]
    /\ UNCHANGED <<fixedName, program, counters, call, ghosts>>

\* The program dies, or init or cleanup gets an error: what the session has sent
\* may be executed later, or never.
Crash(s) ==
    /\ phase[s] \in {"starting", "running", "ending"}
    /\ phase' = [phase EXCEPT ![s] = "over"]
    /\ setup' = [setup EXCEPT ![s] = IF @ = << >> THEN @ ELSE <<Head(@)>>]
    /\ crashed' = crashed \cup {s}
    /\ UNCHANGED <<fixedName, program, counters, call, expected, stray>>

-----------------------------------------------------------------------------
(* The server *)

\* A statement of a session that is over leaves its mark on the name.
Mark(s) == stray' = [stray EXCEPT ![NameOf(s)] = @ \/ Over(s)]

\* The session hears of its statement: init sends the next one or is done,
\* cleanup is done.
Executed(s) ==
    /\ setup' = [setup EXCEPT ![s] = Tail(@)]
    /\ phase' = [phase EXCEPT ![s] =
                    CASE @ = "starting" /\ Tail(setup[s]) = << >> -> "running"
                      [] @ = "ending"                            -> "over"
                      [] OTHER                                   -> @]
    /\ UNCHANGED <<fixedName, program, call, crashed, expected>>

Sent(s, statement) == setup[s] # << >> /\ Head(setup[s]) = statement

\* DELETE FROM counters WHERE name = $1.
Delete(s) ==
    /\ Sent(s, "delete")
    /\ counters' = Without(s)
    /\ stray' = [stray EXCEPT ![NameOf(s)] =
                    IF phase[s] = "starting" THEN FALSE ELSE @ \/ Over(s)]
    /\ Executed(s)

\* INSERT INTO counters ... ON CONFLICT (name) DO NOTHING.
Insert(s) ==
    /\ Sent(s, "insert")
    /\ counters' = With(s)
    /\ Mark(s)
    /\ Executed(s)

\* UPDATE counters SET value = value + $1 WHERE ...: no row, no error.
Update(s, c) ==
    /\ call[s][c] \in {"inc", "dec"}
    /\ LET row == counters[NameOf(s)]
           delta == Delta(call[s][c])
       IN  /\ counters' = IF row # NoRow /\ Updatable(row, delta)
                          THEN [counters EXCEPT ![NameOf(s)].value = @ + delta]
                          ELSE counters
           /\ expected' = [expected EXCEPT ![s] = Counter(s)!Updated(@, delta, LimitOf(s))]
    /\ call' = [call EXCEPT ![s][c] = "none"]
    /\ Mark(s)
    /\ UNCHANGED <<fixedName, program, phase, setup, crashed>>

\* SELECT value FROM counters WHERE name = $1.
Select(s, c) ==
    /\ call[s][c] = "get"
    /\ call' = [call EXCEPT ![s][c] = "none"]
    /\ UNCHANGED <<fixedName, program, counters, phase, setup, ghosts>>

\* A statement that is never executed: a caller gets an error instead.
Fail(s, c) ==
    /\ call[s][c] # "none"
    /\ call' = [call EXCEPT ![s][c] = "none"]
    /\ UNCHANGED <<fixedName, program, counters, phase, setup, ghosts>>

Next ==
    \E s \in Sessions :
        \/ Begin(s) \/ Cleanup(s) \/ Crash(s)
        \/ Delete(s) \/ Insert(s)
        \/ \E c \in Callers :
              \/ \E op \in {"inc", "dec", "get"} : Call(s, c, op)
              \/ Update(s, c) \/ Select(s, c) \/ Fail(s, c)

Spec == Init /\ [][Next]_vars

-----------------------------------------------------------------------------
(* Properties *)

Row == UNION {[value : 0..limit, max : {limit}] : limit \in {Max, DemoMax}}

\* Every variable has its type; every row is within the limits of its columns
\* (counter.fizz:23-25), whichever sessions share it and whatever arrives late.
TypeOK ==
    /\ fixedName \in BOOLEAN
    /\ program \in [Sessions -> IF fixedName THEN {"adapter", "demo"} ELSE {"adapter"}]
    /\ counters \in [Names -> Row \cup {NoRow}]
    /\ phase \in [Sessions -> {"unborn", "starting", "running", "ending", "over"}]
    /\ setup \in [Sessions -> Seq({"delete", "insert"})]
    /\ call \in [Sessions -> [Callers -> {"none", "inc", "dec", "get"}]]
    /\ crashed \subseteq Sessions
    /\ expected \in [Sessions -> Nat]
    /\ \A s \in Sessions : expected[s] <= LimitOf(s)
    /\ stray \in [Names -> BOOLEAN]

\* In a running session the row holds what the session's own updates make of a
\* counter of counter.fizz, so that every Get returns that and none fails with
\* "not found": other sessions do not disturb it, and neither does a row that a
\* crashed session left, which may have another limit (ON CONFLICT DO NOTHING
\* would keep it).  Only a statement that a crashed session had sent and
\* that is executed after the new init began can do that.
OwnCount ==
    \A s \in Sessions : phase[s] = "running" =>
        \/ counters[NameOf(s)] = [value |-> expected[s], max |-> LimitOf(s)]
        \/ stray[NameOf(s)]

\* A session that ends by its cleanup leaves no row behind, until its name is
\* used again or a statement of a crashed session arrives late.
Cleaned ==
    \A s \in Sessions :
        /\ Over(s) /\ s \notin crashed
        /\ \A t \in Sessions : t > s /\ NameOf(t) = NameOf(s) => phase[t] = "unborn"
        => counters[NameOf(s)] = NoRow \/ stray[NameOf(s)]
=============================================================================
