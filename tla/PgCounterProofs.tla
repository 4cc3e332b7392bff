--------------------------- MODULE PgCounterProofs ---------------------------
(***************************************************************************)
(* For any number of sessions and callers and any two limits: what a        *)
(* session finds in its row, and what it leaves behind.                    *)
(***************************************************************************)
EXTENDS PgCounterInv, TLAPS

-----------------------------------------------------------------------------
(* Rows and limits *)

LEMMA Limits ==
    ASSUME NEW s \in Sessions
    PROVE  LimitOf(s) \in {Max, DemoMax} /\ LimitOf(s) \in Nat
  BY MaxAssumption DEF LimitOf

\* A row is its value and its limit, and is not NoRow.
LEMMA RowParts ==
    ASSUME NEW row \in Row
    PROVE  /\ row.max \in {Max, DemoMax} /\ row.max \in Nat
           /\ row.value \in 0..row.max
           /\ row = [value |-> row.value, max |-> row.max]
           /\ row # NoRow
  BY MaxAssumption DEF Row, NoRow

LEMMA RowOf ==
    ASSUME NEW limit \in {Max, DemoMax}, NEW v \in 0..limit
    PROVE  [value |-> v, max |-> limit] \in Row
  BY DEF Row

\* The WHERE clause of an UPDATE lets through what counter.fizz changes.
LEMMA UpdateAgrees ==
    ASSUME NEW s \in Sessions, NEW top \in Nat, NEW v \in 0..top, NEW d \in {1, -1}
    PROVE  /\ Counter(s)!Updated(v, d, top)
                = IF Updatable([value |-> v, max |-> top], d) THEN v + d ELSE v
           /\ Counter(s)!Updated(v, d, top) \in 0..top
  BY DEF Updatable, Counter!Updated, Counter!Incremented, Counter!Decremented

\* A statement leaves rows and NoRow.
LEMMA UpdatedRow ==
    ASSUME NEW row \in Row, NEW d \in {1, -1}, Updatable(row, d)
    PROVE  [row EXCEPT !.value = @ + d] \in Row
<1>1. row.value + d \in 0..row.max
  BY RowParts DEF Updatable
<1>2. [row EXCEPT !.value = @ + d] = [value |-> row.value + d, max |-> row.max]
  BY RowParts
<1> QED
  BY <1>1, <1>2, RowParts, RowOf

-----------------------------------------------------------------------------
(* One session at a time *)

\* The parts of OwnCount and Cleaned that are about a session.
Counted(s) ==
    phase[s] = "running" =>
        \/ counters[NameOf(s)] = [value |-> expected[s], max |-> LimitOf(s)]
        \/ stray[NameOf(s)]

LeavesNothing(s) ==
    /\ Over(s) /\ s \notin crashed
    /\ \A t \in Sessions : t > s /\ NameOf(t) = NameOf(s) => phase[t] = "unborn"
    => counters[NameOf(s)] = NoRow \/ stray[NameOf(s)]

SessionInv(s) == SentBy(s) /\ FreshFor(s) /\ Counted(s) /\ LeavesNothing(s)

LEMMA Sessionwise ==
    IInv <=> TypeOK /\ TurnsInv /\ \A s \in Sessions : SessionInv(s)
  BY DEF IInv, SessionInv, OwnCount, Cleaned, Counted, LeavesNothing

\* The session has a statement on its way.
Sending(s) == setup[s] # << >> \/ \E c \in Callers : call[s][c] # "none"

\* What a step of session t does to other sessions and to other names: nothing.
\* Where t is over, it leaves its mark on its own.
StepOf(t) ==
    /\ UNCHANGED <<fixedName, program>>
    /\ \A s \in Sessions \ {t} :
          /\ phase'[s] = phase[s] /\ setup'[s] = setup[s] /\ call'[s] = call[s]
          /\ expected'[s] = expected[s]
          /\ s \in crashed' <=> s \in crashed
    /\ phase'[t] # "unborn"
    /\ phase[t] = "unborn" /\ fixedName => \A s \in Sessions : s < t => Over(s)
    /\ Over(t) => phase'[t] = "over"
    /\ \/ UNCHANGED <<counters, stray>>
       \/ /\ Sending(t)
          /\ \A n \in Names \ {NameOf(t)} : counters'[n] = counters[n] /\ stray'[n] = stray[n]
          /\ Over(t) => stray'[NameOf(t)]

LEMMA Fixed ==
    ASSUME UNCHANGED <<fixedName, program>>
    PROVE  /\ \A s \in Sessions : NameOf(s)' = NameOf(s) /\ LimitOf(s)' = LimitOf(s)
           /\ \A s \in Sessions : NameOf(s) \in Names
           /\ Names' = Names
           /\ Rests' = Rests
  BY DEF NameOf, LimitOf, Names, Rests

\* Only TypeScript's sessions share a name; one that still has statements on its way
\* while a later one has begun is over, and so are all before the last that has begun.
LEMMA Bystander ==
    ASSUME TurnsInv, NEW s \in Sessions, NEW t \in Sessions, s # t,
           SentBy(t), Sending(t), NameOf(s) = NameOf(t)
    PROVE  /\ fixedName
           /\ phase[s] \notin {"unborn", "over"} => Over(t)
           /\ (\A u \in Sessions : u > s /\ NameOf(u) = NameOf(s) => phase[u] = "unborn")
                  /\ phase[s] # "unborn" => Over(t)
<1>1. fixedName
  BY DEF NameOf, Sessions
<1>2. phase[t] = "unborn" => t \in crashed
  BY DEF SentBy, Sending
<1>3. phase[t] # "unborn"
  BY <1>2 DEF SentBy, Over
<1>4. s \in Int /\ t \in Int
  BY DEF Sessions
<1>5. CASE t < s
  BY <1>1, <1>5 DEF TurnsInv
<1>6. CASE t > s
  BY <1>1, <1>3, <1>4, <1>6 DEF TurnsInv, Over
<1> QED
  BY <1>1, <1>4, <1>5, <1>6

LEMMA TurnsKept ==
    ASSUME TurnsInv, NEW t \in Sessions, StepOf(t)
    PROVE  TurnsInv'
<1> SUFFICES ASSUME fixedName, NEW s \in Sessions, NEW u \in Sessions,
                    u < s, phase'[s] # "unborn"
             PROVE  phase'[u] = "over"
  BY DEF TurnsInv, StepOf, Over
<1>1. Over(u)
  <2>1. CASE s # t
    BY <2>1 DEF TurnsInv, StepOf
  <2>2. CASE s = t
    BY <2>2 DEF TurnsInv, StepOf
  <2> QED
    BY <2>1, <2>2
<1> QED
  BY <1>1 DEF StepOf, Over

LEMMA OthersKept ==
    ASSUME IInv, NEW t \in Sessions, StepOf(t), NEW s \in Sessions, s # t
    PROVE  SessionInv(s)'
<1>1. SessionInv(s) /\ SentBy(t) /\ TurnsInv
  BY Sessionwise DEF SessionInv
<1>2. /\ NameOf(s)' = NameOf(s) /\ LimitOf(s)' = LimitOf(s) /\ Rests' = Rests
      /\ \A u \in Sessions : NameOf(u)' = NameOf(u)
      /\ NameOf(s) \in Names
  BY Fixed DEF StepOf
<1>3. /\ phase'[s] = phase[s] /\ setup'[s] = setup[s] /\ call'[s] = call[s]
      /\ expected'[s] = expected[s] /\ fixedName' = fixedName
      /\ s \in crashed' <=> s \in crashed
  BY DEF StepOf
<1>4. SentBy(s)'
  BY <1>1, <1>2, <1>3 DEF SessionInv, SentBy, Over
<1>5. CASE counters'[NameOf(s)] = counters[NameOf(s)] /\ stray'[NameOf(s)] = stray[NameOf(s)]
  <2>1. FreshFor(s)' /\ Counted(s)'
    BY <1>1, <1>2, <1>3, <1>5 DEF SessionInv, FreshFor, Counted
  <2>2. LeavesNothing(s)'
    <3> SUFFICES ASSUME phase'[s] = "over", s \notin crashed',
                        \A u \in Sessions : u > s /\ NameOf(u)' = NameOf(s)' => phase'[u] = "unborn"
                 PROVE  counters[NameOf(s)] = NoRow \/ stray[NameOf(s)]
      BY <1>2, <1>5 DEF LeavesNothing, Over
    <3>1. \A u \in Sessions : u > s /\ NameOf(u) = NameOf(s) => phase[u] = "unborn"
      BY <1>2 DEF StepOf
    <3> QED
      BY <1>1, <1>3, <3>1 DEF SessionInv, LeavesNothing, Over
  <2> QED
    BY <1>4, <2>1, <2>2 DEF SessionInv
<1>6. CASE ~(counters'[NameOf(s)] = counters[NameOf(s)] /\ stray'[NameOf(s)] = stray[NameOf(s)])
  <2>1. Sending(t) /\ NameOf(s) = NameOf(t) /\ (Over(t) => stray'[NameOf(t)])
    BY <1>2, <1>6 DEF StepOf
  <2>2. /\ fixedName
        /\ phase[s] \notin {"unborn", "over"} => Over(t)
        /\ (\A u \in Sessions : u > s /\ NameOf(u) = NameOf(s) => phase[u] = "unborn")
               /\ phase[s] # "unborn" => Over(t)
    BY <1>1, <2>1, Bystander
  <2>3. FreshFor(s)' /\ Counted(s)'
    BY <1>1, <1>2, <1>3, <2>1, <2>2 DEF SessionInv, FreshFor, Counted
  <2>4. LeavesNothing(s)'
    <3> SUFFICES ASSUME phase'[s] = "over",
                        \A u \in Sessions : u > s /\ NameOf(u)' = NameOf(s)' => phase'[u] = "unborn"
                 PROVE  stray'[NameOf(s)]
      BY <1>2 DEF LeavesNothing, Over
    <3>1. \A u \in Sessions : u > s /\ NameOf(u) = NameOf(s) => phase[u] = "unborn"
      BY <1>2 DEF StepOf
    <3> QED
      BY <1>3, <2>1, <2>2, <3>1
  <2> QED
    BY <1>4, <2>3, <2>4 DEF SessionInv
<1> QED
  BY <1>5, <1>6

LEMMA StepKeeps ==
    ASSUME IInv, NEW t \in Sessions, StepOf(t), TypeOK', SessionInv(t)'
    PROVE  IInv'
<1>1. TurnsInv'
  BY Sessionwise, TurnsKept
<1>2. \A s \in Sessions : SessionInv(s)'
  BY OthersKept
<1> QED
  BY <1>1, <1>2 DEF IInv, SessionInv, OwnCount, Cleaned, Counted, LeavesNothing

-----------------------------------------------------------------------------
(* The steps of sessions *)

\* An init ends with its INSERT, before which a fixed name is deleted.
LEMMA StatementsAre ==
    ASSUME TypeOK, NEW s \in Sessions
    PROVE  /\ Statements(s) \in Rests
           /\ Statements(s) = <<"insert">> => ~fixedName
           /\ Statements(s) \in Seq({"delete", "insert"})
<1>1. CASE ~fixedName
  <2>1. program[s] = "adapter"
    BY <1>1 DEF TypeOK
  <2>2. Statements(s) = <<"insert">>
    BY <1>1, <2>1 DEF Statements
  <2> QED
    BY <1>1, <2>2 DEF Rests
<1>2. CASE fixedName /\ program[s] = "demo"
  <2>1. Statements(s) = <<"insert", "delete", "insert">>
    BY <1>2 DEF Statements
  <2> QED
    BY <1>2, <2>1 DEF Rests
<1>3. CASE fixedName /\ program[s] # "demo"
  <2>1. Statements(s) = <<"delete", "insert">>
    BY <1>3 DEF Statements
  <2> QED
    BY <1>3, <2>1 DEF Rests
<1> QED
  BY <1>1, <1>2, <1>3

LEMMA BeginInv ==
    ASSUME IInv, NEW s \in Sessions, Begin(s)
    PROVE  IInv'
<1>1. TypeOK /\ SessionInv(s)
  BY Sessionwise
<1>2. UNCHANGED <<fixedName, program, counters, call, crashed, expected, stray>>
  BY DEF Begin, ghosts
<1>3. NameOf(s)' = NameOf(s) /\ LimitOf(s)' = LimitOf(s) /\ Rests' = Rests /\ Names' = Names
  BY <1>2, Fixed
<1>4. phase'[s] = "starting" /\ setup'[s] = Statements(s)
  BY <1>1 DEF Begin, TypeOK
<1>5. /\ Statements(s) \in Rests
      /\ Statements(s) = <<"insert">> => ~fixedName
  BY <1>1, StatementsAre
<1>6. StepOf(s)
  BY <1>1, <1>2, <1>4 DEF Begin, TypeOK, StepOf, Over
<1>7. TypeOK'
  <2>1. Statements(s) \in Seq({"delete", "insert"})
    BY <1>1, StatementsAre
  <2>2. \A t \in Sessions : LimitOf(t)' = LimitOf(t)
    BY <1>2, Fixed
  <2> QED
    BY <1>1, <1>2, <1>3, <1>4, <2>1, <2>2 DEF Begin, TypeOK, Row
<1>8. SessionInv(s)'
  <2>1. s \notin crashed /\ \A c \in Callers : call[s][c] = "none"
    BY <1>1 DEF Begin, SessionInv, SentBy, Over
  <2>2. SentBy(s)' /\ Counted(s)' /\ LeavesNothing(s)'
    BY <1>2, <1>3, <1>4, <1>5, <2>1 DEF SentBy, Counted, LeavesNothing, Over
  <2>3. FreshFor(s)'
    BY <1>1, <1>2, <1>3, <1>4, <1>5 DEF Begin, SessionInv, FreshFor
  <2> QED
    BY <2>2, <2>3 DEF SessionInv
<1> QED
  BY <1>6, <1>7, <1>8, StepKeeps

\* Call, Select and Fail change only what the callers wait for.
LEMMA CallsInv ==
    ASSUME IInv, NEW s \in Sessions, NEW c \in Callers,
           (\E op \in {"inc", "dec", "get"} : Call(s, c, op)) \/ Select(s, c) \/ Fail(s, c)
    PROVE  IInv'
<1>1. TypeOK /\ SessionInv(s)
  BY Sessionwise
<1>2. UNCHANGED <<fixedName, program, counters, phase, setup, crashed, expected, stray>>
  BY DEF Call, Select, Fail, ghosts
<1>3. PICK op \in {"none", "inc", "dec", "get"} :
        /\ call' = [call EXCEPT ![s][c] = op]
        /\ op = "none" \/ phase[s] = "running"
  BY DEF Call, Select, Fail
<1>4. /\ NameOf(s)' = NameOf(s) /\ Rests' = Rests /\ Names' = Names
      /\ \A t \in Sessions : NameOf(t)' = NameOf(t) /\ LimitOf(t)' = LimitOf(t)
  BY <1>2, Fixed
<1>5. phase[s] # "unborn"
  <2>1. phase[s] = "running" \/ call[s][c] # "none"
    BY DEF Call, Select, Fail
  <2> QED
    BY <1>1, <2>1 DEF SessionInv, SentBy, Over
<1>6. StepOf(s)
  BY <1>1, <1>2, <1>3, <1>5 DEF TypeOK, StepOf, Over
<1>7. TypeOK'
  BY <1>1, <1>2, <1>3, <1>4 DEF TypeOK, Row
<1>8. SessionInv(s)'
  <2>1. phase[s] # "running" /\ s \notin crashed => \A d \in Callers : call'[s][d] = "none"
    BY <1>1, <1>3 DEF TypeOK, SessionInv, SentBy
  <2> QED
    BY <1>1, <1>2, <1>4, <2>1 DEF SessionInv, SentBy, FreshFor, Counted, LeavesNothing, Over
<1> QED
  BY <1>6, <1>7, <1>8, StepKeeps

LEMMA CleanupInv ==
    ASSUME IInv, NEW s \in Sessions, Cleanup(s)
    PROVE  IInv'
<1>1. TypeOK /\ SessionInv(s)
  BY Sessionwise
<1>2. UNCHANGED <<fixedName, program, counters, call, crashed, expected, stray>>
  BY DEF Cleanup, ghosts
<1>3. phase'[s] = "ending" /\ setup'[s] = <<"delete">>
  BY <1>1 DEF Cleanup, TypeOK
<1>4. /\ NameOf(s)' = NameOf(s) /\ Rests' = Rests /\ Names' = Names
      /\ \A t \in Sessions : NameOf(t)' = NameOf(t) /\ LimitOf(t)' = LimitOf(t)
  BY <1>2, Fixed
<1>5. StepOf(s)
  BY <1>1, <1>2, <1>3 DEF Cleanup, TypeOK, StepOf, Over
<1>6. TypeOK'
  BY <1>1, <1>2, <1>4 DEF Cleanup, TypeOK, Row
<1>7. SessionInv(s)'
  BY <1>1, <1>2, <1>3, <1>4
  DEF Cleanup, SessionInv, SentBy, FreshFor, Counted, LeavesNothing, Over
<1> QED
  BY <1>5, <1>6, <1>7, StepKeeps

LEMMA CrashInv ==
    ASSUME IInv, NEW s \in Sessions, Crash(s)
    PROVE  IInv'
<1>1. TypeOK /\ SessionInv(s)
  BY Sessionwise
<1>2. UNCHANGED <<fixedName, program, counters, call, expected, stray>>
  BY DEF Crash
<1>3. phase'[s] = "over" /\ s \in crashed'
  BY <1>1 DEF Crash, TypeOK
<1>4. setup'[s] \in {<< >>, <<"insert">>, <<"delete">>}
  <2>1. setup[s] \in {<< >>, <<"insert">>, <<"delete", "insert">>,
                      <<"insert", "delete", "insert">>, <<"delete">>}
    BY <1>1 DEF Crash, SessionInv, SentBy, Rests
  <2>2. \A d, e, f \in {"insert", "delete"} :
           /\ Head(<<d>>) = d /\ Head(<<d, e>>) = d /\ Head(<<d, e, f>>) = d
    OBVIOUS
  <2>3. setup'[s] = IF setup[s] = << >> THEN << >> ELSE <<Head(setup[s])>>
    BY <1>1 DEF Crash, TypeOK
  <2> QED
    BY <2>1, <2>2, <2>3
<1>5. /\ NameOf(s)' = NameOf(s) /\ Rests' = Rests /\ Names' = Names
      /\ \A t \in Sessions : NameOf(t)' = NameOf(t) /\ LimitOf(t)' = LimitOf(t)
  BY <1>2, Fixed
<1>6. StepOf(s)
  BY <1>1, <1>2, <1>3 DEF Crash, TypeOK, StepOf, Over
<1>7. TypeOK'
  <2>1. setup'[s] \in Seq({"delete", "insert"})
    <3>1. << >> \in Seq({"delete", "insert"})
      OBVIOUS
    <3>2. <<"insert">> \in Seq({"delete", "insert"}) /\ <<"delete">> \in Seq({"delete", "insert"})
      OBVIOUS
    <3> QED
      BY <1>4, <3>1, <3>2
  <2> QED
    BY <1>1, <1>2, <1>5, <2>1 DEF Crash, TypeOK, Row
<1>8. SessionInv(s)'
  BY <1>3, <1>4 DEF SessionInv, SentBy, FreshFor, Counted, LeavesNothing, Over
<1> QED
  BY <1>6, <1>7, <1>8, StepKeeps

-----------------------------------------------------------------------------
(* The steps of the server *)

LEMMA Tails ==
    /\ Head(<<"insert">>) = "insert" /\ Tail(<<"insert">>) = << >>
    /\ Head(<<"delete">>) = "delete" /\ Tail(<<"delete">>) = << >>
    /\ Head(<<"delete", "insert">>) = "delete" /\ Tail(<<"delete", "insert">>) = <<"insert">>
    /\ Head(<<"insert", "delete", "insert">>) = "insert"
    /\ Tail(<<"insert", "delete", "insert">>) = <<"delete", "insert">>
    /\ <<"insert">> # << >> /\ <<"delete">> # << >>
    /\ <<"delete", "insert">> # << >> /\ <<"delete", "insert">> # <<"insert">>
  OBVIOUS

\* The statements of a session and where it is when the server executes one.
LEMMA SentCases ==
    ASSUME IInv, NEW s \in Sessions, NEW st, Sent(s, st)
    PROVE  \/ phase[s] = "starting" /\ setup[s] \in Rests
           \/ phase[s] = "ending" /\ setup[s] = <<"delete">>
           \/ phase[s] = "over" /\ s \in crashed /\ setup[s] \in {<<"insert">>, <<"delete">>}
<1>1. SentBy(s) /\ phase[s] \in {"unborn", "starting", "running", "ending", "over"}
  BY DEF IInv, TypeOK
<1>2. setup[s] # << >>
  BY DEF Sent
<1> QED
  BY <1>1, <1>2 DEF SentBy, Over

\* What a DELETE leaves of setup and where it takes its session.
LEMMA AfterDelete ==
    ASSUME IInv, NEW s \in Sessions, Delete(s)
    PROVE  \/ /\ phase[s] = "starting" /\ phase'[s] = "starting"
              /\ setup'[s] = <<"insert">> /\ <<"insert">> \in Rests
              /\ ~stray'[NameOf(s)]
           \/ /\ phase[s] \in {"ending", "over"} /\ phase'[s] = "over"
              /\ setup'[s] = << >>
              /\ Over(s) => s \in crashed /\ stray'[NameOf(s)]
<1>1. TypeOK /\ NameOf(s) \in Names
  BY DEF IInv, Names
<1>2. setup'[s] = Tail(setup[s])
  BY <1>1 DEF Delete, Executed, TypeOK
<1>3. phase'[s] = CASE phase[s] = "starting" /\ Tail(setup[s]) = << >> -> "running"
                    [] phase[s] = "ending" -> "over"
                    [] OTHER -> phase[s]
  BY <1>1 DEF Delete, Executed, TypeOK
<1>4. stray'[NameOf(s)] = IF phase[s] = "starting" THEN FALSE ELSE stray[NameOf(s)] \/ Over(s)
  BY <1>1 DEF Delete, TypeOK
<1>5. Sent(s, "delete")
  BY DEF Delete
<1>6. CASE phase[s] = "starting" /\ setup[s] \in Rests
  <2>1. setup[s] = <<"delete", "insert">>
    BY <1>5, <1>6, Tails DEF Sent, Rests
  <2>2. <<"insert">> \in Rests
    BY DEF Rests
  <2> QED
    BY <1>2, <1>3, <1>4, <1>6, <2>1, <2>2, Tails
<1>7. CASE phase[s] = "ending" /\ setup[s] = <<"delete">>
  BY <1>2, <1>3, <1>7, Tails DEF Over
<1>8. CASE phase[s] = "over" /\ s \in crashed /\ setup[s] \in {<<"insert">>, <<"delete">>}
  BY <1>2, <1>3, <1>4, <1>8, Tails DEF Over
<1> QED
  BY <1>5, <1>6, <1>7, <1>8, SentCases

LEMMA DeleteInv ==
    ASSUME IInv, NEW s \in Sessions, Delete(s)
    PROVE  IInv'
<1> DEFINE n == NameOf(s)
<1>1. TypeOK /\ SessionInv(s)
  BY Sessionwise
<1>2. UNCHANGED <<fixedName, program, call, crashed, expected>>
  BY DEF Delete, Executed
<1>3. /\ n' = n /\ Rests' = Rests /\ Names' = Names /\ n \in Names
      /\ \A t \in Sessions : NameOf(t)' = NameOf(t) /\ LimitOf(t)' = LimitOf(t)
  BY <1>2, Fixed
<1>4. /\ counters' = [counters EXCEPT ![n] = NoRow]
      /\ stray' = [stray EXCEPT ![n] = IF phase[s] = "starting" THEN FALSE ELSE @ \/ Over(s)]
      /\ \E p \in {"starting", "running", "over"} : phase' = [phase EXCEPT ![s] = p]
      /\ setup' = [setup EXCEPT ![s] = Tail(@)]
  <2>1. phase'[s] \in {"starting", "over"}
    BY AfterDelete
  <2>2. \E p : phase' = [phase EXCEPT ![s] = p]
    BY DEF Delete, Executed
  <2> QED
    BY <1>1, <2>1, <2>2 DEF Delete, Without, Executed, TypeOK
<1>5. setup[s] # << >>
  BY DEF Delete, Sent
<1>6. StepOf(s)
  <2>1. \A t \in Sessions \ {s} : phase'[t] = phase[t] /\ setup'[t] = setup[t]
    BY <1>1, <1>4 DEF TypeOK
  <2>2. phase[s] # "unborn" /\ phase'[s] # "unborn" /\ (Over(s) => phase'[s] = "over" /\ stray'[n])
    BY AfterDelete DEF Over
  <2>3. \A m \in Names \ {n} : counters'[m] = counters[m] /\ stray'[m] = stray[m]
    BY <1>1, <1>4 DEF TypeOK
  <2> QED
    BY <1>2, <1>5, <2>1, <2>2, <2>3 DEF StepOf, Sending
<1>7. TypeOK'
  <2>1. Tail(setup[s]) \in Seq({"delete", "insert"})
    BY <1>1, <1>5 DEF TypeOK
  <2>2. stray' \in [Names -> BOOLEAN] /\ counters' \in [Names -> Row \cup {NoRow}]
    BY <1>1, <1>4 DEF TypeOK, Over
  <2>3. setup' \in [Sessions -> Seq({"delete", "insert"})]
    BY <1>1, <1>4, <2>1 DEF TypeOK
  <2>4. phase' \in [Sessions -> {"unborn", "starting", "running", "ending", "over"}]
    BY <1>1, <1>4 DEF TypeOK
  <2>5. \A t \in Sessions : expected'[t] <= LimitOf(t)'
    BY <1>1, <1>2, <1>3 DEF TypeOK
  <2>6. /\ stray' \in [Names' -> BOOLEAN] /\ counters' \in [Names' -> Row \cup {NoRow}]
        /\ Row' = Row
    BY <1>3, <2>2 DEF Row
  <2> QED
    BY <1>1, <1>2, <2>3, <2>4, <2>5, <2>6 DEF TypeOK
<1>8. SessionInv(s)'
  <2>1. counters'[n] = NoRow
    BY <1>1, <1>3, <1>4 DEF TypeOK
  <2>2. SentBy(s)'
    BY <1>1, <1>2, <1>3, AfterDelete DEF SessionInv, SentBy, Over
  <2>3. FreshFor(s)' /\ Counted(s)' /\ LeavesNothing(s)'
    BY <1>1, <1>2, <1>3, <2>1, AfterDelete
    DEF SessionInv, FreshFor, Counted, LeavesNothing, Over
  <2> QED
    BY <2>2, <2>3 DEF SessionInv
<1> QED
  BY <1>6, <1>7, <1>8, StepKeeps

LEMMA AfterInsert ==
    ASSUME IInv, NEW s \in Sessions, Insert(s)
    PROVE  \/ /\ phase[s] = "starting" /\ phase'[s] = "starting"
              /\ setup'[s] = <<"delete", "insert">> /\ setup'[s] \in Rests
           \/ /\ phase[s] = "starting" /\ setup[s] = <<"insert">>
              /\ phase'[s] = "running" /\ setup'[s] = << >>
           \/ /\ phase[s] = "over" /\ s \in crashed /\ phase'[s] = "over"
              /\ setup'[s] = << >>
<1>1. TypeOK
  BY DEF IInv
<1>2. setup'[s] = Tail(setup[s])
  BY <1>1 DEF Insert, Executed, TypeOK
<1>3. phase'[s] = CASE phase[s] = "starting" /\ Tail(setup[s]) = << >> -> "running"
                    [] phase[s] = "ending" -> "over"
                    [] OTHER -> phase[s]
  BY <1>1 DEF Insert, Executed, TypeOK
<1>4. Sent(s, "insert")
  BY DEF Insert
<1>5. CASE phase[s] = "starting" /\ setup[s] = <<"insert">>
  BY <1>2, <1>3, <1>5, Tails
<1>6. CASE phase[s] = "starting" /\ setup[s] \in Rests /\ setup[s] # <<"insert">>
  <2>1. fixedName /\ setup[s] = <<"insert", "delete", "insert">>
    BY <1>4, <1>6, Tails DEF Sent, Rests
  <2>2. <<"delete", "insert">> \in Rests
    BY <2>1 DEF Rests
  <2> QED
    BY <1>2, <1>3, <1>6, <2>1, <2>2, Tails
<1>7. CASE phase[s] = "over" /\ s \in crashed /\ setup[s] \in {<<"insert">>, <<"delete">>}
  BY <1>2, <1>3, <1>7, Tails
<1>8. ~(phase[s] = "ending" /\ setup[s] = <<"delete">>)
  BY <1>4, Tails DEF Sent
<1> QED
  BY <1>4, <1>5, <1>6, <1>7, <1>8, SentCases

LEMMA InsertInv ==
    ASSUME IInv, NEW s \in Sessions, Insert(s)
    PROVE  IInv'
<1> DEFINE n == NameOf(s)
           new == [value |-> 0, max |-> LimitOf(s)]
<1>1. TypeOK /\ SessionInv(s)
  BY Sessionwise
<1>2. UNCHANGED <<fixedName, program, call, crashed, expected>>
  BY DEF Insert, Executed
<1>3. /\ n' = n /\ Rests' = Rests /\ Names' = Names /\ n \in Names
      /\ \A t \in Sessions : NameOf(t)' = NameOf(t) /\ LimitOf(t)' = LimitOf(t)
  BY <1>2, Fixed
<1>4. /\ counters' = [counters EXCEPT ![n] = IF @ = NoRow THEN new ELSE @]
      /\ stray' = [stray EXCEPT ![n] = @ \/ Over(s)]
      /\ \E p \in {"starting", "running", "over"} : phase' = [phase EXCEPT ![s] = p]
      /\ setup' = [setup EXCEPT ![s] = Tail(@)]
  <2>1. phase'[s] \in {"starting", "running", "over"}
    BY AfterInsert
  <2>2. \E p : phase' = [phase EXCEPT ![s] = p]
    BY DEF Insert, Executed
  <2>3. counters' = [counters EXCEPT ![n] = IF @ = NoRow THEN new ELSE @]
    BY <1>1, <1>3 DEF Insert, With, TypeOK
  <2> QED
    BY <1>1, <2>1, <2>2, <2>3 DEF Insert, Mark, Executed, TypeOK
<1>5. setup[s] # << >>
  BY DEF Insert, Sent
<1>6. StepOf(s)
  BY <1>1, <1>2, <1>3, <1>4, <1>5, AfterInsert DEF TypeOK, StepOf, Sending, Over
<1>7. TypeOK'
  <2>1. Tail(setup[s]) \in Seq({"delete", "insert"})
    BY <1>1, <1>5 DEF TypeOK
  <2>2. new \in Row
    BY Limits, RowOf
  <2>3. stray' \in [Names -> BOOLEAN] /\ counters' \in [Names -> Row \cup {NoRow}]
    BY <1>1, <1>3, <1>4, <2>2 DEF TypeOK, Over
  <2> QED
    BY <1>1, <1>2, <1>3, <1>4, <2>1, <2>3 DEF TypeOK, Row
<1>8. SessionInv(s)'
  <2>1. /\ counters'[n] = IF counters[n] = NoRow THEN new ELSE counters[n]
        /\ stray[n] => stray'[n]
    BY <1>1, <1>3, <1>4 DEF TypeOK, Over
  <2>2. SentBy(s)'
    BY <1>1, <1>2, <1>3, AfterInsert DEF SessionInv, SentBy, Over
  <2>3. FreshFor(s)'
    BY <1>1, <1>2, <1>3, AfterInsert, Tails DEF SessionInv, FreshFor
  <2>4. Counted(s)'
    BY <1>1, <1>2, <1>3, <2>1, AfterInsert DEF SessionInv, FreshFor, Counted
  <2>5. LeavesNothing(s)'
    BY <1>2, AfterInsert DEF LeavesNothing, Over
  <2> QED
    BY <2>2, <2>3, <2>4, <2>5 DEF SessionInv
<1> QED
  BY <1>6, <1>7, <1>8, StepKeeps

LEMMA UpdateInv ==
    ASSUME IInv, NEW s \in Sessions, NEW c \in Callers, Update(s, c)
    PROVE  IInv'
<1> DEFINE n == NameOf(s)
           row == counters[n]
           delta == Delta(call[s][c])
           top == LimitOf(s)
<1>1. TypeOK /\ SessionInv(s)
  BY Sessionwise
<1>2. UNCHANGED <<fixedName, program, phase, setup, crashed>>
  BY DEF Update
<1>3. /\ n' = n /\ Rests' = Rests /\ Names' = Names /\ n \in Names
      /\ \A t \in Sessions : NameOf(t)' = NameOf(t) /\ LimitOf(t)' = LimitOf(t)
  BY <1>2, Fixed
<1>4. delta \in {1, -1}
  BY DEF Delta
<1>5. /\ top \in Nat
      /\ expected[s] \in 0..top
      /\ row \in Row \cup {NoRow}
  BY <1>1, <1>3, Limits DEF TypeOK
<1>6. phase[s] = "running" \/ (phase[s] = "over" /\ s \in crashed)
  BY <1>1 DEF Update, SessionInv, SentBy, Over
<1>7. /\ counters' = IF row # NoRow /\ Updatable(row, delta)
                     THEN [counters EXCEPT ![n].value = @ + delta] ELSE counters
      /\ expected' = [expected EXCEPT ![s] = Counter(s)!Updated(@, delta, top)]
      /\ call' = [call EXCEPT ![s][c] = "none"]
      /\ stray' = [stray EXCEPT ![n] = @ \/ Over(s)]
  BY DEF Update, Mark
<1>8. /\ counters'[n] = IF row # NoRow /\ Updatable(row, delta)
                        THEN [row EXCEPT !.value = @ + delta] ELSE row
      /\ \A m \in Names \ {n} : counters'[m] = counters[m]
      /\ counters' \in [Names -> Row \cup {NoRow}]
  <2>1. CASE row # NoRow /\ Updatable(row, delta)
    <3>1. row \in Row
      BY <1>5, <2>1
    <3>2. [row EXCEPT !.value = @ + delta] \in Row
      BY <1>4, <2>1, <3>1, UpdatedRow
    <3>3. counters' = [counters EXCEPT ![n] = [row EXCEPT !.value = @ + delta]]
      BY <1>7, <2>1
    <3> QED
      BY <1>1, <1>3, <2>1, <3>2, <3>3 DEF TypeOK
  <2>2. CASE ~(row # NoRow /\ Updatable(row, delta))
    BY <1>1, <1>7, <2>2 DEF TypeOK
  <2> QED
    BY <2>1, <2>2
<1>9. /\ expected'[s] = IF Updatable([value |-> expected[s], max |-> top], delta)
                        THEN expected[s] + delta ELSE expected[s]
      /\ expected'[s] \in 0..top
      /\ expected' \in [Sessions -> Nat]
      /\ \A t \in Sessions \ {s} : expected'[t] = expected[t]
  <2>1. expected'[s] = Counter(s)!Updated(expected[s], delta, top)
    BY <1>1, <1>7 DEF TypeOK
  <2>2. /\ Counter(s)!Updated(expected[s], delta, top)
             = IF Updatable([value |-> expected[s], max |-> top], delta)
               THEN expected[s] + delta ELSE expected[s]
        /\ Counter(s)!Updated(expected[s], delta, top) \in 0..top
    BY <1>4, <1>5, UpdateAgrees
  <2>3. Counter(s)!Updated(expected[s], delta, top) \in Nat
    BY <1>5, <2>2
  <2> QED
    BY <1>1, <1>7, <2>1, <2>2, <2>3 DEF TypeOK
<1>10. stray'[n] = (stray[n] \/ Over(s)) /\ stray' \in [Names -> BOOLEAN]
       /\ \A m \in Names \ {n} : stray'[m] = stray[m]
  BY <1>1, <1>3, <1>7 DEF TypeOK, Over
<1>11. StepOf(s)
  <2>1. \A t \in Sessions \ {s} : call'[t] = call[t]
    BY <1>1, <1>7 DEF TypeOK
  <2>2. Sending(s)
    BY DEF Update, Sending
  <2> QED
    BY <1>2, <1>6, <1>8, <1>9, <1>10, <2>1, <2>2 DEF StepOf, Over
<1>12. TypeOK'
  <2>1. call' \in [Sessions -> [Callers -> {"none", "inc", "dec", "get"}]]
    BY <1>1, <1>7 DEF TypeOK
  <2>2. \A t \in Sessions : expected'[t] <= LimitOf(t)'
    <3>1. \A t \in Sessions : LimitOf(t)' = LimitOf(t)
      BY <1>3
    <3>2. expected'[s] <= top
      BY <1>5, <1>9
    <3>3. \A t \in Sessions \ {s} : expected'[t] <= LimitOf(t)
      BY <1>1, <1>9 DEF TypeOK
    <3> QED
      BY <3>1, <3>2, <3>3
  <2> QED
    BY <1>1, <1>2, <1>3, <1>8, <1>9, <1>10, <2>1, <2>2 DEF TypeOK, Row
<1>13. SessionInv(s)'
  <2>1. SentBy(s)'
    BY <1>1, <1>2, <1>3, <1>6 DEF SessionInv, SentBy, Over
  <2>2. FreshFor(s)' /\ LeavesNothing(s)'
    BY <1>2, <1>6 DEF FreshFor, LeavesNothing, Over
  <2>3. Counted(s)'
    <3>1. CASE row = [value |-> expected[s], max |-> top]
      <4>1. row # NoRow
        BY <1>5, <3>1 DEF NoRow
      <4>2. counters'[n] = [value |-> expected'[s], max |-> top]
        BY <1>8, <1>9, <3>1, <4>1
      <4> QED
        BY <1>3, <4>2 DEF Counted
    <3>2. CASE stray[n]
      BY <1>3, <1>10, <3>2 DEF Counted
    <3> QED
      BY <1>1, <1>2, <3>1, <3>2 DEF SessionInv, Counted
  <2> QED
    BY <2>1, <2>2, <2>3 DEF SessionInv
<1> QED
  BY <1>11, <1>12, <1>13, StepKeeps

-----------------------------------------------------------------------------
(* The invariant *)

LEMMA InitInv == Init => IInv
<1> SUFFICES ASSUME Init
             PROVE  IInv
  OBVIOUS
<1>1. \A s \in Sessions : NameOf(s) \in Names /\ LimitOf(s) \in Nat
  BY Limits DEF Names
<1>2. << >> \in Seq({"delete", "insert"})
  OBVIOUS
<1>3. TypeOK
  BY <1>1, <1>2 DEF Init, TypeOK
<1>4. \A s \in Sessions : SessionInv(s)
  BY <1>1 DEF Init, SessionInv, SentBy, FreshFor, Counted, LeavesNothing, Over
<1>5. TurnsInv
  BY DEF Init, TurnsInv
<1> QED
  BY <1>3, <1>4, <1>5, Sessionwise

LEMMA NextInv ==
    ASSUME IInv, [Next]_vars
    PROVE  IInv'
<1>1. ASSUME NEW s \in Sessions, Begin(s)
      PROVE  IInv'
  BY <1>1, BeginInv
<1>2. ASSUME NEW s \in Sessions, Cleanup(s)
      PROVE  IInv'
  BY <1>2, CleanupInv
<1>3. ASSUME NEW s \in Sessions, Crash(s)
      PROVE  IInv'
  BY <1>3, CrashInv
<1>4. ASSUME NEW s \in Sessions, Delete(s)
      PROVE  IInv'
  BY <1>4, DeleteInv
<1>5. ASSUME NEW s \in Sessions, Insert(s)
      PROVE  IInv'
  BY <1>5, InsertInv
<1>6. ASSUME NEW s \in Sessions, NEW c \in Callers,
             (\E op \in {"inc", "dec", "get"} : Call(s, c, op)) \/ Select(s, c) \/ Fail(s, c)
      PROVE  IInv'
  BY <1>6, CallsInv
<1>7. ASSUME NEW s \in Sessions, NEW c \in Callers, Update(s, c)
      PROVE  IInv'
  BY <1>7, UpdateInv
<1>8. CASE UNCHANGED vars
  BY <1>8
  DEF vars, ghosts, IInv, TypeOK, TurnsInv, SentBy, FreshFor, OwnCount, Cleaned, Over,
      NameOf, Names, LimitOf, Rests
<1> QED
  BY <1>1, <1>2, <1>3, <1>4, <1>5, <1>6, <1>7, <1>8 DEF Next

\* The inductive invariant, for any number of sessions and callers and any limits.
THEOREM Invariant == Spec => []IInv
  BY InitInv, NextInv, PTL DEF Spec

\* Every row stays within its own limit, whichever sessions share it and whatever
\* is executed late (the WHERE clauses of update: pg_counter.go, PgCounter.java,
\* pg_counter.ts).
THEOREM TypeCorrect == Spec => []TypeOK
  BY Invariant, PTL DEF IInv

\* A running session's row holds what counter.fizz makes of its own updates, unless
\* a statement of a crashed session was executed after its init began.
THEOREM CountsItsOwn == Spec => []OwnCount
  BY Invariant, PTL DEF IInv

\* cleanup leaves no row behind, until the name is used again or a statement of a
\* crashed session is executed late.
THEOREM CleansUp == Spec => []Cleaned
  BY Invariant, PTL DEF IInv
=============================================================================
