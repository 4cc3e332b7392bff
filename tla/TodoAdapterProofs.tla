-------------------------- MODULE TodoAdapterProofs --------------------------
(***************************************************************************)
(* What an undisturbed run of the todo adapters relies on, for any number   *)
(* of runs, actions, todos and values: a redraw that the page has made is   *)
(* the one that the action's own request has caused.                       *)
(***************************************************************************)
EXTENDS TodoAdapterInv, SequenceTheorems, TLAPS

USE MaxTodosAssumption, MaxActionsAssumption, MaxRunsAssumption

-----------------------------------------------------------------------------
(* todo.fizz *)

\* A todo of a list may be replaced; of an id that it does not have, nothing is.
LEMMA Replaced ==
    ASSUME NEW todos \in Seq(Todo), NEW id, NEW todo, id \in 1..Len(todos) => todo \in Todo
    PROVE  /\ [todos EXCEPT ![id] = todo] \in Seq(Todo)
           /\ Len([todos EXCEPT ![id] = todo]) = Len(todos)
<1>1. CASE id \in 1..Len(todos)
  BY <1>1
<1>2. CASE id \notin 1..Len(todos)
  <2>1. [todos EXCEPT ![id] = todo] = todos
    BY <1>2
  <2> QED
    BY <2>1
<1> QED
  BY <1>1, <1>2

\* The fields of a todo may change.
LEMMA TodoEdits ==
    ASSUME NEW t \in Todo
    PROVE  /\ \A v \in Values : [t EXCEPT !.value = v] \in Todo
           /\ [t EXCEPT !.deleted = TRUE] \in Todo
           /\ \A b \in BOOLEAN : [t EXCEPT !.pinned = b] \in Todo
           /\ t.pinned \in BOOLEAN /\ t.deleted \in BOOLEAN
           /\ ~t.pinned => [t EXCEPT !.pinned = FALSE] = t
<1>1. PICK v \in Values, d \in BOOLEAN, b \in BOOLEAN : t = [value |-> v, deleted |-> d, pinned |-> b]
  BY DEF Todo
<1> QED
  BY <1>1 DEF Todo

\* An action leaves a list of todos, and one that is permitted leaves no more
\* than the limit.
LEMMA AppliedType ==
    ASSUME NEW todos \in Seq(Todo), NEW call \in Calls
    PROVE  /\ Applied(todos, call) \in Seq(Todo)
           /\ Len(todos) <= MaxTodos /\ Permitted(todos, call) => Len(Applied(todos, call)) <= MaxTodos
<1>1. CASE call.op = "CreateTodo"
  <2>1. call.value \in Values
    BY <1>1 DEF Calls
  <2>2. [value |-> call.value, deleted |-> FALSE, pinned |-> FALSE] \in Todo
    BY <2>1 DEF Todo
  <2> QED
    BY <1>1, <2>2 DEF Applied, Permitted, Room
<1> DEFINE todo == todos[call.id]
<1>0. call.id \in 1..Len(todos) =>
         /\ \A v \in Values : [todo EXCEPT !.value = v] \in Todo
         /\ [todo EXCEPT !.deleted = TRUE] \in Todo
         /\ [todo EXCEPT !.pinned = TRUE] \in Todo
         /\ [todo EXCEPT !.pinned = FALSE] \in Todo
  <2>1. call.id \in 1..Len(todos) => todo \in Todo
    OBVIOUS
  <2> QED
    BY <2>1, TodoEdits
<1>2. CASE call.op = "UpdateTodo"
  <2>1. call.value \in Values
    BY <1>2 DEF Calls
  <2>2. call.id \in 1..Len(todos) => [todo EXCEPT !.value = call.value] \in Todo
    BY <2>1, <1>0
  <2>3. Applied(todos, call) = [todos EXCEPT ![call.id] = [todo EXCEPT !.value = call.value]]
    BY <1>2 DEF Applied
  <2> QED
    BY <1>2, <2>2, <2>3, Replaced
<1>3. CASE call.op \in {"DeleteTodo", "PinTodo", "UnPinTodo"}
  <2> SUFFICES \E new : /\ Applied(todos, call) = [todos EXCEPT ![call.id] = new]
                        /\ call.id \in 1..Len(todos) => new \in Todo
    BY Replaced
  <2>1. CASE call.op = "DeleteTodo"
    <3>1. Applied(todos, call) = [todos EXCEPT ![call.id] = [todo EXCEPT !.deleted = TRUE]]
      BY <2>1 DEF Applied
    <3> QED
      BY <3>1, <1>0
  <2>2. CASE call.op = "PinTodo"
    <3>1. Applied(todos, call) = [todos EXCEPT ![call.id] = [todo EXCEPT !.pinned = TRUE]]
      BY <2>2 DEF Applied
    <3> QED
      BY <3>1, <1>0
  <2>3. CASE call.op = "UnPinTodo"
    <3>1. Applied(todos, call) = [todos EXCEPT ![call.id] = [todo EXCEPT !.pinned = FALSE]]
      BY <2>3 DEF Applied
    <3> QED
      BY <3>1, <1>0
  <2> QED
    BY <1>3, <2>1, <2>2, <2>3
<1>4. CASE call.op \in {"ReadTodo", "ListTodo"}
  BY <1>4 DEF Applied
<1> QED
  BY <1>1, <1>2, <1>3, <1>4 DEF Calls

\* The server accepts what todo.fizz permits.
LEMMA PermittedIsAccepted ==
    ASSUME NEW call \in Calls, call.op \in Changes, Permitted(server, call)
    PROVE  Accepts(call)
  BY DEF Changes, Permitted, Accepts

\* A control that is not there, on a page that shows the model, would change nothing.
LEMMA SkipChangesNothing ==
    ASSUME NEW todos \in Seq(Todo), NEW call \in Calls, call.op \in Changes \ {"CreateTodo"},
           Permitted(todos, call), shown = todos, ~Shows(call)
    PROVE  Applied(todos, call) = todos
<1>1. call.id \in 1..Len(todos) /\ ~todos[call.id].deleted
  BY DEF Changes, Permitted, Live
<1>2. call.op = "UnPinTodo" /\ ~todos[call.id].pinned
  BY <1>1 DEF Changes, Permitted, Shows, Live, NonePinned
<1>3. todos[call.id] \in Todo
  BY <1>1
<1>4. [todos[call.id] EXCEPT !.pinned = FALSE] = todos[call.id]
  BY <1>2, <1>3, TodoEdits
<1>5. Applied(todos, call) = [todos EXCEPT ![call.id] = [todos[call.id] EXCEPT !.pinned = FALSE]]
  BY <1>2 DEF Applied
<1> QED
  BY <1>1, <1>4, <1>5

-----------------------------------------------------------------------------
(* Requests and the action under way *)

\* What the server handles is gone, and nothing else.
LEMMA Removed ==
    ASSUME NEW S, NEW s \in Seq(S), NEW i \in 1..Len(s)
    PROVE  /\ RemoveAt(s, i) \in Seq(S)
           /\ Len(RemoveAt(s, i)) = Len(s) - 1
           /\ Len(s) = 1 => RemoveAt(s, i) = << >>
<1> DEFINE Before == SubSeq(s, 1, i - 1)
           After  == SubSeq(s, i + 1, Len(s))
<1>1. Before \in Seq(S) /\ Len(Before) = i - 1
  OBVIOUS
<1>2. After \in Seq(S) /\ Len(After) = Len(s) - i
  OBVIOUS
<1>3. RemoveAt(s, i) = Before \o After /\ Len(s) \in Nat /\ i \in Nat
  BY DEF RemoveAt
<1> HIDE DEF Before, After
<1>4. RemoveAt(s, i) \in Seq(S) /\ Len(RemoveAt(s, i)) = Len(s) - 1
  <2>1. Before \o After \in Seq(S) /\ Len(Before \o After) = Len(Before) + Len(After)
    BY <1>1, <1>2
  <2> QED
    BY <1>1, <1>2, <1>3, <2>1
<1>5. Len(RemoveAt(s, i)) = 0 => RemoveAt(s, i) = << >>
  BY <1>4
<1> QED
  BY <1>4, <1>5

\* A request of an earlier run is still one of a run.
LEMMA MoreRuns ==
    ASSUME NEW C, NEW n \in Nat, NEW s \in Seq([call : C, run : 1..n])
    PROVE  s \in Seq([call : C, run : 1..(n + 1)])
<1>1. [call : C, run : 1..n] \subseteq [call : C, run : 1..(n + 1)]
  OBVIOUS
<1> QED
  BY <1>1, SeqMonotonic

\* An action under way is a record of six fields.
LEMMA ActShape ==
    ASSUME ActInv, act # Idle
    PROVE  /\ act = [step |-> act.step, call |-> act.call, before |-> act.before,
                     heard |-> act.heard, count |-> act.count, read |-> act.read]
           /\ act.step # "idle"
  BY DEF ActInv, Looking, Awaiting

\* Between actions there is nothing to say of an action.
LEMMA NoAction ==
    ASSUME ActInv, act = Idle
    PROVE  /\ act.step = "idle"
           /\ act.step \notin Looking /\ act.step \notin Awaiting
           /\ ~act.step \in {"looking", "counting", "clicking"}
  BY DEF Idle, Looking, Awaiting

-----------------------------------------------------------------------------
(* The life of a run *)

LEMMA InitInv == Init => IInv
<1> SUFFICES ASSUME Init PROVE IInv
  OBVIOUS
<1> USE DEF Init
<1>1. TypeOK
  <2>1. server \in Seq(Todo)
    <3>1. CASE server = << >>
      BY <3>1
    <3>2. CASE server # << >>
      <4>1. PICK t \in Todo : server = <<t>>
        BY <3>2
      <4> QED
        BY <4>1
    <3> QED
      BY <3>1, <3>2
  <2>2. shown \in Seq(Todo) /\ model \in Seq(Todo) /\ Len(model) <= MaxTodos
    OBVIOUS
  <2>3. requests \in Seq([call : {c \in Calls : c.op \in Changes}, run : 1..runs])
    OBVIOUS
  <2>4. act.step = "idle"
    BY DEF Idle
  <2>5. /\ redraws = 0 /\ counter = 0 /\ handlers = 0 /\ runs = 0 /\ actions = 0
        /\ role = "none" /\ phase = "off" /\ disturbed = FALSE
    OBVIOUS
  <2> HIDE DEF Init
  <2>6. disturbed \in BOOLEAN
    BY <2>5, Zenon
  <2>7. 0 \in 0..MaxActions /\ 0 \in 0..(MaxActions + 1) /\ 0 \in 0..MaxRuns
    OBVIOUS
  <2> QED
    BY <2>1, <2>2, <2>3, <2>4, <2>5, <2>6, <2>7, Zenon DEF TypeOK
<1>2. ActInv /\ CountInv /\ AnswersConform
  BY DEF ActInv, CountInv, AnswersConform, Idle, NoReply
<1>3. RoleInv /\ LeftInv /\ RunInv
  BY DEF RoleInv, LeftInv, RunInv, Blank
<1> QED
  BY <1>1, <1>2, <1>3 DEF IInv

\* Clearing the database leaves no todo, unless it fails: then it leaves a list of them,
\* and none if there was none.
LEMMA CleanedIs ==
    ASSUME server \in Seq(Todo), NEW outcome \in Outcomes
    PROVE  /\ CleanedDb("cleared") = << >>
           /\ CleanedDb(outcome) \in Seq(Todo)
           /\ server = << >> => CleanedDb(outcome) = << >>
<1>1. /\ Emptied(server) \in Seq(Todo)
      /\ server = << >> => Emptied(server) = << >>
  <2>1. \A i \in 1..Len(server) : [server[i] EXCEPT !.deleted = TRUE] \in Todo
    BY TodoEdits
  <2>2. /\ Emptied(server) = [i \in 1..Len(server) |-> [server[i] EXCEPT !.deleted = TRUE]]
        /\ Len(server) \in Nat
    BY DEF Emptied
  <2>3. Emptied(server) \in [1..Len(server) -> Todo]
    BY <2>1, <2>2
  <2>4. Emptied(server) \in Seq(Todo) /\ Len(Emptied(server)) = Len(server)
    <3> DEFINE emptied == Emptied(server)
               n == Len(server)
    <3>1. emptied \in [1..n -> Todo] /\ n \in Nat
      BY <2>2, <2>3
    <3> HIDE DEF emptied, n
    <3>2. emptied \in Seq(Todo) /\ Len(emptied) = n
      BY <3>1
    <3> QED
      BY <3>2 DEF emptied, n
  <2>5. server = << >> => Len(Emptied(server)) = 0
    BY <2>4
  <2> QED
    BY <2>4, <2>5, EmptySeq
<1>2. /\ CleanedDb("cleared") = << >>
      /\ outcome = "cleared" => CleanedDb(outcome) = << >>
      /\ outcome = "emptied" => CleanedDb(outcome) = Emptied(server)
      /\ outcome = "refused" => CleanedDb(outcome) = server
  BY DEF CleanedDb
<1>3. outcome \in {"cleared", "emptied", "refused"} /\ << >> \in Seq(Todo)
  BY DEF Outcomes
<1> QED
  BY <1>1, <1>2, <1>3

LEMMA StartRunInv ==
    ASSUME IInv, NEW drawn \in BOOLEAN, StartRun(drawn)
    PROVE  IInv'
<1>1. act = Idle /\ act' = Idle /\ act.step = "idle" /\ act'.step = "idle"
  BY NoAction DEF IInv, ActInv, StartRun, Idle
<1>2. TypeOK'
  <2>1. server' \in Seq(Todo) /\ shown' \in Seq(Todo)
    BY CleanedIs DEF IInv, TypeOK, StartRun, PageOpened, Outcomes
  <2>2. requests' \in Seq([call : {c \in Calls : c.op \in Changes}, run : 1..runs'])
    <3>1. runs \in Nat /\ runs' = runs + 1 /\ requests' = requests
      BY DEF IInv, TypeOK, StartRun
    <3> QED
      BY <3>1, MoreRuns DEF IInv, TypeOK
  <2> QED
    BY <1>1, <2>1, <2>2 DEF IInv, TypeOK, StartRun, PageOpened
<1>3. ActInv' /\ AnswersConform'
  BY <1>1 DEF IInv, ActInv, AnswersConform, StartRun, NoReply
<1>4. CountInv'
  BY <1>1 DEF IInv, CountInv, RoleInv, Blank, TypeOK, StartRun, PageOpened
<1>5. RoleInv' /\ LeftInv'
  BY <1>1 DEF IInv, TypeOK, RoleInv, LeftInv, StartRun
<1>6. RunInv'
  <2> SUFFICES ASSUME ~disturbed' PROVE IdleInv'
    BY <1>1 DEF RunInv, Looking, Awaiting
  <2>1. requests' = << >> /\ model' = << >> /\ server' = << >>
    BY CleanedIs DEF IInv, TypeOK, RoleInv, LeftInv, StartRun, Outcomes
  <2> QED
    BY <2>1 DEF IdleInv, StartRun, PageOpened
<1> QED
  BY <1>2, <1>3, <1>4, <1>5, <1>6 DEF IInv

LEMMA FirstInitFailsInv ==
    ASSUME IInv, NEW outcome \in Outcomes, FirstInitFails(outcome)
    PROVE  IInv'
<1>1. act = Idle /\ act' = Idle /\ act.step = "idle" /\ act'.step = "idle"
  BY NoAction DEF IInv, ActInv, FirstInitFails, Idle
<1>2. TypeOK'
  <2>1. server' \in Seq(Todo)
    BY CleanedIs DEF IInv, TypeOK, FirstInitFails
  <2>2. requests' \in Seq([call : {c \in Calls : c.op \in Changes}, run : 1..runs'])
    BY DEF IInv, RoleInv, FirstInitFails
  <2> QED
    BY <1>1, <2>1, <2>2 DEF IInv, TypeOK, FirstInitFails
<1>3. ActInv' /\ AnswersConform'
  BY <1>1 DEF IInv, ActInv, AnswersConform, FirstInitFails, NoReply
<1>4. CountInv'
  BY <1>1 DEF IInv, CountInv, FirstInitFails
<1>5. RoleInv' /\ LeftInv' /\ RunInv'
  BY <1>1 DEF IInv, RoleInv, LeftInv, RunInv, Blank, FirstInitFails
<1> QED
  BY <1>2, <1>3, <1>4, <1>5 DEF IInv

LEMMA LoginFailsInv ==
    ASSUME IInv, NEW signedIn \in BOOLEAN, NEW drawn \in BOOLEAN, LoginFails(signedIn, drawn)
    PROVE  IInv'
<1>1. act = Idle /\ act' = Idle /\ act.step = "idle" /\ act'.step = "idle"
  BY NoAction DEF IInv, ActInv, LoginFails, Idle
<1>2. server' = << >> /\ server' \in Seq(Todo)
  BY CleanedIs DEF IInv, TypeOK, LoginFails, Outcomes
<1>3. /\ role = "none" /\ role' \in {"ready", "broken"} /\ phase' = "failed" /\ runs' = runs + 1
      /\ requests = << >> /\ requests' = << >> /\ model = << >> /\ model' = << >>
      /\ ~disturbed /\ ~disturbed' /\ actions' = actions /\ reply' = NoReply
  BY DEF IInv, RoleInv, LoginFails
<1>4. /\ shown' = << >> /\ redraws' \in {0, 1} /\ counter' \in {0, 1} /\ handlers' = 0
      /\ redraws' + counter' <= 1
      /\ role' = "broken" => Blank'
  BY <1>2 DEF IInv, RoleInv, Blank, LoginFails, PageOpened
<1>5. TypeOK'
  <2>1. runs' \in 0..MaxRuns
    BY DEF IInv, TypeOK, LoginFails
  <2>2. requests' \in Seq([call : {c \in Calls : c.op \in Changes}, run : 1..runs'])
    BY <1>3
  <2>3. /\ redraws' \in 0..(MaxActions + 1) /\ counter' \in 0..(MaxActions + 1)
        /\ handlers' \in 0..MaxActions /\ actions' \in 0..MaxActions
    BY <1>3, <1>4 DEF IInv, TypeOK
  <2>4. << >> \in Seq(Todo) /\ Len(<< >>) <= MaxTodos
    OBVIOUS
  <2>5. disturbed' \in BOOLEAN
    BY DEF IInv, TypeOK, LoginFails
  <2> QED
    BY <1>1, <1>2, <1>3, <1>4, <2>1, <2>2, <2>3, <2>4, <2>5, Zenon DEF TypeOK
<1>6. ActInv' /\ AnswersConform'
  BY <1>1, <1>3 DEF ActInv, AnswersConform, NoReply
<1>7. CountInv'
  <2>1. Len(requests') = 0 /\ Len(requests') <= actions' /\ handlers' <= actions'
    BY <1>3, <1>4 DEF IInv, TypeOK
  <2>2. Len(requests') + redraws' + counter' <= actions' + 1
    <3>1. actions' \in Nat
      BY <1>3 DEF IInv, TypeOK
    <3>2. /\ Len(requests') = 0
          /\ \/ redraws' = 0 /\ counter' = 0
             \/ redraws' = 1 /\ counter' = 0
             \/ redraws' = 0 /\ counter' = 1
      <4>1. CASE signedIn
        BY <4>1, <2>1 DEF LoginFails, PageOpened
      <4>2. CASE ~signedIn
        BY <4>2, <2>1, <1>3 DEF IInv, RoleInv, Blank, LoginFails
      <4> QED
        BY <4>1, <4>2
    <3>3. Len(requests') + redraws' + counter' <= 1
      BY <3>2
    <3>4. Len(requests') + redraws' + counter' \in Nat
      BY <3>2
    <3> QED
      BY <3>1, <3>3, <3>4
  <2>3. ~act'.step \in {"looking", "counting", "clicking"} /\ act'.step # "looking"
    BY <1>1
  <2> QED
    BY <2>1, <2>2, <2>3, Zenon DEF CountInv
<1>8. RoleInv' /\ LeftInv' /\ RunInv'
  BY <1>1, <1>2, <1>3, <1>4 DEF RoleInv, LeftInv, RunInv
<1> QED
  BY <1>5, <1>6, <1>7, <1>8 DEF IInv

LEMMA StartBrokenRunInv ==
    ASSUME IInv, StartBrokenRun
    PROVE  IInv'
<1>1. act = Idle /\ act' = Idle /\ act.step = "idle" /\ act'.step = "idle"
  BY NoAction DEF IInv, ActInv, StartBrokenRun, Idle
<1>2. TypeOK'
  <2>1. requests' \in Seq([call : {c \in Calls : c.op \in Changes}, run : 1..runs'])
    BY DEF IInv, RoleInv, StartBrokenRun, web
  <2> QED
    BY <1>1, <2>1 DEF IInv, TypeOK, StartBrokenRun, web
<1>3. ActInv' /\ AnswersConform'
  BY <1>1 DEF IInv, ActInv, AnswersConform, StartBrokenRun, NoReply
<1>4. CountInv'
  BY <1>1 DEF IInv, CountInv, StartBrokenRun, web
<1>5. RoleInv' /\ LeftInv' /\ RunInv'
  BY <1>1 DEF IInv, TypeOK, RoleInv, LeftInv, RunInv, IdleInv, Blank, StartBrokenRun, web, Looking, Awaiting
<1> QED
  BY <1>2, <1>3, <1>4, <1>5 DEF IInv

LEMMA EndRunInv ==
    ASSUME IInv, NEW outcome \in Outcomes, EndRun(outcome)
    PROVE  IInv'
<1>1. act = Idle /\ act' = Idle /\ act.step = "idle" /\ act'.step = "idle"
  BY DEF EndRun, Idle
<1>2. TypeOK'
  <2>1. server' \in Seq(Todo) /\ << >> \in Seq(Todo) /\ Len(<< >>) = 0
    BY CleanedIs DEF IInv, TypeOK, EndRun
  <2> QED
    BY <1>1, <2>1 DEF IInv, TypeOK, EndRun, PageClosed, life
<1>3. ActInv' /\ AnswersConform'
  BY <1>1 DEF IInv, ActInv, AnswersConform, EndRun, NoReply
<1>4. CountInv'
  BY <1>1 DEF IInv, CountInv, TypeOK, EndRun, PageClosed, life
<1>5. requests = << >> \/ disturbed
  BY <1>1 DEF IInv, RunInv, IdleInv, LeftInv, EndRun
<1>6. RoleInv'
  BY <1>1, <1>5, CleanedIs DEF IInv, TypeOK, RoleInv, Blank, EndRun, PageClosed, life
<1>7. LeftInv' /\ RunInv'
  BY <1>5, CleanedIs DEF IInv, TypeOK, LeftInv, RunInv, EndRun, life
<1> QED
  BY <1>2, <1>3, <1>4, <1>6, <1>7 DEF IInv

LEMMA CloseAllInv ==
    ASSUME IInv, CloseAll
    PROVE  IInv'
<1>1. act = Idle /\ act' = Idle /\ act.step = "idle" /\ act'.step = "idle"
  BY NoAction DEF IInv, ActInv, CloseAll, Idle
<1>2. TypeOK'
  BY <1>1 DEF IInv, TypeOK, CloseAll, web, life
<1>3. ActInv' /\ AnswersConform' /\ CountInv'
  BY <1>1 DEF IInv, ActInv, CountInv, AnswersConform, CloseAll, NoReply, web, life
<1>4. RoleInv' /\ LeftInv' /\ RunInv'
  BY <1>1 DEF IInv, RoleInv, LeftInv, RunInv, Blank, CloseAll, web, life
<1> QED
  BY <1>2, <1>3, <1>4 DEF IInv

-----------------------------------------------------------------------------
(* An action until its click *)

LEMMA BeginInv ==
    ASSUME IInv, NEW call \in Calls, Begin(call)
    PROVE  IInv'
<1>1. /\ act = Idle /\ act.step = "idle" /\ act' = At(call, "looking") /\ act'.step = "looking"
      /\ act'.call = call /\ act' # Idle /\ act'.read = << >> /\ act'.heard = "nothing"
  BY DEF Begin, Idle, At
<1>2. TypeOK'
  BY <1>1 DEF IInv, TypeOK, Begin, web
<1>3. ActInv'
  BY <1>1 DEF IInv, ActInv, Begin, At, Looking, Awaiting
<1>4. CountInv' /\ AnswersConform'
  BY <1>1 DEF IInv, TypeOK, CountInv, AnswersConform, Begin, NoReply, web
<1>5. RoleInv' /\ LeftInv'
  BY <1>1 DEF IInv, TypeOK, RoleInv, LeftInv, Blank, Begin, web
<1>6. RunInv'
  <2> SUFFICES ASSUME ~disturbed' PROVE LookingInv'
    BY <1>1 DEF RunInv, Looking, Awaiting
  <2>1. ~disturbed /\ ~(role = "ready" /\ counter = 0) /\ phase = "on"
    BY DEF IInv, TypeOK, Begin
  <2>2. IdleInv
    BY <1>1, <2>1 DEF IInv, RunInv
  <2>3. redraws = 0
    BY <2>1, <2>2 DEF IInv, TypeOK, RoleInv, Blank, IdleInv
  <2> QED
    BY <1>1, <2>2, <2>3 DEF IdleInv, LookingInv, Still, Begin, web
<1> QED
  BY <1>2, <1>3, <1>4, <1>5, <1>6 DEF IInv

LEMMA PrepareInv ==
    ASSUME IInv, Prepare
    PROVE  IInv'
<1>1. act # Idle
  BY DEF Prepare, Idle
<1>2. /\ act' = [act EXCEPT !.step = "counting"] /\ act.step = "looking"
      /\ act' = [step |-> "counting", call |-> act.call, before |-> act.before,
                 heard |-> act.heard, count |-> act.count, read |-> act.read]
      /\ act' # Idle /\ act'.call = act.call /\ act'.step = "counting"
  BY <1>1, ActShape DEF IInv, Prepare, Idle
<1>3. TypeOK'
  <2>1. handlers' \in 0..MaxActions
    <3>1. handlers < actions
      BY <1>2 DEF IInv, CountInv
    <3>2. handlers \in 0..MaxActions /\ actions \in 0..MaxActions
      BY DEF IInv, TypeOK
    <3>3. handlers' \in {handlers, handlers + 1}
      BY <3>2 DEF Prepare
    <3> QED
      BY <3>1, <3>2, <3>3
  <2> QED
    BY <1>2, <2>1 DEF IInv, TypeOK, Prepare, web, life
<1>4. ActInv'
  BY <1>1, <1>2 DEF IInv, ActInv, Prepare, At, Looking, Awaiting, life
<1>5. CountInv' /\ AnswersConform'
  BY <1>2 DEF IInv, TypeOK, CountInv, AnswersConform, Prepare, NoReply, web, life
<1>6. role = "ready"
  <2>1. phase = "on"
    BY <1>1 DEF IInv, ActInv
  <2>2. role # "broken"
    BY <1>1 DEF IInv, ActInv, RoleInv, Blank, Prepare, HasControl, Shows, Live, Permitted
  <2> QED
    BY <2>1, <2>2 DEF IInv, TypeOK, RoleInv
<1>7. RoleInv' /\ LeftInv'
  BY <1>1, <1>2, <1>6 DEF IInv, ActInv, RoleInv, LeftInv, Prepare, web, life
<1>8. RunInv'
  BY <1>2 DEF IInv, RunInv, LookingInv, Still, Prepare, web, life, Looking, Awaiting
<1> QED
  BY <1>3, <1>4, <1>5, <1>7, <1>8 DEF IInv

LEMMA ReadCounterInv ==
    ASSUME IInv, ReadCounter
    PROVE  IInv'
<1>1. act # Idle
  BY DEF ReadCounter, Idle
<1>2. /\ act.step = "counting"
      /\ act' = [step |-> "clicking", call |-> act.call, before |-> counter,
                 heard |-> act.heard, count |-> act.count, read |-> act.read]
      /\ act' # Idle /\ act'.call = act.call /\ act'.step = "clicking"
  BY <1>1, ActShape DEF IInv, ReadCounter, Idle
<1>3. TypeOK'
  BY <1>2 DEF IInv, TypeOK, ReadCounter, web, life
<1>4. ActInv'
  BY <1>1, <1>2 DEF IInv, ActInv, ReadCounter, At, Looking, Awaiting, life
<1>5. CountInv' /\ AnswersConform'
  BY <1>2 DEF IInv, TypeOK, CountInv, AnswersConform, ReadCounter, NoReply, web, life
<1>6. RoleInv' /\ LeftInv'
  BY <1>1, <1>2 DEF IInv, ActInv, RoleInv, Blank, LeftInv, ReadCounter, web, life
<1>7. RunInv'
  BY <1>2 DEF IInv, RunInv, LookingInv, Still, ReadCounter, web, life, Looking, Awaiting
<1> QED
  BY <1>3, <1>4, <1>5, <1>6, <1>7 DEF IInv

LEMMA ClickInv ==
    ASSUME IInv, Click
    PROVE  IInv'
<1> DEFINE request == [call |-> act.call, run |-> runs]
           next == FirstWait(act.call.op)
           fails == act.call.op = "DeleteTodo" /\ handlers > 1
<1>1. act # Idle /\ act.step = "clicking"
  BY DEF Click, Idle
<1>2. /\ phase = "on" /\ role = "ready" /\ act.call \in Calls /\ act.call.op \in Changes
      /\ Permitted(model, act.call) /\ runs \in Nat /\ runs > 0
  BY <1>1 DEF IInv, TypeOK, ActInv, RoleInv
<1>3. requests' \in Seq([call : {c \in Calls : c.op \in Changes}, run : 1..runs]) /\ Len(requests') = Len(requests) + 1
  <2>1. request \in [call : {c \in Calls : c.op \in Changes}, run : 1..runs]
    BY <1>2
  <2> QED
    BY <2>1, AppendProperties DEF IInv, TypeOK, Click
<1>4. /\ UNCHANGED <<server, shown, redraws, counter, role, runs, actions, model, disturbed>>
      /\ reply' = NoReply /\ handlers' \in {0, handlers}
  BY DEF Click, life
<1>5. LookingInv \/ disturbed
  BY <1>1, <1>2 DEF IInv, RunInv, Looking
<1>6. AnswersConform'
  BY <1>4 DEF AnswersConform, NoReply
<1>9. /\ Len(requests) \in Nat /\ redraws \in Nat /\ counter \in Nat /\ handlers \in Nat /\ actions \in Nat
      /\ Len(requests) < actions /\ Len(requests) + redraws + counter <= actions
      /\ handlers <= actions
  BY <1>1 DEF IInv, TypeOK, CountInv
<1>10. /\ Len(requests') <= actions' /\ Len(requests') + redraws' + counter' <= actions' + 1
       /\ handlers' <= actions'
  BY <1>3, <1>4, <1>9
<1>7. CASE fails
  <2>1. act' = Idle /\ phase' = "failed" /\ act'.step = "idle"
    BY <1>7 DEF Click, Idle
  <2>2. disturbed
    BY <1>1, <1>5, <1>7 DEF LookingInv
  <2>3. TypeOK'
    BY <1>3, <1>4, <2>1 DEF IInv, TypeOK
  <2>4. CountInv'
    BY <1>10, <2>1 DEF CountInv
  <2>5. ActInv' /\ RoleInv' /\ LeftInv' /\ RunInv'
    BY <1>2, <1>4, <2>1, <2>2 DEF ActInv, RoleInv, LeftInv, RunInv
  <2> QED
    BY <1>6, <2>3, <2>4, <2>5 DEF IInv
<1>8. CASE ~fails
  <2>1. act' = [act EXCEPT !.step = next] /\ phase' = phase
    BY <1>8 DEF Click
  <2>2. next \in Awaiting /\ (next = "responding" <=> act.call.op = "PinTodo")
    BY DEF FirstWait, Awaiting
  <2>3. /\ act' = [step |-> next, call |-> act.call, before |-> act.before,
                   heard |-> act.heard, count |-> act.count, read |-> act.read]
        /\ act'.step = next /\ act'.call = act.call /\ act' # Idle
        /\ act'.before = act.before /\ act'.heard = act.heard
    BY <1>1, <2>1, ActShape DEF IInv, Idle
  <2>4. TypeOK'
    BY <1>3, <1>4, <2>1, <2>2, <2>3 DEF IInv, TypeOK, Awaiting
  <2>5. CountInv'
    <3>1. next \notin {"looking", "counting", "clicking"}
      BY DEF FirstWait
    <3> HIDE DEF next
    <3> QED
      BY <1>10, <2>3, <3>1 DEF CountInv
  <2>6. ActInv'
    BY <1>2, <1>4, <2>1, <2>2, <2>3 DEF IInv, ActInv, Awaiting
  <2>7. RoleInv' /\ LeftInv'
    BY <1>2, <1>4, <2>1 DEF IInv, RoleInv, LeftInv
  <2>8. RunInv'
    <3> SUFFICES ASSUME ~disturbed PROVE AwaitingInv'
      BY <1>4, <2>2, <2>3 DEF RunInv, Looking, Awaiting
    <3>1. LookingInv
      BY <1>5
    <3>2. handlers' = 0
      BY <1>1, <1>8, <3>1 DEF Click, LookingInv
    <3>3. act.heard = "nothing"
      BY <3>1 DEF LookingInv
    <3>4. requests' = <<request>>
      BY <3>1 DEF LookingInv, Still, Click
    <3> QED
      BY <1>1, <1>4, <2>2, <2>3, <3>1, <3>2, <3>3, <3>4 DEF AwaitingInv, Sent, LookingInv, Still
  <2> QED
    BY <1>6, <2>4, <2>5, <2>6, <2>7, <2>8 DEF IInv
<1> QED
  BY <1>7, <1>8

-----------------------------------------------------------------------------
(* An action that reads *)

LEMMA CountCardsInv ==
    ASSUME IInv, CountCards
    PROVE  IInv'
<1>1. act # Idle
  BY DEF CountCards, Idle
<1>2. /\ act.step = "looking" /\ act.call.op = "ListTodo"
      /\ act' = [step |-> "listing", call |-> act.call, before |-> act.before,
                 heard |-> act.heard, count |-> Len(Cards(shown)), read |-> act.read]
      /\ act' # Idle /\ act'.call = act.call /\ act'.step = "listing"
      /\ act'.heard = act.heard /\ act'.read = act.read /\ act'.count = Len(Cards(shown))
  BY <1>1, ActShape DEF IInv, CountCards, Idle
<1>3. TypeOK'
  BY <1>2 DEF IInv, TypeOK, CountCards, web, life
<1>4. ActInv'
  BY <1>1, <1>2 DEF IInv, ActInv, CountCards, Looking, Awaiting, Changes, life
<1>5. CountInv' /\ AnswersConform'
  BY <1>2 DEF IInv, TypeOK, CountInv, AnswersConform, CountCards, NoReply, web, life
<1>6. RoleInv' /\ LeftInv'
  BY <1>1, <1>2 DEF IInv, ActInv, RoleInv, Blank, LeftInv, CountCards, web, life
<1>7. RunInv'
  <2> SUFFICES ASSUME ~disturbed PROVE LookingInv'
    BY <1>2 DEF RunInv, CountCards, Looking, Awaiting
  <2>1. LookingInv
    BY <1>1, <1>2 DEF IInv, ActInv, RunInv, Looking
  <2>2. UNCHANGED <<requests, redraws, server, model, shown, handlers>>
    BY DEF CountCards, web
  <2>3. act.read = << >> /\ Len(act.read) = 0
    BY <1>2, <2>1 DEF LookingInv
  <2>4. act'.read = [n \in 1..Len(act'.read) |-> Card(shown, Cards(shown)[n])]
    BY <1>2, <2>3
  <2> QED
    BY <1>2, <2>1, <2>2, <2>3, <2>4 DEF LookingInv, Still
<1> QED
  BY <1>3, <1>4, <1>5, <1>6, <1>7 DEF IInv

LEMMA ReadCardInv ==
    ASSUME IInv, ReadCard
    PROVE  IInv'
<1> DEFINE card(n) == Card(shown, Cards(shown)[n])
           read == Append(act.read, card(Len(act.read) + 1))
<1>1. act # Idle
  BY DEF ReadCard, Idle
<1>2. /\ act.step = "listing"
      /\ act' = [step |-> "listing", call |-> act.call, before |-> act.before,
                 heard |-> act.heard, count |-> act.count, read |-> read]
      /\ act' # Idle /\ act'.call = act.call /\ act'.step = "listing"
      /\ act'.heard = act.heard /\ act'.read = read /\ act'.count = act.count
  BY <1>1, ActShape DEF IInv, ReadCard, Idle
<1>3. TypeOK'
  BY <1>2 DEF IInv, TypeOK, ReadCard, web, life
<1>4. ActInv'
  BY <1>1, <1>2 DEF IInv, ActInv, ReadCard, Looking, Awaiting, life
<1>5. CountInv' /\ AnswersConform'
  BY <1>2 DEF IInv, TypeOK, CountInv, AnswersConform, ReadCard, NoReply, web, life
<1>6. RoleInv' /\ LeftInv'
  BY <1>1, <1>2 DEF IInv, ActInv, RoleInv, Blank, LeftInv, ReadCard, web, life
<1>7. RunInv'
  <2> SUFFICES ASSUME ~disturbed PROVE LookingInv'
    BY <1>2 DEF RunInv, ReadCard, Looking, Awaiting
  <2>1. LookingInv
    BY <1>1, <1>2 DEF IInv, ActInv, RunInv, Looking
  <2>2. UNCHANGED <<requests, redraws, server, model, shown, handlers>>
    BY DEF ReadCard, web
  <2>3. Len(act.read) \in Nat /\ act.read = [n \in 1..Len(act.read) |-> card(n)]
    BY <1>2, <2>1 DEF LookingInv
  <2>4. Len(read) = Len(act.read) + 1 /\ read = [n \in 1..(Len(act.read) + 1) |-> card(n)]
    <3> DEFINE S == {card(n) : n \in Nat}
               l == Len(act.read)
    <3>1. act.read \in Seq(S)
      <4>1. [n \in 1..l |-> card(n)] \in Seq(S)
        BY <2>3, IsASeq
      <4> QED
        BY <2>3, <4>1
    <3>2. card(l + 1) \in S
      BY <2>3
    <3>3. /\ Len(read) = l + 1 /\ read \in Seq(S)
          /\ read[l + 1] = card(l + 1)
          /\ \A n \in 1..l : read[n] = act.read[n]
      BY <3>1, <3>2, AppendProperties
    <3>4. \A n \in 1..l : act.read[n] = card(n)
      BY <2>3
    <3>5. \A n \in 1..(l + 1) : read[n] = card(n)
      BY <2>3, <3>3, <3>4
    <3> QED
      BY <3>3, <3>5
  <2> HIDE DEF read, card
  <2> QED
    BY <1>2, <2>1, <2>2, <2>3, <2>4 DEF LookingInv, Still, card
<1> QED
  BY <1>3, <1>4, <1>5, <1>6, <1>7 DEF IInv

-----------------------------------------------------------------------------
(* An action that returns *)

\* A page that was never logged in has no card to change.
LEMMA BrokenCalls ==
    ASSUME IInv, act # Idle, role = "broken"
    PROVE  act.call.op \in {"CreateTodo", "ListTodo"} /\ model = << >>
<1>1. model = << >> /\ Permitted(model, act.call) /\ act.call \in Calls
  BY DEF IInv, ActInv, RoleInv
<1>2. Live(model) = {} /\ 1..Len(model) = {}
  BY <1>1 DEF Live
<1> QED
  BY <1>1, <1>2 DEF Permitted, Calls

\* What returning makes of an action that has taken effect on server and page.
LEMMA ReturnInv ==
    ASSUME IInv, act # Idle, Return, UNCHANGED <<web, handlers>>, AnswersConform',
           role = "broken" => act.call.op = "ListTodo",
           ~disturbed => /\ requests = << >> /\ redraws = 0 /\ handlers = 0
                         /\ server = Applied(model, act.call) /\ shown = server
    PROVE  IInv'
<1>1. /\ act'.step = "idle" /\ act' = Idle /\ act.call \in Calls /\ Permitted(model, act.call)
      /\ phase = "on" /\ phase' = "on" /\ model' = Applied(model, act.call)
      /\ UNCHANGED <<server, requests, shown, redraws, counter, handlers, disturbed, role, runs, actions>>
  BY DEF IInv, ActInv, Return, Idle, web, life
<1>2. model' \in Seq(Todo) /\ Len(model') <= MaxTodos
  BY <1>1, AppliedType DEF IInv, TypeOK
<1>3. TypeOK'
  BY <1>1, <1>2 DEF IInv, TypeOK
<1>4. ActInv' /\ LeftInv'
  BY <1>1 DEF IInv, ActInv, LeftInv
<1>5. CountInv'
  BY <1>1 DEF IInv, TypeOK, CountInv
<1>6. RoleInv'
  <2>1. role = "broken" => Applied(model, act.call) = model
    BY DEF Applied
  <2> QED
    BY <1>1, <2>1 DEF IInv, RoleInv, Blank
<1>7. RunInv'
  BY <1>1 DEF RunInv, IdleInv, Looking, Awaiting
<1> QED
  BY <1>3, <1>4, <1>5, <1>6, <1>7 DEF IInv

\* Before its click an action of an undisturbed run finds page, server and model alike.
LEMMA LooksStill ==
    ASSUME IInv, act # Idle, act.step \in Looking, ~disturbed
    PROVE  LookingInv
  BY DEF IInv, ActInv, RunInv

LEMMA SkipInv ==
    ASSUME IInv, Skip
    PROVE  IInv'
<1>1. act # Idle /\ act.step = "looking" /\ act.call.op \in Changes \ {"CreateTodo"} /\ ~Shows(act.call)
  BY DEF Skip, Idle, HasControl
<1>2. Return /\ UNCHANGED <<web, handlers>> /\ AnswersConform'
  BY DEF Skip, AnswersConform, NoReply
<1>3. role # "broken"
  BY <1>1, BrokenCalls DEF Changes
<1>4. ASSUME ~disturbed
      PROVE  /\ requests = << >> /\ redraws = 0 /\ handlers = 0
             /\ server = Applied(model, act.call) /\ shown = server
  <2>1. LookingInv
    BY <1>1, <1>4, LooksStill DEF Looking
  <2>2. model \in Seq(Todo) /\ act.call \in Calls /\ Permitted(model, act.call) /\ shown = model
    BY <1>1, <2>1 DEF IInv, TypeOK, ActInv, LookingInv, Still
  <2>3. Applied(model, act.call) = model
    BY <1>1, <2>2, SkipChangesNothing
  <2> QED
    BY <1>1, <2>1, <2>3 DEF LookingInv, Still
<1> QED
  BY <1>1, <1>2, <1>3, <1>4, ReturnInv

LEMMA ReadInv ==
    ASSUME IInv, Read
    PROVE  IInv'
<1>1. act # Idle /\ act.step = "looking" /\ act.call.op = "ReadTodo"
  BY DEF Read, Idle
<1>2. Return /\ UNCHANGED <<web, handlers>> /\ reply' = [result |-> Answer(shown, act.call), expected |-> Answer(model, act.call)]
  BY DEF Read, Replied
<1>3. role # "broken"
  BY <1>1, BrokenCalls
<1>4. ASSUME ~disturbed
      PROVE  /\ requests = << >> /\ redraws = 0 /\ handlers = 0
             /\ server = Applied(model, act.call) /\ shown = server /\ shown = model
  <2>1. LookingInv
    BY <1>1, <1>4, LooksStill DEF Looking
  <2> QED
    BY <1>1, <2>1 DEF LookingInv, Still, Applied
<1>5. AnswersConform'
  BY <1>2, <1>4 DEF AnswersConform, Return
<1> QED
  BY <1>1, <1>2, <1>3, <1>4, <1>5, ReturnInv

LEMMA ReturnListInv ==
    ASSUME IInv, ReturnList
    PROVE  IInv'
<1>1. act # Idle /\ act.step = "listing" /\ Len(act.read) = act.count
  BY DEF ReturnList, Idle
<1>2. /\ Return /\ UNCHANGED <<web, handlers>>
      /\ reply' = [result |-> act.read, expected |-> Answer(model, act.call)]
  BY DEF ReturnList, Replied
<1>3. act.call.op = "ListTodo"
  BY <1>1 DEF IInv, ActInv
<1>4. ASSUME ~disturbed
      PROVE  /\ requests = << >> /\ redraws = 0 /\ handlers = 0
             /\ server = Applied(model, act.call) /\ shown = server
             /\ act.read = Answer(model, act.call)
  <2>1. LookingInv
    BY <1>1, <1>4, LooksStill DEF Looking
  <2>2. /\ shown = model /\ server = model /\ Applied(model, act.call) = model
        /\ requests = << >> /\ redraws = 0
    BY <1>3, <2>1 DEF LookingInv, Still, Applied
  <2>3. act.read = [n \in 1..Len(Cards(model)) |-> Card(model, Cards(model)[n])]
    BY <1>1, <2>1, <2>2 DEF LookingInv
  <2>4. handlers = 0
    BY <1>1, <2>1 DEF LookingInv
  <2> QED
    BY <1>3, <2>2, <2>3, <2>4 DEF Answer
<1>5. AnswersConform'
  BY <1>2, <1>4 DEF AnswersConform, Return
<1> QED
  BY <1>1, <1>2, <1>3, <1>4, <1>5, ReturnInv

LEMMA PinAcceptedInv ==
    ASSUME IInv, PinAccepted
    PROVE  IInv'
<1>1. act # Idle
  BY DEF PinAccepted, Idle
<1>2. /\ act.step = "responding" /\ act.heard = "ok"
      /\ act' = [step |-> "waiting", call |-> act.call, before |-> act.before,
                 heard |-> act.heard, count |-> act.count, read |-> act.read]
      /\ act' # Idle /\ act'.call = act.call /\ act'.step = "waiting"
      /\ act'.heard = act.heard /\ act'.before = act.before
  BY <1>1, ActShape DEF IInv, PinAccepted, Idle
<1>3. TypeOK'
  BY <1>2 DEF IInv, TypeOK, PinAccepted, web, life
<1>4. ActInv'
  BY <1>1, <1>2 DEF IInv, ActInv, PinAccepted, Looking, Awaiting, Changes, life
<1>5. CountInv' /\ AnswersConform'
  BY <1>2 DEF IInv, TypeOK, CountInv, AnswersConform, PinAccepted, NoReply, web, life
<1>6. RoleInv' /\ LeftInv'
  BY <1>1, <1>2 DEF IInv, ActInv, RoleInv, Blank, LeftInv, PinAccepted, web, life
<1>7. RunInv'
  <2> SUFFICES ASSUME ~disturbed PROVE AwaitingInv'
    BY <1>2 DEF RunInv, PinAccepted, Looking, Awaiting
  <2>1. AwaitingInv /\ act.call.op = "PinTodo"
    BY <1>1, <1>2 DEF IInv, ActInv, RunInv, Awaiting
  <2>2. UNCHANGED <<requests, redraws, server, model, shown, handlers, counter>>
    BY DEF PinAccepted, web
  <2>3. ~Sent /\ (Executed \/ Redrawn)
    BY <1>2, <2>1 DEF AwaitingInv, Sent
  <2> QED
    BY <1>2, <2>1, <2>2, <2>3 DEF AwaitingInv, Executed, Redrawn
<1> QED
  BY <1>3, <1>4, <1>5, <1>6, <1>7 DEF IInv

\* Only a disturbed run has its pin rejected: the server accepts what is permitted.
LEMMA PinRejectedInv ==
    ASSUME IInv, PinRejected
    PROVE  IInv'
<1>1. act # Idle /\ act.step = "responding" /\ act.heard = "rejected"
  BY DEF PinRejected, Idle
<1>2. Return /\ UNCHANGED <<web, handlers>> /\ AnswersConform'
  BY DEF PinRejected, AnswersConform, NoReply
<1>3. act.call.op = "PinTodo"
  BY <1>1 DEF IInv, ActInv
<1>4. disturbed
  BY <1>1, <1>3 DEF IInv, ActInv, RunInv, AwaitingInv, Awaiting, Sent
<1>5. role # "broken"
  BY <1>1, <1>3, BrokenCalls
<1> QED
  BY <1>1, <1>2, <1>4, <1>5, ReturnInv

LEMMA SeeRedrawInv ==
    ASSUME IInv, SeeRedraw
    PROVE  IInv'
<1>1. act # Idle /\ act.step = "waiting" /\ counter # act.before
  BY DEF SeeRedraw, Idle, ListRedrawn
<1>2. Return /\ UNCHANGED <<web, handlers>> /\ AnswersConform'
  BY DEF SeeRedraw, AnswersConform, NoReply
<1>3. role # "broken"
  BY <1>1 DEF IInv, RoleInv
<1>4. ASSUME ~disturbed
      PROVE  /\ requests = << >> /\ redraws = 0 /\ handlers = 0
             /\ server = Applied(model, act.call) /\ shown = server
  <2>1. AwaitingInv
    BY <1>1, <1>4 DEF IInv, ActInv, RunInv, Awaiting
  <2>2. ~Sent /\ ~Executed
    BY <1>1 DEF Sent, Executed
  <2> QED
    BY <2>1, <2>2 DEF AwaitingInv, Redrawn
<1> QED
  BY <1>1, <1>2, <1>3, <1>4, ReturnInv

LEMMA TimeOutInv ==
    ASSUME IInv, TimeOut
    PROVE  IInv'
<1>1. /\ act # Idle /\ act' = Idle /\ act'.step = "idle" /\ disturbed' = TRUE
      /\ UNCHANGED <<server, requests, shown, redraws, counter, handlers, role, runs, actions>>
      /\ reply' = NoReply
  BY DEF TimeOut, Idle, web, life
<1>2. /\ act.call \in Calls /\ Permitted(model, act.call) /\ phase = "on"
      /\ phase' \in {"on", "failed"} /\ model' \in {model, Applied(model, act.call)}
  BY <1>1 DEF IInv, ActInv, TimeOut
<1>3. model' \in Seq(Todo) /\ Len(model') <= MaxTodos
  BY <1>2, AppliedType DEF IInv, TypeOK
<1>4. TypeOK'
  BY <1>1, <1>2, <1>3 DEF IInv, TypeOK
<1>5. CountInv'
  BY <1>1 DEF IInv, TypeOK, CountInv
<1>6. RoleInv'
  <2>1. role = "broken" => model' = model
    BY <1>1, BrokenCalls DEF TimeOut, Applied
  <2> QED
    BY <1>1, <1>2, <2>1 DEF IInv, RoleInv, Blank
<1>7. ActInv' /\ LeftInv' /\ RunInv' /\ AnswersConform'
  BY <1>1 DEF ActInv, LeftInv, RunInv, AnswersConform
<1> QED
  BY <1>4, <1>5, <1>6, <1>7 DEF IInv

-----------------------------------------------------------------------------
(* The server and the page *)

\* An undisturbed run has a request only of the action under way, whose page is open.
LEMMA OwnRequest ==
    ASSUME IInv, ~disturbed, requests # << >>, phase \in {"on", "failed"}
    PROVE  /\ phase = "on" /\ act # Idle /\ act.step \in Awaiting
           /\ Sent /\ handlers = 0
           /\ act.call \in Calls /\ act.call.op \in Changes /\ Permitted(model, act.call)
<1>1. phase = "on"
  BY DEF IInv, LeftInv
<1>2. act # Idle
  BY <1>1 DEF IInv, RunInv, IdleInv
<1>3. act.step \notin Looking
  BY <1>1 DEF IInv, RunInv, LookingInv, Still
<1>4. act.step \in Awaiting /\ act.call \in Calls /\ act.call.op \in Changes /\ Permitted(model, act.call)
  BY <1>2, <1>3 DEF IInv, ActInv
<1>5. Sent /\ handlers = 0
  BY <1>1, <1>4 DEF IInv, RunInv, AwaitingInv, Executed, Redrawn
<1> QED
  BY <1>1, <1>2, <1>4, <1>5

LEMMA HandleInv ==
    ASSUME IInv, NEW i \in 1..Len(requests), Handle(i)
    PROVE  IInv'
<1> DEFINE request == requests[i]
           accepted == Accepts(request.call)
           mine == accepted /\ request.run = runs /\ PageOpen
           answer == IF accepted THEN "ok" ELSE "rejected"
<1>1. /\ requests' = RemoveAt(requests, i)
      /\ server' = IF accepted THEN Applied(server, request.call) ELSE server
      /\ redraws' = redraws + (IF mine THEN 1 ELSE 0)
      /\ act' = IF Hears(request) THEN [act EXCEPT !.heard = answer] ELSE act
      /\ disturbed' = (disturbed \/ request.run # runs \/ ~PageOpen)
      /\ reply' = NoReply
      /\ UNCHANGED <<shown, counter, phase, handlers, role, runs, actions, model>>
  BY DEF Handle, life
<1>2. /\ request \in [call : {c \in Calls : c.op \in Changes}, run : 1..runs]
      /\ request.call \in Calls
      /\ requests' \in Seq([call : {c \in Calls : c.op \in Changes}, run : 1..runs])
      /\ Len(requests') = Len(requests) - 1
      /\ Len(requests) = 1 => requests' = << >>
  <2> DEFINE S == [call : {c \in Calls : c.op \in Changes}, run : 1..runs]
  <2>1. requests \in Seq(S)
    BY DEF IInv, TypeOK
  <2> HIDE DEF S
  <2>2. request \in S
    BY <2>1, ElementOfSeq
  <2>3. /\ requests' \in Seq(S) /\ Len(requests') = Len(requests) - 1
        /\ Len(requests) = 1 => requests' = << >>
    BY <1>1, <2>1, Removed
  <2> USE DEF S
  <2>4. request.call \in Calls
    BY <2>2
  <2> HIDE DEF request
  <2> QED
    BY <2>2, <2>3, <2>4
<1>3. role = "ready" /\ requests # << >> /\ Len(requests) \in Nat
  BY DEF IInv, TypeOK, RoleInv
<1>4. server' \in Seq(Todo)
  BY <1>1, <1>2, AppliedType DEF IInv, TypeOK
<1>5. /\ act'.step = act.step
      /\ act = Idle => act' = Idle
      /\ act # Idle => /\ act' # Idle /\ act'.call = act.call /\ act'.before = act.before
                       /\ act'.step = act.step
                       /\ act' = [step |-> act'.step, call |-> act'.call, before |-> act'.before,
                                  heard |-> act'.heard, count |-> act'.count, read |-> act'.read]
      /\ Hears(request) => act'.heard = answer
      /\ ~Hears(request) => act' = act
  <2>1. CASE Hears(request)
    <3>1. act # Idle
      BY <2>1 DEF Hears, Idle
    <3>2. act' = [step |-> act.step, call |-> act.call, before |-> act.before,
                  heard |-> answer, count |-> act.count, read |-> act.read]
      BY <1>1, <2>1, <3>1, ActShape DEF IInv
    <3>3. act'.step # "idle"
      BY <3>1, <3>2, ActShape DEF IInv
    <3> HIDE DEF answer
    <3> QED
      BY <2>1, <3>1, <3>2, <3>3 DEF Idle
  <2>2. CASE ~Hears(request)
    <3>1. act' = act
      BY <1>1, <2>2
    <3>2. act # Idle => act = [step |-> act.step, call |-> act.call, before |-> act.before,
                               heard |-> act.heard, count |-> act.count, read |-> act.read]
      BY ActShape DEF IInv
    <3> QED
      BY <2>2, <3>1, <3>2
  <2> QED
    BY <2>1, <2>2
<1> HIDE DEF accepted, request
<1>6. CountInv' /\ redraws' \in 0..(MaxActions + 1)
  <2>0. redraws \in Nat /\ redraws' \in {redraws, redraws + 1} /\ Len(requests) \in Nat /\ Len(requests') \in Nat
    <3>1. redraws' = redraws + 1 \/ redraws' = redraws
      BY <1>1 DEF IInv, TypeOK
    <3> QED
      BY <1>2, <1>3, <3>1, LenProperties DEF IInv, TypeOK
  <2>1. Len(requests') + redraws' <= Len(requests) + redraws /\ redraws' \in Nat /\ Len(requests') \in Nat
    BY <1>2, <2>0
  <2>2. /\ redraws \in Nat /\ counter \in Nat /\ actions \in Nat /\ actions <= MaxActions
        /\ Len(requests) \in Nat /\ Len(requests') <= Len(requests)
    BY <1>2 DEF IInv, TypeOK
  <2>3. CountInv
    BY DEF IInv
  <2>4. act'.step = act.step /\ counter' = counter /\ handlers' = handlers /\ actions' = actions
    BY <1>1, <1>5
  <2>5. CountInv'
    BY <2>1, <2>2, <2>3, <2>4 DEF CountInv
  <2>6. redraws' <= MaxActions + 1
    BY <2>1, <2>2, <2>4, <2>5 DEF CountInv
  <2> QED
    BY <2>1, <2>5, <2>6
<1>7. TypeOK'
  <2>1. disturbed' \in BOOLEAN
    BY <1>1, Zenon
  <2> QED
    BY <1>1, <1>2, <1>4, <1>5, <1>6, <2>1 DEF IInv, TypeOK
<1>8. ActInv'
  BY <1>1, <1>5 DEF IInv, ActInv
<1>9. RoleInv' /\ AnswersConform'
  BY <1>1, <1>3 DEF IInv, RoleInv, Blank, AnswersConform, NoReply, PageOpen
<1>10. ASSUME ~disturbed'
       PROVE  /\ phase = "on" /\ requests' = << >> /\ act.step \in Awaiting /\ AwaitingInv'
  <2>1. ~disturbed /\ request.run = runs /\ PageOpen
    BY <1>1, <1>10
  <2>2. /\ phase = "on" /\ act # Idle /\ act.step \in Awaiting /\ Sent /\ handlers = 0
        /\ act.call \in Calls /\ act.call.op \in Changes /\ Permitted(model, act.call)
    BY <1>3, <2>1, OwnRequest DEF PageOpen
  <2>3. requests = <<[call |-> act.call, run |-> runs]>> /\ Len(requests) = 1 /\ i = 1
    BY <2>2 DEF Sent
  <2>4. request.call = act.call /\ requests' = << >>
    BY <1>2, <2>3 DEF request
  <2>5. accepted
    BY <2>2, <2>4, PermittedIsAccepted DEF Sent, accepted
  <2>6. server' = Applied(model, act.call) /\ redraws' = 1 /\ counter' = act.before
    BY <1>1, <2>1, <2>2, <2>4, <2>5 DEF Sent
  <2>7. act'.heard # "rejected"
    <3>1. CASE Hears(request)
      BY <1>5, <2>5, <3>1
    <3>2. CASE ~Hears(request)
      BY <1>5, <2>1, <2>2, <2>4, <3>2 DEF Hears, Sent, IInv, RunInv, AwaitingInv
    <3> QED
      BY <3>1, <3>2
  <2> QED
    BY <1>1, <1>5, <2>2, <2>4, <2>6, <2>7 DEF AwaitingInv, Executed
<1>11. LeftInv' /\ RunInv'
  BY <1>1, <1>5, <1>10 DEF LeftInv, RunInv, Awaiting, Looking, Idle
<1> QED
  BY <1>6, <1>7, <1>8, <1>9, <1>11 DEF IInv

LEMMA RedrawInv ==
    ASSUME IInv, Redraw
    PROVE  IInv'
<1>1. /\ redraws > 0 /\ redraws' = redraws - 1 /\ shown' = server /\ counter' = counter + 1
      /\ reply' = NoReply
      /\ UNCHANGED <<server, requests, phase, handlers, act, role, runs, actions, model, disturbed>>
  BY DEF Redraw, adapter, life
<1>2. /\ redraws \in Nat /\ counter \in Nat /\ redraws' \in Nat /\ counter' \in Nat
      /\ Len(requests) \in Nat /\ actions \in Nat /\ actions <= MaxActions
  BY <1>1 DEF IInv, TypeOK
<1>3. CountInv'
  BY <1>1, <1>2 DEF IInv, CountInv
<1>4. TypeOK'
  <2>1. counter' <= MaxActions + 1 /\ redraws' <= MaxActions + 1
    BY <1>1, <1>2, <1>3 DEF CountInv
  <2> QED
    BY <1>1, <1>2, <2>1 DEF IInv, TypeOK
<1>5. ActInv' /\ LeftInv' /\ AnswersConform'
  BY <1>1 DEF IInv, ActInv, LeftInv, AnswersConform, NoReply
<1>6. role = "ready" /\ phase \in {"on", "failed"}
  BY <1>1 DEF IInv, TypeOK, RoleInv, Blank
<1>7. RoleInv'
  BY <1>1, <1>6 DEF IInv, RoleInv
<1>8. RunInv'
  <2> SUFFICES ASSUME phase = "on", ~disturbed
               PROVE  /\ act = Idle => IdleInv'
                      /\ act.step \in Looking => FALSE
                      /\ act.step \in Awaiting => AwaitingInv'
    BY <1>1 DEF RunInv
  <2>1. ASSUME act = Idle PROVE IdleInv'
    BY <1>1, <1>2, <2>1 DEF IInv, RunInv, IdleInv
  <2>2. act.step \notin Looking
    BY <1>1 DEF IInv, RunInv, LookingInv, Still
  <2>3. ASSUME act.step \in Awaiting PROVE AwaitingInv'
    <3>1. AwaitingInv
      BY <2>3 DEF IInv, RunInv
    <3>2. Executed /\ handlers = 0 /\ act.heard # "rejected"
      BY <1>1, <3>1 DEF AwaitingInv, Sent, Redrawn
    <3> QED
      BY <1>1, <1>2, <3>2 DEF AwaitingInv, Executed, Redrawn
  <2> QED
    BY <2>1, <2>2, <2>3
<1> QED
  BY <1>3, <1>4, <1>5, <1>7, <1>8 DEF IInv

-----------------------------------------------------------------------------
LEMMA StutterInv ==
    ASSUME IInv, UNCHANGED vars
    PROVE  IInv'
<1>1. UNCHANGED <<server, requests, shown, redraws, counter, phase, handlers, act, role, runs, actions, model, disturbed, reply>>
  BY DEF vars, web, adapter, life, ghosts
<1>2. TypeOK' /\ ActInv' /\ CountInv'
  BY <1>1 DEF IInv, TypeOK, ActInv, CountInv
<1>3. RoleInv' /\ LeftInv' /\ AnswersConform'
  BY <1>1 DEF IInv, RoleInv, Blank, LeftInv, AnswersConform
<1>4. RunInv'
  BY <1>1 DEF IInv, RunInv, IdleInv, LookingInv, Still, AwaitingInv, Sent, Executed, Redrawn
<1> QED
  BY <1>2, <1>3, <1>4 DEF IInv

LEMMA StepInv == IInv /\ [Next]_vars => IInv'
<1> SUFFICES ASSUME IInv, [Next]_vars PROVE IInv'
  OBVIOUS
<1>1. ASSUME NEW drawn \in BOOLEAN, StartRun(drawn) PROVE IInv'
  BY <1>1, StartRunInv
<1>2. ASSUME StartBrokenRun PROVE IInv'
  BY <1>2, StartBrokenRunInv
<1>3. ASSUME CloseAll PROVE IInv'
  BY <1>3, CloseAllInv
<1>4. ASSUME NEW outcome \in Outcomes, FirstInitFails(outcome) \/ EndRun(outcome) PROVE IInv'
  BY <1>4, FirstInitFailsInv, EndRunInv
<1>11. ASSUME NEW signedIn \in BOOLEAN, NEW drawn \in BOOLEAN, LoginFails(signedIn, drawn) PROVE IInv'
  BY <1>11, LoginFailsInv
<1>5. ASSUME NEW call \in Calls, Begin(call) PROVE IInv'
  BY <1>5, BeginInv
<1>6. ASSUME Proceed PROVE IInv'
  BY <1>6, SkipInv, PrepareInv, ReadCounterInv, ClickInv, PinAcceptedInv, PinRejectedInv,
     SeeRedrawInv, ReadInv, CountCardsInv, ReadCardInv, ReturnListInv DEF Proceed
<1>7. ASSUME TimeOut PROVE IInv'
  BY <1>7, TimeOutInv
<1>8. ASSUME NEW i \in 1..Len(requests), Handle(i) PROVE IInv'
  BY <1>8, HandleInv
<1>9. ASSUME Redraw PROVE IInv'
  BY <1>9, RedrawInv
<1>10. ASSUME UNCHANGED vars PROVE IInv'
  BY <1>10, StutterInv
<1> QED
  BY <1>1, <1>2, <1>3, <1>4, <1>5, <1>6, <1>7, <1>8, <1>9, <1>10, <1>11 DEF Next

-----------------------------------------------------------------------------
\* Whatever the order of requests, redraws, timeouts, failing inits and cleanups
\* (todo_adapters.ts:80-351): as long as a run is undisturbed, nothing is on its
\* way when an action begins, and the only request afterwards is its own.
THEOREM Invariant == Spec => []IInv
  BY InitInv, StepInv, PTL DEF Spec

\* The variables keep their types; todo.fizz never has more todos than its limit,
\* and the counter and the pending redraws stay below the number of actions.
THEOREM TypeCorrect == Spec => []TypeOK
<1>1. IInv => TypeOK
  BY DEF IInv
<1> QED
  BY <1>1, Invariant, PTL

\* The wait for another value of #todoUpdateCounter (todo_adapters.ts:220-236) is
\* enough: in every run that nothing disturbs, server and page are as todo.fizz
\* says whenever the runner compares, for any number of todos, actions and runs.
THEOREM RunsConform == Spec => []Conforms
<1>1. IInv => Conforms
  BY DEF IInv, RunInv, IdleInv, Conforms
<1> QED
  BY <1>1, Invariant, PTL

\* ReadTodo and ListTodo read one card after the other, while the page is free to
\* redraw (100-137, 176-189), and still return what todo.fizz returns.
THEOREM AnswersAreRight == Spec => []AnswersConform
<1>1. IInv => AnswersConform
  BY DEF IInv
<1> QED
  BY <1>1, Invariant, PTL
=============================================================================
