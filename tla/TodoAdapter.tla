----------------------------- MODULE TodoAdapter -----------------------------
(***************************************************************************)
(* The adapters of the todo application (TypeScript and Java) against a web *)
(* page that catches up with its server in its own time.  An action clicks, *)
(* and waits until a counter on the page shows that the list has been       *)
(* redrawn; a run of actions starts with init and ends with cleanup.        *)
(*                                                                         *)
(* The page and the server are not in this repository.  They are modelled   *)
(* as the adapters use them: a click sends one request, the server executes *)
(* it as todo.fizz says or rejects it, and for every request it executes    *)
(* the page that sent it redraws its list once, from the state of the       *)
(* server at that moment, and increments #todoUpdateCounter.  A page that   *)
(* has just been opened draws its list like that too.                       *)
(***************************************************************************)
EXTENDS SequencesExt

CONSTANTS
    Values,         \* TODO_VALUES
    MaxTodos,       \* MAX_TODOS
    MaxActions,     \* bound on the number of actions in all runs together
    MaxRuns         \* bound on the number of runs

ASSUME MaxTodosAssumption == MaxTodos \in Nat
ASSUME MaxActionsAssumption == MaxActions \in Nat
ASSUME MaxRunsAssumption == MaxRuns \in Nat

VARIABLES
    server,     \* the todos in the database, by id; deleted ones are marked
    requests,   \* what pages have sent and the server has not yet handled
    role,       \* todoappRole: "none", "ready", or "broken" when its login failed
    phase,      \* "off", "on", "failed" when an action or init threw, "closed"
    shown,      \* the todos as the page shows them
    redraws,    \* how many redraws of the page are on their way
    counter,    \* #todoUpdateCounter
    handlers,   \* dialog handlers registered on the page and not yet used
    act,        \* the action under way and where it is
    runs,       \* number of runs started; requests name theirs
    actions,    \* number of actions begun
    model,      \* ghost: the todos according to todo.fizz
    disturbed,  \* ghost: a wait of this run timed out, an action began before its page had
                \* drawn its first list, the server handled a request of an earlier run,
                \* or the cleanup before this run threw
    reply       \* ghost: what a ReadTodo or ListTodo has just returned

web == <<server, requests, shown, redraws, counter>>
adapter == <<phase, handlers, act>>
life == <<role, runs, actions>>
ghosts == <<model, disturbed, reply>>
vars == <<web, adapter, life, ghosts>>

Ids == 1..MaxTodos
Todo == [value : Values, deleted : BOOLEAN, pinned : BOOLEAN]

Changes == {"CreateTodo", "UpdateTodo", "DeleteTodo", "PinTodo", "UnPinTodo"}
Calls == [op : {"CreateTodo"}, id : {0}, value : Values]
         \cup [op : {"UpdateTodo"}, id : Ids, value : Values]
         \cup [op : {"DeleteTodo", "PinTodo", "UnPinTodo", "ReadTodo"}, id : Ids, value : {""}]
         \cup [op : {"ListTodo"}, id : {0}, value : {""}]

NoReply == [result |-> << >>, expected |-> << >>]

\* The action under way: where it is, the counter it read, whether the PATCH it
\* waits for succeeded, and the cards a ListTodo has counted and read.
Idle == [step |-> "idle"]
At(call, step) == [step |-> step, call |-> call, before |-> 0, heard |-> "nothing",
                   count |-> 0, read |-> << >>]

-----------------------------------------------------------------------------
(* todo.fizz *)

Live(todos) == {i \in 1..Len(todos) : ~todos[i].deleted}
NonePinned(todos) == \A i \in Live(todos) : ~todos[i].pinned

MutantRoom(todos) == Len(todos) <= MaxTodos
Room(todos) == Len(todos) < MaxTodos

\* require
Permitted(todos, call) ==
    CASE call.op = "CreateTodo" -> Room(todos)
      [] call.op = "UpdateTodo" -> call.id \in Live(todos) /\ todos[call.id].value # call.value
      [] call.op = "PinTodo"    -> call.id \in Live(todos) /\ NonePinned(todos)
      [] call.op \in {"DeleteTodo", "UnPinTodo"} -> call.id \in Live(todos)
      [] call.op = "ReadTodo"   -> call.id \in 1..Len(todos)
      [] OTHER                  -> TRUE

Applied(todos, call) ==
    CASE call.op = "CreateTodo" ->
            Append(todos, [value |-> call.value, deleted |-> FALSE, pinned |-> FALSE])
      [] call.op = "UpdateTodo" -> [todos EXCEPT ![call.id].value = call.value]
      [] call.op = "DeleteTodo" -> [todos EXCEPT ![call.id].deleted = TRUE]
      [] call.op = "PinTodo"    -> [todos EXCEPT ![call.id].pinned = TRUE]
      [] call.op = "UnPinTodo"  -> [todos EXCEPT ![call.id].pinned = FALSE]
      [] OTHER                  -> todos

\* The cards of a list, sorted by id, and what reading one of them yields.
Cards(todos) == SetToSortSeq(Live(todos), <)
Card(todos, i) == [id |-> i, value |-> todos[i].value, pinned |-> todos[i].pinned]

\* What ReadTodo and ListTodo return: of a todo that is not there, nothing.
Answer(todos, call) ==
    IF call.op = "ReadTodo"
    THEN IF call.id \in Live(todos) THEN <<Card(todos, call.id)>> ELSE << >>
    ELSE [n \in 1..Len(Cards(todos)) |-> Card(todos, Cards(todos)[n])]

-----------------------------------------------------------------------------
(* Decisions of the adapters, named; each Mutant, here and in todo.fizz above, *)
(* is a mistake the properties are known to catch in what follows it.       *)

\* waitForFunction: the counter has changed.
MutantListRedrawn == TRUE
ListRedrawn == counter # act.before

\* The control that the action clicks is on the page: the text boxes, if it is not
\* the login page; the card, and on it only one of the pin and the unpin button.
Shows(call) ==
    \/ call.op = "CreateTodo" /\ role = "ready"
    \/ /\ call.id \in Live(shown)
       /\ call.op = "PinTodo" => ~shown[call.id].pinned
       /\ call.op = "UnPinTodo" => shown[call.id].pinned

\* hoverOnCard and pin.count() before the click: the adapter goes on only when it
\* has found the control.
MutantHasControl(call) == Shows(call) \/ (call.op = "UnPinTodo" /\ call.id \in Live(shown))
HasControl(call) == Shows(call)

\* Which actions wait for a response before they wait for the page.
FirstWait(op) == IF op = "PinTodo" THEN "responding" ELSE "waiting"

\* clearTodos: two statements, each committed on its own, of which the second has ids
\* start at 1 again.  One that fails ends it, and it throws.
Outcomes == {"cleared", "emptied", "refused"}
Emptied(todos) == [i \in DOMAIN todos |-> [todos[i] EXCEPT !.deleted = TRUE]]

\* The database after clearTodos.
MutantCleanedDb(outcome) == IF outcome = "refused" THEN server ELSE Emptied(server)
CleanedDb(outcome) ==
    CASE outcome = "cleared" -> << >>
      [] outcome = "emptied" -> Emptied(server)
      [] outcome = "refused" -> server

-----------------------------------------------------------------------------
Init ==
    /\ server \in {<< >>} \cup {<<t>> : t \in Todo}
    /\ requests = << >>
    /\ role = "none"
    /\ phase = "off"
    /\ shown = << >>
    /\ redraws = 0
    /\ counter = 0
    /\ handlers = 0
    /\ act = Idle
    /\ runs = 0
    /\ actions = 0
    /\ model = << >>
    /\ disturbed = FALSE
    /\ reply = NoReply

-----------------------------------------------------------------------------
(* The life of a run *)

\* goto waits for the page, for its text boxes after a login, and not for the list:
\* that one may be there already or still have to be drawn.
PageOpened(drawn) ==
    /\ shown' = IF drawn THEN server' ELSE << >>
    /\ redraws' = IF drawn THEN 0 ELSE 1
    /\ counter' = IF drawn THEN 1 ELSE 0
    /\ handlers' = 0

PageClosed == shown' = << >> /\ redraws' = 0 /\ counter' = 0 /\ handlers' = 0

\* init: the first one cleans the database before it logs in, later ones only open
\* a page.
StartRun(drawn) ==
    /\ phase = "off"
    /\ role # "broken"
    /\ runs < MaxRuns
    /\ role' = "ready"
    /\ runs' = runs + 1
    /\ phase' = "on"
    /\ server' = IF role = "none" THEN CleanedDb("cleared") ELSE server
    /\ PageOpened(drawn)
    /\ reply' = NoReply
    /\ UNCHANGED <<requests, act, actions, model, disturbed>>

\* The first init fails: before todoappRole is assigned, so that the next one is a first
\* one again.  In TypeScript that is to clean the database, in Java to log in as well.
FirstInitFails(outcome) ==
    /\ phase = "off"
    /\ role = "none"
    /\ runs < MaxRuns
    /\ runs' = runs + 1
    /\ phase' = "failed"
    /\ server' = CleanedDb(outcome)
    /\ reply' = NoReply
    /\ UNCHANGED <<requests, role, shown, redraws, counter, handlers, act, actions, model, disturbed>>

\* Or when todoappRole is assigned: the inits after it do not log in.  If it failed in
\* waiting for the text box only, the Sign In may have worked, and their pages show a list.
LoginFails(signedIn, drawn) ==
    /\ phase = "off"
    /\ role = "none"
    /\ runs < MaxRuns
    /\ runs' = runs + 1
    /\ role' = IF signedIn THEN "ready" ELSE "broken"
    /\ phase' = "failed"
    /\ server' = CleanedDb("cleared")
    /\ IF signedIn THEN PageOpened(drawn) ELSE UNCHANGED <<shown, redraws, counter, handlers>>
    /\ reply' = NoReply
    /\ UNCHANGED <<requests, act, actions, model, disturbed>>

\* Without a login the inits after it succeed, on pages that show the login page, or
\* on none when there is no browser.
StartBrokenRun ==
    /\ phase = "off"
    /\ role = "broken"
    /\ runs < MaxRuns
    /\ runs' = runs + 1
    /\ phase' = "on"
    /\ reply' = NoReply
    /\ UNCHANGED <<web, handlers, act, role, actions, model, disturbed>>

\* cleanup: closes the page and cleans the database, whatever is still on its way.
\* When it throws, no later init cleans what is left, but for a first one.
EndRun(outcome) ==
    /\ phase \in {"on", "failed"}
    /\ act = Idle
    /\ phase' = "off"
    /\ server' = CleanedDb(outcome)
    /\ PageClosed
    /\ model' = << >>
    /\ disturbed' = ((disturbed /\ requests # << >>) \/ (outcome # "cleared" /\ role # "none"))
    /\ reply' = NoReply
    /\ UNCHANGED <<requests, act, life>>

\* cleanupAll.
CloseAll ==
    /\ phase = "off"
    /\ phase' = "closed"
    /\ reply' = NoReply
    /\ UNCHANGED <<web, handlers, act, life, model, disturbed>>

-----------------------------------------------------------------------------
(* Actions *)

\* The runner calls what todo.fizz permits, one action at a time.
Begin(call) ==
    /\ phase = "on"
    /\ act = Idle
    /\ actions < MaxActions
    /\ Permitted(model, call)
    /\ actions' = actions + 1
    /\ act' = At(call, "looking")
    /\ disturbed' = (disturbed \/ (role = "ready" /\ counter = 0))
    /\ reply' = NoReply
    /\ UNCHANGED <<web, phase, handlers, role, runs, model>>

\* The action returns to the runner, for which it has taken place.
Return ==
    /\ act' = Idle
    /\ model' = Applied(model, act.call)
    /\ UNCHANGED <<disturbed, life, phase>>

\* hoverOnCard and the button: without them there is nothing to do.  CreateTodo
\* does not look, it waits for its text boxes.
Skip ==
    /\ act.step = "looking"
    /\ act.call.op \in Changes \ {"CreateTodo"}
    /\ ~HasControl(act.call)
    /\ Return
    /\ reply' = NoReply
    /\ UNCHANGED <<web, handlers>>

\* The fields are filled, a delete registers its dialog handler.
Prepare ==
    /\ act.step = "looking"
    /\ act.call.op \in Changes
    /\ HasControl(act.call)
    /\ act' = [act EXCEPT !.step = "counting"]
    /\ handlers' = handlers + (IF act.call.op = "DeleteTodo" THEN 1 ELSE 0)
    /\ reply' = NoReply
    /\ UNCHANGED <<web, phase, life, model, disturbed>>

\* const before = ...textContent()
ReadCounter ==
    /\ act.step = "counting"
    /\ act' = [act EXCEPT !.step = "clicking", !.before = counter]
    /\ reply' = NoReply
    /\ UNCHANGED <<web, phase, handlers, life, model, disturbed>>

\* The click sends the request.  The dialog of a delete calls every handler that
\* is registered; the second one to accept it throws where nobody catches.
Click ==
    /\ act.step = "clicking"
    /\ Shows(act.call)
    /\ requests' = Append(requests, [call |-> act.call, run |-> runs])
    /\ IF act.call.op = "DeleteTodo"
       THEN /\ handlers' = 0
            /\ phase' = IF handlers > 1 THEN "failed" ELSE phase
            /\ act' = IF handlers > 1 THEN Idle ELSE [act EXCEPT !.step = FirstWait(act.call.op)]
       ELSE /\ act' = [act EXCEPT !.step = FirstWait(act.call.op)]
            /\ UNCHANGED <<handlers, phase>>
    /\ reply' = NoReply
    /\ UNCHANGED <<server, shown, redraws, counter, life, model, disturbed>>

\* The PATCH has been answered: only if it succeeded there is a redraw to wait for.
PinAccepted ==
    /\ act.step = "responding"
    /\ act.heard = "ok"
    /\ act' = [act EXCEPT !.step = "waiting"]
    /\ reply' = NoReply
    /\ UNCHANGED <<web, phase, handlers, life, model, disturbed>>

PinRejected ==
    /\ act.step = "responding"
    /\ act.heard = "rejected"
    /\ Return
    /\ reply' = NoReply
    /\ UNCHANGED <<web, handlers>>

\* The counter has changed: the action is done.
SeeRedraw ==
    /\ act.step = "waiting"
    /\ ListRedrawn
    /\ Return
    /\ reply' = NoReply
    /\ UNCHANGED <<web, handlers>>

Replied(result) ==
    reply' = [result |-> result, expected |-> Answer(model, act.call)]

\* ReadTodo reads the card's modal, or finds no card.
Read ==
    /\ act.step = "looking"
    /\ act.call.op = "ReadTodo"
    /\ Return
    /\ Replied(Answer(shown, act.call))
    /\ UNCHANGED <<web, handlers>>

\* ListTodo counts the cards and reads them one after the other.
CountCards ==
    /\ act.step = "looking"
    /\ act.call.op = "ListTodo"
    /\ act' = [act EXCEPT !.step = "listing", !.count = Len(Cards(shown))]
    /\ reply' = NoReply
    /\ UNCHANGED <<web, phase, handlers, life, model, disturbed>>

ReadCard ==
    /\ act.step = "listing"
    /\ LET i == Len(act.read) + 1
       IN  /\ i <= act.count
           /\ i <= Len(Cards(shown))
           /\ act' = [act EXCEPT !.read = Append(@, Card(shown, Cards(shown)[i]))]
    /\ reply' = NoReply
    /\ UNCHANGED <<web, phase, handlers, life, model, disturbed>>

ReturnList ==
    /\ act.step = "listing"
    /\ Len(act.read) = act.count
    /\ Return
    /\ Replied(act.read)
    /\ UNCHANGED <<web, handlers>>

\* A wait takes too long.  safeRun swallows it; CreateTodo, ReadTodo and ListTodo
\* run without it, and the run fails.
TimeOut ==
    /\ act.step # "idle"
    /\ disturbed' = TRUE
    /\ act' = Idle
    /\ IF act.call.op \in {"CreateTodo", "ReadTodo", "ListTodo"}
       THEN /\ phase' = "failed"
            /\ UNCHANGED model
       ELSE /\ model' = Applied(model, act.call)
            /\ UNCHANGED phase
    /\ reply' = NoReply
    /\ UNCHANGED <<web, handlers, life>>

-----------------------------------------------------------------------------
(* The page and the server *)

\* The action under way waits for the response to this request, or to another
\* one with the same method and URL.
Hears(request) ==
    /\ act.step = "responding"
    /\ request.run = runs
    /\ request.call.op = "PinTodo"
    /\ request.call.id = act.call.id

\* The server has no limit of its own; it rejects a second pin, and what has no todo.
Accepts(call) ==
    \/ call.op = "CreateTodo"
    \/ /\ call.id \in Live(server)
       /\ call.op = "PinTodo" => NonePinned(server)

PageOpen == phase \in {"on", "failed"}

\* The server handles a request that was sent, in whatever order, also after its
\* page was closed.  The page of the run under way will redraw its list.
Handle(i) ==
    LET request == requests[i]
        accepted == Accepts(request.call)
    IN  /\ requests' = RemoveAt(requests, i)
        /\ server' = IF accepted THEN Applied(server, request.call) ELSE server
        /\ redraws' = redraws + (IF accepted /\ request.run = runs /\ PageOpen THEN 1 ELSE 0)
        /\ act' = IF Hears(request)
                  THEN [act EXCEPT !.heard = IF accepted THEN "ok" ELSE "rejected"]
                  ELSE act
        /\ disturbed' = (disturbed \/ request.run # runs \/ ~PageOpen)
        /\ reply' = NoReply
        /\ UNCHANGED <<shown, counter, phase, handlers, life, model>>

Redraw ==
    /\ redraws > 0
    /\ redraws' = redraws - 1
    /\ shown' = server
    /\ counter' = counter + 1
    /\ reply' = NoReply
    /\ UNCHANGED <<server, requests, adapter, life, model, disturbed>>

-----------------------------------------------------------------------------
Proceed ==
    \/ Skip \/ Prepare \/ ReadCounter \/ Click
    \/ PinAccepted \/ PinRejected \/ SeeRedraw
    \/ Read \/ CountCards \/ ReadCard \/ ReturnList

Next ==
    \/ \E drawn \in BOOLEAN : StartRun(drawn)
    \/ StartBrokenRun \/ CloseAll
    \/ \E outcome \in Outcomes : FirstInitFails(outcome) \/ EndRun(outcome)
    \/ \E signedIn, drawn \in BOOLEAN : LoginFails(signedIn, drawn)
    \/ \E call \in Calls : Begin(call)
    \/ Proceed
    \/ TimeOut
    \/ \E i \in 1..Len(requests) : Handle(i)
    \/ Redraw

Spec == Init /\ [][Next]_vars

\* An adapter that can go on does; requests are handled and lists redrawn.
FairSpec ==
    /\ Spec
    /\ WF_vars(Proceed)
    /\ WF_vars(\E i \in 1..Len(requests) : Handle(i))
    /\ WF_vars(Redraw)

-----------------------------------------------------------------------------
(* Properties *)

\* Every variable has its type; the specification's list never exceeds its limit
\* (todo.fizz:12), and only clicks on a control send requests.
TypeOK ==
    /\ server \in Seq(Todo) /\ shown \in Seq(Todo) /\ model \in Seq(Todo)
    /\ Len(model) <= MaxTodos
    /\ requests \in Seq([call : {c \in Calls : c.op \in Changes}, run : 1..runs])
    /\ role \in {"none", "ready", "broken"}
    /\ phase \in {"off", "on", "failed", "closed"}
    /\ redraws \in 0..(MaxActions + 1)
    /\ counter \in 0..(MaxActions + 1)
    /\ handlers \in 0..MaxActions
    /\ act.step \in {"idle", "looking", "counting", "clicking", "responding", "waiting", "listing"}
    /\ runs \in 0..MaxRuns /\ actions \in 0..MaxActions
    /\ disturbed \in BOOLEAN

\* When an action returns, nothing of it is still on its way: the server has done
\* what todo.fizz says, and the page shows it (todo_adapters.ts:220-236), so the
\* next action may start; and a run starts from an empty list whose ids start at 1,
\* although only the first init cleans the database and cleanup does not wait for
\* anything (347-369).  This holds unless in the run a wait timed out, an action
\* began while the page was still drawing its first list, or a request of an earlier
\* run was handled, or the cleanup before it threw (385).
Conforms ==
    (phase = "on" /\ act = Idle /\ ~disturbed) =>
        /\ requests = << >>
        /\ server = model
        /\ redraws = 0 => shown = server

\* ReadTodo and ListTodo, which take the page for the server and read it card by
\* card, return what todo.fizz returns (100-137, 176-189).
AnswersConform == disturbed \/ reply.result = reply.expected

\* No action waits for something that does not come: for a redraw after a
\* rejected pin, for a card or a button that the page does not show (142, 198,
\* 213, 256).  Only a disturbed run needs its time-outs, and every CreateTodo of
\* a role that was kept although it had not logged in (353-354).
NoWaitInVain == (act # Idle /\ role = "ready") ~> (act = Idle \/ disturbed)
=============================================================================
