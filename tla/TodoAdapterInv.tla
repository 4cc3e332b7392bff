--------------------------- MODULE TodoAdapterInv ---------------------------
(***************************************************************************)
(* The inductive invariant of TodoAdapter: what the page, the server and    *)
(* the runner's model have in common at each wait of an action, as long as  *)
(* nothing has disturbed the run, and what runs leave to those after them.  *)
(***************************************************************************)
EXTENDS TodoAdapter

\* Before its click an action finds nothing on its way; afterwards its own request.
Looking == {"looking", "counting", "clicking", "listing"}
Awaiting == {"responding", "waiting"}

\* An action under way is one that todo.fizz permits, in a step of its kind.
ActInv ==
    act # Idle =>
        /\ act = [step |-> act.step, call |-> act.call, before |-> act.before,
                  heard |-> act.heard, count |-> act.count, read |-> act.read]
        /\ act.step \in Looking \cup Awaiting
        /\ act.call \in Calls
        /\ act.step \in {"counting", "clicking"} \cup Awaiting => act.call.op \in Changes
        /\ act.step = "responding" => act.call.op = "PinTodo"
        /\ act.step = "listing" => act.call.op = "ListTodo"
        /\ Permitted(model, act.call)
        /\ phase = "on"

\* Every request, and with it every redraw but a page's first, is of one action.
CountInv ==
    /\ Len(requests) <= actions
    /\ Len(requests) + redraws + counter <= actions + 1
    /\ handlers <= actions
    /\ act.step \in {"looking", "counting", "clicking"} =>
          /\ Len(requests) < actions
          /\ Len(requests) + redraws + counter <= actions
    /\ act.step = "looking" => handlers < actions

Blank == shown = << >> /\ redraws = 0 /\ counter = 0 /\ handlers = 0

\* Between runs there is no page; a role that was kept although it had not logged in
\* never has a list, nor does it change one.
RoleInv ==
    /\ phase = "on" => runs > 0
    /\ phase \in {"off", "closed"} => Blank /\ model = << >>
    /\ role = "none" => phase # "on" /\ Blank /\ model = << >> /\ requests = << >> /\ ~disturbed
    /\ role = "broken" =>
          /\ Blank /\ model = << >> /\ requests = << >> /\ server = << >>
          /\ act.step \in {"idle", "looking", "listing"}

\* What an undisturbed run leaves to the next one.
LeftInv ==
    ~disturbed =>
        /\ phase # "on" => requests = << >>
        /\ phase \in {"off", "closed"} /\ role # "none" => server = << >>

\* Nothing is on its way; server and page are as todo.fizz says.
Still ==
    /\ requests = << >> /\ redraws = 0
    /\ server = model /\ shown = model

\* Between two actions only the first list may still have to be drawn.
IdleInv ==
    /\ requests = << >> /\ server = model
    /\ redraws = 0 => shown = server
    /\ redraws + counter <= 1 \/ redraws = 0
    /\ handlers = 0

\* An action that looks, reads or has not yet clicked.
LookingInv ==
    /\ Still
    /\ act.heard = "nothing"
    /\ act.step = "clicking" => act.before = counter
    /\ handlers = IF act.call.op = "DeleteTodo" /\ act.step \in {"counting", "clicking"} THEN 1 ELSE 0
    /\ act.step = "looking" => act.read = << >>
    /\ act.step = "listing" =>
          /\ act.count = Len(Cards(shown))
          /\ Len(act.read) \in Nat
          /\ act.read = [n \in 1..Len(act.read) |-> Card(shown, Cards(shown)[n])]

\* An action that has clicked: its request is sent, or has been executed, or the
\* page shows what came of it.
Sent ==
    /\ requests = <<[call |-> act.call, run |-> runs]>>
    /\ server = model /\ redraws = 0 /\ counter = act.before
    /\ act.heard = "nothing"
    /\ act.call.op = "PinTodo" => act.step = "responding"
Executed ==
    /\ requests = << >>
    /\ server = Applied(model, act.call) /\ redraws = 1 /\ counter = act.before
Redrawn ==
    /\ requests = << >>
    /\ server = Applied(model, act.call) /\ redraws = 0 /\ shown = server
AwaitingInv ==
    /\ handlers = 0
    /\ Sent \/ (act.heard # "rejected" /\ (Executed \/ Redrawn))

RunInv ==
    phase = "on" /\ ~disturbed =>
        /\ act = Idle => IdleInv
        /\ act.step \in Looking => LookingInv
        /\ act.step \in Awaiting => AwaitingInv

IInv ==
    /\ TypeOK
    /\ ActInv /\ CountInv /\ RoleInv /\ LeftInv /\ RunInv
    /\ AnswersConform
=============================================================================
