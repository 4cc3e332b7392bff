------------------------------- MODULE TodoMvc -------------------------------
(***************************************************************************)
(* The adapters of todomvc/fizztests against the TodoMVC page.  The runner   *)
(* takes a step of todomvc.fizz, whose variables are the ghosts of this      *)
(* module, calls the action of the same name, waits until the DOM has        *)
(* settled, reads the state of the view from the DOM, and goes on as long    *)
(* as that agrees with the specification.                                  *)
(*                                                                         *)
(* The page is not in this repository.  It is modelled as the adapters use   *)
(* it: it changes its todos and the local storage on a click or a key, draws *)
(* them later, and all pages of the browser context share the storage.      *)
(***************************************************************************)
EXTENDS TodoMvcSpec

CONSTANT MaxLosses      \* bound on the pages that are lost

ASSUME MaxLossesAssumption == MaxLosses \in Nat

VARIABLES
    storage,    \* window.localStorage of the context: the todos of the last page
    app,        \* the page: its todos, the filter in its URL, the item being edited
    dom,        \* what the page has drawn
    phase,      \* "off"; "on"; "failed": an action threw; "gone": no page to close;
                \* "closed": the browser is
    act,        \* the action under way and where it is
    report,     \* what getState has returned after the last action
    losses,     \* number of pages lost
    disturbed   \* ghost: the page was drawn too late, or began with old todos

page == <<storage, app, dom>>
vars == <<specVars, page, phase, act, report, losses, disturbed>>

Idle == [step |-> "idle", op |-> "", index |-> 0, arg |-> ""]
NoPage == [todos |-> << >>, filter |-> "All", editing |-> 0]
NoReport == << >>

-----------------------------------------------------------------------------
(* The page *)

\* The list, the footer with its count, the toggle-all box, the clear button and
\* the edit box as they are drawn; without todos there is no footer and no box.
Drawn(p) ==
    [items |-> Matching(p.todos, p.filter),
     footer |-> p.todos # << >>,
     count |-> ActiveCount(p.todos),
     allCompleted |-> ActiveCount(p.todos) = 0,
     clear |-> ActiveCount(p.todos) < Len(p.todos),
     editing |-> IF \E i \in DOMAIN p.todos : p.todos[i].id = p.editing THEN p.editing ELSE 0]

NewId == CHOOSE n \in 1..(Len(app.todos) + Len(dom.items) + 1) :
            \A t \in {app.todos[i] : i \in DOMAIN app.todos} \cup
                     {dom.items[i] : i \in DOMAIN dom.items} : t.id # n

\* The page changes, and stores its todos when they did.
PageBecomes(p) ==
    /\ app' = p
    /\ storage' = p.todos
    /\ UNCHANGED dom

Draw ==
    /\ phase \in {"on", "failed"}
    /\ dom # Drawn(app)
    /\ dom' = Drawn(app)
    /\ UNCHANGED <<specVars, storage, app, phase, act, report, losses, disturbed>>

-----------------------------------------------------------------------------
(* Decisions of the adapters, named; each Mutant is a mistake the properties  *)
(* below are known to catch in the decision that follows it.                *)

\* locator.nth(index)
MutantLocated(index) == 1
Located(index) == index

\* afterAction: waitForDOMSettled.
MutantSettled == TRUE
Settled == dom = Drawn(app)

\* closePage: localStorage.clear().
MutantClearedStorage == storage
ClearedStorage == << >>

\* The edit box that fill waits for.
MutantEditBox == dom.editing # 0 /\ dom.items[Located(act.index)].id # dom.editing
EditBox == dom.editing # 0

\* getToggleAllStatus.
MutantGetToggleAllStatus == IF dom.allCompleted THEN "Checked" ELSE "Unchecked"
GetToggleAllStatus ==
    IF ~dom.footer THEN "NotShown" ELSE IF dom.allCompleted THEN "Checked" ELSE "Unchecked"

GetActiveTodoCount == IF dom.footer THEN dom.count ELSE 0

\* getState, on a DOM that nothing changes meanwhile unless the run is disturbed.
GetState ==
    [nowShowing |-> app.filter,
     shownTodos |-> dom.items,
     activeTodoCount |-> GetActiveTodoCount,
     toggleAllStatus |-> GetToggleAllStatus,
     clearButtonShown |-> dom.clear]

\* What a todo looks like: ids are IGNOREd.
Looks(items) == [n \in 1..Len(items) |-> [title |-> items[n].title, completed |-> items[n].completed]]

\* The runner has found the state that was read to be that of its model.
Agrees == [report EXCEPT !.shownTodos = Looks(@)] = [view EXCEPT !.shownTodos = Looks(@)]

-----------------------------------------------------------------------------
Init ==
    /\ SpecInit
    /\ storage = << >>
    /\ app = NoPage
    /\ dom = Drawn(NoPage)
    /\ phase = "off"
    /\ act = Idle
    /\ report = NoReport
    /\ losses = 0
    /\ disturbed = FALSE

\* init: a new page, which loads the todos in storage and draws them sooner or
\* later.  The runner compares the first state, too.
StartRun(drawn) ==
    /\ phase = "off"
    /\ phase' = "on"
    /\ app' = [NoPage EXCEPT !.todos = storage]
    /\ dom' = IF drawn THEN Drawn(app') ELSE Drawn(NoPage)
    /\ act' = [Idle EXCEPT !.step = "reading"]
    /\ report' = NoReport
    /\ UNCHANGED <<specVars, storage, losses, disturbed>>

\* createPage fails: the adapter keeps the page of the run before, long closed.
InitFails ==
    /\ phase = "off"
    /\ phase' = "gone"
    /\ UNCHANGED <<specVars, page, act, report, losses, disturbed>>

\* The browser loses the page; what the adapter awaits fails.
LosePage ==
    /\ phase \in {"on", "failed"}
    /\ losses < MaxLosses
    /\ losses' = losses + 1
    /\ phase' = "gone"
    /\ act' = Idle
    /\ report' = NoReport
    /\ UNCHANGED <<specVars, page, disturbed>>

\* cleanup: the storage is cleared by the page, if it is still open.
Cleanup ==
    /\ phase \in {"on", "failed", "gone"}
    /\ act = Idle
    /\ phase' = "off"
    /\ storage' = IF phase = "gone" THEN storage ELSE ClearedStorage
    /\ app' = NoPage
    /\ dom' = Drawn(NoPage)
    /\ report' = NoReport
    /\ disturbed' = (phase = "gone" /\ storage # << >>)
    /\ todos' = << >> /\ next_id' = 0 /\ view' = Refresh(<< >>, "All")
    /\ UNCHANGED <<act, losses>>

\* cleanupAll: the context and the browser are closed.
CloseAll ==
    /\ phase = "off"
    /\ phase' = "closed"
    /\ UNCHANGED <<specVars, page, act, report, losses, disturbed>>

-----------------------------------------------------------------------------
(* Actions *)

Acting(op, index, arg) == act' = [step |-> "acting", op |-> op, index |-> index, arg |-> arg]

\* The runner takes a step of todomvc.fizz and calls the action with its choices.
Begin ==
    /\ phase = "on"
    /\ act = Idle
    /\ Agrees
    /\ \/ \E title \in Titles : UserAddsItem(title) /\ Acting("UserAddsItem", 0, title)
       \/ \E filter \in FilterState :
             UserSwitchesFilter(filter) /\ Acting("UserSwitchesFilter", 0, filter)
       \/ UserTogglesAll /\ Acting("UserTogglesAll", 0, "")
       \/ UserClearsCompleted /\ Acting("UserClearsCompleted", 0, "")
       \/ \E i \in DOMAIN view.shownTodos :
             \/ UserTogglesItem(i) /\ Acting("UserTogglesItem", i, "")
             \/ UserDeletesItem(i) /\ Acting("UserDeletesItem", i, "")
             \/ \E text \in Titles \cup {""} :
                   UserEditsItem(i, text) /\ Acting("UserEditsItem", i, text)
    /\ report' = NoReport
    /\ UNCHANGED <<page, phase, losses, disturbed>>

\* isVisible on the control of the action; of an item that is being edited only
\* the box is shown, neither its title nor its checkbox.
Visible ==
    CASE act.op = "UserAddsItem"        -> TRUE
      [] act.op = "UserSwitchesFilter"  -> dom.footer
      [] act.op = "UserTogglesAll"      -> dom.footer
      [] act.op = "UserClearsCompleted" -> dom.clear
      [] OTHER -> /\ Located(act.index) \in DOMAIN dom.items
                  /\ act.op # "UserDeletesItem" => dom.items[Located(act.index)].id # dom.editing

AndThen(step) ==
    /\ act' = [act EXCEPT !.step = step]
    /\ UNCHANGED <<specVars, phase, report, losses, disturbed>>

\* What the click or the Enter of an action makes of the page.
Clicked ==
    LET id == dom.items[Located(act.index)].id
    IN  CASE act.op = "UserAddsItem" ->
                [app EXCEPT !.todos = Append(@, [id |-> NewId, title |-> act.arg, completed |-> FALSE])]
          [] act.op = "UserSwitchesFilter"  -> [app EXCEPT !.filter = act.arg]
          [] act.op = "UserTogglesAll"      -> [app EXCEPT !.todos = Marked(@, ~dom.allCompleted)]
          [] act.op = "UserClearsCompleted" -> [app EXCEPT !.todos = Matching(@, "Active")]
          [] act.op = "UserTogglesItem"     -> [app EXCEPT !.todos = Toggled(@, id)]
          [] act.op = "UserDeletesItem"     -> [app EXCEPT !.todos = Without(@, id)]
          [] act.op = "UserEditsItem"       -> [app EXCEPT !.editing = id]

Click ==
    /\ act.step = "acting"
    /\ Visible
    /\ PageBecomes(Clicked)
    /\ AndThen(IF act.op = "UserEditsItem" THEN "editing" ELSE "settling")

\* The control is not there: the action does nothing.
Skip ==
    /\ act.step = "acting"
    /\ ~Visible
    /\ AndThen("settling")
    /\ UNCHANGED page

\* The second half of an edit, in the box that the double click has opened.
SaveEdit ==
    /\ act.step = "editing"
    /\ EditBox
    /\ PageBecomes([app EXCEPT !.editing = 0,
                               !.todos = IF act.arg # "" THEN Saved(@, dom.editing, act.arg)
                                                         ELSE Without(@, dom.editing)])
    /\ AndThen("settling")

AfterAction ==
    /\ act.step = "settling"
    /\ Settled
    /\ AndThen("reading")
    /\ UNCHANGED page

\* The DOM has been quiet for a millisecond because nothing is drawn yet.
SettledTooEarly ==
    /\ act.step = "settling"
    /\ dom # Drawn(app)
    /\ act' = [act EXCEPT !.step = "reading"]
    /\ disturbed' = TRUE
    /\ UNCHANGED <<specVars, page, phase, report, losses>>

ReadState ==
    /\ act.step = "reading"
    /\ report' = GetState
    /\ act' = Idle
    /\ UNCHANGED <<specVars, page, phase, losses, disturbed>>

\* A wait takes too long: the action throws, and nothing catches it.
TimeOut ==
    /\ act # Idle
    /\ act' = Idle
    /\ phase' = "failed"
    /\ report' = NoReport
    /\ UNCHANGED <<specVars, page, losses, disturbed>>

-----------------------------------------------------------------------------
Proceed == Click \/ Skip \/ SaveEdit \/ AfterAction \/ ReadState

Next ==
    \/ \E drawn \in BOOLEAN : StartRun(drawn)
    \/ InitFails \/ LosePage \/ Cleanup \/ CloseAll
    \/ Begin \/ Proceed \/ SettledTooEarly \/ TimeOut
    \/ Draw

Spec == Init /\ [][Next]_vars

\* An adapter that can go on does, and the page draws what it has to draw.
FairSpec == Spec /\ WF_vars(Proceed) /\ WF_vars(Draw)

-----------------------------------------------------------------------------
(* Properties *)

\* Every variable has its type; no todo is without a title (todomvc.fizz:140-141),
\* neither in the page nor in the storage.
TypeOK ==
    /\ \A items \in {storage, app.todos, dom.items, todos} : \A i \in DOMAIN items :
          items[i].title \in Titles /\ items[i].completed \in BOOLEAN /\ items[i].id \in Nat
    /\ app.filter \in FilterState
    /\ phase \in {"off", "on", "failed", "gone", "closed"}
    /\ act.step \in {"idle", "acting", "editing", "settling", "reading"}
    /\ report # NoReport => DOMAIN report = DOMAIN view
    /\ losses \in 0..MaxLosses
    /\ disturbed \in BOOLEAN

\* The state that getState has read after an action, or at the start of a run,
\* is the view of todomvc.fizz, and the page keeps the todos of the model, those
\* it does not show included (todomvc_adapters.ts:24-82).  This takes that every
\* index finds its item, that the DOM is drawn before it is read, and that no run
\* inherits todos; only a page that is drawn too late, or the first run after one
\* whose page was lost, is excepted.
Conforms ==
    (report # NoReport /\ ~disturbed) =>
        /\ Agrees
        /\ Looks(app.todos) = Looks(todos)
        /\ storage = app.todos

\* Every action comes to its end: no click and no edit box is awaited in vain.
ActionsReturn == (act # Idle) ~> (act = Idle \/ disturbed)
=============================================================================
