----------------------------- MODULE TodoMvcInv -----------------------------
(***************************************************************************)
(* The inductive invariant of TodoMvc: what the page and the model have in   *)
(* common at each step of an action.                                       *)
(***************************************************************************)
EXTENDS TodoMvc

Todo == [id : Nat, title : Titles, completed : BOOLEAN]

\* A list of todos that have an id each.
Distinct(items) ==
    \A i, j \in DOMAIN items : items[i].id = items[j].id => i = j
List(items) == items \in Seq(Todo) /\ Distinct(items)

\* The model: its view is always that of its todos.
ModelInv ==
    /\ List(todos)
    /\ next_id \in Nat /\ \A i \in DOMAIN todos : todos[i].id < next_id
    /\ view.nowShowing \in FilterState
    /\ view = Refresh(todos, view.nowShowing)

\* Todos of the page; 0 is the id of none, so that it is no todo's edit box.
PageList(items) == List(items) /\ \A i \in DOMAIN items : items[i].id # 0

PageState == [todos : Seq(Todo), filter : FilterState, editing : Nat]
DomState == [items : Seq(Todo), footer : BOOLEAN, count : Nat,
             allCompleted : BOOLEAN, clear : BOOLEAN, editing : Nat]

PageInv ==
    /\ PageList(storage)
    /\ app \in PageState
    /\ PageList(app.todos)
    /\ dom \in DomState

\* The action under way has the arguments of its kind.
Ops == {"UserAddsItem", "UserSwitchesFilter", "UserTogglesItem", "UserTogglesAll",
        "UserDeletesItem", "UserEditsItem", "UserClearsCompleted"}

ActInv ==
    /\ act \in [step : {"idle", "acting", "editing", "settling", "reading"},
                op : Ops \cup {""}, index : Nat, arg : Titles \cup FilterState \cup {""}]
    /\ act.step = "idle" => act = Idle
    /\ act.step = "acting" => act.op \in Ops
    /\ act.step = "editing" => act.op = "UserEditsItem"
    /\ act.op = "UserAddsItem" => act.arg \in Titles
    /\ act.op = "UserSwitchesFilter" => act.arg \in FilterState
    /\ act.op = "UserEditsItem" => act.arg \in Titles \cup {""}

\* Between the runs nothing is left of one but the todos of a lost page.
PhaseInv ==
    /\ phase # "on" => act = Idle
    /\ phase # "on" \/ act # Idle => report = NoReport
    /\ phase = "on" => storage = app.todos
    /\ phase = "off" => todos = << >> /\ view.nowShowing = "All"
    /\ phase = "off" /\ ~disturbed => storage = << >>

\* The page shows the model's todos under its filter.
InStep(items, filter) == Looks(items) = Looks(todos) /\ filter = view.nowShowing

\* The page once the box that edits the todo id is left.
AfterEdit(id) == IF act.arg # "" THEN Saved(app.todos, id, act.arg) ELSE Without(app.todos, id)

\* From the step of the model to the click, the page is behind by that action;
\* what it has drawn when the click comes finds the item the model has changed.
ActingInv ==
    /\ Settled /\ app.editing = 0
    /\ Visible
    /\ IF act.op = "UserEditsItem"
       THEN LET id == dom.items[Located(act.index)].id
            IN  id # 0 /\ InStep(AfterEdit(id), app.filter)
       ELSE InStep(Clicked.todos, Clicked.filter) /\ Clicked.editing = 0

EditingInv ==
    /\ app.editing # 0
    /\ dom.editing \in {0, app.editing}
    /\ InStep(AfterEdit(app.editing), app.filter)

RunInv ==
    phase = "on" /\ ~disturbed =>
        /\ act.step \in {"idle", "reading"} => Settled
        /\ act.step \in {"idle", "reading", "settling"} =>
              InStep(app.todos, app.filter) /\ app.editing = 0
        /\ act.step = "acting" => ActingInv
        /\ act.step = "editing" => EditingInv

IInv == TypeOK /\ ModelInv /\ PageInv /\ ActInv /\ PhaseInv /\ RunInv /\ Conforms
=============================================================================
