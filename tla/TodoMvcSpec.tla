----------------------------- MODULE TodoMvcSpec -----------------------------
(***************************************************************************)
(* todomvc.fizz: a list of todos, what a view of it shows, and what a user   *)
(* may do.  Every change of the list or of the filter refreshes the view.   *)
(***************************************************************************)
EXTENDS Naturals, Sequences, FiniteSets

CONSTANTS
    Titles,     \* TODO_STRINGS
    MaxItems    \* MAX_ITEMS

ASSUME MaxItemsAssumption == MaxItems \in Nat
ASSUME TitlesAssumption == "" \notin Titles

VARIABLES
    todos,      \* TodoModel.todos, in the order of insertion
    next_id,    \* TodoModel.next_id
    view        \* the fields of TodoView

specVars == <<todos, next_id, view>>

FilterState == {"All", "Active", "Completed"}

\* The items at the indices in chosen, in their order: the n-th of them is at
\* the index that n of the chosen ones do not exceed.
Nth(chosen, n) == CHOOSE i \in chosen : Cardinality({j \in chosen : j <= i}) = n
ItemsAt(items, chosen) == [n \in 1..Cardinality(chosen) |-> items[Nth(chosen, n)]]

\* What a view shows of the items; a filter is a question asked of each.
Shows(filter, item) == filter = "All" \/ item.completed = (filter = "Completed")
ShownAt(items, filter) == {i \in DOMAIN items : Shows(filter, items[i])}
Matching(items, filter) == ItemsAt(items, ShownAt(items, filter))
ActiveCount(items) == Cardinality(ShownAt(items, "Active"))

\* TodoView.Refresh
Refresh(items, filter) ==
    [nowShowing |-> filter,
     shownTodos |-> Matching(items, filter),
     activeTodoCount |-> ActiveCount(items),
     toggleAllStatus |-> CASE items = << >>           -> "NotShown"
                           [] ActiveCount(items) # 0  -> "Unchecked"
                           [] OTHER                   -> "Checked",
     clearButtonShown |-> ActiveCount(items) < Len(items)]

SpecInit ==
    /\ todos = << >>
    /\ next_id = 0
    /\ view = Refresh(<< >>, "All")

Changed(items) ==
    /\ todos' = items
    /\ view' = Refresh(items, view.nowShowing)

\* The list with every item i replaced by F(i), and without the item id.
Mapped(items, F(_)) == [n \in 1..Len(items) |-> F(items[n])]
Without(items, id) == ItemsAt(items, {i \in DOMAIN items : items[i].id # id})

Toggled(items, id) == Mapped(items, LAMBDA t : IF t.id = id THEN [t EXCEPT !.completed = ~@] ELSE t)
Marked(items, checked) == Mapped(items, LAMBDA t : [t EXCEPT !.completed = checked])
Saved(items, id, text) == Mapped(items, LAMBDA t : IF t.id = id THEN [t EXCEPT !.title = text] ELSE t)

UserAddsItem(title) ==
    /\ Len(todos) < MaxItems
    /\ next_id < MaxItems
    /\ Changed(Append(todos, [id |-> next_id, title |-> title, completed |-> FALSE]))
    /\ next_id' = next_id + 1

UserSwitchesFilter(filter) ==
    /\ todos # << >>
    /\ filter # view.nowShowing
    /\ view' = Refresh(todos, filter)
    /\ UNCHANGED <<todos, next_id>>

UserTogglesItem(index) ==
    /\ index \in DOMAIN view.shownTodos
    /\ Changed(Toggled(todos, view.shownTodos[index].id))
    /\ UNCHANGED next_id

UserTogglesAll ==
    /\ view.toggleAllStatus # "NotShown"
    /\ Changed(Marked(todos, view.toggleAllStatus = "Unchecked"))
    /\ UNCHANGED next_id

UserDeletesItem(index) ==
    /\ index \in DOMAIN view.shownTodos
    /\ Changed(Without(todos, view.shownTodos[index].id))
    /\ UNCHANGED next_id

\* An empty text deletes the item; the Mutant saves it.
MutantEdited(id, text) == Saved(todos, id, text)
Edited(id, text) == IF text # "" THEN Saved(todos, id, text) ELSE Without(todos, id)

UserEditsItem(index, text) ==
    /\ index \in DOMAIN view.shownTodos
    /\ Changed(Edited(view.shownTodos[index].id, text))
    /\ UNCHANGED next_id

UserClearsCompleted ==
    /\ view.clearButtonShown
    /\ Changed(Matching(todos, "Active"))
    /\ UNCHANGED next_id
=============================================================================
