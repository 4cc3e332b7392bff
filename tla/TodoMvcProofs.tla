---------------------------- MODULE TodoMvcProofs ----------------------------
(***************************************************************************)
(* For any titles, any bound on the todos and any number of lost pages: what *)
(* the adapters read from the page is the view of todomvc.fizz.             *)
(***************************************************************************)
EXTENDS TodoMvcInv, FiniteSetTheorems, SequenceTheorems, TLAPS

-----------------------------------------------------------------------------
(* Sublists *)

\* Indices are finite sets.
LEMMA SomeIndices ==
    ASSUME NEW m \in Nat, NEW I \in SUBSET (1..m)
    PROVE  /\ IsFiniteSet(I) /\ Cardinality(I) \in Nat
           /\ Cardinality(I) = 0 <=> I = {}
           /\ Cardinality(I) <= m /\ (Cardinality(I) = m => I = 1..m)
<1>1. IsFiniteSet(1..m) /\ Cardinality(1..m) = m
  BY FS_Interval
<1>2. /\ IsFiniteSet(I) /\ Cardinality(I) <= m
      /\ Cardinality(I) = m => I = 1..m
  BY <1>1, FS_Subset
<1> QED
  BY <1>2, FS_CardinalityType, FS_EmptySet

\* There is an n-th index for each n up to their number, and it is another one
\* for each: i of the chosen ones do not exceed the i-th.
LEMMA NthIs ==
    ASSUME NEW m \in Nat, NEW I \in SUBSET (1..m)
    PROVE  /\ \A n \in 1..Cardinality(I) : Nth(I, n) \in I
           /\ \A k, n \in 1..Cardinality(I) : Nth(I, k) = Nth(I, n) => k = n
<1> DEFINE UpTo(i) == {j \in I : j <= i}
           rank == [i \in I |-> Cardinality(UpTo(i))]
           c == Cardinality(I)
<1>1. IsFiniteSet(I) /\ c \in Nat
  BY SomeIndices
<1>2. ASSUME NEW i \in I
      PROVE  /\ Cardinality(UpTo(i)) \in 1..c /\ IsFiniteSet(UpTo(i))
  <2>1. UpTo(i) \in SUBSET I /\ i \in UpTo(i)
    OBVIOUS
  <2>2. IsFiniteSet(UpTo(i)) /\ Cardinality(UpTo(i)) <= c
    BY <1>1, <2>1, FS_Subset
  <2>3. Cardinality(UpTo(i)) \in Nat /\ Cardinality(UpTo(i)) # 0
    BY <2>1, <2>2, FS_CardinalityType, FS_EmptySet
  <2> QED
    BY <1>1, <2>2, <2>3
<1>3. ASSUME NEW i \in I, NEW k \in I, i < k
      PROVE  Cardinality(UpTo(i)) # Cardinality(UpTo(k))
  <2>1. i \in Nat /\ k \in Nat /\ \A j \in I : j \in Nat
    OBVIOUS
  <2>2. UpTo(i) \subseteq UpTo(k)
    <3>1. \A j \in I : j <= i => j <= k
      BY <1>3, <2>1
    <3> QED
      BY <3>1
  <2>3. k \in UpTo(k) /\ k \notin UpTo(i)
    BY <1>3, <2>1
  <2> QED
    BY <1>2, <2>2, <2>3, FS_Subset
<1>4. rank \in Injection(I, 1..c)
  <2>1. rank \in [I -> 1..c]
    BY <1>2
  <2>2. ASSUME NEW i \in I, NEW k \in I, rank[i] = rank[k]
        PROVE  i = k
    <3>1. Cardinality(UpTo(i)) = Cardinality(UpTo(k))
      BY <2>2
    <3>2. ~(i < k) /\ ~(k < i)
      BY <1>3, <3>1
    <3> QED
      BY <3>2
  <2> HIDE DEF rank
  <2> QED
    BY <2>1, <2>2 DEF Injection, IsInjective
<1>5. rank \in Surjection(I, 1..c)
  <2>1. IsFiniteSet(1..c) /\ Cardinality(1..c) = c
    BY <1>1, FS_Interval
  <2> HIDE DEF rank
  <2> QED
    BY <1>4, <2>1, FS_Injection
<1>6. \A n \in 1..c : \E i \in I : Cardinality({j \in I : j <= i}) = n
  BY <1>5 DEF Surjection
<1>7. \A n \in 1..c : Nth(I, n) \in I /\ Cardinality({j \in I : j <= Nth(I, n)}) = n
  <2> TAKE n \in 1..c
  <2>1. PICK i \in I : Cardinality({j \in I : j <= i}) = n
    BY <1>6
  <2> QED
    BY <2>1 DEF Nth
<1> QED
  BY <1>7

\* A sublist is a list, of as many items as there are indices chosen.
LEMMA ItemsAtIs ==
    ASSUME NEW s \in Seq(Todo), NEW I \in SUBSET DOMAIN s
    PROVE  /\ ItemsAt(s, I) \in Seq(Todo)
           /\ Cardinality(I) \in Nat /\ Len(ItemsAt(s, I)) = Cardinality(I)
           /\ DOMAIN ItemsAt(s, I) = 1..Cardinality(I)
           /\ \A n \in 1..Cardinality(I) :
                 Nth(I, n) \in I /\ ItemsAt(s, I)[n] = s[Nth(I, n)]
<1>1. Len(s) \in Nat /\ DOMAIN s = 1..Len(s)
  OBVIOUS
<1>2. Cardinality(I) \in Nat /\ \A n \in 1..Cardinality(I) : Nth(I, n) \in I
  BY <1>1, SomeIndices, NthIs
<1>3. \A n \in 1..Cardinality(I) : s[Nth(I, n)] \in Todo
  BY <1>2
<1>4. ItemsAt(s, I) \in [1..Cardinality(I) -> Todo]
  BY <1>3 DEF ItemsAt
<1>5. ItemsAt(s, I) \in Seq(Todo)
  BY <1>2, <1>4, SeqDef
<1>6. \A n \in 1..Cardinality(I) : ItemsAt(s, I)[n] = s[Nth(I, n)]
  BY DEF ItemsAt
<1>7. DOMAIN ItemsAt(s, I) = 1..Cardinality(I)
  BY <1>4
<1>8. Len(ItemsAt(s, I)) = Cardinality(I)
  BY <1>2, <1>5, <1>7, LenProperties
<1> QED
  BY <1>2, <1>5, <1>6, <1>7, <1>8

\* No item occurs twice in a sublist, and none that is not in the list.
LEMMA ItemsAtList ==
    ASSUME NEW s, List(s), NEW I \in SUBSET DOMAIN s
    PROVE  /\ List(ItemsAt(s, I))
           /\ \A n \in DOMAIN ItemsAt(s, I) : \E i \in DOMAIN s : ItemsAt(s, I)[n] = s[i]
<1>1. s \in Seq(Todo)
  BY DEF List
<1>2. /\ ItemsAt(s, I) \in Seq(Todo)
      /\ DOMAIN ItemsAt(s, I) = 1..Cardinality(I)
      /\ \A n \in 1..Cardinality(I) : Nth(I, n) \in I /\ ItemsAt(s, I)[n] = s[Nth(I, n)]
  BY <1>1, ItemsAtIs
<1>3. \A k, n \in 1..Cardinality(I) : Nth(I, k) = Nth(I, n) => k = n
  <2>1. Len(s) \in Nat /\ DOMAIN s = 1..Len(s)
    BY <1>1
  <2> QED
    BY <2>1, NthIs
<1>4. Distinct(ItemsAt(s, I))
  <2> SUFFICES ASSUME NEW k \in 1..Cardinality(I), NEW n \in 1..Cardinality(I),
                      ItemsAt(s, I)[k].id = ItemsAt(s, I)[n].id
               PROVE  k = n
    BY <1>2 DEF Distinct
  <2>1. Nth(I, k) = Nth(I, n)
    BY <1>2 DEF List, Distinct
  <2> QED
    BY <1>3, <2>1
<1> QED
  BY <1>2, <1>4 DEF List

-----------------------------------------------------------------------------
(* Lists that look alike *)

\* Two lists look alike when they show the same item by item.
LEMMA LooksIs ==
    ASSUME NEW s \in Seq(Todo), NEW t \in Seq(Todo)
    PROVE  Looks(s) = Looks(t) <=>
              /\ Len(s) = Len(t)
              /\ \A i \in 1..Len(s) : s[i].title = t[i].title /\ s[i].completed = t[i].completed
<1> DEFINE look(items, n) == [title |-> items[n].title, completed |-> items[n].completed]
<1>1. /\ Looks(s) = [n \in 1..Len(s) |-> look(s, n)]
      /\ Looks(t) = [n \in 1..Len(t) |-> look(t, n)]
  BY DEF Looks
<1>2. Len(s) \in Nat /\ Len(t) \in Nat
  OBVIOUS
<1>3. \A n : /\ look(s, n).title = s[n].title /\ look(s, n).completed = s[n].completed
             /\ look(t, n).title = t[n].title /\ look(t, n).completed = t[n].completed
  OBVIOUS
<1>4. ASSUME Looks(s) = Looks(t)
      PROVE  /\ Len(s) = Len(t)
             /\ \A i \in 1..Len(s) : s[i].title = t[i].title /\ s[i].completed = t[i].completed
  <2> HIDE DEF look
  <2>1. 1..Len(s) = 1..Len(t)
    BY <1>1, <1>4
  <2>2. Len(s) = Len(t)
    BY <1>2, <2>1
  <2>3. \A i \in 1..Len(s) : look(s, i) = look(t, i)
    BY <1>1, <1>4, <2>1
  <2> QED
    BY <1>3, <2>2, <2>3
<1>5. ASSUME Len(s) = Len(t),
             \A i \in 1..Len(s) : s[i].title = t[i].title /\ s[i].completed = t[i].completed
      PROVE  Looks(s) = Looks(t)
  BY <1>1, <1>5
<1> QED
  BY <1>4, <1>5

\* A filter shows the same indices of them.
LEMMA ShownAlike ==
    ASSUME NEW s \in Seq(Todo), NEW t \in Seq(Todo), Looks(s) = Looks(t), NEW filter
    PROVE  /\ ShownAt(s, filter) = ShownAt(t, filter)
           /\ ShownAt(s, filter) \in SUBSET DOMAIN s
           /\ ActiveCount(s) = ActiveCount(t)
<1>1. /\ DOMAIN s = DOMAIN t /\ DOMAIN s = 1..Len(s)
      /\ \A i \in DOMAIN s : s[i].completed = t[i].completed
  BY LooksIs
<1>2. \A f : ShownAt(s, f) = ShownAt(t, f)
  BY <1>1 DEF ShownAt, Shows
<1> QED
  BY <1>2 DEF ShownAt, ActiveCount

\* The same indices of both make sublists that look alike.
LEMMA ItemsAtAlike ==
    ASSUME NEW s \in Seq(Todo), NEW t \in Seq(Todo), Looks(s) = Looks(t), NEW I \in SUBSET DOMAIN s
    PROVE  Looks(ItemsAt(s, I)) = Looks(ItemsAt(t, I))
<1>1. /\ DOMAIN s = DOMAIN t
      /\ \A i \in DOMAIN s : s[i].title = t[i].title /\ s[i].completed = t[i].completed
  BY LooksIs
<1>2. /\ ItemsAt(s, I) \in Seq(Todo) /\ Len(ItemsAt(s, I)) = Cardinality(I)
      /\ ItemsAt(t, I) \in Seq(Todo) /\ Len(ItemsAt(t, I)) = Cardinality(I)
      /\ \A n \in 1..Cardinality(I) :
            Nth(I, n) \in I /\ ItemsAt(s, I)[n] = s[Nth(I, n)] /\ ItemsAt(t, I)[n] = t[Nth(I, n)]
  BY <1>1, ItemsAtIs
<1> QED
  BY <1>1, <1>2, LooksIs

-----------------------------------------------------------------------------
(* What the actions make of a list *)

\* The todos of new are those of old, changed or not.
Of(new, old) == \A i \in DOMAIN new : \E j \in DOMAIN old : new[i].id = old[j].id

\* A list whose items are changed in place.
LEMMA ChangedList ==
    ASSUME NEW s, List(s), NEW t, t \in [1..Len(s) -> Todo],
           \A i \in 1..Len(s) : t[i].id = s[i].id
    PROVE  List(t) /\ Len(t) = Len(s) /\ DOMAIN t = DOMAIN s /\ Of(t, s)
<1>1. s \in Seq(Todo) /\ Len(s) \in Nat /\ DOMAIN s = 1..Len(s)
  BY DEF List
<1>2. t \in Seq(Todo)
  BY <1>1, SeqDef
<1>3. Len(t) = Len(s)
  BY <1>1, <1>2, LenProperties
<1>4. DOMAIN t = DOMAIN s
  BY <1>1
<1> QED
  BY <1>1, <1>2, <1>3, <1>4 DEF List, Distinct, Of

\* toggleAll changes no id, no title and no item's place; the next two change one item
\* likewise.
LEMMA MarkedIs ==
    ASSUME NEW s, List(s), NEW checked \in BOOLEAN
    PROVE  /\ List(Marked(s, checked)) /\ Len(Marked(s, checked)) = Len(s)
           /\ Of(Marked(s, checked), s)
           /\ \A i \in 1..Len(s) : /\ Marked(s, checked)[i].title = s[i].title
                                   /\ Marked(s, checked)[i].completed = checked
<1> DEFINE new(i) == [s[i] EXCEPT !.completed = checked]
<1>1. \A i \in 1..Len(s) : s[i] \in Todo
  BY DEF List
<1>2. Marked(s, checked) = [i \in 1..Len(s) |-> new(i)]
  BY DEF Marked, Mapped
<1>3. \A i \in 1..Len(s) :
         /\ new(i) \in Todo /\ new(i).id = s[i].id /\ new(i).title = s[i].title
         /\ new(i).completed = checked
  BY <1>1 DEF Todo
<1> HIDE DEF new
<1>4. /\ Marked(s, checked) \in [1..Len(s) -> Todo]
      /\ \A i \in 1..Len(s) : Marked(s, checked)[i] = new(i)
  BY <1>2, <1>3
<1> QED
  BY <1>3, <1>4, ChangedList

LEMMA ToggledIs ==
    ASSUME NEW s, List(s), NEW id
    PROVE  /\ List(Toggled(s, id)) /\ Len(Toggled(s, id)) = Len(s) /\ Of(Toggled(s, id), s)
           /\ \A i \in 1..Len(s) :
                 /\ Toggled(s, id)[i].title = s[i].title
                 /\ Toggled(s, id)[i].completed = IF s[i].id = id THEN ~s[i].completed
                                                                   ELSE s[i].completed
<1> DEFINE new(i) == IF s[i].id = id THEN [s[i] EXCEPT !.completed = ~@] ELSE s[i]
<1>1. \A i \in 1..Len(s) : s[i] \in Todo
  BY DEF List
<1>2. Toggled(s, id) = [i \in 1..Len(s) |-> new(i)]
  BY DEF Toggled, Mapped
<1>3. \A i \in 1..Len(s) :
         /\ new(i) \in Todo /\ new(i).id = s[i].id /\ new(i).title = s[i].title
         /\ new(i).completed = IF s[i].id = id THEN ~s[i].completed ELSE s[i].completed
  BY <1>1 DEF Todo
<1> HIDE DEF new
<1>4. /\ Toggled(s, id) \in [1..Len(s) -> Todo]
      /\ \A i \in 1..Len(s) : Toggled(s, id)[i] = new(i)
  BY <1>2, <1>3
<1> QED
  BY <1>3, <1>4, ChangedList

LEMMA SavedIs ==
    ASSUME NEW s, List(s), NEW id, NEW text \in Titles
    PROVE  /\ List(Saved(s, id, text)) /\ Len(Saved(s, id, text)) = Len(s)
           /\ Of(Saved(s, id, text), s)
           /\ \A i \in 1..Len(s) :
                 /\ Saved(s, id, text)[i].title = IF s[i].id = id THEN text ELSE s[i].title
                 /\ Saved(s, id, text)[i].completed = s[i].completed
<1> DEFINE new(i) == IF s[i].id = id THEN [s[i] EXCEPT !.title = text] ELSE s[i]
<1>1. \A i \in 1..Len(s) : s[i] \in Todo
  BY DEF List
<1>2. Saved(s, id, text) = [i \in 1..Len(s) |-> new(i)]
  BY DEF Saved, Mapped
<1>3. \A i \in 1..Len(s) :
         /\ new(i) \in Todo /\ new(i).id = s[i].id /\ new(i).completed = s[i].completed
         /\ new(i).title = IF s[i].id = id THEN text ELSE s[i].title
  BY <1>1 DEF Todo
<1> HIDE DEF new
<1>4. /\ Saved(s, id, text) \in [1..Len(s) -> Todo]
      /\ \A i \in 1..Len(s) : Saved(s, id, text)[i] = new(i)
  BY <1>2, <1>3
<1> QED
  BY <1>3, <1>4, ChangedList

\* Deleting and filtering keep some of the todos.
LEMMA WithoutIs ==
    ASSUME NEW s, List(s), NEW id
    PROVE  List(Without(s, id)) /\ Of(Without(s, id), s)
<1> DEFINE I == {i \in DOMAIN s : s[i].id # id}
<1>1. I \in SUBSET DOMAIN s /\ Without(s, id) = ItemsAt(s, I)
  BY DEF Without
<1> HIDE DEF I
<1>2. List(ItemsAt(s, I)) /\ \A n \in DOMAIN ItemsAt(s, I) : \E i \in DOMAIN s : ItemsAt(s, I)[n] = s[i]
  BY <1>1, ItemsAtList
<1> QED
  BY <1>1, <1>2 DEF Of

LEMMA MatchingIs ==
    ASSUME NEW s, List(s), NEW filter
    PROVE  List(Matching(s, filter)) /\ Of(Matching(s, filter), s)
<1>1. ShownAt(s, filter) \in SUBSET DOMAIN s
  BY DEF ShownAt
<1> QED
  BY <1>1, ItemsAtList DEF Matching, Of

\* A todo that is added has an id of its own.
LEMMA AddedIs ==
    ASSUME NEW s, List(s), NEW t \in Todo, \A i \in DOMAIN s : s[i].id # t.id
    PROVE  /\ List(Append(s, t)) /\ Len(Append(s, t)) = Len(s) + 1
           /\ Append(s, t)[Len(s) + 1] = t
           /\ \A i \in 1..Len(s) : Append(s, t)[i] = s[i]
<1>1. s \in Seq(Todo) /\ Len(s) \in Nat /\ DOMAIN s = 1..Len(s)
  BY DEF List
<1>2. /\ Append(s, t) \in Seq(Todo) /\ Len(Append(s, t)) = Len(s) + 1
      /\ DOMAIN Append(s, t) = 1..(Len(s) + 1)
      /\ Append(s, t)[Len(s) + 1] = t
      /\ \A i \in 1..Len(s) : Append(s, t)[i] = s[i]
  BY <1>1
<1>3. \A i \in 1..(Len(s) + 1) : i \in 1..Len(s) \/ i = Len(s) + 1
  BY <1>1
<1>4. Distinct(Append(s, t))
  <2> SUFFICES ASSUME NEW i \in 1..(Len(s) + 1), NEW j \in 1..(Len(s) + 1),
                      Append(s, t)[i].id = Append(s, t)[j].id
               PROVE  i = j
    BY <1>2 DEF Distinct
  <2>1. CASE i \in 1..Len(s) /\ j \in 1..Len(s)
    BY <1>1, <1>2, <2>1 DEF List, Distinct
  <2>2. CASE i = Len(s) + 1 \/ j = Len(s) + 1
    BY <1>1, <1>2, <1>3, <2>2
  <2> QED
    BY <1>3, <2>1, <2>2
<1> QED
  BY <1>2, <1>4 DEF List

-----------------------------------------------------------------------------
(* Lists that look alike still do after the same action                     *)

\* toggleAll.
LEMMA MarkedAlike ==
    ASSUME NEW s, List(s), NEW t, List(t), Looks(s) = Looks(t), NEW checked \in BOOLEAN
    PROVE  Looks(Marked(s, checked)) = Looks(Marked(t, checked))
<1>1. /\ s \in Seq(Todo) /\ t \in Seq(Todo)
      /\ Marked(s, checked) \in Seq(Todo) /\ Marked(t, checked) \in Seq(Todo)
  BY MarkedIs DEF List
<1> QED
  BY <1>1, MarkedIs, LooksIs

\* The item at one index is toggled, whatever its id in either list; the next two
\* save its title and delete it.
LEMMA ToggledAlike ==
    ASSUME NEW s, List(s), NEW t, List(t), Looks(s) = Looks(t), NEW k \in DOMAIN s
    PROVE  Looks(Toggled(s, s[k].id)) = Looks(Toggled(t, t[k].id))
<1> DEFINE ns == Toggled(s, s[k].id)
           nt == Toggled(t, t[k].id)
<1>1. /\ s \in Seq(Todo) /\ t \in Seq(Todo) /\ ns \in Seq(Todo) /\ nt \in Seq(Todo)
      /\ Len(ns) = Len(s) /\ Len(nt) = Len(t)
  BY ToggledIs DEF List
<1>2. /\ Len(s) = Len(t) /\ DOMAIN s = 1..Len(s) /\ DOMAIN t = 1..Len(s)
      /\ \A i \in 1..Len(s) : s[i].title = t[i].title /\ s[i].completed = t[i].completed
  BY <1>1, LooksIs
<1>3. \A i \in 1..Len(s) : (s[i].id = s[k].id) <=> (t[i].id = t[k].id)
  BY <1>2 DEF List, Distinct
<1>4. \A i \in 1..Len(s) : ns[i].title = nt[i].title /\ ns[i].completed = nt[i].completed
  BY <1>2, <1>3, ToggledIs
<1> HIDE DEF ns, nt
<1>5. Looks(ns) = Looks(nt)
  BY <1>1, <1>2, <1>4, LooksIs
<1> QED
  BY <1>5 DEF ns, nt

LEMMA SavedAlike ==
    ASSUME NEW s, List(s), NEW t, List(t), Looks(s) = Looks(t), NEW k \in DOMAIN s,
           NEW text \in Titles
    PROVE  Looks(Saved(s, s[k].id, text)) = Looks(Saved(t, t[k].id, text))
<1> DEFINE ns == Saved(s, s[k].id, text)
           nt == Saved(t, t[k].id, text)
<1>1. /\ s \in Seq(Todo) /\ t \in Seq(Todo) /\ ns \in Seq(Todo) /\ nt \in Seq(Todo)
      /\ Len(ns) = Len(s) /\ Len(nt) = Len(t)
  BY SavedIs DEF List
<1>2. /\ Len(s) = Len(t) /\ DOMAIN s = 1..Len(s) /\ DOMAIN t = 1..Len(s)
      /\ \A i \in 1..Len(s) : s[i].title = t[i].title /\ s[i].completed = t[i].completed
  BY <1>1, LooksIs
<1>3. \A i \in 1..Len(s) : (s[i].id = s[k].id) <=> (t[i].id = t[k].id)
  BY <1>2 DEF List, Distinct
<1>4. \A i \in 1..Len(s) : ns[i].title = nt[i].title /\ ns[i].completed = nt[i].completed
  BY <1>2, <1>3, SavedIs
<1> HIDE DEF ns, nt
<1>5. Looks(ns) = Looks(nt)
  BY <1>1, <1>2, <1>4, LooksIs
<1> QED
  BY <1>5 DEF ns, nt

LEMMA WithoutAlike ==
    ASSUME NEW s, List(s), NEW t, List(t), Looks(s) = Looks(t), NEW k \in DOMAIN s
    PROVE  Looks(Without(s, s[k].id)) = Looks(Without(t, t[k].id))
<1>1. s \in Seq(Todo) /\ t \in Seq(Todo)
  BY DEF List
<1>2. DOMAIN s = DOMAIN t
  BY <1>1, LooksIs
<1>3. /\ {i \in DOMAIN s : s[i].id # s[k].id} = DOMAIN s \ {k}
      /\ {i \in DOMAIN t : t[i].id # t[k].id} = DOMAIN s \ {k}
  BY <1>2 DEF List, Distinct
<1>4. Looks(ItemsAt(s, DOMAIN s \ {k})) = Looks(ItemsAt(t, DOMAIN s \ {k}))
  BY <1>1, ItemsAtAlike
<1> QED
  BY <1>3, <1>4 DEF Without

\* A filter, which is also how the completed todos are cleared.
LEMMA MatchingAlike ==
    ASSUME NEW s, List(s), NEW t, List(t), Looks(s) = Looks(t), NEW filter
    PROVE  Looks(Matching(s, filter)) = Looks(Matching(t, filter))
<1>1. s \in Seq(Todo) /\ t \in Seq(Todo)
  BY DEF List
<1> QED
  BY <1>1, ShownAlike, ItemsAtAlike DEF Matching

\* A todo that is added has different ids in the model and in the page.
LEMMA AddedAlike ==
    ASSUME NEW s, List(s), NEW t, List(t), Looks(s) = Looks(t), NEW a \in Todo, NEW b \in Todo,
           \A i \in DOMAIN s : s[i].id # a.id, \A i \in DOMAIN t : t[i].id # b.id,
           a.title = b.title, a.completed = b.completed
    PROVE  Looks(Append(s, a)) = Looks(Append(t, b))
<1>1. s \in Seq(Todo) /\ t \in Seq(Todo) /\ Len(s) \in Nat
  BY DEF List
<1>2. /\ Len(s) = Len(t)
      /\ \A i \in 1..Len(s) : s[i].title = t[i].title /\ s[i].completed = t[i].completed
  BY <1>1, LooksIs
<1>3. /\ Append(s, a) \in Seq(Todo) /\ Len(Append(s, a)) = Len(s) + 1
      /\ Append(t, b) \in Seq(Todo) /\ Len(Append(t, b)) = Len(s) + 1
      /\ Append(s, a)[Len(s) + 1] = a /\ Append(t, b)[Len(s) + 1] = b
      /\ \A i \in 1..Len(s) : Append(s, a)[i] = s[i] /\ Append(t, b)[i] = t[i]
  BY <1>2, AddedIs DEF List
<1>4. ASSUME NEW i \in 1..(Len(s) + 1)
      PROVE  /\ Append(s, a)[i].title = Append(t, b)[i].title
             /\ Append(s, a)[i].completed = Append(t, b)[i].completed
  <2>1. CASE i \in 1..Len(s)
    <3>1. Append(s, a)[i] = s[i] /\ Append(t, b)[i] = t[i]
      BY <1>3, <2>1
    <3> QED
      BY <1>2, <2>1, <3>1
  <2>2. CASE i = Len(s) + 1
    <3>1. Append(s, a)[i] = a /\ Append(t, b)[i] = b
      BY <1>3, <2>2
    <3> QED
      BY <3>1
  <2>3. i \in 1..Len(s) \/ i = Len(s) + 1
    BY <1>1
  <2> QED
    BY <2>1, <2>2, <2>3
<1>5. /\ Append(s, a) \in Seq(Todo) /\ Append(t, b) \in Seq(Todo)
      /\ Len(Append(s, a)) = Len(s) + 1 /\ Len(Append(t, b)) = Len(s) + 1
  BY <1>3
<1> HIDE DEF List
<1> QED
  BY <1>4, <1>5, LooksIs

-----------------------------------------------------------------------------
(* The page *)

\* A list has a number of active items, at most that of its items.
LEMMA ActiveCountIs ==
    ASSUME NEW s \in Seq(Todo)
    PROVE  ActiveCount(s) \in Nat /\ ActiveCount(s) <= Len(s)
<1>1. Len(s) \in Nat /\ ShownAt(s, "Active") \in SUBSET (1..Len(s))
  BY DEF ShownAt
<1> QED
  BY <1>1, SomeIndices DEF ActiveCount

\* The view of no todos.
LEMMA NoneActive == ActiveCount(<< >>) = 0
<1>1. << >> \in Seq(Todo) /\ Len(<< >>) = 0
  OBVIOUS
<1>2. \A s \in Seq(Todo) : ActiveCount(s) \in Nat /\ ActiveCount(s) <= Len(s)
  BY ActiveCountIs
<1>3. ActiveCount(<< >>) \in Nat /\ ActiveCount(<< >>) <= Len(<< >>)
  BY <1>1, <1>2, Zenon
<1> QED
  BY <1>1, <1>3

\* What is drawn of a page: its todos under its filter, and at most the edit box
\* of the todo that is being edited.
LEMMA DrawnIs ==
    ASSUME NEW p \in PageState, List(p.todos)
    PROVE  /\ Drawn(p) \in DomState
           /\ Drawn(p).items = Matching(p.todos, p.filter)
           /\ List(Drawn(p).items) /\ Of(Drawn(p).items, p.todos)
           /\ Drawn(p).footer = (p.todos # << >>)
           /\ Drawn(p).count = ActiveCount(p.todos)
           /\ Drawn(p).allCompleted = (ActiveCount(p.todos) = 0)
           /\ Drawn(p).clear = (ActiveCount(p.todos) < Len(p.todos))
           /\ Drawn(p).editing \in {0, p.editing}
<1>1. List(Matching(p.todos, p.filter)) /\ Of(Matching(p.todos, p.filter), p.todos)
  BY MatchingIs
<1>2. Matching(p.todos, p.filter) \in Seq(Todo)
  BY <1>1 DEF List
<1>3. ActiveCount(p.todos) \in Nat
  BY ActiveCountIs DEF List
<1>4. p.editing \in Nat
  BY DEF PageState
<1>5. (IF \E i \in DOMAIN p.todos : p.todos[i].id = p.editing THEN p.editing ELSE 0) \in {0, p.editing}
  OBVIOUS
<1> QED
  BY <1>1, <1>2, <1>3, <1>4, <1>5 DEF Drawn, DomState

\* The page that is not there.
LEMMA NoPageIs == NoPage \in PageState /\ PageList(NoPage.todos) /\ NoPage.todos = << >>
<1>1. << >> \in Seq(Todo) /\ DOMAIN << >> = {}
  OBVIOUS
<1>2. NoPage.todos = << >>
  BY DEF NoPage
<1>3. NoPage \in PageState
  BY <1>1 DEF NoPage, PageState, FilterState
<1> QED
  BY <1>1, <1>2, <1>3 DEF PageList, List, Distinct

\* The page has an id for a new todo that is no other todo's: there are more
\* numbers to choose from than there are todos.
LEMMA NewIdIs ==
    ASSUME app.todos \in Seq(Todo), dom.items \in Seq(Todo)
    PROVE  /\ NewId \in Nat /\ NewId # 0
           /\ \A i \in DOMAIN app.todos : app.todos[i].id # NewId
<1> DEFINE m == Len(app.todos)
           k == Len(dom.items)
           S == {app.todos[i] : i \in DOMAIN app.todos} \cup {dom.items[i] : i \in DOMAIN dom.items}
           f == [n \in 1..(m + k) |-> IF n <= m THEN app.todos[n].id ELSE dom.items[n - m].id]
           R == {f[n] : n \in 1..(m + k)}
<1>1. /\ m \in Nat /\ k \in Nat
      /\ DOMAIN app.todos = 1..m /\ DOMAIN dom.items = 1..k
  OBVIOUS
<1> HIDE DEF m, k
<1>2. IsFiniteSet(R) /\ Cardinality(R) <= m + k /\ Cardinality(R) \in Nat
  <2>1. f \in Surjection(1..(m + k), R)
    BY DEF Surjection
  <2>2. IsFiniteSet(1..(m + k)) /\ Cardinality(1..(m + k)) = m + k
    BY <1>1, FS_Interval
  <2> QED
    BY <2>1, <2>2, FS_Surjection, FS_CardinalityType
<1>3. PICK n \in 1..(m + k + 1) : n \notin R
  <2>1. IsFiniteSet(1..(m + k + 1)) /\ Cardinality(1..(m + k + 1)) = m + k + 1
    BY <1>1, FS_Interval
  <2> HIDE DEF R
  <2>2. ASSUME 1..(m + k + 1) \subseteq R
        PROVE  FALSE
    <3>1. Cardinality(1..(m + k + 1)) <= Cardinality(R)
      BY <1>2, <2>2, FS_Subset
    <3> QED
      BY <1>1, <1>2, <2>1, <3>1
  <2> QED
    BY <2>2
<1>4. \A t \in S : t.id # n
  <2>1. ASSUME NEW i \in 1..m
        PROVE  app.todos[i].id \in R
    <3>1. i \in 1..(m + k) /\ f[i] = app.todos[i].id
      BY <1>1
    <3> QED
      BY <3>1
  <2>2. ASSUME NEW i \in 1..k
        PROVE  dom.items[i].id \in R
    <3>1. m + i \in 1..(m + k) /\ f[m + i] = dom.items[i].id
      BY <1>1
    <3> QED
      BY <3>1
  <2> HIDE DEF R
  <2> QED
    BY <1>1, <1>3, <2>1, <2>2
<1>5. NewId \in 1..(m + k + 1) /\ \A t \in S : t.id # NewId
  BY <1>3, <1>4 DEF NewId, m, k
<1> QED
  BY <1>1, <1>5

-----------------------------------------------------------------------------
(* The model *)

\* The fields of a view, whatever it shows.
LEMMA RefreshIs ==
    ASSUME NEW items, NEW filter
    PROVE  LET v == Refresh(items, filter)
           IN  /\ DOMAIN v = {"nowShowing", "shownTodos", "activeTodoCount", "toggleAllStatus",
                              "clearButtonShown"}
               /\ v.nowShowing = filter
               /\ v.shownTodos = Matching(items, filter)
               /\ v.activeTodoCount = ActiveCount(items)
               /\ v.toggleAllStatus = (CASE items = << >>           -> "NotShown"
                                         [] ActiveCount(items) # 0  -> "Unchecked"
                                         [] OTHER                   -> "Checked")
               /\ v.clearButtonShown = (ActiveCount(items) < Len(items))
BY DEF Refresh

\* The model with no todos, at the start of each run.
LEMMA NoTodos ==
    /\ List(<< >>) /\ PageList(<< >>)
    /\ \A f \in FilterState :
          (todos' = << >> /\ next_id' = 0 /\ view' = Refresh(<< >>, f))
             => ModelInv' /\ view'.nowShowing = f
<1>1. << >> \in Seq(Todo) /\ DOMAIN << >> = {}
  OBVIOUS
<1>2. List(<< >>) /\ PageList(<< >>)
  BY <1>1 DEF List, PageList, Distinct
<1>3. ASSUME NEW f \in FilterState, todos' = << >>, next_id' = 0, view' = Refresh(<< >>, f)
      PROVE  ModelInv' /\ view'.nowShowing = f
  <2>1. view'.nowShowing = f
    BY <1>3, RefreshIs
  <2> QED
    BY <1>1, <1>2, <1>3, <2>1 DEF ModelInv
<1> QED
  BY <1>2, <1>3

\* A change of the list refreshes the view under the filter it has.
LEMMA ChangedModel ==
    ASSUME ModelInv, NEW items, List(items), Changed(items), next_id' \in Nat,
           \A i \in DOMAIN items : items[i].id < next_id'
    PROVE  ModelInv' /\ todos' = items /\ view'.nowShowing = view.nowShowing
<1>1. /\ todos' = items
      /\ view' = Refresh(items, view.nowShowing)
  BY DEF Changed
<1>2. view'.nowShowing = view.nowShowing
  BY <1>1, RefreshIs
<1> QED
  BY <1>1, <1>2 DEF ModelInv

\* The changes that add no todo keep its ids below the next one.
LEMMA ChangedOf ==
    ASSUME ModelInv, NEW items, List(items), Changed(items), Of(items, todos), UNCHANGED next_id
    PROVE  ModelInv' /\ todos' = items /\ view'.nowShowing = view.nowShowing
<1>1. \A i \in DOMAIN todos : todos[i].id < next_id
  BY DEF ModelInv
<1>2. next_id' = next_id /\ next_id' \in Nat
  BY DEF ModelInv
<1>3. \A i \in DOMAIN items : items[i].id < next_id'
  <2> TAKE i \in DOMAIN items
  <2>1. PICK j \in DOMAIN todos : items[i].id = todos[j].id
    BY DEF Of
  <2> QED
    BY <1>1, <1>2, <2>1
<1> QED
  BY <1>2, <1>3, ChangedModel

\* The n-th todo that a view shows is one of the list.
LEMMA ShownIs ==
    ASSUME NEW s, List(s), NEW filter, NEW n \in DOMAIN Matching(s, filter)
    PROVE  LET k == Nth(ShownAt(s, filter), n)
           IN  k \in DOMAIN s /\ Matching(s, filter)[n] = s[k]
<1>1. s \in Seq(Todo) /\ ShownAt(s, filter) \in SUBSET DOMAIN s
  BY DEF List, ShownAt
<1>2. /\ DOMAIN ItemsAt(s, ShownAt(s, filter)) = 1..Cardinality(ShownAt(s, filter))
      /\ \A i \in 1..Cardinality(ShownAt(s, filter)) :
            /\ Nth(ShownAt(s, filter), i) \in ShownAt(s, filter)
            /\ ItemsAt(s, ShownAt(s, filter))[i] = s[Nth(ShownAt(s, filter), i)]
  BY <1>1, ItemsAtIs
<1> QED
  BY <1>1, <1>2 DEF Matching

\* What each action of the user makes of the model (todomvc.fizz:88-127), whose view
\* stays that of its todos.
LEMMA ModelAdds ==
    ASSUME ModelInv, NEW title \in Titles, UserAddsItem(title)
    PROVE  LET t == [id |-> next_id, title |-> title, completed |-> FALSE]
           IN  /\ ModelInv' /\ view'.nowShowing = view.nowShowing
               /\ t \in Todo /\ \A i \in DOMAIN todos : todos[i].id # t.id
               /\ todos' = Append(todos, t)
<1> DEFINE t == [id |-> next_id, title |-> title, completed |-> FALSE]
           new == Append(todos, t)
<1>1. /\ List(todos) /\ next_id \in Nat
      /\ \A i \in DOMAIN todos : todos[i].id < next_id
  BY DEF ModelInv
<1>2. t \in Todo /\ t.id = next_id
  BY <1>1 DEF Todo
<1>3. \A i \in DOMAIN todos : todos[i].id \in Nat
  <2>1. \A i \in DOMAIN todos : todos[i] \in Todo
    BY <1>1 DEF List
  <2> QED
    BY <2>1 DEF Todo
<1>4. \A i \in DOMAIN todos : todos[i].id # t.id
  BY <1>1, <1>2, <1>3
<1>5. Changed(new) /\ next_id' = next_id + 1
  BY DEF UserAddsItem
<1> HIDE DEF t
<1>6. /\ List(new) /\ Len(new) = Len(todos) + 1 /\ new[Len(todos) + 1] = t
      /\ \A i \in 1..Len(todos) : new[i] = todos[i]
  BY <1>1, <1>2, <1>4, AddedIs
<1>7. /\ Len(todos) \in Nat /\ DOMAIN todos = 1..Len(todos)
      /\ DOMAIN new = 1..(Len(todos) + 1)
  BY <1>1, <1>6 DEF List
<1> HIDE DEF new
<1>8. ASSUME NEW i \in DOMAIN new
      PROVE  new[i].id < next_id'
  <2>1. i \in 1..Len(todos) \/ i = Len(todos) + 1
    BY <1>7
  <2>2. CASE i \in 1..Len(todos)
    <3>1. new[i] = todos[i] /\ todos[i].id < next_id /\ todos[i].id \in Nat
      BY <1>1, <1>3, <1>6, <1>7, <2>2
    <3> QED
      BY <1>1, <1>5, <3>1
  <2>3. CASE i = Len(todos) + 1
    BY <1>1, <1>2, <1>5, <1>6, <2>3
  <2> QED
    BY <2>1, <2>2, <2>3
<1>9. next_id' \in Nat
  BY <1>1, <1>5
<1>10. ModelInv' /\ todos' = new /\ view'.nowShowing = view.nowShowing
  BY <1>5, <1>6, <1>8, <1>9, ChangedModel
<1> QED
  BY <1>2, <1>4, <1>10 DEF new, t

LEMMA ModelSwitches ==
    ASSUME ModelInv, NEW filter \in FilterState, UserSwitchesFilter(filter)
    PROVE  ModelInv' /\ todos' = todos /\ view'.nowShowing = filter /\ todos # << >>
<1>1. todos' = todos /\ next_id' = next_id /\ view' = Refresh(todos, filter) /\ todos # << >>
  BY DEF UserSwitchesFilter
<1>2. view'.nowShowing = filter
  BY <1>1, RefreshIs
<1> QED
  BY <1>1, <1>2 DEF ModelInv

\* What the view of the model shows.
LEMMA ViewIs ==
    ASSUME ModelInv
    PROVE  /\ view.shownTodos = Matching(todos, view.nowShowing)
           /\ view.toggleAllStatus = "NotShown" <=> todos = << >>
           /\ todos # << >> => (view.toggleAllStatus = "Unchecked" <=> ActiveCount(todos) # 0)
           /\ view.clearButtonShown = (ActiveCount(todos) < Len(todos))
           /\ DOMAIN view = {"nowShowing", "shownTodos", "activeTodoCount", "toggleAllStatus",
                             "clearButtonShown"}
<1>1. view = Refresh(todos, view.nowShowing)
  BY DEF ModelInv
<1> DEFINE v == Refresh(todos, view.nowShowing)
<1>2. /\ v.shownTodos = Matching(todos, view.nowShowing)
      /\ v.toggleAllStatus = (CASE todos = << >>           -> "NotShown"
                                [] ActiveCount(todos) # 0  -> "Unchecked"
                                [] OTHER                   -> "Checked")
      /\ v.clearButtonShown = (ActiveCount(todos) < Len(todos))
      /\ DOMAIN v = {"nowShowing", "shownTodos", "activeTodoCount", "toggleAllStatus",
                     "clearButtonShown"}
  BY RefreshIs
<1>3. /\ v.toggleAllStatus = "NotShown" <=> todos = << >>
      /\ todos # << >> => (v.toggleAllStatus = "Unchecked" <=> ActiveCount(todos) # 0)
  <2> HIDE DEF v
  <2>1. CASE todos = << >>
    <3>1. ActiveCount(<< >>) = 0
      BY NoneActive
    <3>2. v.toggleAllStatus = "NotShown"
      BY <1>2, <2>1, <3>1
    <3> QED
      BY <2>1, <3>2
  <2>2. CASE todos # << >> /\ ActiveCount(todos) # 0
    <3>1. v.toggleAllStatus = "Unchecked"
      BY <1>2, <2>2
    <3> QED
      BY <2>2, <3>1
  <2>3. CASE todos # << >> /\ ActiveCount(todos) = 0
    <3>1. v.toggleAllStatus = "Checked"
      BY <1>2, <2>3
    <3> QED
      BY <2>3, <3>1
  <2> QED
    BY <2>1, <2>2, <2>3
<1> HIDE DEF v
<1> QED
  BY <1>1, <1>2, <1>3 DEF v

\* A todo that the view shows is one of the model's.
LEMMA ViewShows ==
    ASSUME ModelInv, NEW i \in DOMAIN view.shownTodos
    PROVE  LET k == Nth(ShownAt(todos, view.nowShowing), i)
           IN  k \in DOMAIN todos /\ view.shownTodos[i] = todos[k]
<1>1. List(todos) /\ view.shownTodos = Matching(todos, view.nowShowing)
  BY ViewIs DEF ModelInv
<1> QED
  BY <1>1, ShownIs

LEMMA ModelToggles ==
    ASSUME ModelInv, NEW i, UserTogglesItem(i)
    PROVE  /\ ModelInv' /\ view'.nowShowing = view.nowShowing
           /\ todos' = Toggled(todos, view.shownTodos[i].id)
<1> DEFINE new == Toggled(todos, view.shownTodos[i].id)
<1>1. Changed(new) /\ UNCHANGED next_id
  BY DEF UserTogglesItem
<1>2. List(new) /\ Of(new, todos)
  BY ToggledIs DEF ModelInv
<1> HIDE DEF new
<1>3. ModelInv' /\ todos' = new /\ view'.nowShowing = view.nowShowing
  BY <1>1, <1>2, ChangedOf
<1> QED
  BY <1>3 DEF new

LEMMA ModelDeletes ==
    ASSUME ModelInv, NEW i, UserDeletesItem(i)
    PROVE  /\ ModelInv' /\ view'.nowShowing = view.nowShowing
           /\ todos' = Without(todos, view.shownTodos[i].id)
<1> DEFINE new == Without(todos, view.shownTodos[i].id)
<1>1. Changed(new) /\ UNCHANGED next_id
  BY DEF UserDeletesItem
<1>2. List(new) /\ Of(new, todos)
  BY WithoutIs DEF ModelInv
<1> HIDE DEF new
<1>3. ModelInv' /\ todos' = new /\ view'.nowShowing = view.nowShowing
  BY <1>1, <1>2, ChangedOf
<1> QED
  BY <1>3 DEF new

LEMMA ModelEdits ==
    ASSUME ModelInv, NEW i, NEW text \in Titles \cup {""}, UserEditsItem(i, text)
    PROVE  /\ ModelInv' /\ view'.nowShowing = view.nowShowing
           /\ todos' = IF text # "" THEN Saved(todos, view.shownTodos[i].id, text)
                                    ELSE Without(todos, view.shownTodos[i].id)
<1> DEFINE id == view.shownTodos[i].id
           new == IF text # "" THEN Saved(todos, id, text) ELSE Without(todos, id)
<1>1. Changed(new) /\ UNCHANGED next_id
  BY DEF UserEditsItem, Edited
<1>2. List(new) /\ Of(new, todos)
  <2> HIDE DEF id
  <2>1. List(todos)
    BY DEF ModelInv
  <2>2. CASE text # ""
    <3>1. text \in Titles /\ new = Saved(todos, id, text)
      BY <2>2
    <3> HIDE DEF new
    <3> QED
      BY <2>1, <3>1, SavedIs
  <2>3. CASE text = ""
    <3>1. new = Without(todos, id)
      BY <2>3
    <3> HIDE DEF new
    <3> QED
      BY <2>1, <3>1, WithoutIs
  <2> QED
    BY <2>2, <2>3
<1> HIDE DEF new
<1>3. ModelInv' /\ todos' = new /\ view'.nowShowing = view.nowShowing
  BY <1>1, <1>2, ChangedOf
<1> QED
  BY <1>3 DEF new

LEMMA ModelTogglesAll ==
    ASSUME ModelInv, UserTogglesAll
    PROVE  /\ ModelInv' /\ view'.nowShowing = view.nowShowing /\ todos # << >>
           /\ todos' = Marked(todos, ActiveCount(todos) # 0)
<1>1. todos # << >> /\ (view.toggleAllStatus = "Unchecked") = (ActiveCount(todos) # 0)
  BY ViewIs DEF UserTogglesAll
<1> DEFINE new == Marked(todos, ActiveCount(todos) # 0)
<1>2. Changed(new) /\ UNCHANGED next_id
  BY <1>1 DEF UserTogglesAll
<1>3. List(new) /\ Of(new, todos)
  BY MarkedIs DEF ModelInv
<1> HIDE DEF new
<1>4. ModelInv' /\ todos' = new /\ view'.nowShowing = view.nowShowing
  BY <1>2, <1>3, ChangedOf
<1> QED
  BY <1>1, <1>4 DEF new

LEMMA ModelClears ==
    ASSUME ModelInv, UserClearsCompleted
    PROVE  /\ ModelInv' /\ view'.nowShowing = view.nowShowing
           /\ ActiveCount(todos) < Len(todos)
           /\ todos' = Matching(todos, "Active")
<1> DEFINE new == Matching(todos, "Active")
<1>1. Changed(new) /\ UNCHANGED next_id
  BY DEF UserClearsCompleted
<1>2. List(new) /\ Of(new, todos)
  BY MatchingIs DEF ModelInv
<1> HIDE DEF new
<1>3. ModelInv' /\ todos' = new /\ view'.nowShowing = view.nowShowing
  BY <1>1, <1>2, ChangedOf
<1>4. ActiveCount(todos) < Len(todos)
  BY ViewIs DEF UserClearsCompleted
<1> QED
  BY <1>3, <1>4 DEF new

-----------------------------------------------------------------------------
(* A page in step with the model shows what the view of the model shows      *)

InStepHere == Settled /\ InStep(app.todos, app.filter) /\ app.editing = 0

\* The types of the page.
LEMMA PageTypes ==
    ASSUME PageInv
    PROVE  /\ app \in PageState /\ dom \in DomState
           /\ List(app.todos) /\ \A i \in DOMAIN app.todos : app.todos[i].id # 0
           /\ Drawn(app) \in DomState
BY DrawnIs DEF PageInv, PageState, DomState, PageList

\* The numbers and the controls that are drawn.
LEMMA PageCounts ==
    ASSUME ModelInv, PageInv, InStepHere
    PROVE  /\ dom.footer = (todos # << >>)
           /\ dom.count = ActiveCount(todos)
           /\ dom.allCompleted = (ActiveCount(todos) = 0)
           /\ dom.clear = (ActiveCount(todos) < Len(todos))
           /\ dom.editing = 0
<1>1. /\ app.todos \in Seq(Todo) /\ todos \in Seq(Todo) /\ List(app.todos) /\ app \in PageState
      /\ Looks(app.todos) = Looks(todos) /\ app.editing = 0 /\ dom = Drawn(app)
  BY PageTypes DEF InStepHere, Settled, InStep, ModelInv, List
<1>2. Len(app.todos) = Len(todos) /\ ActiveCount(app.todos) = ActiveCount(todos)
  BY <1>1, LooksIs, ShownAlike
<1>3. app.todos = << >> <=> todos = << >>
  BY <1>1, <1>2
<1>4. /\ dom.footer = (app.todos # << >>)
      /\ dom.count = ActiveCount(app.todos)
      /\ dom.allCompleted = (ActiveCount(app.todos) = 0)
      /\ dom.clear = (ActiveCount(app.todos) < Len(app.todos))
      /\ dom.editing \in {0, app.editing}
  BY <1>1, DrawnIs
<1> QED
  BY <1>1, <1>2, <1>3, <1>4

\* The items that are drawn look like those the view shows.
LEMMA PageLooks ==
    ASSUME ModelInv, PageInv, InStepHere
    PROVE  Looks(dom.items) = Looks(view.shownTodos) /\ app.filter = view.nowShowing
<1>1. /\ List(app.todos) /\ List(todos) /\ app \in PageState
      /\ Looks(app.todos) = Looks(todos) /\ dom = Drawn(app) /\ app.filter = view.nowShowing
  BY PageTypes DEF InStepHere, Settled, InStep, ModelInv
<1>2. dom.items = Matching(app.todos, app.filter)
  BY <1>1, DrawnIs
<1>3. view.shownTodos = Matching(todos, view.nowShowing)
  BY ViewIs
<1>4. Looks(Matching(app.todos, app.filter)) = Looks(Matching(todos, app.filter))
  BY <1>1, MatchingAlike
<1> QED
  BY <1>1, <1>2, <1>3, <1>4

\* The item at an index of the view is the todo at one and the same place, in the
\* model and in the page.
LEMMA PageShows ==
    ASSUME ModelInv, PageInv, InStepHere, NEW i \in DOMAIN view.shownTodos
    PROVE  /\ i \in DOMAIN dom.items /\ i \in Nat
           /\ dom.items[i].id # 0 /\ dom.items[i].id \in Nat
           /\ \E k \in DOMAIN app.todos :
                 /\ k \in DOMAIN todos
                 /\ view.shownTodos[i] = todos[k] /\ dom.items[i] = app.todos[k]
<1> DEFINE k == Nth(ShownAt(todos, view.nowShowing), i)
<1>1. /\ List(app.todos) /\ List(todos) /\ app \in PageState
      /\ Looks(app.todos) = Looks(todos) /\ dom = Drawn(app) /\ app.filter = view.nowShowing
      /\ \A n \in DOMAIN app.todos : app.todos[n].id # 0
  BY PageTypes DEF InStepHere, Settled, InStep, ModelInv
<1>2. /\ app.todos \in Seq(Todo) /\ todos \in Seq(Todo)
      /\ List(dom.items) /\ List(view.shownTodos)
      /\ dom.items = Matching(app.todos, app.filter)
  BY <1>1, DrawnIs, ViewIs, MatchingIs DEF List
<1>3. dom.items \in Seq(Todo) /\ view.shownTodos \in Seq(Todo)
  BY <1>2 DEF List
<1>4. DOMAIN dom.items = DOMAIN view.shownTodos
  <2>1. Len(dom.items) = Len(view.shownTodos)
    BY <1>3, PageLooks, LooksIs
  <2> QED
    BY <1>3, <2>1
<1>5. ShownAt(app.todos, app.filter) = ShownAt(todos, view.nowShowing)
  BY <1>1, <1>2, ShownAlike
<1>6. k \in DOMAIN todos /\ view.shownTodos[i] = todos[k]
  BY ViewShows
<1>7. k \in DOMAIN app.todos /\ dom.items[i] = app.todos[k]
  <2>1. i \in DOMAIN Matching(app.todos, app.filter)
    BY <1>2, <1>4
  <2> QED
    BY <1>1, <1>2, <1>5, <2>1, ShownIs
<1> HIDE DEF k
<1>8. dom.items[i].id # 0
  BY <1>1, <1>7
<1>9. dom.items[i] \in Todo /\ i \in Nat
  BY <1>3, <1>4
<1>10. dom.items[i].id \in Nat
  BY <1>9 DEF Todo
<1> QED
  BY <1>4, <1>6, <1>7, <1>8, <1>9, <1>10

-----------------------------------------------------------------------------
(* An action begins: the page is one step behind the model, and what the      *)
(* action looks for is there                                                *)

\* The action under way is the one the runner has called.
LEMMA ActingIs ==
    ASSUME NEW op, NEW index, NEW arg, Acting(op, index, arg)
    PROVE  act'.step = "acting" /\ act'.op = op /\ act'.index = index /\ act'.arg = arg
BY DEF Acting

\* What it takes for an action other than an edit.
LEMMA BegunIs ==
    ASSUME PageInv, InStepHere, UNCHANGED page, act'.op # "UserEditsItem", Visible',
           NEW p, p \in PageState, Clicked' = p, p.editing = 0,
           Looks(p.todos) = Looks(todos'), p.filter = view'.nowShowing
    PROVE  ActingInv'
<1>1. app' = app /\ dom' = dom
  BY DEF page
<1>2. Settled' /\ app'.editing = 0
  BY <1>1 DEF InStepHere, Settled
<1>3. InStep(Clicked.todos, Clicked.filter)' /\ (Clicked.editing = 0)'
  BY DEF InStep
<1> QED
  BY <1>2, <1>3 DEF ActingInv

\* One lemma for each action: after the step of the model, its control is shown, and
\* the click will make of the page what the step has made of the model.
LEMMA BegunAdd ==
    ASSUME ModelInv, PageInv, InStepHere, UNCHANGED page, NEW title \in Titles,
           UserAddsItem(title), Acting("UserAddsItem", 0, title)
    PROVE  ActingInv'
<1> DEFINE a == [id |-> NewId, title |-> title, completed |-> FALSE]
           b == [id |-> next_id, title |-> title, completed |-> FALSE]
           p == [app EXCEPT !.todos = Append(@, a)]
<1>1. act'.op = "UserAddsItem" /\ act'.arg = title /\ app' = app /\ dom' = dom
  BY ActingIs DEF page
<1>2. /\ app \in PageState /\ dom \in DomState /\ List(app.todos)
      /\ app.editing = 0 /\ app.filter = view.nowShowing /\ Looks(app.todos) = Looks(todos)
      /\ List(todos)
  BY PageTypes DEF InStepHere, InStep, ModelInv
<1>3. /\ b \in Todo /\ \A i \in DOMAIN todos : todos[i].id # b.id
      /\ todos' = Append(todos, b) /\ view'.nowShowing = view.nowShowing
  BY ModelAdds
<1>4. a \in Todo /\ \A i \in DOMAIN app.todos : app.todos[i].id # a.id
  <2>1. app.todos \in Seq(Todo) /\ dom.items \in Seq(Todo)
    BY <1>2 DEF PageState, DomState
  <2>2. NewId \in Nat /\ \A i \in DOMAIN app.todos : app.todos[i].id # NewId
    BY <2>1, NewIdIs
  <2> QED
    BY <2>2 DEF Todo
<1>5. Clicked' = p
  <2>1. NewId' = NewId
    BY <1>1 DEF NewId
  <2> QED
    BY <1>1, <2>1 DEF Clicked
<1>6. /\ p.todos = Append(app.todos, a) /\ p.filter = app.filter /\ p.editing = app.editing
      /\ p \in PageState
  <2>1. Append(app.todos, a) \in Seq(Todo)
    BY <1>2, <1>4 DEF List
  <2> HIDE DEF a
  <2> QED
    BY <1>2, <2>1 DEF PageState
<1>7. a.title = b.title /\ a.completed = b.completed
  OBVIOUS
<1>8. Visible'
  BY <1>1 DEF Visible
<1> HIDE DEF a, b, p
<1>9. Looks(Append(app.todos, a)) = Looks(Append(todos, b))
  BY <1>2, <1>3, <1>4, <1>7, AddedAlike
<1> QED
  BY <1>1, <1>2, <1>3, <1>5, <1>6, <1>8, <1>9, BegunIs

LEMMA BegunSwitch ==
    ASSUME ModelInv, PageInv, InStepHere, UNCHANGED page, NEW filter \in FilterState,
           UserSwitchesFilter(filter), Acting("UserSwitchesFilter", 0, filter)
    PROVE  ActingInv'
<1> DEFINE p == [app EXCEPT !.filter = filter]
<1>1. act'.op = "UserSwitchesFilter" /\ act'.arg = filter /\ app' = app /\ dom' = dom
  BY ActingIs DEF page
<1>2. app \in PageState /\ app.editing = 0 /\ Looks(app.todos) = Looks(todos)
  BY PageTypes DEF InStepHere, InStep
<1>3. todos' = todos /\ view'.nowShowing = filter /\ todos # << >>
  BY ModelSwitches
<1>4. Clicked' = p
  BY <1>1 DEF Clicked
<1>5. p.todos = app.todos /\ p.filter = filter /\ p.editing = app.editing /\ p \in PageState
  BY <1>2 DEF PageState
<1>6. Visible'
  <2>1. dom.footer
    BY <1>3, PageCounts
  <2> QED
    BY <1>1, <2>1 DEF Visible
<1> HIDE DEF p
<1> QED
  BY <1>1, <1>2, <1>3, <1>4, <1>5, <1>6, BegunIs

LEMMA BegunToggleAll ==
    ASSUME ModelInv, PageInv, InStepHere, UNCHANGED page,
           UserTogglesAll, Acting("UserTogglesAll", 0, "")
    PROVE  ActingInv'
<1> DEFINE new == Marked(app.todos, ~dom.allCompleted)
           p == [app EXCEPT !.todos = new]
<1>1. act'.op = "UserTogglesAll" /\ app' = app /\ dom' = dom
  BY ActingIs DEF page
<1>2. /\ app \in PageState /\ dom \in DomState /\ List(app.todos)
      /\ app.editing = 0 /\ app.filter = view.nowShowing /\ Looks(app.todos) = Looks(todos)
      /\ List(todos)
  BY PageTypes DEF InStepHere, InStep, ModelInv
<1>3. /\ todos' = Marked(todos, ActiveCount(todos) # 0) /\ todos # << >>
      /\ view'.nowShowing = view.nowShowing
  BY ModelTogglesAll
<1>4. Clicked' = p
  BY <1>1 DEF Clicked
<1>5. (~dom.allCompleted) = (ActiveCount(todos) # 0) /\ dom.footer
  BY <1>3, PageCounts
<1>6. Visible'
  BY <1>1, <1>5 DEF Visible
<1>7. List(new)
  BY <1>2, MarkedIs
<1>8. Looks(new) = Looks(todos')
  BY <1>2, <1>3, <1>5, MarkedAlike
<1> HIDE DEF new
<1>9. p.todos = new /\ p.filter = app.filter /\ p.editing = app.editing /\ p \in PageState
  BY <1>2, <1>7 DEF PageState, List
<1> HIDE DEF p
<1> QED
  BY <1>1, <1>2, <1>3, <1>4, <1>6, <1>8, <1>9, BegunIs

LEMMA BegunClear ==
    ASSUME ModelInv, PageInv, InStepHere, UNCHANGED page,
           UserClearsCompleted, Acting("UserClearsCompleted", 0, "")
    PROVE  ActingInv'
<1> DEFINE new == Matching(app.todos, "Active")
           p == [app EXCEPT !.todos = new]
<1>1. act'.op = "UserClearsCompleted" /\ app' = app /\ dom' = dom
  BY ActingIs DEF page
<1>2. /\ app \in PageState /\ dom \in DomState /\ List(app.todos)
      /\ app.editing = 0 /\ app.filter = view.nowShowing /\ Looks(app.todos) = Looks(todos)
      /\ List(todos)
  BY PageTypes DEF InStepHere, InStep, ModelInv
<1>3. /\ todos' = Matching(todos, "Active") /\ ActiveCount(todos) < Len(todos)
      /\ view'.nowShowing = view.nowShowing
  BY ModelClears
<1>4. Clicked' = p
  BY <1>1 DEF Clicked
<1>5. dom.clear
  BY <1>3, PageCounts
<1>6. Visible'
  BY <1>1, <1>5 DEF Visible
<1>7. List(new)
  BY <1>2, MatchingIs
<1>8. Looks(new) = Looks(todos')
  <2>1. List(app.todos) /\ List(todos) /\ Looks(app.todos) = Looks(todos)
    BY <1>2
  <2>2. \A filter : Looks(Matching(app.todos, filter)) = Looks(Matching(todos, filter))
    BY <2>1, MatchingAlike
  <2> QED
    BY <1>3, <2>2
<1> HIDE DEF new
<1>9. p.todos = new /\ p.filter = app.filter /\ p.editing = app.editing /\ p \in PageState
  BY <1>2, <1>7 DEF PageState, List
<1> HIDE DEF p
<1> QED
  BY <1>1, <1>2, <1>3, <1>4, <1>6, <1>8, <1>9, BegunIs

LEMMA BegunToggle ==
    ASSUME ModelInv, PageInv, InStepHere, UNCHANGED page, NEW i \in DOMAIN view.shownTodos,
           UserTogglesItem(i), Acting("UserTogglesItem", i, "")
    PROVE  ActingInv'
<1>1. act'.op = "UserTogglesItem" /\ act'.index = i /\ app' = app /\ dom' = dom
  BY ActingIs DEF page
<1>2. /\ app \in PageState /\ List(app.todos) /\ List(todos)
      /\ app.editing = 0 /\ app.filter = view.nowShowing /\ Looks(app.todos) = Looks(todos)
  BY PageTypes DEF InStepHere, InStep, ModelInv
<1>3. todos' = Toggled(todos, view.shownTodos[i].id) /\ view'.nowShowing = view.nowShowing
  BY ModelToggles
<1>4. PICK k \in DOMAIN app.todos :
         k \in DOMAIN todos /\ view.shownTodos[i] = todos[k] /\ dom.items[i] = app.todos[k]
  BY PageShows
<1> DEFINE new == Toggled(app.todos, app.todos[k].id)
           p == [app EXCEPT !.todos = new]
<1>5. Clicked' = p
  BY <1>1, <1>4 DEF Clicked, Located
<1>6. Visible'
  <2>1. i \in DOMAIN dom.items /\ dom.items[i].id # dom.editing
    BY PageShows, PageCounts
  <2> QED
    BY <1>1, <2>1 DEF Visible, Located
<1>7. List(new)
  BY <1>2, ToggledIs
<1>8. Looks(new) = Looks(todos')
  <2>1. todos' = Toggled(todos, todos[k].id)
    BY <1>3, <1>4
  <2>2. Looks(Toggled(app.todos, app.todos[k].id)) = Looks(Toggled(todos, todos[k].id))
    BY <1>2, ToggledAlike
  <2> QED
    BY <2>1, <2>2
<1> HIDE DEF new
<1>9. p.todos = new /\ p.filter = app.filter /\ p.editing = app.editing /\ p \in PageState
  BY <1>2, <1>7 DEF PageState, List
<1> HIDE DEF p
<1> QED
  BY <1>1, <1>2, <1>3, <1>5, <1>6, <1>8, <1>9, BegunIs

LEMMA BegunDelete ==
    ASSUME ModelInv, PageInv, InStepHere, UNCHANGED page, NEW i \in DOMAIN view.shownTodos,
           UserDeletesItem(i), Acting("UserDeletesItem", i, "")
    PROVE  ActingInv'
<1>1. act'.op = "UserDeletesItem" /\ act'.index = i /\ app' = app /\ dom' = dom
  BY ActingIs DEF page
<1>2. /\ app \in PageState /\ List(app.todos) /\ List(todos)
      /\ app.editing = 0 /\ app.filter = view.nowShowing /\ Looks(app.todos) = Looks(todos)
  BY PageTypes DEF InStepHere, InStep, ModelInv
<1>3. todos' = Without(todos, view.shownTodos[i].id) /\ view'.nowShowing = view.nowShowing
  BY ModelDeletes
<1>4. PICK k \in DOMAIN app.todos :
         k \in DOMAIN todos /\ view.shownTodos[i] = todos[k] /\ dom.items[i] = app.todos[k]
  BY PageShows
<1> DEFINE new == Without(app.todos, app.todos[k].id)
           p == [app EXCEPT !.todos = new]
<1>5. Clicked' = p
  BY <1>1, <1>4 DEF Clicked, Located
<1>6. Visible'
  <2>1. i \in DOMAIN dom.items
    BY PageShows
  <2> QED
    BY <1>1, <2>1 DEF Visible, Located
<1>7. List(new)
  BY <1>2, WithoutIs
<1>8. Looks(new) = Looks(todos')
  <2>1. todos' = Without(todos, todos[k].id)
    BY <1>3, <1>4
  <2>2. Looks(Without(app.todos, app.todos[k].id)) = Looks(Without(todos, todos[k].id))
    BY <1>2, WithoutAlike
  <2> QED
    BY <2>1, <2>2
<1> HIDE DEF new
<1>9. p.todos = new /\ p.filter = app.filter /\ p.editing = app.editing /\ p \in PageState
  BY <1>2, <1>7 DEF PageState, List
<1> HIDE DEF p
<1> QED
  BY <1>1, <1>2, <1>3, <1>5, <1>6, <1>8, <1>9, BegunIs

LEMMA BegunEdit ==
    ASSUME ModelInv, PageInv, InStepHere, UNCHANGED page, NEW i \in DOMAIN view.shownTodos,
           NEW text \in Titles \cup {""},
           UserEditsItem(i, text), Acting("UserEditsItem", i, text)
    PROVE  ActingInv'
<1>1. /\ act'.op = "UserEditsItem" /\ act'.index = i /\ act'.arg = text
      /\ app' = app /\ dom' = dom
  BY ActingIs DEF page
<1>2. /\ List(app.todos) /\ List(todos)
      /\ app.editing = 0 /\ app.filter = view.nowShowing /\ Looks(app.todos) = Looks(todos)
  BY PageTypes DEF InStepHere, InStep, ModelInv
<1>3. /\ view'.nowShowing = view.nowShowing
      /\ todos' = IF text # "" THEN Saved(todos, view.shownTodos[i].id, text)
                               ELSE Without(todos, view.shownTodos[i].id)
  BY ModelEdits
<1>4. PICK k \in DOMAIN app.todos :
         k \in DOMAIN todos /\ view.shownTodos[i] = todos[k] /\ dom.items[i] = app.todos[k]
  BY PageShows
<1>5. /\ i \in DOMAIN dom.items /\ dom.items[i].id # dom.editing /\ dom.items[i].id # 0
  BY PageShows, PageCounts
<1>6. Visible'
  BY <1>1, <1>5 DEF Visible, Located
<1>7. Settled' /\ app'.editing = 0
  BY <1>1, <1>2 DEF InStepHere, Settled
<1>8. PICK id \in Nat : id = app.todos[k].id /\ id = dom.items[i].id
  BY <1>4, PageShows
<1>9. (dom.items[Located(act.index)].id = id)' /\ id # 0
  BY <1>1, <1>5, <1>8 DEF Located
<1>10. InStep(AfterEdit(id), app.filter)'
  <2>1. CASE text # ""
    <3>1. text \in Titles
      BY <2>1
    <3>2. todos' = Saved(todos, todos[k].id, text)
      BY <1>3, <1>4, <2>1
    <3>3. Looks(Saved(app.todos, app.todos[k].id, text)) = Looks(Saved(todos, todos[k].id, text))
      BY <1>2, <1>4, <3>1, SavedAlike
    <3>4. AfterEdit(id)' = Saved(app.todos, id, text)
      BY <1>1, <2>1 DEF AfterEdit
    <3>5. Looks(AfterEdit(id)') = Looks(todos')
      BY <1>8, <3>2, <3>3, <3>4
    <3> QED
      BY <1>1, <1>2, <1>3, <3>5 DEF InStep
  <2>2. CASE text = ""
    <3>1. todos' = Without(todos, todos[k].id)
      BY <1>3, <1>4, <2>2
    <3>2. Looks(Without(app.todos, app.todos[k].id)) = Looks(Without(todos, todos[k].id))
      BY <1>2, <1>4, WithoutAlike
    <3>3. AfterEdit(id)' = Without(app.todos, id)
      BY <1>1, <2>2 DEF AfterEdit
    <3>4. Looks(AfterEdit(id)') = Looks(todos')
      BY <1>8, <3>1, <3>2, <3>3
    <3> QED
      BY <1>1, <1>2, <1>3, <3>4 DEF InStep
  <2> QED
    BY <2>1, <2>2
<1>11. act'.op = "UserEditsItem" /\ (LET e == dom.items[Located(act.index)].id
                                    IN  e # 0 /\ InStep(AfterEdit(e), app.filter))'
  BY <1>1, <1>9, <1>10
<1> QED
  BY <1>6, <1>7, <1>11 DEF ActingInv

-----------------------------------------------------------------------------
(* The inductive invariant, step by step                                    *)

\* What the types add to the other parts of the invariant.
Rest ==
    /\ phase \in {"off", "on", "failed", "gone", "closed"}
    /\ report # NoReport => DOMAIN report = DOMAIN view
    /\ losses \in 0..MaxLosses
    /\ disturbed \in BOOLEAN

\* The type invariant and Conforms follow from the other parts.
LEMMA TodosTyped ==
    ASSUME NEW s \in Seq(Todo)
    PROVE  \A i \in DOMAIN s : s[i].title \in Titles /\ s[i].completed \in BOOLEAN /\ s[i].id \in Nat
<1>1. \A i \in DOMAIN s : s[i] \in Todo
  OBVIOUS
<1> QED
  BY <1>1 DEF Todo

LEMMA Typed ==
    ASSUME ModelInv', PageInv', ActInv', Rest'
    PROVE  TypeOK'
<1>1. /\ storage' \in Seq(Todo) /\ app'.todos \in Seq(Todo) /\ dom'.items \in Seq(Todo)
      /\ todos' \in Seq(Todo) /\ app'.filter \in FilterState
  BY DEF ModelInv, PageInv, PageState, DomState, PageList, List
<1>2. \A items \in {storage', app'.todos, dom'.items, todos'} : \A i \in DOMAIN items :
         items[i].title \in Titles /\ items[i].completed \in BOOLEAN /\ items[i].id \in Nat
  BY <1>1, TodosTyped
<1>3. act'.step \in {"idle", "acting", "editing", "settling", "reading"}
  BY DEF ActInv
<1> QED
  BY <1>1, <1>2, <1>3 DEF TypeOK, Rest

LEMMA Kept ==
    ASSUME ModelInv', PageInv', ActInv', PhaseInv', RunInv', Rest',
           report' # NoReport /\ ~disturbed' => Agrees'
    PROVE  IInv'
<1>1. TypeOK'
  BY Typed
<1>2. Conforms'
  <2> SUFFICES ASSUME report' # NoReport, ~disturbed'
               PROVE  Looks(app'.todos) = Looks(todos') /\ storage' = app'.todos
    BY DEF Conforms
  <2>1. phase' = "on" /\ act' = Idle /\ storage' = app'.todos
    BY DEF PhaseInv, NoReport
  <2>2. act'.step = "idle"
    BY <2>1 DEF Idle
  <2> QED
    BY <2>1, <2>2 DEF RunInv, InStep
<1> QED
  BY <1>1, <1>2 DEF IInv

\* The parts that a step leaves alone.
LEMMA ModelKept == ASSUME ModelInv, UNCHANGED specVars PROVE ModelInv'
BY DEF ModelInv, specVars

LEMMA PageKept == ASSUME PageInv, UNCHANGED page PROVE PageInv'
BY DEF PageInv, page

LEMMA RestIs == ASSUME IInv PROVE Rest
BY DEF IInv, TypeOK, Rest

\* No action under way.
LEMMA IdleIs ==
    /\ Idle.step = "idle"
    /\ Idle \in [step : {"idle", "acting", "editing", "settling", "reading"},
                 op : Ops \cup {""}, index : Nat, arg : Titles \cup FilterState \cup {""}]
    /\ Idle.op = "" /\ Idle.arg = ""
BY DEF Idle

LEMMA NoActInv == ASSUME act' = Idle PROVE ActInv'
BY IdleIs DEF ActInv

LEMMA InitInv == Init => IInv
<1> SUFFICES ASSUME Init PROVE IInv
  OBVIOUS
<1>1. /\ todos = << >> /\ next_id = 0 /\ view = Refresh(<< >>, "All") /\ storage = << >>
      /\ app = NoPage /\ dom = Drawn(NoPage) /\ phase = "off" /\ act = Idle
      /\ report = NoReport /\ losses = 0 /\ disturbed = FALSE
  BY DEF Init, SpecInit
<1>2. << >> \in Seq(Todo) /\ List(<< >>) /\ PageList(<< >>) /\ DOMAIN << >> = {}
  BY NoTodos DEF List
<1>3. view.nowShowing = "All"
  BY <1>1, RefreshIs
<1>4. ModelInv
  BY <1>1, <1>2, <1>3 DEF ModelInv, FilterState
<1>5. PageInv
  <2>1. NoPage \in PageState /\ PageList(NoPage.todos)
    BY NoPageIs
  <2>2. Drawn(NoPage) \in DomState
    BY <2>1, DrawnIs DEF PageList
  <2> QED
    BY <1>1, <1>2, <2>1, <2>2 DEF PageInv, PageState, DomState
<1>6. ActInv
  BY <1>1, IdleIs DEF ActInv
<1>7. PhaseInv
  BY <1>1, <1>3 DEF PhaseInv
<1>8. RunInv /\ Conforms
  BY <1>1 DEF RunInv, Conforms
<1>9. TypeOK
  <2>1. /\ storage \in Seq(Todo) /\ app.todos \in Seq(Todo) /\ dom.items \in Seq(Todo)
        /\ todos \in Seq(Todo) /\ app.filter \in FilterState
    BY <1>4, <1>5 DEF ModelInv, PageInv, PageState, DomState, PageList, List
  <2>2. \A items \in {storage, app.todos, dom.items, todos} : \A i \in DOMAIN items :
           items[i].title \in Titles /\ items[i].completed \in BOOLEAN /\ items[i].id \in Nat
    BY <2>1, TodosTyped
  <2>3. act.step = "idle" /\ disturbed \in BOOLEAN
    BY <1>1, IdleIs
  <2>4. losses \in 0..MaxLosses
    <3>1. MaxLosses \in Nat
      BY MaxLossesAssumption
    <3> QED
      BY <1>1, <3>1
  <2> QED
    BY <1>1, <2>1, <2>2, <2>3, <2>4 DEF TypeOK
<1> QED
  BY <1>4, <1>5, <1>6, <1>7, <1>8, <1>9 DEF IInv

\* The parts of the invariant that a proof about a step begins with.
LEMMA Now ==
    ASSUME IInv
    PROVE  ModelInv /\ PageInv /\ ActInv /\ PhaseInv /\ RunInv /\ Rest
BY RestIs DEF IInv

\* A run begins with the todos in the storage, none unless a page was lost.
LEMMA StartRunInv == ASSUME IInv, NEW drawn \in BOOLEAN, StartRun(drawn) PROVE IInv'
<1>1. ModelInv /\ PageInv /\ PhaseInv /\ Rest
  BY Now
<1>2. /\ phase = "off" /\ phase' = "on" /\ app' = [NoPage EXCEPT !.todos = storage]
      /\ dom' = (IF drawn THEN Drawn(app') ELSE Drawn(NoPage))
      /\ act' = [Idle EXCEPT !.step = "reading"] /\ report' = NoReport
      /\ UNCHANGED specVars /\ storage' = storage /\ losses' = losses /\ disturbed' = disturbed
  BY DEF StartRun
<1>3. /\ act'.step = "reading" /\ act' # Idle
      /\ act' \in [step : {"idle", "acting", "editing", "settling", "reading"},
                   op : Ops \cup {""}, index : Nat, arg : Titles \cup FilterState \cup {""}]
      /\ act'.op = ""
  BY <1>2 DEF Idle
<1>4. PageList(storage) /\ storage \in Seq(Todo)
  BY <1>1 DEF PageInv, PageList, List
<1>5. app' \in PageState /\ app'.todos = storage /\ app'.filter = "All" /\ app'.editing = 0
  BY <1>2, <1>4 DEF NoPage, PageState, FilterState
<1>6. dom' \in DomState
  <2>1. Drawn(app') \in DomState /\ Drawn(NoPage) \in DomState
    BY <1>4, <1>5, NoPageIs, DrawnIs DEF PageList
  <2> QED
    BY <1>2, <2>1
<1>7. ModelInv'
  BY <1>1, <1>2, ModelKept
<1>8. PageInv'
  BY <1>2, <1>4, <1>5, <1>6 DEF PageInv, PageState, DomState
<1>9. ActInv'
  BY <1>3 DEF ActInv
<1>10. PhaseInv'
  BY <1>2, <1>5 DEF PhaseInv
<1>11. RunInv'
  <2> SUFFICES ASSUME ~disturbed'
               PROVE  Settled' /\ InStep(app.todos, app.filter)'
    BY <1>3, <1>5 DEF RunInv
  <2>1. storage = << >> /\ todos = << >> /\ view.nowShowing = "All"
    BY <1>1, <1>2 DEF PhaseInv
  <2>2. app' = NoPage
    BY <1>2, <2>1 DEF NoPage
  <2>3. Settled'
    BY <1>2, <2>2 DEF Settled
  <2>4. todos' = << >> /\ view'.nowShowing = "All"
    BY <1>2, <2>1 DEF specVars
  <2> QED
    BY <1>5, <2>1, <2>3, <2>4 DEF InStep
<1>12. Rest'
  BY <1>1, <1>2 DEF Rest
<1> QED
  BY <1>2, <1>7, <1>8, <1>9, <1>10, <1>11, <1>12, Kept

LEMMA InitFailsInv == ASSUME IInv, InitFails PROVE IInv'
<1>1. ModelInv /\ PageInv /\ PhaseInv /\ ActInv /\ Rest
  BY Now
<1>2. /\ phase = "off" /\ phase' = "gone" /\ UNCHANGED <<specVars, page>>
      /\ act' = act /\ report' = report /\ losses' = losses /\ disturbed' = disturbed
  BY DEF InitFails
<1>3. act' = Idle /\ report' = NoReport
  BY <1>1, <1>2 DEF PhaseInv
<1>4. ModelInv' /\ PageInv' /\ ActInv'
  BY <1>1, <1>2, <1>3, ModelKept, PageKept, NoActInv
<1>5. PhaseInv' /\ RunInv' /\ Rest'
  BY <1>1, <1>2, <1>3 DEF PhaseInv, RunInv, Rest
<1> QED
  BY <1>3, <1>4, <1>5, Kept

LEMMA LosePageInv == ASSUME IInv, LosePage PROVE IInv'
<1>1. ModelInv /\ PageInv /\ PhaseInv /\ Rest
  BY Now
<1>2. /\ phase' = "gone" /\ UNCHANGED <<specVars, page>> /\ act' = Idle /\ report' = NoReport
      /\ losses < MaxLosses /\ losses' = losses + 1 /\ disturbed' = disturbed
  BY DEF LosePage
<1>3. ModelInv' /\ PageInv' /\ ActInv'
  BY <1>1, <1>2, ModelKept, PageKept, NoActInv
<1>4. PhaseInv' /\ RunInv'
  BY <1>2 DEF PhaseInv, RunInv
<1>5. Rest'
  <2>1. losses' \in 0..MaxLosses
    BY <1>1, <1>2, MaxLossesAssumption DEF Rest
  <2> QED
    BY <1>1, <1>2, <2>1 DEF Rest
<1> QED
  BY <1>2, <1>3, <1>4, <1>5, Kept

\* cleanup leaves todos in the storage only of a lost page, and says so in the ghost.
LEMMA CleanupInv == ASSUME IInv, Cleanup PROVE IInv'
<1>1. PageInv /\ Rest
  BY Now
<1>2. /\ act' = Idle /\ phase' = "off"
      /\ storage' = (IF phase = "gone" THEN storage ELSE ClearedStorage)
      /\ app' = NoPage /\ dom' = Drawn(NoPage) /\ report' = NoReport
      /\ disturbed' = (phase = "gone" /\ storage # << >>)
      /\ todos' = << >> /\ next_id' = 0 /\ view' = Refresh(<< >>, "All")
      /\ losses' = losses
  BY DEF Cleanup
<1>3. ModelInv' /\ view'.nowShowing = "All"
  BY <1>2, NoTodos DEF FilterState
<1>4. PageInv'
  <2>1. NoPage \in PageState /\ PageList(NoPage.todos)
    BY NoPageIs
  <2>2. Drawn(NoPage) \in DomState
    BY <2>1, DrawnIs DEF PageList
  <2>3. PageList(storage')
    BY <1>1, <1>2, NoTodos DEF PageInv, ClearedStorage
  <2> QED
    BY <1>2, <2>1, <2>2, <2>3 DEF PageInv, PageState, DomState
<1>5. ActInv'
  BY <1>2, NoActInv
<1>6. PhaseInv' /\ RunInv'
  BY <1>2, <1>3 DEF PhaseInv, RunInv, ClearedStorage
<1>7. Rest'
  BY <1>1, <1>2 DEF Rest
<1> QED
  BY <1>2, <1>3, <1>4, <1>5, <1>6, <1>7, Kept

LEMMA CloseAllInv == ASSUME IInv, CloseAll PROVE IInv'
<1>1. ModelInv /\ PageInv /\ PhaseInv /\ Rest
  BY Now
<1>2. /\ phase = "off" /\ phase' = "closed" /\ UNCHANGED <<specVars, page>>
      /\ act' = act /\ report' = report /\ losses' = losses /\ disturbed' = disturbed
  BY DEF CloseAll
<1>3. act' = Idle /\ report' = NoReport
  BY <1>1, <1>2 DEF PhaseInv
<1>4. ModelInv' /\ PageInv' /\ ActInv'
  BY <1>1, <1>2, <1>3, ModelKept, PageKept, NoActInv
<1>5. PhaseInv' /\ RunInv' /\ Rest'
  BY <1>1, <1>2, <1>3 DEF PhaseInv, RunInv, Rest
<1> QED
  BY <1>3, <1>4, <1>5, Kept

\* The arguments of an action are those of its kind.
LEMMA BegunAct ==
    ASSUME NEW op \in Ops, NEW index \in Nat, NEW arg \in Titles \cup FilterState \cup {""},
           Acting(op, index, arg),
           op = "UserAddsItem" => arg \in Titles,
           op = "UserSwitchesFilter" => arg \in FilterState,
           op = "UserEditsItem" => arg \in Titles \cup {""}
    PROVE  ActInv' /\ act'.step = "acting" /\ act' # Idle
<1>1. /\ act' \in [step : {"idle", "acting", "editing", "settling", "reading"},
                   op : Ops \cup {""}, index : Nat, arg : Titles \cup FilterState \cup {""}]
      /\ act'.step = "acting" /\ act'.op = op /\ act'.arg = arg
  BY DEF Acting
<1>2. act' # Idle
  BY <1>1, IdleIs
<1> QED
  BY <1>1, <1>2 DEF ActInv

\* The runner takes a step of the model: the page falls behind by one action.
LEMMA BeginInv == ASSUME IInv, Begin PROVE IInv'
<1> DEFINE Begun == /\ ModelInv' /\ ActInv' /\ act'.step = "acting" /\ act' # Idle
                    /\ InStepHere => ActingInv'
<1>1. ModelInv /\ PageInv /\ PhaseInv /\ RunInv /\ Rest
  BY Now
<1>2. /\ phase = "on" /\ act = Idle /\ report' = NoReport /\ UNCHANGED page
      /\ phase' = phase /\ losses' = losses /\ disturbed' = disturbed
  BY DEF Begin
<1>3. PageInv'
  BY <1>1, <1>2, PageKept
<1>4. /\ 0 \in Nat /\ "UserAddsItem" \in Ops /\ "UserSwitchesFilter" \in Ops
      /\ "UserTogglesAll" \in Ops /\ "UserClearsCompleted" \in Ops /\ "UserTogglesItem" \in Ops
      /\ "UserDeletesItem" \in Ops /\ "UserEditsItem" \in Ops
  BY DEF Ops
<1>5. ASSUME NEW i \in DOMAIN view.shownTodos
      PROVE  i \in Nat
  <2>1. view.shownTodos \in Seq(Todo)
    BY <1>1, ViewIs, MatchingIs DEF ModelInv, List
  <2> QED
    BY <2>1
<1>6. ASSUME NEW title \in Titles, UserAddsItem(title), Acting("UserAddsItem", 0, title)
      PROVE  Begun
  <2>1. ModelInv'
    BY <1>1, <1>6, ModelAdds
  <2>2. ActInv' /\ act'.step = "acting" /\ act' # Idle
    BY <1>4, <1>6, BegunAct
  <2>3. InStepHere => ActingInv'
    BY <1>1, <1>2, <1>6, BegunAdd
  <2> QED
    BY <2>1, <2>2, <2>3
<1>7. ASSUME NEW filter \in FilterState, UserSwitchesFilter(filter),
             Acting("UserSwitchesFilter", 0, filter)
      PROVE  Begun
  <2>1. ModelInv'
    BY <1>1, <1>7, ModelSwitches
  <2>2. ActInv' /\ act'.step = "acting" /\ act' # Idle
    BY <1>4, <1>7, BegunAct
  <2>3. InStepHere => ActingInv'
    BY <1>1, <1>2, <1>7, BegunSwitch
  <2> QED
    BY <2>1, <2>2, <2>3
<1>8. ASSUME UserTogglesAll, Acting("UserTogglesAll", 0, "")
      PROVE  Begun
  <2>1. ModelInv'
    BY <1>1, <1>8, ModelTogglesAll
  <2>2. ActInv' /\ act'.step = "acting" /\ act' # Idle
    BY <1>4, <1>8, BegunAct
  <2>3. InStepHere => ActingInv'
    BY <1>1, <1>2, <1>8, BegunToggleAll
  <2> QED
    BY <2>1, <2>2, <2>3
<1>9. ASSUME UserClearsCompleted, Acting("UserClearsCompleted", 0, "")
      PROVE  Begun
  <2>1. ModelInv'
    BY <1>1, <1>9, ModelClears
  <2>2. ActInv' /\ act'.step = "acting" /\ act' # Idle
    BY <1>4, <1>9, BegunAct
  <2>3. InStepHere => ActingInv'
    BY <1>1, <1>2, <1>9, BegunClear
  <2> QED
    BY <2>1, <2>2, <2>3
<1>10. ASSUME NEW i \in DOMAIN view.shownTodos, UserTogglesItem(i),
              Acting("UserTogglesItem", i, "")
       PROVE  Begun
  <2>1. ModelInv'
    BY <1>1, <1>10, ModelToggles
  <2>2. ActInv' /\ act'.step = "acting" /\ act' # Idle
    BY <1>4, <1>5, <1>10, BegunAct
  <2>3. InStepHere => ActingInv'
    BY <1>1, <1>2, <1>10, BegunToggle
  <2> QED
    BY <2>1, <2>2, <2>3
<1>11. ASSUME NEW i \in DOMAIN view.shownTodos, UserDeletesItem(i),
              Acting("UserDeletesItem", i, "")
       PROVE  Begun
  <2>1. ModelInv'
    BY <1>1, <1>11, ModelDeletes
  <2>2. ActInv' /\ act'.step = "acting" /\ act' # Idle
    BY <1>4, <1>5, <1>11, BegunAct
  <2>3. InStepHere => ActingInv'
    BY <1>1, <1>2, <1>11, BegunDelete
  <2> QED
    BY <2>1, <2>2, <2>3
<1>12. ASSUME NEW i \in DOMAIN view.shownTodos, NEW text \in Titles \cup {""},
              UserEditsItem(i, text), Acting("UserEditsItem", i, text)
       PROVE  Begun
  <2>1. ModelInv'
    BY <1>1, <1>12, ModelEdits
  <2>2. ActInv' /\ act'.step = "acting" /\ act' # Idle
    BY <1>4, <1>5, <1>12, BegunAct
  <2>3. InStepHere => ActingInv'
    BY <1>1, <1>2, <1>12, BegunEdit
  <2> QED
    BY <2>1, <2>2, <2>3
<1> HIDE DEF Begun
<1>13. Begun
  BY <1>6, <1>7, <1>8, <1>9, <1>10, <1>11, <1>12 DEF Begin
<1>14. PhaseInv'
  BY <1>1, <1>2 DEF PhaseInv, page
<1>15. RunInv'
  <2> SUFFICES ASSUME ~disturbed
               PROVE  ActingInv'
    BY <1>2, <1>13 DEF RunInv, Begun
  <2>1. act.step = "idle"
    BY <1>2, IdleIs
  <2>2. InStepHere
    BY <1>1, <1>2, <2>1 DEF RunInv, InStepHere
  <2> QED
    BY <1>13, <2>2 DEF Begun
<1>16. Rest'
  BY <1>1, <1>2 DEF Rest
<1> QED
  BY <1>2, <1>3, <1>13, <1>14, <1>15, <1>16, Kept DEF Begun

\* An action goes on to its next step.
LEMMA AndThenIs ==
    ASSUME ActInv, act.step # "idle", NEW step, AndThen(step),
           step \in {"settling", "reading"} \/ (step = "editing" /\ act.op = "UserEditsItem")
    PROVE  /\ ActInv' /\ act' # Idle /\ act # Idle
           /\ act'.step = step /\ act'.op = act.op /\ act'.index = act.index /\ act'.arg = act.arg
           /\ UNCHANGED <<specVars, phase, report, losses, disturbed>>
<1>1. /\ act' = [act EXCEPT !.step = step]
      /\ UNCHANGED <<specVars, phase, report, losses, disturbed>>
  BY DEF AndThen
<1>2. act \in [step : {"idle", "acting", "editing", "settling", "reading"},
               op : Ops \cup {""}, index : Nat, arg : Titles \cup FilterState \cup {""}]
  BY DEF ActInv
<1>3. /\ act' \in [step : {"idle", "acting", "editing", "settling", "reading"},
                   op : Ops \cup {""}, index : Nat, arg : Titles \cup FilterState \cup {""}]
      /\ act'.step = step /\ act'.op = act.op /\ act'.index = act.index /\ act'.arg = act.arg
  BY <1>1, <1>2
<1>4. act' # Idle /\ act # Idle /\ step # "idle"
  BY <1>3, IdleIs
<1>5. ActInv'
  BY <1>3, <1>4 DEF ActInv
<1> QED
  BY <1>1, <1>3, <1>4, <1>5

\* The changes of the page that make no todo keep its ids.
LEMMA PageListOf ==
    ASSUME NEW s, PageList(s), NEW t, List(t), Of(t, s)
    PROVE  PageList(t)
BY DEF PageList, Of

\* A page with another list.
LEMMA NewTodos ==
    ASSUME NEW s, PageList(s), app \in PageState
    PROVE  LET p == [app EXCEPT !.todos = s] IN p \in PageState /\ p.todos = s
<1>1. s \in Seq(Todo)
  BY DEF PageList, List
<1> QED
  BY <1>1 DEF PageState

\* The page becomes a page, whatever the click is on.
LEMMA ClickedIs ==
    ASSUME PageInv, ActInv, act.step = "acting", Visible
    PROVE  Clicked \in PageState /\ PageList(Clicked.todos)
<1>1. app \in PageState /\ PageList(app.todos) /\ List(app.todos) /\ dom \in DomState
  BY PageTypes DEF PageInv, PageList
<1>2. act.op \in Ops
  BY DEF ActInv
<1> DEFINE id == dom.items[act.index].id
<1>3. CASE act.op = "UserAddsItem"
  <2> DEFINE t == [id |-> NewId, title |-> act.arg, completed |-> FALSE]
             new == Append(app.todos, t)
  <2>1. Clicked = [app EXCEPT !.todos = new]
    BY <1>3 DEF Clicked
  <2>2. /\ app.todos \in Seq(Todo) /\ dom.items \in Seq(Todo)
        /\ Len(app.todos) \in Nat /\ DOMAIN app.todos = 1..Len(app.todos)
    BY <1>1 DEF PageState, DomState
  <2>3. /\ NewId \in Nat /\ NewId # 0
        /\ \A i \in DOMAIN app.todos : app.todos[i].id # NewId
    BY <2>2, NewIdIs
  <2>4. t \in Todo /\ t.id = NewId
    <3>1. act.arg \in Titles
      BY <1>3 DEF ActInv
    <3> QED
      BY <2>3, <3>1 DEF Todo
  <2> HIDE DEF t
  <2>5. /\ List(new) /\ Len(new) = Len(app.todos) + 1 /\ new[Len(app.todos) + 1] = t
        /\ \A i \in 1..Len(app.todos) : new[i] = app.todos[i]
    BY <1>1, <2>3, <2>4, AddedIs
  <2>6. DOMAIN new = 1..(Len(app.todos) + 1)
    BY <2>2, <2>5 DEF List
  <2> HIDE DEF new
  <2>7. ASSUME NEW i \in DOMAIN new
        PROVE  new[i].id # 0
    <3>1. i \in 1..Len(app.todos) \/ i = Len(app.todos) + 1
      BY <2>2, <2>6
    <3>2. CASE i \in 1..Len(app.todos)
      BY <1>1, <2>2, <2>5, <3>2 DEF PageList
    <3>3. CASE i = Len(app.todos) + 1
      BY <2>3, <2>4, <2>5, <3>3
    <3> QED
      BY <3>1, <3>2, <3>3
  <2>8. PageList(new)
    BY <2>5, <2>7 DEF PageList
  <2> QED
    BY <1>1, <2>1, <2>8, NewTodos
<1>4. CASE act.op = "UserSwitchesFilter"
  <2>1. act.arg \in FilterState
    BY <1>4 DEF ActInv
  <2>2. Clicked = [app EXCEPT !.filter = act.arg]
    BY <1>4 DEF Clicked
  <2>3. Clicked \in PageState /\ Clicked.todos = app.todos
    BY <1>1, <2>1, <2>2 DEF PageState
  <2> QED
    BY <1>1, <2>3
<1>5. CASE act.op = "UserTogglesAll"
  <2> DEFINE new == Marked(app.todos, ~dom.allCompleted)
  <2>1. Clicked = [app EXCEPT !.todos = new]
    BY <1>5 DEF Clicked
  <2>2. List(new) /\ Of(new, app.todos)
    BY <1>1, MarkedIs
  <2> HIDE DEF new
  <2> QED
    BY <1>1, <2>1, <2>2, PageListOf, NewTodos
<1>6. CASE act.op = "UserClearsCompleted"
  <2> DEFINE new == Matching(app.todos, "Active")
  <2>1. Clicked = [app EXCEPT !.todos = new]
    BY <1>6 DEF Clicked
  <2>2. List(new) /\ Of(new, app.todos)
    BY <1>1, MatchingIs
  <2> HIDE DEF new
  <2> QED
    BY <1>1, <2>1, <2>2, PageListOf, NewTodos
<1>7. CASE act.op = "UserTogglesItem"
  <2> DEFINE new == Toggled(app.todos, id)
  <2>1. Clicked = [app EXCEPT !.todos = new]
    BY <1>7 DEF Clicked, Located
  <2>2. List(new) /\ Of(new, app.todos)
    BY <1>1, ToggledIs
  <2> HIDE DEF new
  <2> QED
    BY <1>1, <2>1, <2>2, PageListOf, NewTodos
<1>8. CASE act.op = "UserDeletesItem"
  <2> DEFINE new == Without(app.todos, id)
  <2>1. Clicked = [app EXCEPT !.todos = new]
    BY <1>8 DEF Clicked, Located
  <2>2. List(new) /\ Of(new, app.todos)
    BY <1>1, WithoutIs
  <2> HIDE DEF new
  <2> QED
    BY <1>1, <2>1, <2>2, PageListOf, NewTodos
<1>9. CASE act.op = "UserEditsItem"
  <2>1. act.index \in DOMAIN dom.items
    BY <1>9 DEF Visible, Located
  <2>2. dom.items \in Seq(Todo)
    BY <1>1 DEF DomState
  <2>3. dom.items[act.index] \in Todo
    BY <2>1, <2>2
  <2>4. id \in Nat
    BY <2>3 DEF Todo
  <2>5. Clicked = [app EXCEPT !.editing = id]
    BY <1>9 DEF Clicked, Located
  <2> HIDE DEF id
  <2>6. Clicked \in PageState /\ Clicked.todos = app.todos
    BY <1>1, <2>4, <2>5 DEF PageState
  <2> QED
    BY <1>1, <2>6
<1> QED
  BY <1>2, <1>3, <1>4, <1>5, <1>6, <1>7, <1>8, <1>9 DEF Ops

\* The page changes in the middle of an action: its parts of the invariant.
LEMMA PageChanged ==
    ASSUME IInv, act # Idle, act' # Idle, NEW p, p \in PageState, PageList(p.todos),
           PageBecomes(p), UNCHANGED <<specVars, phase, report, losses, disturbed>>
    PROVE  /\ ModelInv' /\ PageInv' /\ PhaseInv' /\ Rest' /\ report' = NoReport
           /\ app' = p /\ dom' = dom /\ phase' = "on"
<1>1. ModelInv /\ PageInv /\ PhaseInv /\ Rest
  BY Now
<1>2. app' = p /\ storage' = p.todos /\ dom' = dom
  BY DEF PageBecomes
<1>3. phase = "on" /\ report = NoReport
  BY <1>1 DEF PhaseInv
<1>4. ModelInv'
  BY <1>1, ModelKept
<1>5. PageInv'
  BY <1>1, <1>2 DEF PageInv, PageState
<1>6. PhaseInv'
  BY <1>2, <1>3 DEF PhaseInv
<1>7. Rest'
  BY <1>1, <1>3 DEF Rest
<1> QED
  BY <1>2, <1>3, <1>4, <1>5, <1>6, <1>7

\* The click catches up with the model, or opens the edit box.
LEMMA ClickInv == ASSUME IInv, Click PROVE IInv'
<1>1. PageInv /\ ActInv /\ RunInv /\ PhaseInv
  BY Now
<1> DEFINE next == IF act.op = "UserEditsItem" THEN "editing" ELSE "settling"
<1>2. act.step = "acting" /\ Visible /\ PageBecomes(Clicked) /\ AndThen(next)
  BY DEF Click
<1>3. /\ ActInv' /\ act' # Idle /\ act # Idle
      /\ act'.step = next /\ act'.op = act.op /\ act'.index = act.index /\ act'.arg = act.arg
      /\ UNCHANGED <<specVars, phase, report, losses, disturbed>>
  BY <1>1, <1>2, AndThenIs
<1>4. Clicked \in PageState /\ PageList(Clicked.todos)
  BY <1>1, <1>2, ClickedIs
<1>5. /\ ModelInv' /\ PageInv' /\ PhaseInv' /\ Rest' /\ report' = NoReport
      /\ app' = Clicked /\ dom' = dom /\ phase' = "on"
  BY <1>2, <1>3, <1>4, PageChanged
<1>6. RunInv'
  <2> SUFFICES ASSUME ~disturbed
               PROVE  /\ next = "settling" => InStep(app.todos, app.filter)' /\ app'.editing = 0
                      /\ next = "editing" => EditingInv'
    BY <1>3 DEF RunInv
  <2>1. phase = "on" /\ ActingInv
    BY <1>1, <1>2, <1>3, <1>5 DEF RunInv
  <2>2. todos' = todos /\ view' = view
    BY <1>3 DEF specVars
  <2>3. ASSUME next = "settling"
        PROVE  InStep(app.todos, app.filter)' /\ app'.editing = 0
    <3>1. act.op # "UserEditsItem"
      BY <2>3
    <3>2. InStep(Clicked.todos, Clicked.filter) /\ Clicked.editing = 0
      BY <2>1, <3>1 DEF ActingInv
    <3> QED
      BY <1>5, <2>2, <3>2 DEF InStep
  <2>4. ASSUME next = "editing"
        PROVE  EditingInv'
    <3>1. act.op = "UserEditsItem"
      BY <2>4
    <3>2. PICK id \in Nat : id = dom.items[Located(act.index)].id
      <4>1. Located(act.index) \in DOMAIN dom.items
        BY <1>2, <3>1 DEF Visible
      <4>2. dom.items \in Seq(Todo)
        BY <1>1, PageTypes DEF DomState
      <4>3. dom.items[Located(act.index)] \in Todo
        BY <4>1, <4>2
      <4> QED
        BY <4>3 DEF Todo
    <3>3. id # 0 /\ InStep(AfterEdit(id), app.filter) /\ Settled /\ app.editing = 0
      BY <2>1, <3>1, <3>2 DEF ActingInv
    <3>4. app' = [app EXCEPT !.editing = id]
      BY <1>5, <3>1, <3>2 DEF Clicked
    <3>5. app'.todos = app.todos /\ app'.filter = app.filter /\ app'.editing = id
      BY <1>1, <3>4, PageTypes DEF PageState
    <3>6. dom'.editing = 0
      <4>1. dom.editing \in {0, app.editing}
        BY <1>1, <3>3, PageTypes, DrawnIs DEF Settled
      <4> QED
        BY <1>5, <3>3, <4>1
    <3>7. AfterEdit(id)' = AfterEdit(id)
      BY <1>3, <3>5 DEF AfterEdit
    <3>8. InStep(AfterEdit(app.editing), app.filter)'
      <4>1. AfterEdit(app.editing)' = AfterEdit(id)
        BY <3>5, <3>7 DEF AfterEdit
      <4> QED
        BY <2>2, <3>3, <3>5, <4>1 DEF InStep
    <3> QED
      BY <3>3, <3>5, <3>6, <3>8 DEF EditingInv
  <2> QED
    BY <2>3, <2>4
<1> QED
  BY <1>3, <1>5, <1>6, Kept

\* An undisturbed action does not skip: what it looks for is shown.
LEMMA SkipInv == ASSUME IInv, Skip PROVE IInv'
<1>1. ModelInv /\ PageInv /\ ActInv /\ RunInv /\ PhaseInv /\ Rest
  BY Now
<1>2. act.step = "acting" /\ ~Visible /\ AndThen("settling") /\ UNCHANGED page
  BY DEF Skip
<1>3. /\ ActInv' /\ act' # Idle /\ act # Idle /\ act'.step = "settling"
      /\ UNCHANGED <<specVars, phase, report, losses, disturbed>>
  BY <1>1, <1>2, AndThenIs
<1>4. ModelInv' /\ PageInv'
  BY <1>1, <1>2, <1>3, ModelKept, PageKept
<1>5. phase = "on" /\ report = NoReport /\ storage = app.todos
  BY <1>1, <1>3 DEF PhaseInv
<1>6. PhaseInv' /\ Rest' /\ report' = NoReport
  BY <1>1, <1>2, <1>3, <1>5 DEF PhaseInv, Rest, page
<1>7. disturbed
  BY <1>1, <1>2, <1>5 DEF RunInv, ActingInv
<1>8. RunInv'
  BY <1>3, <1>7 DEF RunInv
<1> QED
  BY <1>3, <1>4, <1>6, <1>8, Kept

\* The edit box is that of the todo that was clicked.
LEMMA SaveEditInv == ASSUME IInv, SaveEdit PROVE IInv'
<1>1. PageInv /\ ActInv /\ RunInv /\ PhaseInv
  BY Now
<1> DEFINE id == dom.editing
           new == AfterEdit(id)
           p == [app EXCEPT !.editing = 0, !.todos = new]
<1>2. act.step = "editing" /\ id # 0 /\ PageBecomes(p) /\ AndThen("settling")
  BY DEF SaveEdit, EditBox, AfterEdit
<1>3. /\ ActInv' /\ act' # Idle /\ act # Idle /\ act'.step = "settling"
      /\ UNCHANGED <<specVars, phase, report, losses, disturbed>>
  BY <1>1, <1>2, AndThenIs
<1>4. app \in PageState /\ PageList(app.todos) /\ List(app.todos)
  BY <1>1, PageTypes DEF PageInv
<1>5. PageList(new)
  <2> HIDE DEF id
  <2>1. act.op = "UserEditsItem" /\ act.arg \in Titles \cup {""}
    BY <1>1, <1>2 DEF ActInv
  <2>2. CASE act.arg # ""
    <3>1. new = Saved(app.todos, id, act.arg) /\ act.arg \in Titles
      BY <2>1, <2>2 DEF AfterEdit
    <3>2. List(Saved(app.todos, id, act.arg)) /\ Of(Saved(app.todos, id, act.arg), app.todos)
      BY <1>4, <3>1, SavedIs
    <3> HIDE DEF new
    <3> QED
      BY <1>4, <3>1, <3>2, PageListOf
  <2>3. CASE act.arg = ""
    <3>1. new = Without(app.todos, id)
      BY <2>3 DEF AfterEdit
    <3>2. List(Without(app.todos, id)) /\ Of(Without(app.todos, id), app.todos)
      BY <1>4, WithoutIs
    <3> HIDE DEF new
    <3> QED
      BY <1>4, <3>1, <3>2, PageListOf
  <2> QED
    BY <2>2, <2>3
<1> HIDE DEF new
<1>6. p \in PageState /\ p.todos = new /\ p.editing = 0 /\ p.filter = app.filter
  <2>1. new \in Seq(Todo)
    BY <1>5 DEF PageList, List
  <2> QED
    BY <1>4, <2>1 DEF PageState
<1> HIDE DEF p
<1>7. /\ ModelInv' /\ PageInv' /\ PhaseInv' /\ Rest' /\ report' = NoReport
      /\ app' = p /\ dom' = dom /\ phase' = "on"
  BY <1>2, <1>3, <1>5, <1>6, PageChanged
<1>8. RunInv'
  <2> SUFFICES ASSUME ~disturbed
               PROVE  InStep(app.todos, app.filter)' /\ app'.editing = 0
    BY <1>3 DEF RunInv
  <2>1. EditingInv
    BY <1>1, <1>2, <1>3, <1>7 DEF RunInv
  <2>2. id = app.editing /\ InStep(AfterEdit(app.editing), app.filter)
    BY <1>2, <2>1 DEF EditingInv
  <2>3. InStep(new, app.filter)
    BY <2>2 DEF new
  <2>4. todos' = todos /\ view' = view
    BY <1>3 DEF specVars
  <2> QED
    BY <1>6, <1>7, <2>3, <2>4 DEF InStep
<1> QED
  BY <1>3, <1>7, <1>8, Kept

\* The page has been drawn when the state is read.
LEMMA AfterActionInv == ASSUME IInv, AfterAction PROVE IInv'
<1>1. ModelInv /\ PageInv /\ ActInv /\ RunInv /\ PhaseInv /\ Rest
  BY Now
<1>2. act.step = "settling" /\ Settled /\ AndThen("reading") /\ UNCHANGED page
  BY DEF AfterAction
<1>3. /\ ActInv' /\ act' # Idle /\ act # Idle /\ act'.step = "reading"
      /\ UNCHANGED <<specVars, phase, report, losses, disturbed>>
  BY <1>1, <1>2, AndThenIs
<1>4. ModelInv' /\ PageInv'
  BY <1>1, <1>2, <1>3, ModelKept, PageKept
<1>5. phase = "on" /\ report = NoReport /\ storage = app.todos
  BY <1>1, <1>3 DEF PhaseInv
<1>6. PhaseInv' /\ Rest' /\ report' = NoReport
  BY <1>1, <1>2, <1>3, <1>5 DEF PhaseInv, Rest, page
<1>7. RunInv'
  <2> SUFFICES ASSUME ~disturbed
               PROVE  Settled' /\ InStep(app.todos, app.filter)' /\ app'.editing = 0
    BY <1>3 DEF RunInv
  <2>1. InStep(app.todos, app.filter) /\ app.editing = 0
    BY <1>1, <1>2, <1>5 DEF RunInv
  <2>2. app' = app /\ dom' = dom /\ todos' = todos /\ view' = view
    BY <1>2, <1>3 DEF page, specVars
  <2> QED
    BY <1>2, <2>1, <2>2 DEF InStep, Settled
<1> QED
  BY <1>3, <1>4, <1>6, <1>7, Kept

LEMMA SettledTooEarlyInv == ASSUME IInv, SettledTooEarly PROVE IInv'
<1>1. ModelInv /\ PageInv /\ ActInv /\ PhaseInv /\ Rest
  BY Now
<1>2. /\ act.step = "settling" /\ act' = [act EXCEPT !.step = "reading"] /\ disturbed' = TRUE
      /\ UNCHANGED <<specVars, page, phase, report, losses>>
  BY DEF SettledTooEarly
<1>3. act # Idle
  BY <1>2, IdleIs
<1>4. ActInv' /\ act' # Idle
  <2>1. act \in [step : {"idle", "acting", "editing", "settling", "reading"},
                 op : Ops \cup {""}, index : Nat, arg : Titles \cup FilterState \cup {""}]
    BY <1>1 DEF ActInv
  <2>2. /\ act' \in [step : {"idle", "acting", "editing", "settling", "reading"},
                     op : Ops \cup {""}, index : Nat, arg : Titles \cup FilterState \cup {""}]
        /\ act'.step = "reading" /\ act'.op = act.op /\ act'.arg = act.arg
    BY <1>2, <2>1
  <2>3. act' # Idle
    BY <2>2, IdleIs
  <2> QED
    BY <1>1, <2>2, <2>3 DEF ActInv
<1>5. ModelInv' /\ PageInv'
  BY <1>1, <1>2, ModelKept, PageKept
<1>6. phase = "on" /\ report = NoReport /\ storage = app.todos
  BY <1>1, <1>3 DEF PhaseInv
<1>7. PhaseInv' /\ Rest' /\ report' = NoReport
  BY <1>1, <1>2, <1>6 DEF PhaseInv, Rest, page
<1>8. RunInv'
  BY <1>2 DEF RunInv
<1> QED
  BY <1>4, <1>5, <1>7, <1>8, Kept

\* What is read is the view of the model.
LEMMA ReadStateInv == ASSUME IInv, ReadState PROVE IInv'
<1>1. ModelInv /\ PageInv /\ ActInv /\ RunInv /\ PhaseInv /\ Rest
  BY Now
<1>2. /\ act.step = "reading" /\ report' = GetState /\ act' = Idle
      /\ UNCHANGED <<specVars, page, phase, losses, disturbed>>
  BY DEF ReadState
<1>3. act # Idle
  BY <1>2, IdleIs
<1>4. ModelInv' /\ PageInv' /\ ActInv'
  BY <1>1, <1>2, ModelKept, PageKept, NoActInv
<1>5. phase = "on" /\ storage = app.todos
  BY <1>1, <1>3 DEF PhaseInv
<1>6. PhaseInv'
  BY <1>2, <1>5 DEF PhaseInv, page
<1>7. DOMAIN report' = {"nowShowing", "shownTodos", "activeTodoCount", "toggleAllStatus",
                        "clearButtonShown"}
  BY <1>2 DEF GetState
<1>8. Rest'
  <2>1. view' = view
    BY <1>2 DEF specVars
  <2>2. DOMAIN report' = DOMAIN view'
    BY <1>1, <1>7, <2>1, ViewIs
  <2> QED
    BY <1>1, <1>2, <2>2 DEF Rest
<1>9. ASSUME ~disturbed
      PROVE  InStepHere
  BY <1>1, <1>2, <1>5, <1>9 DEF RunInv, InStepHere
<1>10. app' = app /\ dom' = dom /\ todos' = todos /\ view' = view
  BY <1>2 DEF page, specVars
<1>11. RunInv'
  <2> SUFFICES ASSUME ~disturbed
               PROVE  Settled' /\ InStep(app.todos, app.filter)' /\ app'.editing = 0
    BY <1>2, IdleIs DEF RunInv
  <2>1. Settled /\ InStep(app.todos, app.filter) /\ app.editing = 0
    BY <1>9 DEF InStepHere
  <2> QED
    BY <1>10, <2>1 DEF InStep, Settled
<1>12. ASSUME ~disturbed
       PROVE  Agrees'
  <2> DEFINE r == [nowShowing |-> app.filter, shownTodos |-> dom.items,
                   activeTodoCount |-> GetActiveTodoCount, toggleAllStatus |-> GetToggleAllStatus,
                   clearButtonShown |-> dom.clear]
             status == CASE todos = << >>           -> "NotShown"
                         [] ActiveCount(todos) # 0  -> "Unchecked"
                         [] OTHER                   -> "Checked"
             v == [nowShowing |-> view.nowShowing, shownTodos |-> Matching(todos, view.nowShowing),
                   activeTodoCount |-> ActiveCount(todos), toggleAllStatus |-> status,
                   clearButtonShown |-> ActiveCount(todos) < Len(todos)]
  <2>1. report' = r /\ view' = v
    BY <1>1, <1>2, <1>10 DEF GetState, ModelInv, Refresh
  <2>2. Looks(dom.items) = Looks(Matching(todos, view.nowShowing)) /\ app.filter = view.nowShowing
    BY <1>1, <1>9, <1>12, PageLooks, ViewIs
  <2>3. /\ dom.footer = (todos # << >>)
        /\ dom.count = ActiveCount(todos)
        /\ dom.allCompleted = (ActiveCount(todos) = 0)
        /\ dom.clear = (ActiveCount(todos) < Len(todos))
    BY <1>1, <1>9, <1>12, PageCounts
  <2>4. todos = << >> => ActiveCount(todos) = 0
    BY NoneActive
  <2>5. GetActiveTodoCount = ActiveCount(todos)
    BY <2>3, <2>4 DEF GetActiveTodoCount
  <2>6. GetToggleAllStatus = status
    <3>1. CASE todos = << >>
      BY <2>3, <2>4, <3>1 DEF GetToggleAllStatus
    <3>2. CASE todos # << >> /\ ActiveCount(todos) # 0
      BY <2>3, <3>2 DEF GetToggleAllStatus
    <3>3. CASE todos # << >> /\ ActiveCount(todos) = 0
      BY <2>3, <3>3 DEF GetToggleAllStatus
    <3> QED
      BY <3>1, <3>2, <3>3
  <2> HIDE DEF status
  <2>7. [r EXCEPT !.shownTodos = Looks(@)] = [v EXCEPT !.shownTodos = Looks(@)]
    <3>1. [r EXCEPT !.shownTodos = Looks(@)] =
             [nowShowing |-> app.filter, shownTodos |-> Looks(dom.items),
              activeTodoCount |-> GetActiveTodoCount, toggleAllStatus |-> GetToggleAllStatus,
              clearButtonShown |-> dom.clear]
      OBVIOUS
    <3>2. [v EXCEPT !.shownTodos = Looks(@)] =
             [nowShowing |-> view.nowShowing,
              shownTodos |-> Looks(Matching(todos, view.nowShowing)),
              activeTodoCount |-> ActiveCount(todos), toggleAllStatus |-> status,
              clearButtonShown |-> ActiveCount(todos) < Len(todos)]
      OBVIOUS
    <3> HIDE DEF r, v
    <3> QED
      BY <2>2, <2>3, <2>5, <2>6, <3>1, <3>2
  <2> HIDE DEF r, v
  <2> QED
    BY <2>1, <2>7 DEF Agrees
<1> QED
  BY <1>2, <1>4, <1>6, <1>8, <1>11, <1>12, Kept

LEMMA TimeOutInv == ASSUME IInv, TimeOut PROVE IInv'
<1>1. ModelInv /\ PageInv /\ PhaseInv /\ Rest
  BY Now
<1>2. /\ phase' = "failed" /\ UNCHANGED <<specVars, page>> /\ act' = Idle /\ report' = NoReport
      /\ losses' = losses /\ disturbed' = disturbed
  BY DEF TimeOut
<1>3. ModelInv' /\ PageInv' /\ ActInv'
  BY <1>1, <1>2, ModelKept, PageKept, NoActInv
<1>4. PhaseInv' /\ RunInv' /\ Rest'
  BY <1>1, <1>2 DEF PhaseInv, RunInv, Rest
<1> QED
  BY <1>2, <1>3, <1>4, Kept

\* Drawing changes nothing that an idle or beginning action has seen.
LEMMA DrawInv == ASSUME IInv, Draw PROVE IInv'
<1>1. ModelInv /\ PageInv /\ ActInv /\ RunInv /\ PhaseInv /\ Rest
  BY Now
<1>2. /\ dom # Drawn(app) /\ dom' = Drawn(app)
      /\ UNCHANGED <<specVars, storage, app, phase, act, report, losses, disturbed>>
  BY DEF Draw
<1>3. app' = app /\ storage' = storage /\ act' = act /\ todos' = todos /\ view' = view
  BY <1>2 DEF specVars
<1>4. ModelInv'
  BY <1>1, <1>2, ModelKept
<1>5. PageInv'
  <2>1. dom' \in DomState
    BY <1>1, <1>2, PageTypes
  <2> QED
    BY <1>1, <1>2, <2>1 DEF PageInv, DomState
<1>6. ActInv'
  BY <1>1, <1>3 DEF ActInv
<1>7. PhaseInv' /\ Rest'
  BY <1>1, <1>2, <1>3 DEF PhaseInv, Rest
<1>8. ASSUME phase = "on", ~disturbed
      PROVE  act.step \in {"settling", "editing"}
  <2>1. act.step \in {"idle", "acting", "editing", "settling", "reading"}
    BY <1>1 DEF ActInv
  <2>2. ~Settled
    BY <1>2 DEF Settled
  <2> QED
    BY <1>1, <1>8, <2>1, <2>2 DEF RunInv, ActingInv
<1>9. RunInv'
  <2> SUFFICES ASSUME phase = "on", ~disturbed
               PROVE  /\ act.step = "settling" => InStep(app.todos, app.filter)' /\ app'.editing = 0
                      /\ act.step = "editing" => EditingInv'
    BY <1>2, <1>3, <1>8 DEF RunInv
  <2>1. ASSUME act.step = "settling"
        PROVE  InStep(app.todos, app.filter)' /\ app'.editing = 0
    <3>1. InStep(app.todos, app.filter) /\ app.editing = 0
      BY <1>1, <2>1 DEF RunInv
    <3> QED
      BY <1>3, <3>1 DEF InStep
  <2>2. ASSUME act.step = "editing"
        PROVE  EditingInv'
    <3>1. EditingInv
      BY <1>1, <2>2 DEF RunInv
    <3>2. dom'.editing \in {0, app.editing}
      BY <1>1, <1>2, PageTypes, DrawnIs
    <3>3. AfterEdit(app.editing)' = AfterEdit(app.editing)
      BY <1>3 DEF AfterEdit
    <3>4. InStep(AfterEdit(app.editing), app.filter)'
      BY <1>3, <3>1, <3>3 DEF EditingInv, InStep
    <3> QED
      BY <1>3, <3>1, <3>2, <3>4 DEF EditingInv
  <2> QED
    BY <2>1, <2>2
<1>10. report' # NoReport /\ ~disturbed' => Agrees'
  <2> SUFFICES ASSUME report # NoReport, ~disturbed
               PROVE  FALSE
    BY <1>2
  <2>1. phase = "on" /\ act = Idle
    BY <1>1 DEF PhaseInv
  <2> QED
    BY <1>8, <2>1, IdleIs
<1> QED
  BY <1>4, <1>5, <1>6, <1>7, <1>9, <1>10, Kept

LEMMA StutterInv == ASSUME IInv, UNCHANGED vars PROVE IInv'
<1>1. /\ UNCHANGED <<specVars, page>> /\ phase' = phase /\ act' = act /\ report' = report
      /\ losses' = losses /\ disturbed' = disturbed
  BY DEF vars
<1>2. /\ app' = app /\ storage' = storage /\ dom' = dom /\ todos' = todos /\ view' = view
  BY <1>1 DEF specVars, page
<1>3. ModelInv /\ PageInv /\ ActInv /\ RunInv /\ PhaseInv /\ Rest /\ Conforms
  BY Now DEF IInv
<1>4. ModelInv' /\ PageInv' /\ ActInv' /\ PhaseInv' /\ Rest'
  <2>1. ModelInv' /\ PageInv'
    BY <1>1, <1>3, ModelKept, PageKept
  <2>2. ActInv'
    BY <1>1, <1>3 DEF ActInv
  <2>3. PhaseInv'
    BY <1>1, <1>2, <1>3 DEF PhaseInv
  <2>4. Rest'
    BY <1>1, <1>2, <1>3 DEF Rest
  <2> QED
    BY <2>1, <2>2, <2>3, <2>4
<1>5. RunInv'
  <2>1. NewId' = NewId
    BY <1>2 DEF NewId
  <2>2. Clicked' = Clicked
    BY <1>1, <1>2, <2>1 DEF Clicked, Located
  <2>3. (Visible' <=> Visible) /\ (Settled' <=> Settled)
    BY <1>1, <1>2 DEF Visible, Settled, Located
  <2>4. \A id : AfterEdit(id)' = AfterEdit(id)
    BY <1>1, <1>2 DEF AfterEdit
  <2>5. \A items, filter : InStep(items, filter)' <=> InStep(items, filter)
    BY <1>2 DEF InStep
  <2>6. ActingInv' <=> ActingInv
    BY <1>1, <1>2, <2>2, <2>3, <2>4, <2>5 DEF ActingInv, Located
  <2>7. EditingInv' <=> EditingInv
    BY <1>1, <1>2, <2>4, <2>5 DEF EditingInv
  <2>8. InStep(app.todos, app.filter)' <=> InStep(app.todos, app.filter)
    BY <1>2 DEF InStep
  <2> QED
    BY <1>1, <1>2, <1>3, <2>3, <2>6, <2>7, <2>8 DEF RunInv
<1>6. report' # NoReport /\ ~disturbed' => Agrees'
  BY <1>1, <1>2, <1>3 DEF Conforms, Agrees
<1> QED
  BY <1>4, <1>5, <1>6, Kept

LEMMA NextInv == ASSUME IInv, [Next]_vars PROVE IInv'
<1>1. CASE Next
  <2>1. CASE \E drawn \in BOOLEAN : StartRun(drawn)
    BY <2>1, StartRunInv
  <2>2. CASE InitFails
    BY <2>2, InitFailsInv
  <2>3. CASE LosePage
    BY <2>3, LosePageInv
  <2>4. CASE Cleanup
    BY <2>4, CleanupInv
  <2>5. CASE CloseAll
    BY <2>5, CloseAllInv
  <2>6. CASE Begin
    BY <2>6, BeginInv
  <2>7. CASE Proceed
    BY <2>7, ClickInv, SkipInv, SaveEditInv, AfterActionInv, ReadStateInv DEF Proceed
  <2>8. CASE SettledTooEarly
    BY <2>8, SettledTooEarlyInv
  <2>9. CASE TimeOut
    BY <2>9, TimeOutInv
  <2>10. CASE Draw
    BY <2>10, DrawInv
  <2> QED
    BY <1>1, <2>1, <2>2, <2>3, <2>4, <2>5, <2>6, <2>7, <2>8, <2>9, <2>10 DEF Next
<1>2. CASE UNCHANGED vars
  BY <1>2, StutterInv
<1> QED
  BY <1>1, <1>2

-----------------------------------------------------------------------------
(* Theorems *)

\* At each step of an action, the page, what it has drawn and the model of
\* todomvc.fizz are as far apart as that step says (todomvc_adapters.ts:111-186):
\* one action until the click, the saved title while a todo is edited, and not at
\* all from there on.
THEOREM Invariant == Spec => []IInv
<1>1. Init => IInv
  BY InitInv
<1>2. IInv /\ [Next]_vars => IInv'
  BY NextInv
<1> QED
  BY <1>1, <1>2, PTL DEF Spec

\* Every todo of the model, of the page, of what is drawn and of the local storage
\* has a title of the alphabet, never an empty one (todomvc.fizz:140-141), and the
\* adapters are in one of their phases.
THEOREM TypeCorrect == Spec => []TypeOK
<1>1. IInv => TypeOK
  BY DEF IInv
<1> QED
  BY <1>1, Invariant, PTL

\* The state that getState reads from the DOM is the view of todomvc.fizz, for any
\* number of todos and any sequence of actions and runs, unless the page was drawn
\* too late or a page was lost before the run (todomvc_adapters.ts:24-82).
THEOREM ScreenConforms == Spec => []Conforms
<1>1. IInv => Conforms
  BY DEF IInv
<1> QED
  BY <1>1, Invariant, PTL
=============================================================================
