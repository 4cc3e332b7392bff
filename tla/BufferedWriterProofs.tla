------------------------ MODULE BufferedWriterProofs ------------------------
(***************************************************************************)
(* For any number of goroutines and Appends: what the methods that lock do  *)
(* to the slices is what buffered_writer.fizz says, and what State returns, *)
(* which does not lock, misses nothing and does not change.                *)
(***************************************************************************)
EXTENDS BufferedWriterInv, FiniteSetTheorems, SequenceTheorems, TLAPS

-----------------------------------------------------------------------------
(* Arrays *)

\* A slice is its two fields.
LEMMA Fields ==
    ASSUME NEW D, NEW s \in [arr : D, len : Nat]
    PROVE  s.arr \in D /\ s.len \in Nat /\ s = [arr |-> s.arr, len |-> s.len]
OBVIOUS

\* A function on 1..n with values in S is a sequence of S.
LEMMA FunctionIsSeq ==
    ASSUME NEW S, NEW n \in Nat, NEW f \in [1..n -> S]
    PROVE  f \in Seq(S) /\ Len(f) = n
<1>1. f \in Seq(S)
  BY SeqDef
<1>2. Len(f) \in Nat /\ f \in [1..Len(f) -> S]
  BY <1>1, LenProperties
<1>3. 1..Len(f) = 1..n
  BY <1>2
<1> QED
  BY <1>1, <1>2, <1>3

LEMMA PrefixIs ==
    ASSUME NEW S, NEW s \in Seq(S), NEW n \in Nat, n <= Len(s)
    PROVE  /\ SubSeq(s, 1, n) \in Seq(S) /\ Len(SubSeq(s, 1, n)) = n
           /\ \A i \in 1..n : SubSeq(s, 1, n)[i] = s[i]
<1>1. \A i \in 1..n : s[i] \in S
  OBVIOUS
<1>2. /\ SubSeq(s, 1, n) \in Seq(S)
      /\ Len(SubSeq(s, 1, n)) = IF 1 <= n THEN n - 1 + 1 ELSE 0
      /\ \A i \in 1..n - 1 + 1 : SubSeq(s, 1, n)[i] = s[1 + i - 1]
  BY <1>1, SubSeqProperties
<1>3. n - 1 + 1 = n /\ (~(1 <= n) => n = 0) /\ \A i \in 1..n : 1 + i - 1 = i
  OBVIOUS
<1> QED
  BY <1>2, <1>3

LEMMA ElementIs ==
    ASSUME NEW S, NEW s \in Seq(S), NEW n \in Nat, n <= Len(s)
    PROVE  \A i \in 1..n : s[i] \in S
  OBVIOUS

LEMMA SliceIs ==
    ASSUME NEW S, NEW s \in Seq(S), NEW slice \in [arr : DOMAIN s, len : Nat]
    PROVE  slice \in [arr : Nat, len : Nat]
  OBVIOUS

\* A larger copy of an array begins with the items of the slice.
LEMMA GrownIs ==
    ASSUME arrays \in Seq(Seq(0..MaxItems)), NEW slice \in [arr : DOMAIN arrays, len : Nat],
           slice.len <= Cap(slice), NEW len \in Nat, len > Cap(slice)
    PROVE  /\ Grown(slice, len) \in Seq(0..MaxItems)
           /\ Len(Grown(slice, len)) >= len
           /\ \A i \in 1..slice.len : Grown(slice, len)[i] = arrays[slice.arr][i]
<1> DEFINE old == arrays[slice.arr]
           cap == IF len > 2 * Cap(slice) THEN len ELSE 2 * Cap(slice)
           new == [i \in 1..cap |-> IF i <= slice.len THEN old[i] ELSE 0]
<1>1. Grown(slice, len) = new
  BY DEF Grown
<1>2. old \in Seq(0..MaxItems) /\ Cap(slice) = Len(old) /\ Len(old) \in Nat
  BY DEF Cap
<1>3. cap \in Nat /\ cap >= len
  BY <1>2
<1>4. \A i \in 1..cap : (IF i <= slice.len THEN old[i] ELSE 0) \in 0..MaxItems
  BY <1>2, MaxItemsAssumption
<1>5. new \in Seq(0..MaxItems) /\ Len(new) = cap
  <2>1. new \in [1..cap -> 0..MaxItems]
    BY <1>4
  <2> HIDE DEF new, cap
  <2> QED
    BY <1>3, <2>1, FunctionIsSeq
<1>6. \A i \in 1..slice.len : i \in 1..cap
  BY <1>2, <1>3
<1> QED
  BY <1>1, <1>3, <1>5, <1>6

\* An array is added, or one is written: the others stay where and what they are.
LEMMA AddedArray ==
    ASSUME arrays \in Seq(Seq(0..MaxItems)), NEW new \in Seq(0..MaxItems),
           arrays' = Append(arrays, new)
    PROVE  /\ arrays' \in Seq(Seq(0..MaxItems))
           /\ Len(arrays') = Len(arrays) + 1
           /\ arrays'[Len(arrays')] = new
           /\ \A a \in DOMAIN arrays : a \in DOMAIN arrays' /\ arrays'[a] = arrays[a]
           /\ Len(arrays') \in DOMAIN arrays' /\ Len(arrays') \notin DOMAIN arrays
  OBVIOUS

LEMMA WrittenArray ==
    ASSUME arrays \in Seq(Seq(0..MaxItems)), NEW a \in DOMAIN arrays,
           NEW new \in Seq(0..MaxItems), Len(new) = Len(arrays[a]),
           arrays' = [arrays EXCEPT ![a] = new]
    PROVE  /\ arrays' \in Seq(Seq(0..MaxItems))
           /\ Len(arrays') = Len(arrays) /\ DOMAIN arrays' = DOMAIN arrays
           /\ arrays'[a] = new
           /\ \A b \in DOMAIN arrays \ {a} : arrays'[b] = arrays[b]
           /\ \A b \in DOMAIN arrays : Len(arrays'[b]) = Len(arrays[b])
  OBVIOUS

\* A slice that is not torn shows the first items of its array.
LEMMA ShownIs ==
    ASSUME arrays \in Seq(Seq(0..MaxItems)), NEW slice,
           slice.arr \in DOMAIN arrays, slice.len \in Nat, ~Torn(slice)
    PROVE  /\ slice.len <= Len(arrays[slice.arr])
           /\ Shown(slice) \in Seq(0..MaxItems)
           /\ Len(Shown(slice)) = slice.len
           /\ \A i \in 1..slice.len : Shown(slice)[i] = arrays[slice.arr][i]
<1>1. arrays[slice.arr] \in Seq(0..MaxItems)
  OBVIOUS
<1>2. slice.len <= Len(arrays[slice.arr])
  BY <1>1 DEF Torn, Cap
<1> DEFINE array == arrays[slice.arr]
           n == slice.len
           items == 0..MaxItems
<1>3. Shown(slice) = SubSeq(array, 1, n)
  BY DEF Shown
<1> HIDE DEF array, n, items
<1>4. array \in Seq(items) /\ n \in Nat /\ n <= Len(array)
  BY <1>1, <1>2 DEF array, n, items
<1>5. /\ SubSeq(array, 1, n) \in Seq(items) /\ Len(SubSeq(array, 1, n)) = n
      /\ \A i \in 1..n : SubSeq(array, 1, n)[i] = array[i]
  BY <1>4, PrefixIs
<1> QED
  BY <1>2, <1>3, <1>5 DEF array, n, items

-----------------------------------------------------------------------------
(* What steps leave alone *)

\* Nothing is lost that State has read or can still read: arrays stay as they are,
\* except where an Append or a Flush may write, and the slices only grow.
Kept ==
    /\ arrays' \in Seq(Seq(0..MaxItems)) /\ Len(arrays) <= Len(arrays')
    /\ \A a \in DOMAIN arrays :
          /\ Len(arrays'[a]) = Len(arrays[a])
          /\ WasFlushed(a) => WasFlushed(a)'
          /\ WasBuffered(a) => WasBuffered(a)'
          /\ WasFlushed(a) => \A i \in 1..Len(arrays[a]) :
                i <= Landed.len => arrays'[a][i] = arrays[a][i]
          /\ WasBuffered(a) => \A i \in 1..Len(arrays[a]) :
                i <= Stored \/ ~Appending => arrays'[a][i] = arrays[a][i]
    /\ (Landed.len)' \in Nat /\ Landed.len <= (Landed.len)'
    /\ Settled' \in Nat /\ Settled <= Settled'
    /\ Stored' \in Nat /\ Stored <= Stored'
    /\ done \subseteq done'
    /\ \/ buffered'.arr = buffered.arr
       \/ /\ Appending'
          /\ buffered'.arr \in DOMAIN arrays' /\ Stored <= Len(arrays'[buffered'.arr])
          /\ \A i \in 1..Stored : arrays'[buffered'.arr][i] = arrays[buffered.arr][i]

LEMMA SeenKept ==
    ASSUME CoreInv, Kept, NEW q \in Procs, seen'[q] = seen[q]
    PROVE  SeenBy(q)'
<1> DEFINE slice == seen[q].slice
<1>1. /\ arrays \in Seq(Seq(0..MaxItems)) /\ Landed.len \in Nat
      /\ WasFlushed(slice.arr) /\ slice.len \in 0..Landed.len
      /\ ~Torn(slice) => Shown(slice) = seen[q].items
  BY DEF CoreInv, WriterTypeOK, ItemsInv, SeenBy
<1>2. slice.arr \in DOMAIN arrays /\ slice.arr \in DOMAIN arrays'
  BY <1>1 DEF WasFlushed, Kept
<1>3. arrays' \in Seq(Seq(0..MaxItems)) /\ Len(arrays'[slice.arr]) = Len(arrays[slice.arr])
  BY <1>2 DEF Kept
<1>4. Torn(seen[q].slice)' <=> Torn(slice)
  BY <1>3 DEF Torn, Cap
<1>5. ASSUME ~Torn(slice)
      PROVE  Shown(seen[q].slice)' = Shown(slice)
  <2> DEFINE n == slice.len
             shown == SubSeq(arrays'[slice.arr], 1, n)
  <2>1. /\ n \in Nat /\ n <= Len(arrays[slice.arr])
        /\ Shown(slice) \in Seq(0..MaxItems) /\ Len(Shown(slice)) = n
        /\ \A i \in 1..n : Shown(slice)[i] = arrays[slice.arr][i]
    <3> HIDE DEF slice
    <3>1. slice.len \in Nat
      BY <1>1
    <3> QED
      BY <1>1, <1>2, <1>5, <3>1, ShownIs
  <2>2. Shown(seen[q].slice)' = shown
    BY DEF Shown
  <2>3. /\ shown \in Seq(0..MaxItems) /\ Len(shown) = n
        /\ \A i \in 1..n : shown[i] = arrays'[slice.arr][i]
    <3>1. arrays'[slice.arr] \in Seq(0..MaxItems)
      BY <1>2, <1>3
    <3> QED
      BY <1>3, <2>1, <3>1, PrefixIs
  <2>4. \A i \in 1..n : arrays'[slice.arr][i] = arrays[slice.arr][i]
    <3>1. \A i \in 1..n : i \in 1..Len(arrays[slice.arr]) /\ i <= Landed.len
      BY <1>1, <2>1
    <3> HIDE DEF n
    <3> QED
      BY <1>1, <1>2, <3>1 DEF Kept
  <2>5. shown = Shown(slice)
    <3> HIDE DEF shown, n
    <3> QED
      BY <2>1, <2>3, <2>4, SeqEqual
  <2> QED
    BY <2>2, <2>5
<1>6. WasFlushed(slice.arr)' /\ slice.len \in 0..(Landed.len)'
  <2>1. WasFlushed(slice.arr)'
    BY <1>1, <1>2 DEF Kept
  <2>2. (Landed.len)' \in Nat /\ Landed.len <= (Landed.len)'
    BY DEF Kept
  <2>3. Landed.len \in Nat /\ slice.len \in 0..Landed.len
    BY <1>1
  <2> QED
    BY <2>1, <2>2, <2>3
<1> QED
  BY <1>1, <1>4, <1>5, <1>6 DEF SeenBy

\* Where a process has been told that the buffer was reused, nothing is claimed of
\* what it holds.
LEMMA ReaderKept ==
    ASSUME CoreInv, Kept, NEW q \in Procs, pc'[q] = pc[q],
           \/ local'[q] = local[q] /\ (local[q].during = "flush" => ~Appending')
           \/ local'[q] = [local[q] EXCEPT !.during = "reused"]
    PROVE  ReaderOf(q)'
<1> SUFFICES ASSUME pc[q] \in {"reading", "returning"}
             PROVE  ReaderOf(q)'
  BY DEF ReaderOf
<1>1. /\ WordsOf(q) /\ local[q].due \subseteq done
      /\ local[q].during = "flush" => ~Appending
      /\ local[q].during # "reused" => Covered(q)
  BY DEF CoreInv, ReaderOf
<1>2. PICK read \in SUBSET (1..4) : local[q] \in Locals(read)
  BY DEF CoreInv, LocalInv, LocalOf
<1>3. /\ local'[q].words = local[q].words /\ local'[q].due = local[q].due
      /\ Read(q) = read /\ Read(q)' = read
      /\ \A n \in read : Word(q, n)' = Word(q, n) /\ Word(q, n) \in Nat
  BY <1>2 DEF Locals, Read, Word
<1>4. /\ arrays \in Seq(Seq(0..MaxItems)) /\ arrays' \in Seq(Seq(0..MaxItems))
      /\ Landed.len \in Nat /\ (Landed.len)' \in Nat /\ Settled \in Nat /\ Stored \in Nat
      /\ done = 1..(Settled + Stored)
      /\ Settled <= Landed.len
  <2>1. flushed.len \in Nat
    BY MaxItemsAssumption DEF CoreInv, WriterTypeOK, IsSlice
  <2> QED
    BY <2>1 DEF CoreInv, WriterTypeOK, ItemsInv, Kept
<1>5. WordsOf(q)'
  <2>1. \A a : WasBuffered(a) => WasBuffered(a)'
    BY DEF WasBuffered, Kept
  <2>2. \A a : WasFlushed(a) => WasFlushed(a)'
    BY DEF WasFlushed, Kept
  <2>3. \A n : n \in Nat /\ n <= Landed.len => n <= (Landed.len)'
    BY <1>4 DEF Kept
  <2> QED
    BY <1>1, <1>3, <2>1, <2>2, <2>3 DEF WordsOf
<1>6. (local[q].due)' \subseteq done'
  BY <1>1, <1>3 DEF Kept
<1>7. CASE local'[q] = [local[q] EXCEPT !.during = "reused"]
  <2>1. local'[q].during = "reused"
    BY <1>2, <1>7 DEF Locals
  <2> QED
    BY <1>5, <1>6, <2>1 DEF ReaderOf
<1>8. CASE local'[q] = local[q] /\ local[q].during = "reused"
  BY <1>5, <1>6, <1>8 DEF ReaderOf
<1>9. CASE local'[q] = local[q] /\ local[q].during # "reused"
                                /\ (local[q].during = "flush" => ~Appending')
  <2> SUFFICES ASSUME NEW i \in local[q].due
               PROVE  InFlushed(q, i)' \/ \E j \in 1..MaxItems : InBuffered(q, i, j)'
    BY <1>5, <1>6, <1>9 DEF ReaderOf, Covered
  <2>1. i \in Nat /\ i >= 1
    BY <1>1, <1>4
  <2>2. CASE InFlushed(q, i)
    <3>1. i <= Landed.len
      BY <1>1, <1>3, <1>4, <2>1, <2>2 DEF InFlushed, WordsOf
    <3>2. ASSUME 3 \in read
          PROVE  i <= Len(arrays'[Word(q, 3)]) /\ arrays'[Word(q, 3)][i] = i
      <4> DEFINE a == Word(q, 3)
      <4>1. WasFlushed(a) /\ i <= Len(arrays[a]) /\ arrays[a][i] = i
        BY <1>1, <1>3, <2>2, <3>2 DEF WordsOf, InFlushed
      <4>2. a \in DOMAIN arrays /\ i \in 1..Len(arrays[a])
        BY <1>4, <2>1, <4>1 DEF WasFlushed
      <4> HIDE DEF a
      <4>3. Len(arrays'[a]) = Len(arrays[a]) /\ arrays'[a][i] = arrays[a][i]
        BY <3>1, <4>1, <4>2 DEF Kept
      <4> QED
        BY <4>1, <4>3 DEF a
    <3>3. i <= Settled => i <= Settled'
      BY <1>4, <2>1 DEF Kept
    <3>4. InFlushed(q, i)'
      BY <1>3, <2>2, <3>2, <3>3 DEF InFlushed
    <3> QED
      BY <3>4
  <2>3. ASSUME NEW j \in 1..MaxItems, InBuffered(q, i, j)
        PROVE  InBuffered(q, i, j)'
    <3> DEFINE a == ReadFrom(q)
    <3>1. /\ j <= Len(arrays[a]) /\ arrays[a][j] = i
          /\ IF 2 \in read THEN j <= Word(q, 2) ELSE j <= Stored
          /\ local[q].during = "none" => j <= Stored
      BY <1>3, <2>3 DEF InBuffered
    <3>2. WasBuffered(a) /\ WasBuffered(buffered.arr)
      <4>1. WasBuffered(buffered.arr)
        BY DEF CoreInv, WriterTypeOK, IsSlice, ApartInv, WasFlushed, WasBuffered
      <4> QED
        BY <1>1, <1>3, <4>1 DEF ReadFrom, WordsOf
    <3>3. a \in DOMAIN arrays /\ j \in 1..Len(arrays[a])
      BY <1>4, <3>1, <3>2 DEF WasBuffered
    <3>4. j <= Stored => j <= Stored'
      BY <1>4 DEF Kept
    <3>5. j <= Stored \/ ~Appending
      <4>1. local[q].during \in {"none", "flush"}
        BY <1>2, <1>9 DEF Locals
      <4> QED
        BY <1>1, <3>1, <4>1
    <3>6. Len(arrays'[a]) = Len(arrays[a]) /\ arrays'[a][j] = arrays[a][j]
      <4> HIDE DEF a
      <4> QED
        BY <3>2, <3>3, <3>5 DEF Kept
    <3>7. CASE ReadFrom(q)' = a
      BY <1>3, <1>9, <3>1, <3>4, <3>6, <3>7 DEF InBuffered
    <3>8. CASE ReadFrom(q)' # a
      <4>1. 1 \notin read /\ a = buffered.arr /\ ReadFrom(q)' = buffered'.arr
        BY <1>3, <3>8 DEF ReadFrom
      <4>2. /\ Appending'
            /\ buffered'.arr \in DOMAIN arrays' /\ Stored <= Len(arrays'[buffered'.arr])
            /\ \A k \in 1..Stored : arrays'[buffered'.arr][k] = arrays[buffered.arr][k]
        BY <3>8, <4>1 DEF Kept
      <4>3. local[q].during = "none"
        BY <1>2, <1>9, <4>2 DEF Locals
      <4>4. j \in 1..Stored
        BY <1>4, <3>1, <4>3
      <4>5. j <= Len(arrays'[buffered'.arr])
        BY <1>4, <4>2, <4>4
      <4> QED
        BY <1>3, <1>9, <3>1, <3>4, <4>1, <4>2, <4>4, <4>5 DEF InBuffered
    <3> QED
      BY <3>7, <3>8
  <2> QED
    BY <1>1, <1>9, <2>2, <2>3 DEF Covered
<1> QED
  BY <1>7, <1>8, <1>9

-----------------------------------------------------------------------------
(* Steps without the mutex *)

LockedPlaces == AppendPlaces \cup FlushPlaces

\* A step of State or GetLength: it changes nothing but what its caller keeps.
OutsideStep(p) ==
    /\ UNCHANGED <<mu, arrays, flushed, buffered, appended, done>>
    /\ pc[p] \in {"idle", "reading", "returning"}
    /\ \E place \in {"idle", "reading", "returning"} : pc' = [pc EXCEPT ![p] = place]
    /\ \A q \in Procs \ {p} : local'[q] = local[q] /\ seen'[q] = seen[q]

LEMMA OutsideLeaves ==
    ASSUME CoreInv, NEW p \in Procs, OutsideStep(p)
    PROVE  /\ Appending' = Appending /\ Flushing' = Flushing
           /\ Settled' = Settled /\ Stored' = Stored /\ Landed' = Landed
           /\ Kept
           /\ LockInv' /\ ItemsInv' /\ FlushInv' /\ ApartInv'
<1>1. /\ pc \in [Procs -> {"idle", "reading", "returning"} \cup LockedPlaces]
      /\ mu \in Procs \cup {None} /\ mu' = mu
      /\ arrays \in Seq(Seq(0..MaxItems))
  BY DEF CoreInv, WriterTypeOK, OutsideStep, LockedPlaces
<1>2. /\ p # mu /\ pc'[p] \notin LockedPlaces
      /\ \A q \in Procs : q # p => pc'[q] = pc[q] /\ local'[q] = local[q]
  BY <1>1 DEF CoreInv, LockInv, LockedPlaces, AppendPlaces, FlushPlaces, OutsideStep
<1>3. mu # None => pc'[mu] = pc[mu] /\ local'[mu] = local[mu]
  BY <1>1, <1>2
<1>4. Appending' = Appending /\ Flushing' = Flushing
  BY <1>1, <1>3 DEF Appending, Flushing
<1>5. Settled' = Settled /\ Stored' = Stored /\ Landed' = Landed
  BY <1>1, <1>3, <1>4 DEF Settled, Stored, Landed, Flushing, OutsideStep
<1>6. \A a : (WasFlushed(a)' <=> WasFlushed(a)) /\ (WasBuffered(a)' <=> WasBuffered(a))
  BY <1>5 DEF WasFlushed, WasBuffered, OutsideStep
<1>7. Kept
  <2>1. Settled \in Nat /\ Stored \in Nat /\ Landed.len \in Nat /\ Len(arrays) \in Nat
    BY <1>1 DEF CoreInv, ItemsInv
  <2> QED
    BY <1>1, <1>5, <1>6, <2>1 DEF Kept, OutsideStep
<1>8. LockInv'
  <2>1. pc[p] \notin LockedPlaces
    BY DEF OutsideStep, LockedPlaces, AppendPlaces, FlushPlaces
  <2> QED
    BY <1>1, <1>2, <2>1 DEF CoreInv, LockInv, LockedPlaces
<1>9. ItemsInv'
  <2>1. \A a, n, base : Holds(a, n, base)' <=> Holds(a, n, base)
    BY DEF Holds, OutsideStep
  <2>2. (mu' # None /\ pc'[mu'] = "appendLen") <=> (mu # None /\ pc[mu] = "appendLen")
    BY <1>1, <1>3
  <2>3. Cap(buffered)' = Cap(buffered)
    BY DEF Cap, OutsideStep
  <2>4. ItemsInv
    BY DEF CoreInv
  <2> QED
    BY <1>4, <1>5, <2>1, <2>2, <2>3, <2>4 DEF ItemsInv, OutsideStep
<1>10. FlushInv'
  <2> SUFFICES ASSUME NEW q \in Procs, q # p
               PROVE  /\ pc'[q] \in {"flushHeader", "flushLen"} => flushed'.len = Settled'
                      /\ pc'[q] \in {"flushLen", "flushClear"} => flushed'.arr = local'[q].arr
                      /\ pc'[q] \in {"flushArr", "flushClear"} => flushed'.len = local'[q].len
    BY <1>2 DEF FlushInv, LockedPlaces, FlushPlaces
  <2> QED
    BY <1>2, <1>5 DEF CoreInv, FlushInv, OutsideStep
<1>11. ApartInv'
  <2>1. WasFlushed(flushed.arr)' /\ WasFlushed(Landed.arr)'
    BY <1>5, <1>6 DEF CoreInv, ApartInv, OutsideStep
  <2> QED
    BY <2>1 DEF ApartInv
<1> QED
  BY <1>4, <1>5, <1>7, <1>8, <1>9, <1>10, <1>11

\* What is left to show of such a step is about its caller.
LEMMA OutsideInv ==
    ASSUME CoreInv, NEW p \in Procs, OutsideStep(p),
           local' = [q \in Procs |-> local'[q]], seen' = [q \in Procs |-> seen'[q]],
           LocalOf(p)', SeenBy(p)', ReaderOf(p)', NothingForgotten'
    PROVE  CoreInv'
<1>1. Kept /\ LockInv' /\ ItemsInv' /\ FlushInv' /\ ApartInv' /\ Appending' = Appending
  BY OutsideLeaves
<1>2. ASSUME NEW q \in Procs, q # p
      PROVE  LocalOf(q)' /\ SeenBy(q)' /\ ReaderOf(q)'
  <2>1. pc'[q] = pc[q] /\ local'[q] = local[q] /\ seen'[q] = seen[q]
    BY <1>2 DEF OutsideStep, CoreInv, WriterTypeOK
  <2>2. LocalOf(q)'
    BY <2>1 DEF CoreInv, LocalInv, LocalOf
  <2>3. SeenBy(q)'
    BY <1>1, <2>1, SeenKept
  <2>4. CASE pc[q] \in {"reading", "returning"}
    <3>1. local[q].during = "flush" => ~Appending'
      BY <1>1, <2>4 DEF CoreInv, ReaderOf
    <3> QED
      BY <1>1, <2>1, <2>2, <2>3, <3>1, ReaderKept
  <2>5. CASE pc[q] \notin {"reading", "returning"}
    BY <2>1, <2>2, <2>3, <2>5 DEF ReaderOf
  <2> QED
    BY <2>4, <2>5
<1>3. LocalInv'
  BY <1>2 DEF LocalInv
<1>4. WriterTypeOK'
  <2>1. IsSlice(flushed)' /\ IsSlice(buffered)' /\ Cap(flushed)' = Cap(flushed) /\ Cap(buffered)' = Cap(buffered)
    BY DEF CoreInv, WriterTypeOK, IsSlice, Cap, OutsideStep
  <2> QED
    BY <2>1 DEF CoreInv, WriterTypeOK, OutsideStep
<1> QED
  BY <1>1, <1>2, <1>3, <1>4 DEF CoreInv

\* The items that are there are those that were appended, but for one under way.
LEMMA Counts ==
    ASSUME CoreInv
    PROVE  /\ Settled \in Nat /\ Stored \in Nat /\ Landed.len \in Nat
           /\ Settled + Stored <= MaxItems
           /\ done = 1..(Settled + Stored) /\ done \in SUBSET (1..MaxItems)
           /\ flushed.len \in Nat /\ buffered.len \in Nat
           /\ Settled <= flushed.len /\ flushed.len <= Landed.len /\ Stored <= buffered.len
<1>1. /\ Settled \in Nat /\ Stored \in Nat /\ Landed.len \in Nat
      /\ done = 1..(Settled + Stored)
      /\ appended = Settled + Stored + IF Appending THEN 1 ELSE 0
      /\ Settled <= flushed.len /\ flushed.len <= Landed.len
      /\ appended \in 0..MaxItems
      /\ flushed.len \in 0..MaxItems /\ buffered.len \in 0..MaxItems
  BY DEF CoreInv, WriterTypeOK, ItemsInv, IsSlice
<1>2. Settled + Stored <= MaxItems
  BY <1>1, MaxItemsAssumption
<1>3. Stored <= buffered.len
  BY <1>1, MaxItemsAssumption DEF Stored
<1> QED
  BY <1>1, <1>2, <1>3, MaxItemsAssumption

\* With the mutex free, the slices count in full.
LEMMA FreeSlices ==
    ASSUME mu = None
    PROVE  Settled = flushed.len /\ Stored = buffered.len /\ Landed = flushed /\ ~Appending
  BY DEF Settled, Stored, Landed, Flushing, Appending

LEMMA GetLengthInv ==
    ASSUME CoreInv, NEW p \in Procs, GetLength(p)
    PROVE  CoreInv' /\ OutsideStep(p)
<1>1. OutsideStep(p)
  <2>1. pc' = [pc EXCEPT ![p] = "idle"]
    BY DEF CoreInv, WriterTypeOK, GetLength
  <2> QED
    BY <2>1 DEF GetLength, OutsideStep, slices, ghosts
<1>2. Kept /\ UNCHANGED <<pc, local, seen, done>>
  BY <1>1, OutsideLeaves DEF GetLength, ghosts
<1>3. SeenBy(p)'
  BY <1>2, SeenKept
<1>4. ReaderOf(p)' /\ LocalOf(p)'
  BY <1>2 DEF GetLength, ReaderOf, CoreInv, LocalInv, LocalOf
<1>5. NothingForgotten'
  <2>1. reply' = [kind |-> "length", length |-> flushed.len + buffered.len]
    BY DEF GetLength
  <2>2. flushed.len \in Nat /\ buffered.len \in Nat /\ done = 1..(flushed.len + buffered.len)
    BY FreeSlices DEF CoreInv, ItemsInv, GetLength
  <2>3. Cardinality(done) = flushed.len + buffered.len
    <3> DEFINE n == flushed.len + buffered.len
    <3>1. n \in Nat /\ done = 1..n
      BY <2>2
    <3> HIDE DEF n
    <3>2. Cardinality(1..n) = IF 1 > n THEN 0 ELSE n - 1 + 1
      BY <3>1, FS_Interval
    <3>3. Cardinality(1..n) = n
      BY <3>1, <3>2
    <3> QED
      BY <3>1, <3>3 DEF n
  <2> QED
    BY <1>2, <2>1, <2>3 DEF NothingForgotten
<1>6. local' = [q \in Procs |-> local'[q]] /\ seen' = [q \in Procs |-> seen'[q]]
  BY <1>2 DEF CoreInv, LocalInv
<1> QED
  BY <1>1, <1>3, <1>4, <1>5, <1>6, OutsideInv

LEMMA StateBeginInv ==
    ASSUME CoreInv, NEW p \in Procs, StateBegin(p)
    PROVE  CoreInv' /\ OutsideStep(p)
<1>1. /\ pc[p] = "idle" /\ pc' = [pc EXCEPT ![p] = "reading"] /\ pc'[p] = "reading"
      /\ local[p] = NoLocal
      /\ local' = [local EXCEPT ![p].due = done]
      /\ UNCHANGED <<mu, arrays, flushed, buffered, appended, done, seen>>
      /\ reply' = NoReply
      /\ local = [q \in Procs |-> local[q]] /\ seen = [q \in Procs |-> seen[q]]
  BY DEF StateBegin, Goto, slices, ghosts, CoreInv, WriterTypeOK, LocalInv, LocalOf
<1>2. /\ local'[p] = [arr |-> 1, len |-> 0, words |-> << >>, due |-> done, during |-> "none"]
      /\ \A q \in Procs \ {p} : local'[q] = local[q]
      /\ local' = [q \in Procs |-> local'[q]]
  <2>1. /\ local'[p] = [NoLocal EXCEPT !.due = done]
        /\ \A q \in Procs \ {p} : local'[q] = local[q]
        /\ local' = [q \in Procs |-> local'[q]]
    BY <1>1
  <2>2. [NoLocal EXCEPT !.due = done] =
           [arr |-> 1, len |-> 0, words |-> << >>, due |-> done, during |-> "none"]
    BY DEF NoLocal
  <2> QED
    BY <2>1, <2>2
<1>3. OutsideStep(p)
  BY <1>1, <1>2 DEF OutsideStep
<1>4. /\ Kept /\ Appending' = Appending
      /\ Settled' = Settled /\ Stored' = Stored
  BY <1>3, OutsideLeaves
<1>5. SeenBy(p)'
  BY <1>1, <1>4, SeenKept
<1>6. Read(p)' = {}
  BY <1>2 DEF Read
<1>7. LocalOf(p)'
  <2>1. done \in SUBSET (1..MaxItems)
    BY Counts
  <2>2. << >> \in [{} -> Nat]
    OBVIOUS
  <2>3. local'[p] \in Locals({})
    BY <1>2, <2>1, <2>2 DEF Locals
  <2> QED
    BY <1>1, <2>3 DEF LocalOf, AppendPlaces
<1>8. WordsOf(p)'
  BY <1>1, <1>6 DEF WordsOf
<1>9. Covered(p)'
  <2> SUFFICES ASSUME NEW i \in done
               PROVE  InFlushed(p, i)' \/ \E j \in 1..MaxItems : InBuffered(p, i, j)'
    BY <1>2 DEF Covered
  <2>1. /\ Settled \in Nat /\ Stored \in Nat /\ i \in 1..(Settled + Stored)
        /\ Settled + Stored <= MaxItems
        /\ Holds(buffered.arr, Stored, Settled)
    BY Counts DEF CoreInv, ItemsInv
  <2>2. CASE i <= Settled
    BY <1>4, <1>6, <2>2 DEF InFlushed
  <2>3. CASE i > Settled
    <3>1. i - Settled \in 1..Stored /\ i - Settled \in 1..MaxItems /\ Settled + (i - Settled) = i
      BY <2>1, <2>3, MaxItemsAssumption
    <3>2. /\ Stored <= Len(arrays[buffered.arr]) /\ buffered.arr \in DOMAIN arrays
          /\ arrays[buffered.arr][i - Settled] = i
      BY <2>1, <3>1 DEF Holds
    <3>3. i - Settled <= Stored /\ i - Settled <= Len(arrays[buffered.arr])
      BY <2>1, <3>1, <3>2 DEF CoreInv, WriterTypeOK
    <3>4. ReadFrom(p)' = buffered.arr
      BY <1>1, <1>6 DEF ReadFrom
    <3>5. PICK j \in 1..MaxItems :
             j <= Stored /\ j <= Len(arrays[buffered.arr]) /\ arrays[buffered.arr][j] = i
      BY <3>1, <3>2, <3>3
    <3>6. InBuffered(p, i, j)'
      BY <1>1, <1>4, <1>6, <3>4, <3>5 DEF InBuffered
    <3> QED
      BY <3>6
  <2> QED
    BY <2>1, <2>2, <2>3
<1>10. ReaderOf(p)'
  BY <1>1, <1>2, <1>8, <1>9 DEF ReaderOf
<1>11. NothingForgotten'
  BY <1>1 DEF NothingForgotten, NoReply
<1> QED
  BY <1>1, <1>2, <1>3, <1>5, <1>7, <1>10, <1>11, OutsideInv

\* The word that State reads belongs to what it has read of the other ones.
LEMMA ReadWordInv ==
    ASSUME CoreInv, NEW p \in Procs, NEW n \in DOMAIN Words, ReadWord(p, n)
    PROVE  CoreInv' /\ OutsideStep(p)
<1> DEFINE read == Read(p)
           place == IF read \cup {n} = 1..4 THEN "returning" ELSE "reading"
<1>1. PICK dom \in SUBSET (1..4) : local[p] \in Locals(dom)
  BY DEF CoreInv, LocalInv, LocalOf
<1>2. read = dom /\ \A m \in dom : Word(p, m) = local[p].words[m]
  BY <1>1 DEF Locals, Read, Word
<1>3. DOMAIN Words = 1..4
  BY DEF Words
<1>4. /\ pc[p] = "reading" /\ n \in 1..4 /\ n \notin read /\ MayRead(n, read)
      /\ pc' = [pc EXCEPT ![p] = place] /\ pc'[p] = place
      /\ UNCHANGED <<mu, arrays, flushed, buffered, appended, done, seen>>
      /\ reply' = NoReply
      /\ local = [q \in Procs |-> local[q]] /\ seen = [q \in Procs |-> seen[q]]
  BY <1>3 DEF ReadWord, Goto, Read, slices, ghosts, CoreInv, WriterTypeOK, LocalInv
<1>5. local' = [local EXCEPT ![p].words =
                   [m \in read \cup {n} |-> IF m = n THEN Words[n] ELSE local[p].words[m]]]
  BY DEF ReadWord, Read
<1>6. /\ local'[p] = [local[p] EXCEPT !.words =
                        [m \in read \cup {n} |-> IF m = n THEN Words[n] ELSE local[p].words[m]]]
      /\ \A q \in Procs \ {p} : local'[q] = local[q]
      /\ local' = [q \in Procs |-> local'[q]]
  BY <1>4, <1>5
<1>7. /\ local'[p].due = local[p].due /\ local'[p].during = local[p].during
      /\ local'[p].words = [m \in read \cup {n} |-> IF m = n THEN Words[n] ELSE local[p].words[m]]
  BY <1>1, <1>6 DEF Locals
<1>8. /\ Read(p)' = read \cup {n}
      /\ Word(p, n)' = Words[n]
      /\ \A m \in read : Word(p, m)' = Word(p, m)
  BY <1>4, <1>7 DEF Read, Word
<1>9. OutsideStep(p)
  <2>1. place \in {"idle", "reading", "returning"}
    OBVIOUS
  <2> HIDE DEF place
  <2> QED
    BY <1>4, <1>6, <2>1 DEF OutsideStep
<1>10. /\ Kept /\ Appending' = Appending
       /\ Settled' = Settled /\ Stored' = Stored /\ Landed' = Landed
  BY <1>9, OutsideLeaves
<1>11. SeenBy(p)'
  BY <1>4, <1>10, SeenKept
<1>12. Words[1] = buffered.arr /\ Words[2] = buffered.len /\ Words[3] = flushed.arr /\ Words[4] = flushed.len
  BY DEF Words
<1>13. /\ Settled \in Nat /\ Stored \in Nat /\ flushed.len \in Nat /\ buffered.len \in Nat
       /\ Settled <= flushed.len /\ flushed.len <= Landed.len /\ Stored <= buffered.len
       /\ Landed.len \in Nat
  BY Counts
<1>14. flushed.arr \in Nat /\ buffered.arr \in Nat
  BY DEF CoreInv, WriterTypeOK, IsSlice
<1>15. LocalOf(p)'
  <2>1. local'[p].words \in [read \cup {n} -> Nat]
    <3>1. Words[n] \in Nat
      BY <1>4, <1>12, <1>13, <1>14
    <3>2. \A m \in read : local[p].words[m] \in Nat
      BY <1>1, <1>2 DEF Locals
    <3> QED
      BY <1>7, <3>1, <3>2
  <2>2. read \cup {n} \in SUBSET (1..4)
    BY <1>2, <1>4
  <2>3. local'[p] \in Locals(read \cup {n})
    BY <1>1, <1>6, <1>7, <2>1 DEF Locals
  <2>4. pc'[p] \in {"reading", "returning"}
    BY <1>4
  <2> QED
    BY <2>2, <2>3, <2>4 DEF LocalOf, AppendPlaces
<1>16. /\ WordsOf(p) /\ local[p].due \subseteq done
       /\ local[p].during = "flush" => ~Appending
       /\ local[p].during # "reused" => Covered(p)
  BY <1>4 DEF CoreInv, ReaderOf
<1>17. WordsOf(p)'
  <2>1. pc'[p] = "returning" => Read(p)' = 1..4
    BY <1>4, <1>8
  <2>2. 3 \in Read(p)' \/ 4 \in Read(p)' => 1 \in Read(p)' /\ 2 \in Read(p)'
    BY <1>4, <1>8, <1>16 DEF WordsOf, MayRead, BufferedWords
  <2>3. WasBuffered(buffered.arr) /\ WasFlushed(flushed.arr)
    BY DEF CoreInv, WriterTypeOK, IsSlice, ApartInv, WasFlushed, WasBuffered
  <2>4. \A a : (WasBuffered(a) => WasBuffered(a)') /\ (WasFlushed(a) => WasFlushed(a)')
    BY <1>10 DEF Kept, WasBuffered, WasFlushed
  <2>5. 1 \in Read(p)' => WasBuffered(Word(p, 1))'
    <3>1. CASE n = 1
      BY <1>8, <1>12, <2>3, <2>4, <3>1
    <3>2. CASE n # 1
      BY <1>8, <1>16, <2>4, <3>2 DEF WordsOf
    <3> QED
      BY <3>1, <3>2
  <2>6. 3 \in Read(p)' => WasFlushed(Word(p, 3))'
    <3>1. CASE n = 3
      BY <1>8, <1>12, <2>3, <2>4, <3>1
    <3>2. CASE n # 3
      BY <1>8, <1>16, <2>4, <3>2 DEF WordsOf
    <3> QED
      BY <3>1, <3>2
  <2>7. 4 \in Read(p)' => Word(p, 4)' <= (Landed.len)'
    BY <1>8, <1>10, <1>12, <1>13, <1>16 DEF WordsOf
  <2> QED
    BY <2>1, <2>2, <2>5, <2>6, <2>7 DEF WordsOf
<1>18. ASSUME local[p].during # "reused"
       PROVE  Covered(p)'
  <2> SUFFICES ASSUME NEW i \in local[p].due
               PROVE  InFlushed(p, i)' \/ \E j \in 1..MaxItems : InBuffered(p, i, j)'
    BY <1>7 DEF Covered
  <2>1. i \in Nat /\ i >= 1
    BY <1>13, <1>16, Counts
  <2>2. CASE InFlushed(p, i)
    <3>1. i <= Settled => /\ i <= Len(arrays[flushed.arr]) /\ arrays[flushed.arr][i] = i
                          /\ i <= flushed.len
      <4>1. Holds(flushed.arr, Settled, 0) /\ arrays \in Seq(Seq(0..MaxItems))
        BY DEF CoreInv, ItemsInv, WriterTypeOK
      <4> QED
        BY <1>13, <2>1, <4>1 DEF Holds
    <3>2. n \in {3, 4} => i <= Settled
      BY <1>4, <2>2 DEF InFlushed
    <3>3. 3 \in Read(p)' => i <= Len(arrays[Word(p, 3)']) /\ arrays[Word(p, 3)'][i] = i
      BY <1>8, <1>12, <2>2, <3>1, <3>2 DEF InFlushed
    <3>4. 4 \in Read(p)' => i <= Word(p, 4)'
      BY <1>8, <1>12, <2>2, <3>1, <3>2 DEF InFlushed
    <3>5. i <= Settled \/ (3 \in Read(p)' /\ 4 \in Read(p)')
      BY <1>8, <2>2 DEF InFlushed
    <3> QED
      BY <1>4, <1>10, <3>3, <3>4, <3>5 DEF InFlushed
  <2>3. ASSUME NEW j \in 1..MaxItems, InBuffered(p, i, j)
        PROVE  InBuffered(p, i, j)'
    <3>1. ReadFrom(p)' = ReadFrom(p)
      BY <1>4, <1>8, <1>12 DEF ReadFrom
    <3>2. IF 2 \in Read(p)' THEN j <= Word(p, 2)' ELSE j <= Stored
      <4>1. CASE n = 2
        BY <1>4, <1>8, <1>12, <1>13, <2>3, <4>1 DEF InBuffered
      <4>2. CASE n # 2
        BY <1>8, <2>3, <4>2 DEF InBuffered
      <4> QED
        BY <4>1, <4>2
    <3> QED
      BY <1>4, <1>7, <1>10, <2>3, <3>1, <3>2 DEF InBuffered
  <2> QED
    BY <1>16, <1>18, <2>2, <2>3 DEF Covered
<1>19. ReaderOf(p)'
  BY <1>4, <1>7, <1>10, <1>16, <1>17, <1>18 DEF ReaderOf
<1>20. NothingForgotten'
  BY <1>4 DEF NothingForgotten, NoReply
<1>21. seen' = [q \in Procs |-> seen'[q]]
  BY <1>4
<1> QED
  BY <1>6, <1>9, <1>11, <1>15, <1>19, <1>20, <1>21, OutsideInv

\* What State returns covers what was due.
LEMMA StateReturnInv ==
    ASSUME CoreInv, NEW p \in Procs, StateReturn(p)
    PROVE  CoreInv' /\ OutsideStep(p)
<1> DEFINE bu == MakeSlice(local[p].words, 1)
           fl == MakeSlice(local[p].words, 3)
<1>1. PICK dom \in SUBSET (1..4) : local[p] \in Locals(dom)
  BY DEF CoreInv, LocalInv, LocalOf
<1>2. /\ pc[p] = "returning" /\ pc' = [pc EXCEPT ![p] = "idle"] /\ pc'[p] = "idle"
      /\ UNCHANGED <<mu, arrays, flushed, buffered, appended, done>>
      /\ reply' = [kind |-> "state", buffered |-> bu, flushed |-> fl,
                   due |-> local[p].due, during |-> local[p].during, moved |-> moved[p]]
      /\ local = [q \in Procs |-> local[q]] /\ seen = [q \in Procs |-> seen[q]]
      /\ local' = [local EXCEPT ![p] = NoLocal]
      /\ seen' = [seen EXCEPT ![p] = [slice |-> fl, items |-> IF Torn(fl) THEN << >> ELSE Shown(fl)]]
  BY DEF StateReturn, Goto, slices, CoreInv, WriterTypeOK, LocalInv
<1>3. /\ local'[p] = NoLocal
      /\ seen'[p] = [slice |-> fl, items |-> IF Torn(fl) THEN << >> ELSE Shown(fl)]
      /\ \A q \in Procs \ {p} : local'[q] = local[q] /\ seen'[q] = seen[q]
      /\ local' = [q \in Procs |-> local'[q]] /\ seen' = [q \in Procs |-> seen'[q]]
  BY <1>2
<1>4. OutsideStep(p)
  BY <1>2, <1>3 DEF OutsideStep
<1>5. Kept /\ Landed' = Landed
  BY <1>4, OutsideLeaves
<1>6. /\ WordsOf(p) /\ local[p].due \subseteq done
      /\ local[p].during # "reused" => Covered(p)
  BY <1>2 DEF CoreInv, ReaderOf
<1>7. Read(p) = 1..4 /\ \A m \in 1..4 : Word(p, m) \in Nat
  BY <1>1, <1>2, <1>6 DEF WordsOf, Locals, Read, Word
<1>8. /\ bu = [arr |-> Word(p, 1), len |-> Word(p, 2)]
      /\ fl = [arr |-> Word(p, 3), len |-> Word(p, 4)]
  BY DEF MakeSlice, Word
<1>9. /\ WasBuffered(bu.arr) /\ WasFlushed(fl.arr) /\ fl.len <= Landed.len
      /\ bu.len \in Nat /\ fl.len \in Nat /\ arrays \in Seq(Seq(0..MaxItems))
  BY <1>6, <1>7, <1>8 DEF WordsOf, CoreInv, WriterTypeOK
<1> HIDE DEF bu, fl
<1>10. SeenBy(p)'
  <2>1. Shown(seen[p].slice)' = Shown(fl) /\ Torn(seen[p].slice)' = Torn(fl)
    BY <1>2, <1>3 DEF Shown, Torn, Cap
  <2>2. WasFlushed(seen[p].slice.arr)'
    <3>1. seen'[p].slice = fl /\ WasFlushed(fl.arr)
      BY <1>3, <1>9
    <3> QED
      BY <1>2, <3>1 DEF WasFlushed
  <2>3. (seen[p].slice.len)' \in 0..(Landed.len)'
    BY <1>3, <1>5, <1>9, Counts
  <2> QED
    BY <1>3, <2>1, <2>2, <2>3 DEF SeenBy
<1>11. LocalOf(p)' /\ ReaderOf(p)'
  <2>1. NoLocal \in Locals({})
    <3>1. << >> \in [{} -> Nat]
      OBVIOUS
    <3> QED
      BY <3>1 DEF NoLocal, Locals
  <2> QED
    BY <1>2, <1>3, <2>1 DEF LocalOf, ReaderOf
<1>12. ASSUME local[p].during # "reused", NEW i \in local[p].due
       PROVE  i \in Within(bu) \cup Within(fl)
  <2>1. i \in Nat /\ i >= 1
    BY <1>6, Counts
  <2>2. CASE InFlushed(p, i)
    <3>1. i <= fl.len /\ i <= Len(arrays[fl.arr]) /\ arrays[fl.arr][i] = i
      BY <1>7, <1>8, <2>2 DEF InFlushed
    <3>2. fl.arr \in DOMAIN arrays
      BY <1>9 DEF WasFlushed
    <3>3. i \in 1..fl.len \cap DOMAIN arrays[fl.arr]
      BY <1>9, <2>1, <3>1, <3>2
    <3> QED
      BY <3>1, <3>3 DEF Within
  <2>3. ASSUME NEW j \in 1..MaxItems, InBuffered(p, i, j)
        PROVE  i \in Within(bu)
    <3>1. j <= bu.len /\ j <= Len(arrays[bu.arr]) /\ arrays[bu.arr][j] = i
      BY <1>7, <1>8, <2>3 DEF InBuffered, ReadFrom
    <3>2. bu.arr \in DOMAIN arrays
      BY <1>9 DEF WasBuffered
    <3>3. j \in 1..bu.len \cap DOMAIN arrays[bu.arr]
      BY <1>9, <3>1, <3>2
    <3> QED
      BY <3>1, <3>3 DEF Within
  <2> QED
    BY <1>6, <1>12, <2>2, <2>3 DEF Covered
<1>13. NothingForgotten'
  <2>1. Within(reply.buffered)' = Within(bu) /\ Within(reply.flushed)' = Within(fl)
    BY <1>2 DEF Within
  <2>2. /\ reply'.kind = "state" /\ reply'.due = local[p].due
        /\ reply'.during = local[p].during
    BY <1>2
  <2>3. local[p].during # "reused" => local[p].due \subseteq Within(bu) \cup Within(fl)
    BY <1>12
  <2> QED
    BY <2>1, <2>2, <2>3 DEF NothingForgotten
<1> QED
  BY <1>3, <1>4, <1>10, <1>11, <1>13, OutsideInv

-----------------------------------------------------------------------------
(* Steps of Append *)

\* A step under the mutex, or one that takes it, and what it owes to the others.
TurnStep(p) ==
    /\ pc[p] \in {"idle"} \cup LockedPlaces
    /\ \E place \in {"idle"} \cup LockedPlaces :
          pc' = [pc EXCEPT ![p] = place] /\ (place = "idle" <=> mu' # p)
    /\ mu \in {None, p} /\ mu' \in {None, p} /\ (mu = None => pc[p] = "idle")

LockedStep(p) ==
    /\ TurnStep(p)
    /\ UNCHANGED seen
    /\ \A q \in Procs \ {p} :
          \/ local'[q] = local[q]
             /\ (pc[q] \in {"reading", "returning"} /\ local[q].during = "flush" => ~Appending')
          \/ local'[q] = [local[q] EXCEPT !.during = "reused"]
             /\ pc[q] \in {"reading", "returning"}
    /\ local' = [q \in Procs |-> local'[q]]

\* In such a step only its process is in Append or Flush.
LEMMA Alone ==
    ASSUME CoreInv, NEW p \in Procs, TurnStep(p)
    PROVE  /\ LockInv'
           /\ pc' \in [Procs -> {"idle", "reading", "returning"} \cup AppendPlaces \cup FlushPlaces]
           /\ \A q \in Procs \ {p} : pc'[q] = pc[q] /\ pc[q] \notin LockedPlaces
           /\ mu' \in Procs \cup {None}
<1>1. /\ pc \in [Procs -> {"idle", "reading", "returning"} \cup LockedPlaces]
      /\ \A q \in Procs : pc[q] \in LockedPlaces <=> mu = q
  BY DEF CoreInv, WriterTypeOK, LockInv, LockedPlaces
<1>2. PICK place \in {"idle"} \cup LockedPlaces :
         pc' = [pc EXCEPT ![p] = place] /\ (place = "idle" <=> mu' # p)
  BY DEF TurnStep
<1>3. mu \in {None, p} /\ mu' \in {None, p} /\ None \notin Procs /\ "idle" \notin LockedPlaces
  BY NoneAssumption DEF TurnStep, LockedPlaces, AppendPlaces, FlushPlaces
<1>4. \A q \in Procs \ {p} : pc'[q] = pc[q] /\ pc[q] \notin LockedPlaces
  BY <1>1, <1>2, <1>3
<1>5. LockInv'
  BY <1>1, <1>2, <1>3, <1>4 DEF LockInv, LockedPlaces
<1> QED
  BY <1>1, <1>2, <1>3, <1>4, <1>5 DEF LockedPlaces

LEMMA LockedInv ==
    ASSUME CoreInv, NEW p \in Procs, LockedStep(p), Kept,
           WriterTypeOK', ItemsInv', FlushInv', ApartInv', LocalOf(p)', reply' = NoReply
    PROVE  CoreInv'
<1>1. LockInv' /\ \A q \in Procs \ {p} : pc'[q] = pc[q]
  BY Alone DEF LockedStep
<1>2. \A q \in Procs : SeenBy(q)'
  BY SeenKept DEF LockedStep, TurnStep
<1>3. ASSUME NEW q \in Procs, q # p
      PROVE  LocalOf(q)' /\ ReaderOf(q)'
  <2>1. pc'[q] = pc[q]
    BY <1>1, <1>3
  <2>2. PICK read \in SUBSET (1..4) : local[q] \in Locals(read)
    BY DEF CoreInv, LocalInv, LocalOf
  <2>3. CASE local'[q] = local[q]
             /\ (pc[q] \in {"reading", "returning"} /\ local[q].during = "flush" => ~Appending')
    <3>1. LocalOf(q)'
      BY <2>1, <2>3 DEF CoreInv, LocalInv, LocalOf
    <3>2. CASE pc[q] \in {"reading", "returning"}
      BY <2>1, <2>3, <3>1, <3>2, ReaderKept
    <3>3. CASE pc[q] \notin {"reading", "returning"}
      BY <2>1, <3>1, <3>3 DEF ReaderOf
    <3> QED
      BY <3>2, <3>3
  <2>4. CASE local'[q] = [local[q] EXCEPT !.during = "reused"]
             /\ pc[q] \in {"reading", "returning"}
    <3>1. local'[q] \in Locals(read)
      BY <2>2, <2>4 DEF Locals
    <3>2. LocalOf(q)'
      BY <2>1, <2>4, <3>1 DEF LocalOf, AppendPlaces
    <3> QED
      BY <2>1, <2>4, <3>2, ReaderKept
  <2> QED
    BY <1>3, <2>3, <2>4 DEF LockedStep, TurnStep
<1>4. ReaderOf(p)'
  <2>1. pc'[p] \notin {"reading", "returning"}
    BY DEF LockedStep, TurnStep, LockedPlaces, AppendPlaces, FlushPlaces, CoreInv, WriterTypeOK
  <2> QED
    BY <2>1 DEF ReaderOf
<1>5. LocalInv'
  <2>1. seen' = [q \in Procs |-> seen'[q]]
    BY DEF LockedStep, TurnStep, CoreInv, LocalInv
  <2> QED
    BY <1>3, <2>1 DEF LocalInv, LockedStep
<1>6. NothingForgotten'
  BY DEF NothingForgotten, NoReply
<1> QED
  BY <1>1, <1>2, <1>3, <1>4, <1>5, <1>6 DEF CoreInv

\* The types follow from what the arrays hold.
LEMMA TypesFollow ==
    ASSUME CoreInv, NEW p \in Procs, LockedStep(p), Kept, ItemsInv', ApartInv',
           flushed' \in [arr : Nat, len : Nat], buffered' \in [arr : Nat, len : Nat],
           buffered'.arr \in DOMAIN arrays', appended' \in 0..MaxItems,
           Settled' + buffered'.len <= MaxItems, (Landed.len)' <= MaxItems
    PROVE  WriterTypeOK'
<1>1. /\ pc' \in [Procs -> {"idle", "reading", "returning"} \cup AppendPlaces \cup FlushPlaces]
      /\ mu' \in Procs \cup {None}
  BY Alone DEF LockedStep
<1>2. arrays' \in Seq(Seq(0..MaxItems))
  BY DEF Kept
<1>3. /\ Settled' \in Nat /\ Stored' \in Nat /\ (Landed.len)' \in Nat
      /\ flushed'.len <= (Landed.len)'
      /\ done' = 1..(Settled' + Stored')
      /\ appended' = Settled' + Stored' + IF Appending' THEN 1 ELSE 0
      /\ Holds(Landed.arr, Landed.len, 0)' /\ Holds(buffered.arr, Stored, Settled)'
      /\ WasFlushed(flushed.arr)'
  BY DEF ItemsInv, ApartInv
<1>4. IsSlice(flushed)' /\ IsSlice(buffered)'
  <2>1. flushed'.arr \in DOMAIN arrays'
    BY <1>3 DEF WasFlushed
  <2>2. /\ flushed'.len \in Nat /\ flushed' = [arr |-> flushed'.arr, len |-> flushed'.len]
        /\ buffered'.len \in Nat /\ buffered' = [arr |-> buffered'.arr, len |-> buffered'.len]
    BY Fields
  <2>3. flushed'.len \in 0..MaxItems
    <3>1. flushed'.len <= (Landed.len)' /\ (Landed.len)' \in Nat
      BY <1>3
    <3> QED
      BY <2>2, <3>1, MaxItemsAssumption
  <2>4. buffered'.len \in 0..MaxItems
    <3>1. Settled' \in Nat
      BY <1>3
    <3> QED
      BY <2>2, <3>1, MaxItemsAssumption
  <2> QED
    BY <2>1, <2>2, <2>3, <2>4 DEF IsSlice
<1>5. mu' = None => (flushed'.len <= Cap(flushed)' /\ buffered'.len <= Cap(buffered)')
  <2> SUFFICES ASSUME mu' = None
               PROVE  flushed'.len <= Cap(flushed)' /\ buffered'.len <= Cap(buffered)'
    OBVIOUS
  <2>1. Landed' = flushed' /\ Stored' = buffered'.len
    BY DEF Landed, Stored, Flushing
  <2> QED
    BY <1>3, <2>1 DEF Holds, Cap
<1>6. flushed'.arr = buffered'.arr => Cap(flushed)' = 0
  <2> SUFFICES ASSUME flushed'.arr = buffered'.arr
               PROVE  Len(arrays'[flushed'.arr]) = 0
    BY DEF Cap
  <2>1. arrays'[flushed'.arr] = << >>
    BY <1>3 DEF WasFlushed
  <2> QED
    BY <2>1
<1>7. done' \subseteq 1..appended'
  <2>1. Settled' + Stored' \in Nat /\ Settled' + Stored' <= appended' /\ appended' \in Nat
    <3>1. PICK one \in {0, 1} : appended' = Settled' + Stored' + one
      BY <1>3
    <3>2. Settled' \in Nat /\ Stored' \in Nat
      BY <1>3
    <3>3. \A m, n \in Nat : \A k \in {0, 1} :
             m + n \in Nat /\ m + n <= m + n + k /\ m + n + k \in Nat
      OBVIOUS
    <3> QED
      BY <3>1, <3>2, <3>3
  <2>2. \A m, n \in Nat : m <= n => 1..m \subseteq 1..n
    OBVIOUS
  <2> QED
    BY <1>3, <2>1, <2>2
<1> QED
  BY <1>1, <1>2, <1>4, <1>5, <1>6, <1>7 DEF WriterTypeOK

\* What the slices hold they hold after such a step too.
LEMMA HoldsKept ==
    ASSUME CoreInv, Kept
    PROVE  /\ Holds(flushed.arr, Settled, 0) /\ flushed.arr \in DOMAIN arrays'
           /\ Settled <= Len(arrays'[flushed.arr])
           /\ \A i \in 1..Settled : arrays'[flushed.arr][i] = i
           /\ Landed.arr \in DOMAIN arrays' /\ Landed.len <= Len(arrays'[Landed.arr])
           /\ \A i \in 1..Landed.len : arrays'[Landed.arr][i] = i
           /\ buffered.arr \in DOMAIN arrays' /\ Stored <= Len(arrays'[buffered.arr])
           /\ \A i \in 1..Stored : arrays'[buffered.arr][i] = Settled + i
<1>1. /\ Settled \in Nat /\ Stored \in Nat /\ Landed.len \in Nat /\ Settled <= Landed.len
      /\ arrays \in Seq(Seq(0..MaxItems)) /\ arrays' \in Seq(Seq(0..MaxItems))
      /\ Len(arrays) <= Len(arrays')
  <2>1. flushed.len \in Nat
    BY Counts
  <2> QED
    BY <2>1, Counts DEF CoreInv, WriterTypeOK, Kept
<1>2. /\ Holds(flushed.arr, Settled, 0) /\ Holds(Landed.arr, Landed.len, 0)
      /\ Holds(buffered.arr, Stored, Settled)
      /\ WasFlushed(flushed.arr) /\ WasFlushed(Landed.arr)
  BY DEF CoreInv, ItemsInv, ApartInv
<1>3. WasBuffered(buffered.arr)
  BY <1>2 DEF WasFlushed, WasBuffered, Holds
<1>4. ASSUME NEW a \in DOMAIN arrays, WasFlushed(a), NEW m \in Nat, m <= Landed.len,
             Holds(a, m, 0)
      PROVE  /\ a \in DOMAIN arrays' /\ m <= Len(arrays'[a])
             /\ \A i \in 1..m : arrays'[a][i] = i
  <2>1. m <= Len(arrays[a]) /\ \A i \in 1..m : arrays[a][i] = i
    BY <1>4 DEF Holds
  <2>2. \A i \in 1..m : i \in 1..Len(arrays[a]) /\ i <= Landed.len
    BY <1>1, <1>4, <2>1
  <2>3. Len(arrays'[a]) = Len(arrays[a]) /\ \A i \in 1..m : arrays'[a][i] = arrays[a][i]
    BY <1>4, <2>2 DEF Kept
  <2>4. a \in DOMAIN arrays'
    BY <1>1
  <2> QED
    BY <2>1, <2>3, <2>4
<1>5. /\ buffered.arr \in DOMAIN arrays' /\ Stored <= Len(arrays'[buffered.arr])
      /\ \A i \in 1..Stored : arrays'[buffered.arr][i] = Settled + i
  <2> DEFINE a == buffered.arr
  <2>1. /\ a \in DOMAIN arrays /\ Stored <= Len(arrays[a])
        /\ \A i \in 1..Stored : arrays[a][i] = Settled + i
    BY <1>2 DEF Holds
  <2>2. \A i \in 1..Stored : i \in 1..Len(arrays[a]) /\ i <= Stored
    BY <1>1, <2>1
  <2>3. Len(arrays'[a]) = Len(arrays[a]) /\ \A i \in 1..Stored : arrays'[a][i] = arrays[a][i]
    BY <1>3, <2>1, <2>2 DEF Kept
  <2>4. a \in DOMAIN arrays'
    BY <1>1, <2>1
  <2> QED
    BY <2>1, <2>3, <2>4
<1>6. /\ flushed.arr \in DOMAIN arrays' /\ Settled <= Len(arrays'[flushed.arr])
      /\ \A i \in 1..Settled : arrays'[flushed.arr][i] = i
  BY <1>1, <1>2, <1>4 DEF WasFlushed
<1>7. /\ Landed.arr \in DOMAIN arrays' /\ Landed.len <= Len(arrays'[Landed.arr])
      /\ \A i \in 1..Landed.len : arrays'[Landed.arr][i] = i
  <2>1. Landed.arr \in DOMAIN arrays /\ Landed.len <= Landed.len
    BY <1>1, <1>2 DEF WasFlushed
  <2> QED
    BY <1>1, <1>2, <1>4, <2>1
<1> QED
  BY <1>2, <1>5, <1>6, <1>7

\* With the mutex free, both slices fit their arrays.
LEMMA Free ==
    ASSUME CoreInv, mu = None
    PROVE  /\ Settled = flushed.len /\ Stored = buffered.len /\ Landed = flushed /\ ~Appending
           /\ flushed \in [arr : DOMAIN arrays, len : Nat] /\ flushed.len <= Cap(flushed)
           /\ buffered \in [arr : DOMAIN arrays, len : Nat] /\ buffered.len <= Cap(buffered)
           /\ appended = flushed.len + buffered.len /\ appended <= MaxItems
           /\ done = 1..appended
<1>1. Settled = flushed.len /\ Stored = buffered.len /\ Landed = flushed /\ ~Appending
  BY FreeSlices
<1>2. /\ flushed \in [arr : DOMAIN arrays, len : Nat] /\ flushed.len <= Cap(flushed)
      /\ buffered \in [arr : DOMAIN arrays, len : Nat] /\ buffered.len <= Cap(buffered)
  BY DEF CoreInv, WriterTypeOK, IsSlice
<1>3. appended = flushed.len + buffered.len /\ done = 1..(flushed.len + buffered.len)
  BY <1>1, <1>2 DEF CoreInv, ItemsInv
<1>4. appended <= MaxItems
  BY MaxItemsAssumption DEF CoreInv, WriterTypeOK
<1> QED
  BY <1>1, <1>2, <1>3, <1>4

LEMMA NobodyFlushes ==
    ASSUME NEW p \in Procs, LockInv', mu' \in {None, p}, pc'[p] \notin FlushPlaces
    PROVE  FlushInv' /\ ~Flushing'
<1>1. ASSUME NEW q \in Procs
      PROVE  pc'[q] \notin FlushPlaces
  BY NoneAssumption DEF LockInv
<1>2. FlushInv'
  BY <1>1 DEF FlushInv, FlushPlaces
<1>3. ~Flushing'
  BY <1>1, NoneAssumption DEF Flushing
<1> QED
  BY <1>2, <1>3

LEMMA AppendGrowInv ==
    ASSUME CoreInv, NEW p \in Procs, AppendGrow(p)
    PROVE  CoreInv' /\ UNCHANGED <<flushed, Settled, Stored>> /\ Kept
<1>1. /\ pc[p] = "idle" /\ mu = None /\ mu' = p /\ reply' = NoReply
      /\ pc \in [Procs -> {"idle", "reading", "returning"} \cup LockedPlaces]
      /\ pc' = [pc EXCEPT ![p] = "appendLen"] /\ pc'[p] = "appendLen"
      /\ appended < MaxItems /\ appended' = appended + 1
      /\ local' = Meanwhile("flush", "reused")
      /\ UNCHANGED <<flushed, seen, done>>
  BY DEF AppendGrow, Begin, Goto, CoreInv, WriterTypeOK, LockedPlaces
<1>2. /\ Settled = flushed.len /\ Stored = buffered.len /\ Landed = flushed /\ ~Appending
      /\ flushed \in [arr : DOMAIN arrays, len : Nat] /\ flushed.len <= Cap(flushed)
      /\ buffered \in [arr : DOMAIN arrays, len : Nat] /\ buffered.len <= Cap(buffered)
      /\ appended = flushed.len + buffered.len /\ done = 1..appended
      /\ arrays \in Seq(Seq(0..MaxItems))
  BY <1>1, Free DEF CoreInv, WriterTypeOK
<1>3. p # None /\ Appending' /\ ~Flushing' /\ mu' # None /\ pc'[mu'] = "appendLen"
  BY <1>1, NoneAssumption DEF Appending, Flushing, AppendPlaces, FlushPlaces
<1>4. Settled' = flushed.len /\ Stored' = buffered'.len /\ Landed' = flushed
  BY <1>1, <1>3 DEF Settled, Stored, Landed
<1>5. LockedStep(p)
  <2>1. \A q \in Procs \ {p} :
          \/ local'[q] = local[q]
             /\ (pc[q] \in {"reading", "returning"} /\ local[q].during = "flush" => ~Appending')
          \/ local'[q] = [local[q] EXCEPT !.during = "reused"]
             /\ pc[q] \in {"reading", "returning"}
    BY <1>1 DEF Meanwhile
  <2>2. local' = [q \in Procs |-> local'[q]]
    BY <1>1 DEF Meanwhile
  <2> QED
    BY <1>1, <1>3, <2>1, <2>2 DEF LockedStep, TurnStep, LockedPlaces, AppendPlaces
<1>6. LocalOf(p)'
  <2>1. LocalOf(p)
    BY DEF CoreInv, LocalInv
  <2>2. local'[p] = local[p]
    BY <1>1 DEF Meanwhile
  <2> QED
    BY <1>1, <2>1, <2>2 DEF LocalOf
<1>7. /\ arrays' \in Seq(Seq(0..MaxItems)) /\ Len(arrays) <= Len(arrays')
      /\ \A a \in DOMAIN arrays : a \in DOMAIN arrays' /\ arrays'[a] = arrays[a]
      /\ buffered' \in [arr : DOMAIN arrays', len : Nat] /\ buffered'.len = buffered.len
      /\ buffered.len < Len(arrays'[buffered'.arr])
      /\ \A i \in 1..buffered.len : arrays'[buffered'.arr][i] = arrays[buffered.arr][i]
      /\ buffered'.arr = buffered.arr \/ buffered'.arr \notin DOMAIN arrays
  <2>1. CASE buffered.len < Cap(buffered)
    BY <1>2, <2>1 DEF AppendGrow, Cap
  <2>2. CASE ~(buffered.len < Cap(buffered))
    <3> DEFINE new == Grown(buffered, buffered.len + 1)
    <3>1. arrays' = Append(arrays, new) /\ buffered' = [buffered EXCEPT !.arr = Len(arrays')]
      BY <2>2 DEF AppendGrow
    <3>2. Cap(buffered) \in Nat /\ buffered.len + 1 \in Nat /\ buffered.len + 1 > Cap(buffered)
      BY <1>2, <2>2 DEF Cap
    <3>3. /\ new \in Seq(0..MaxItems) /\ Len(new) >= buffered.len + 1
          /\ \A i \in 1..buffered.len : new[i] = arrays[buffered.arr][i]
      BY <1>2, <3>2, GrownIs
    <3> HIDE DEF new
    <3>4. /\ arrays' \in Seq(Seq(0..MaxItems))
          /\ Len(arrays') = Len(arrays) + 1
          /\ arrays'[Len(arrays')] = new
          /\ \A a \in DOMAIN arrays : a \in DOMAIN arrays' /\ arrays'[a] = arrays[a]
          /\ Len(arrays') \in DOMAIN arrays' /\ Len(arrays') \notin DOMAIN arrays
      BY <1>2, <3>1, <3>3, AddedArray
    <3>5. buffered'.arr = Len(arrays') /\ buffered'.len = buffered.len
      BY <1>2, <3>1
    <3>6. buffered' \in [arr : DOMAIN arrays', len : Nat]
      BY <1>2, <3>1, <3>4
    <3>7. buffered.len < Len(arrays'[buffered'.arr])
      BY <1>2, <3>3, <3>4, <3>5
    <3>8. buffered.len \in Nat /\ buffered.arr \in DOMAIN arrays
      BY <1>2, Fields
    <3>9. /\ Len(arrays) <= Len(arrays') /\ buffered'.arr \notin DOMAIN arrays
          /\ \A i \in 1..buffered.len : arrays'[buffered'.arr][i] = arrays[buffered.arr][i]
      <4>1. Len(arrays) \in Nat
        BY <1>2
      <4> QED
        BY <3>3, <3>4, <3>5, <4>1
    <3> QED
      BY <3>4, <3>5, <3>6, <3>7, <3>9
  <2> QED
    BY <2>1, <2>2
<1>8. Kept
  <2>1. ASSUME NEW a \in DOMAIN arrays
        PROVE  /\ WasFlushed(a) => WasFlushed(a)'
               /\ WasBuffered(a) => WasBuffered(a)'
    BY <1>2, <1>4, <1>7 DEF WasFlushed, WasBuffered
  <2>2. Stored' = Stored /\ Settled' = Settled /\ Landed' = Landed /\ done' = done
    BY <1>1, <1>2, <1>4, <1>7
  <2>3. Stored <= Len(arrays'[buffered'.arr])
    BY <1>2, <1>7
  <2>4. /\ (Landed.len)' \in Nat /\ Landed.len <= (Landed.len)'
        /\ Settled' \in Nat /\ Settled <= Settled' /\ Stored' \in Nat /\ Stored <= Stored'
    <3>1. flushed.len \in Nat /\ buffered.len \in Nat
      BY <1>2, Fields
    <3>2. /\ Settled' = flushed.len /\ Settled = flushed.len
          /\ Stored' = buffered.len /\ Stored = buffered.len
          /\ Landed.len = flushed.len /\ (Landed.len)' = flushed.len
      BY <1>2, <2>2
    <3> QED
      BY <3>1, <3>2
  <2>5. \A a \in DOMAIN arrays : arrays'[a] = arrays[a]
    BY <1>7
  <2>6. \A i \in 1..Stored : arrays'[buffered'.arr][i] = arrays[buffered.arr][i]
    BY <1>2, <1>7
  <2>7. buffered'.arr \in DOMAIN arrays'
    BY <1>7
  <2> QED
    BY <1>3, <1>7, <2>1, <2>2, <2>3, <2>4, <2>5, <2>6, <2>7 DEF Kept
<1>9. Settled' = Settled /\ Stored' = Stored /\ Landed' = Landed
  BY <1>2, <1>4, <1>7
<1>10. ItemsInv'
  <2>1. /\ flushed.arr \in DOMAIN arrays' /\ Settled <= Len(arrays'[flushed.arr])
        /\ \A i \in 1..Settled : arrays'[flushed.arr][i] = i
    BY <1>8, HoldsKept
  <2>2. Holds(flushed.arr, Settled, 0)' /\ Holds(Landed.arr, Landed.len, 0)'
    BY <1>1, <1>2, <1>9, <2>1 DEF Holds
  <2>3. \A i \in 1..Stored : arrays[buffered.arr][i] = Settled + i
    BY DEF CoreInv, ItemsInv, Holds
  <2>4. Holds(buffered.arr, Stored, Settled)'
    <3>1. Stored' = buffered.len /\ Stored = buffered.len /\ buffered.len \in Nat
      BY <1>2, <1>9, Fields
    <3>2. buffered'.arr \in DOMAIN arrays'
      BY <1>7
    <3>3. Len(arrays'[buffered'.arr]) \in Nat
      BY <1>7, <3>2
    <3>4. \A i \in 1..buffered.len : arrays'[buffered'.arr][i] = Settled' + i
      BY <1>7, <1>9, <2>3, <3>1
    <3>5. buffered.len <= Len(arrays'[buffered'.arr])
      BY <1>7, <3>1, <3>3
    <3> QED
      BY <3>1, <3>2, <3>4, <3>5 DEF Holds
  <2>5. Cap(buffered)' = Len(arrays'[buffered'.arr]) /\ Cap(buffered)' \in Nat
    BY <1>7 DEF Cap
  <2>6. buffered'.len + 1 <= Cap(buffered)'
    BY <1>2, <1>7, <2>5
  <2> QED
    BY <1>1, <1>2, <1>3, <1>9, <2>2, <2>4, <2>6 DEF ItemsInv
<1>11. FlushInv'
  <2>1. LockInv'
    BY <1>5, Alone DEF LockedStep
  <2> QED
    BY <1>1, <2>1, NobodyFlushes DEF FlushPlaces
<1>12. ApartInv'
  <2>1. WasFlushed(flushed.arr)'
    BY <1>1, <1>8 DEF CoreInv, ApartInv, WasFlushed, Kept
  <2> QED
    BY <1>1, <1>4, <2>1 DEF ApartInv, WasFlushed
<1>13. WriterTypeOK'
  <2>1. flushed' \in [arr : Nat, len : Nat] /\ buffered' \in [arr : Nat, len : Nat]
    <3>1. arrays \in Seq(Seq(0..MaxItems)) /\ arrays' \in Seq(Seq(0..MaxItems))
      BY <1>2, <1>7
    <3>2. DOMAIN arrays \subseteq Nat /\ DOMAIN arrays' \subseteq Nat
      BY <3>1
    <3>3. flushed' \in [arr : DOMAIN arrays, len : Nat]
      BY <1>1, <1>2
    <3>4. buffered' \in [arr : DOMAIN arrays', len : Nat]
      BY <1>7
    <3> QED
      BY <3>2, <3>3, <3>4
  <2>2. flushed.len \in Nat /\ buffered.len \in Nat /\ appended \in Nat /\ MaxItems \in Nat
    BY <1>2, MaxItemsAssumption
  <2>3. appended' \in 0..MaxItems
    BY <1>1, <2>2
  <2>4. Settled' + buffered'.len <= MaxItems
    BY <1>1, <1>2, <1>4, <1>7, <2>2
  <2>5. (Landed.len)' <= MaxItems
    BY <1>1, <1>2, <1>4, <2>2
  <2> QED
    BY <1>5, <1>7, <1>8, <1>10, <1>12, <2>1, <2>3, <2>4, <2>5, TypesFollow
<1> QED
  BY <1>1, <1>5, <1>6, <1>8, <1>9, <1>10, <1>11, <1>12, <1>13, LockedInv

\* What holds while an Append is under way, from its first store to its last.
LEMMA WhileAppending ==
    ASSUME CoreInv, NEW p \in Procs, pc[p] \in AppendPlaces
    PROVE  /\ mu = p /\ p # None /\ Appending /\ ~Flushing
           /\ Settled = flushed.len /\ Landed = flushed
           /\ Stored = IF pc[p] = "appendItem" THEN buffered.len - 1 ELSE buffered.len
           /\ Settled \in Nat /\ Stored \in Nat /\ MaxItems \in Nat /\ appended \in Nat
           /\ appended = Settled + Stored + 1 /\ appended <= MaxItems
           /\ done = 1..(Settled + Stored)
           /\ flushed \in [arr : DOMAIN arrays, len : Nat]
           /\ buffered \in [arr : DOMAIN arrays, len : Nat]
           /\ Stored + 1 <= Len(arrays[buffered.arr])
           /\ flushed.arr # buffered.arr
           /\ arrays \in Seq(Seq(0..MaxItems))
<1>1. /\ mu = p /\ p # None /\ p \in Procs
  BY NoneAssumption DEF CoreInv, LockInv
<1>2. Appending /\ ~Flushing
  BY <1>1 DEF Appending, Flushing, AppendPlaces, FlushPlaces
<1>3. /\ Settled = flushed.len /\ Landed = flushed
      /\ Stored = IF pc[p] = "appendItem" THEN buffered.len - 1 ELSE buffered.len
  BY <1>1, <1>2 DEF Settled, Landed, Stored
<1>4. /\ Settled \in Nat /\ Stored \in Nat /\ MaxItems \in Nat /\ appended \in Nat
      /\ done = 1..(Settled + Stored) /\ arrays \in Seq(Seq(0..MaxItems))
  BY Counts, MaxItemsAssumption DEF CoreInv, WriterTypeOK
<1>5. appended = Settled + Stored + 1 /\ appended <= MaxItems
  BY <1>2, MaxItemsAssumption DEF CoreInv, ItemsInv, WriterTypeOK
<1>6. flushed \in [arr : DOMAIN arrays, len : Nat] /\ buffered \in [arr : DOMAIN arrays, len : Nat]
  BY MaxItemsAssumption DEF CoreInv, WriterTypeOK, IsSlice
<1>7. Stored + 1 <= Len(arrays[buffered.arr])
  <2>1. buffered.len + (IF pc[p] = "appendLen" THEN 1 ELSE 0) <= Len(arrays[buffered.arr])
    BY <1>1 DEF CoreInv, ItemsInv, Cap
  <2>2. buffered.len \in Nat /\ buffered.arr \in DOMAIN arrays
    BY <1>6, Fields
  <2>3. CASE pc[p] = "appendLen"
    <3>1. Stored = buffered.len
      BY <1>3, <2>3
    <3>2. buffered.len + 1 <= Len(arrays[buffered.arr])
      BY <2>1, <2>3
    <3> QED
      BY <3>1, <3>2
  <2>4. CASE pc[p] = "appendItem"
    <3>1. Stored = buffered.len - 1
      BY <1>3, <2>4
    <3>2. buffered.len + 0 <= Len(arrays[buffered.arr])
      BY <2>1, <2>4
    <3> QED
      BY <2>2, <3>1, <3>2
  <2> QED
    BY <2>3, <2>4 DEF AppendPlaces
<1>8. flushed.arr # buffered.arr
  BY <1>4, <1>6, <1>7 DEF CoreInv, WriterTypeOK, Cap
<1> QED
  BY <1>1, <1>2, <1>3, <1>4, <1>5, <1>6, <1>7, <1>8

\* A step that writes no array and changes nothing that counts.
LEMMA KeptByHeaders ==
    ASSUME CoreInv, UNCHANGED <<arrays, done, Settled, Stored, Landed>>,
           buffered'.arr = buffered.arr
    PROVE  Kept
<1>1. /\ arrays \in Seq(Seq(0..MaxItems)) /\ Len(arrays) \in Nat
      /\ Settled \in Nat /\ Stored \in Nat /\ Landed.len \in Nat
  BY DEF CoreInv, WriterTypeOK, ItemsInv
<1>2. \A a : (WasFlushed(a)' <=> WasFlushed(a)) /\ (WasBuffered(a)' <=> WasBuffered(a))
  BY DEF WasFlushed, WasBuffered
<1>3. (Landed.len)' = Landed.len
  OBVIOUS
<1> QED
  BY <1>1, <1>2, <1>3 DEF Kept

\* Only the length of the buffered slice changes, and not what counts of it.
LEMMA AppendLenInv ==
    ASSUME CoreInv, NEW p \in Procs, AppendLen(p)
    PROVE  CoreInv' /\ UNCHANGED <<flushed, Settled, Stored>> /\ Kept
<1>1. /\ pc[p] = "appendLen" /\ pc[p] \in AppendPlaces /\ reply' = NoReply
      /\ pc \in [Procs -> {"idle", "reading", "returning"} \cup LockedPlaces]
      /\ pc' = [pc EXCEPT ![p] = "appendItem"] /\ pc'[p] = "appendItem"
      /\ buffered' = [buffered EXCEPT !.len = @ + 1]
      /\ UNCHANGED <<mu, arrays, flushed, local, seen, appended, done>>
  BY DEF AppendLen, Goto, ghosts, CoreInv, WriterTypeOK, LockedPlaces, AppendPlaces
<1>2. /\ mu = p /\ p # None /\ Appending
      /\ Settled = flushed.len /\ Landed = flushed /\ Stored = buffered.len
      /\ Settled \in Nat /\ Stored \in Nat /\ MaxItems \in Nat
      /\ appended \in Nat /\ appended = Settled + Stored + 1 /\ appended <= MaxItems
      /\ done = 1..(Settled + Stored)
      /\ flushed \in [arr : DOMAIN arrays, len : Nat]
      /\ buffered \in [arr : DOMAIN arrays, len : Nat]
      /\ Stored + 1 <= Len(arrays[buffered.arr])
      /\ arrays \in Seq(Seq(0..MaxItems))
  BY <1>1, WhileAppending
<1>3. Appending' /\ ~Flushing' /\ mu' # None /\ pc'[mu'] = "appendItem"
  BY <1>1, <1>2 DEF Appending, Flushing, AppendPlaces, FlushPlaces
<1>4. /\ buffered'.arr = buffered.arr /\ buffered'.len = buffered.len + 1
      /\ buffered' \in [arr : DOMAIN arrays', len : Nat]
  <2>1. buffered.len \in Nat /\ buffered.arr \in DOMAIN arrays'
    BY <1>1, <1>2
  <2>2. buffered' = [arr |-> buffered.arr, len |-> buffered.len + 1]
    BY <1>1, <1>2
  <2> QED
    BY <2>1, <2>2
<1>5. Settled' = Settled /\ Stored' = Stored /\ Landed' = Landed
  <2>1. Settled' = flushed.len /\ Landed' = flushed
    BY <1>1, <1>3 DEF Settled, Landed
  <2>2. Stored' = buffered'.len - 1
    BY <1>3 DEF Stored
  <2>3. buffered.len \in Nat
    BY <1>2
  <2> QED
    BY <1>2, <1>4, <2>1, <2>2, <2>3
<1>6. LockedStep(p)
  <2>1. \A q \in Procs : local[q].during = "flush" /\ pc[q] \in {"reading", "returning"} => ~Appending
    BY DEF CoreInv, ReaderOf
  <2>2. local' = [q \in Procs |-> local'[q]]
    BY <1>1 DEF CoreInv, LocalInv
  <2>3. UNCHANGED seen /\ local' = local
    BY <1>1
  <2>4. pc' = [pc EXCEPT ![p] = "appendItem"] /\ "appendItem" \in LockedPlaces /\ "appendItem" # "idle"
    BY <1>1 DEF LockedPlaces, AppendPlaces
  <2>5. pc[p] \in LockedPlaces /\ mu = p /\ mu' = p
    BY <1>1, <1>2 DEF LockedPlaces
  <2> QED
    BY <1>2, <2>1, <2>2, <2>3, <2>4, <2>5 DEF LockedStep, TurnStep
<1>7. LocalOf(p)'
  <2>1. LocalOf(p)
    BY DEF CoreInv, LocalInv
  <2> QED
    BY <1>1, <2>1 DEF LocalOf
<1>8. Kept
  BY <1>1, <1>4, <1>5, KeptByHeaders
<1>9. ItemsInv'
  <2>1. Holds(flushed.arr, Settled, 0)' /\ Holds(Landed.arr, Landed.len, 0)'
    BY <1>1, <1>5 DEF CoreInv, ItemsInv, Holds
  <2>2. Holds(buffered.arr, Stored, Settled)'
    BY <1>1, <1>4, <1>5 DEF CoreInv, ItemsInv, Holds
  <2>3. buffered'.len + 0 <= Cap(buffered)'
    BY <1>1, <1>2, <1>4 DEF Cap
  <2>4. appended' = Settled' + Stored' + 1 /\ done' = 1..(Settled' + Stored')
    BY <1>1, <1>2, <1>5
  <2>5. /\ Settled' \in Nat /\ Stored' \in Nat /\ (Landed.len)' \in Nat
        /\ Settled' <= flushed'.len /\ flushed'.len <= (Landed.len)'
    BY <1>1, <1>2, <1>5
  <2> QED
    BY <1>3, <2>1, <2>2, <2>3, <2>4, <2>5 DEF ItemsInv
<1>10. FlushInv'
  <2>1. LockInv'
    BY <1>6, Alone DEF LockedStep
  <2> QED
    BY <1>1, <1>2, <2>1, NobodyFlushes DEF FlushPlaces
<1>11. ApartInv'
  BY <1>1, <1>4, <1>5 DEF CoreInv, ApartInv, WasFlushed
<1>12. WriterTypeOK'
  <2>1. flushed' \in [arr : Nat, len : Nat] /\ buffered' \in [arr : Nat, len : Nat]
    <3>1. arrays \in Seq(Seq(0..MaxItems))
      BY <1>2
    <3>2. DOMAIN arrays \subseteq Nat
      BY <3>1
    <3>3. flushed' \in [arr : DOMAIN arrays, len : Nat] /\ arrays' = arrays
      BY <1>1, <1>2
    <3>4. buffered' \in [arr : DOMAIN arrays', len : Nat]
      BY <1>4
    <3> QED
      BY <3>2, <3>3, <3>4
  <2>2. appended' \in 0..MaxItems
    <3>1. appended' = appended /\ appended \in Nat /\ appended <= MaxItems /\ MaxItems \in Nat
      BY <1>1, <1>2
    <3> QED
      BY <3>1
  <2>3. Settled' + buffered'.len <= MaxItems
    <3>1. Settled' = Settled /\ buffered'.len = Stored + 1
      BY <1>2, <1>4, <1>5
    <3>2. /\ Settled \in Nat /\ Stored \in Nat /\ MaxItems \in Nat
          /\ appended = Settled + Stored + 1 /\ appended <= MaxItems
      BY <1>2
    <3> QED
      BY <3>1, <3>2
  <2>4. (Landed.len)' <= MaxItems
    <3>1. (Landed.len)' = Settled
      BY <1>2, <1>5
    <3>2. /\ Settled \in Nat /\ Stored \in Nat /\ MaxItems \in Nat
          /\ appended = Settled + Stored + 1 /\ appended <= MaxItems
      BY <1>2
    <3> QED
      BY <3>1, <3>2
  <2> QED
    BY <1>4, <1>6, <1>8, <1>9, <1>11, <2>1, <2>2, <2>3, <2>4, TypesFollow
<1> QED
  BY <1>1, <1>5, <1>6, <1>7, <1>8, <1>9, <1>10, <1>11, <1>12, LockedInv

\* The item is stored behind all that counts.
LEMMA AppendStoreInv ==
    ASSUME CoreInv, NEW p \in Procs, AppendStore(p)
    PROVE  /\ CoreInv' /\ UNCHANGED <<flushed, Settled>> /\ Kept
           /\ Stored' = Stored + 1 /\ appended \in 1..MaxItems /\ appended = Settled + Stored'
<1> DEFINE new == [arrays[buffered.arr] EXCEPT ![buffered.len] = appended]
<1>1. /\ pc[p] = "appendItem" /\ pc[p] \in AppendPlaces /\ reply' = NoReply /\ mu' = None
      /\ pc \in [Procs -> {"idle", "reading", "returning"} \cup LockedPlaces]
      /\ pc' = [pc EXCEPT ![p] = "idle"] /\ pc'[p] = "idle"
      /\ done' = done \cup {appended}
      /\ UNCHANGED <<flushed, buffered, local, seen, appended>>
  BY DEF AppendStore, Goto, slices, CoreInv, WriterTypeOK, LockedPlaces, AppendPlaces
<1>2. /\ mu = p /\ p # None /\ Appending
      /\ Settled = flushed.len /\ Landed = flushed /\ Stored = buffered.len - 1
      /\ Settled \in Nat /\ Stored \in Nat /\ MaxItems \in Nat
      /\ appended \in Nat /\ appended = Settled + Stored + 1 /\ appended <= MaxItems
      /\ done = 1..(Settled + Stored)
      /\ flushed \in [arr : DOMAIN arrays, len : Nat]
      /\ buffered \in [arr : DOMAIN arrays, len : Nat]
      /\ Stored + 1 <= Len(arrays[buffered.arr]) /\ flushed.arr # buffered.arr
      /\ arrays \in Seq(Seq(0..MaxItems))
  BY <1>1, WhileAppending
<1>3. ~Appending' /\ ~Flushing'
  BY <1>1 DEF Appending, Flushing
<1>4. Settled' = Settled /\ Stored' = buffered.len /\ Stored' = Stored + 1 /\ Landed' = Landed
  <2>1. Settled' = flushed.len /\ Landed' = flushed /\ Stored' = buffered.len
    BY <1>1, <1>3 DEF Settled, Landed, Stored
  <2>2. buffered.len \in Nat
    BY <1>2
  <2> QED
    BY <1>2, <2>1, <2>2
<1>5. LockedStep(p)
  <2>1. local' = [q \in Procs |-> local'[q]]
    BY <1>1 DEF CoreInv, LocalInv
  <2> QED
    BY <1>1, <1>2, <1>3, <2>1 DEF LockedStep, TurnStep, LockedPlaces
<1>6. LocalOf(p)'
  BY <1>1 DEF CoreInv, LocalInv, LocalOf
<1>7. /\ buffered.arr \in DOMAIN arrays /\ buffered.len \in 1..Len(arrays[buffered.arr])
      /\ buffered.len = Stored + 1 /\ Len(arrays[buffered.arr]) \in Nat
      /\ (Landed.len)' = Settled
  <2>1. buffered.len \in Nat /\ buffered.arr \in DOMAIN arrays
    BY <1>2
  <2>2. buffered.len = Stored + 1
    BY <1>2, <2>1
  <2>3. arrays[buffered.arr] \in Seq(0..MaxItems)
    <3>1. arrays \in Seq(Seq(0..MaxItems))
      BY <1>2
    <3> QED
      BY <2>1, <3>1
  <2>4. Len(arrays[buffered.arr]) \in Nat /\ Stored + 1 <= Len(arrays[buffered.arr])
    BY <1>2, <2>3
  <2>5. (Landed.len)' = Settled
    BY <1>2, <1>4
  <2>6. Stored \in Nat
    BY <1>2
  <2> QED
    BY <2>1, <2>2, <2>4, <2>5, <2>6
<1>8. /\ new \in Seq(0..MaxItems) /\ Len(new) = Len(arrays[buffered.arr])
      /\ new[buffered.len] = appended
      /\ \A i \in 1..Len(arrays[buffered.arr]) : i # buffered.len => new[i] = arrays[buffered.arr][i]
  <2>1. arrays[buffered.arr] \in Seq(0..MaxItems)
    <3>1. arrays \in Seq(Seq(0..MaxItems)) /\ buffered.arr \in DOMAIN arrays
      BY <1>2, <1>7
    <3> QED
      BY <3>1
  <2>2. appended \in 0..MaxItems
    <3>1. appended \in Nat /\ MaxItems \in Nat /\ appended <= MaxItems
      BY <1>2
    <3> QED
      BY <3>1
  <2> QED
    BY <1>7, <2>1, <2>2
<1>9. arrays' = [arrays EXCEPT ![buffered.arr] = new]
  BY DEF AppendStore
<1> HIDE DEF new
<1>10. /\ arrays' \in Seq(Seq(0..MaxItems))
       /\ Len(arrays') = Len(arrays) /\ DOMAIN arrays' = DOMAIN arrays
       /\ arrays'[buffered.arr] = new
       /\ \A b \in DOMAIN arrays \ {buffered.arr} : arrays'[b] = arrays[b]
       /\ \A b \in DOMAIN arrays : Len(arrays'[b]) = Len(arrays[b])
  BY <1>2, <1>7, <1>8, <1>9, WrittenArray
<1>11. arrays[buffered.arr] # << >>
  BY <1>7
<1>12. Kept
  <2>1. ASSUME NEW a \in DOMAIN arrays
        PROVE  /\ WasFlushed(a) => a # buffered.arr
               /\ WasFlushed(a) => WasFlushed(a)'
               /\ WasBuffered(a) => WasBuffered(a)'
               /\ WasFlushed(a) => arrays'[a] = arrays[a]
    BY <1>1, <1>2, <1>4, <1>10, <1>11 DEF WasFlushed, WasBuffered
  <2>2. ASSUME NEW a \in DOMAIN arrays, NEW i \in 1..Len(arrays[a]), i <= Stored
        PROVE  arrays'[a][i] = arrays[a][i]
    <3>1. i # buffered.len
      BY <1>2, <2>2
    <3>2. CASE a = buffered.arr
      BY <1>8, <1>10, <2>2, <3>1, <3>2
    <3>3. CASE a # buffered.arr
      BY <1>10, <3>3
    <3> QED
      BY <3>2, <3>3
  <2>3. /\ (Landed.len)' \in Nat /\ Landed.len <= (Landed.len)'
        /\ Settled' \in Nat /\ Settled <= Settled' /\ Stored' \in Nat /\ Stored <= Stored'
    <3>1. Settled' = Settled /\ Stored' = Stored + 1 /\ (Landed.len)' = Settled /\ Landed.len = Settled
      BY <1>2, <1>4, <1>7
    <3>2. Settled \in Nat /\ Stored \in Nat
      BY <1>2
    <3> QED
      BY <3>1, <3>2
  <2>4. Len(arrays) <= Len(arrays')
    BY <1>2, <1>10
  <2> QED
    BY <1>1, <1>2, <1>10, <2>1, <2>2, <2>3, <2>4 DEF Kept
<1>13. ItemsInv'
  <2>1. /\ flushed.arr \in DOMAIN arrays' /\ Settled <= Len(arrays'[flushed.arr])
        /\ \A i \in 1..Settled : arrays'[flushed.arr][i] = i
        /\ buffered.arr \in DOMAIN arrays'
        /\ \A i \in 1..Stored : arrays'[buffered.arr][i] = Settled + i
    BY <1>12, HoldsKept
  <2>2. Holds(flushed.arr, Settled, 0)' /\ Holds(Landed.arr, Landed.len, 0)'
    BY <1>1, <1>2, <1>4, <2>1 DEF Holds
  <2>3. Holds(buffered.arr, Stored, Settled)'
    <3> DEFINE written == arrays'[buffered.arr]
    <3>1. Stored \in Nat /\ buffered.len = Stored + 1
      BY <1>2, <1>7
    <3>2. written[buffered.len] = Settled + buffered.len
      <4>1. /\ appended = Settled + Stored + 1 /\ Settled \in Nat
            /\ written[buffered.len] = appended
        BY <1>2, <1>8, <1>10
      <4> QED
        BY <3>1, <4>1
    <3>3. \A i \in 1..Stored : written[i] = Settled + i
      BY <2>1
    <3>4. \A i \in 1..buffered.len : written[i] = Settled + i
      <4>1. \A i \in 1..buffered.len : i \in 1..Stored \/ i = buffered.len
        BY <3>1
      <4> HIDE DEF written
      <4> QED
        BY <3>2, <3>3, <4>1
    <3>5. /\ buffered' = buffered /\ Stored' = buffered.len /\ Settled' = Settled
          /\ buffered.arr \in DOMAIN arrays' /\ buffered.len <= Len(arrays'[buffered.arr])
      BY <1>1, <1>4, <1>7, <1>10
    <3> QED
      BY <3>4, <3>5 DEF Holds
  <2>4. buffered'.len + 0 <= Cap(buffered)'
    BY <1>1, <1>7, <1>10 DEF Cap
  <2>5. appended' = Settled' + Stored' + 0 /\ done' = 1..(Settled' + Stored')
    <3>1. \A m, n \in Nat : /\ m + n + 1 = m + (n + 1) + 0
                            /\ 1..(m + n) \cup {m + n + 1} = 1..(m + (n + 1))
      OBVIOUS
    <3>2. /\ appended' = Settled + Stored + 1 /\ Settled' = Settled /\ Stored' = Stored + 1
          /\ done' = 1..(Settled + Stored) \cup {Settled + Stored + 1}
      BY <1>1, <1>2, <1>4
    <3>3. Settled \in Nat /\ Stored \in Nat
      BY <1>2
    <3> QED
      BY <3>1, <3>2, <3>3
  <2>6. /\ Settled' \in Nat /\ Stored' \in Nat /\ (Landed.len)' \in Nat
        /\ Settled' <= flushed'.len /\ flushed'.len <= (Landed.len)'
    <3>1. /\ Settled' = Settled /\ Stored' = Stored + 1
          /\ (Landed.len)' = Settled /\ flushed'.len = Settled
      BY <1>1, <1>2, <1>4, <1>7
    <3>2. Settled \in Nat /\ Stored \in Nat
      BY <1>2
    <3> QED
      BY <3>1, <3>2
  <2> QED
    BY <1>1, <1>3, <2>2, <2>3, <2>4, <2>5, <2>6 DEF ItemsInv
<1>14. FlushInv'
  <2>1. LockInv'
    BY <1>5, Alone DEF LockedStep
  <2> QED
    BY <1>1, <2>1, NobodyFlushes DEF FlushPlaces
<1>15. ApartInv'
  <2>1. WasFlushed(flushed.arr)'
    BY <1>1, <1>2, <1>10 DEF WasFlushed
  <2> QED
    BY <1>1, <1>2, <1>4, <2>1 DEF ApartInv
<1>16. WriterTypeOK'
  <2>1. flushed' \in [arr : Nat, len : Nat] /\ buffered' \in [arr : Nat, len : Nat]
    <3>1. flushed \in [arr : Nat, len : Nat] /\ buffered \in [arr : Nat, len : Nat]
      BY <1>2, SliceIs
    <3> QED
      BY <1>1, <3>1
  <2>2. appended' \in 0..MaxItems
    BY <1>1, <1>2
  <2>3. Settled' + buffered'.len <= MaxItems
    BY <1>1, <1>2, <1>4
  <2>4. (Landed.len)' <= MaxItems
    <3>1. Settled \in Nat /\ Stored \in Nat /\ MaxItems \in Nat
      BY <1>2
    <3>2. Settled + Stored + 1 <= MaxItems
      BY <1>2
    <3> QED
      BY <1>7, <3>1, <3>2
  <2>5. buffered'.arr \in DOMAIN arrays'
    BY <1>1, <1>7, <1>10
  <2> QED
    BY <1>5, <1>12, <1>13, <1>15, <2>1, <2>2, <2>3, <2>4, <2>5, TypesFollow
<1>17. CoreInv'
  BY <1>1, <1>5, <1>6, <1>12, <1>13, <1>14, <1>15, <1>16, LockedInv
<1>18. appended \in 1..MaxItems /\ appended = Settled + Stored'
  <2>1. Settled \in Nat /\ Stored \in Nat /\ MaxItems \in Nat
    BY <1>2
  <2>2. Stored' = Stored + 1 /\ appended = Settled + Stored + 1 /\ appended <= MaxItems
    BY <1>2, <1>4
  <2> QED
    BY <2>1, <2>2
<1> QED
  BY <1>1, <1>4, <1>12, <1>17, <1>18

-----------------------------------------------------------------------------
(* Steps of Flush *)

\* The array that a Flush fills holds the flushed items and then the buffered ones.
LEMMA CopiedIs ==
    ASSUME CoreInv, mu = None, NEW old \in Seq(0..MaxItems),
           flushed.len + buffered.len <= Len(old),
           \A i \in 1..flushed.len : old[i] = arrays[flushed.arr][i]
    PROVE  LET new == [i \in DOMAIN old |->
                          IF i \in flushed.len + 1 .. flushed.len + buffered.len
                          THEN arrays[buffered.arr][i - flushed.len] ELSE old[i]]
           IN  /\ new \in Seq(0..MaxItems) /\ Len(new) = Len(old)
               /\ \A i \in 1..flushed.len + buffered.len : new[i] = i
               /\ \A i \in 1..flushed.len : new[i] = old[i]
<1> DEFINE m == flushed.len
           n == buffered.len
           source == arrays[buffered.arr]
           new == [i \in DOMAIN old |-> IF i \in m + 1 .. m + n THEN source[i - m] ELSE old[i]]
<1>1. /\ m \in Nat /\ n \in Nat /\ source \in Seq(0..MaxItems) /\ n <= Len(source)
      /\ \A i \in 1..m : old[i] = i
      /\ \A j \in 1..n : source[j] = m + j
  <2>1. /\ Settled = flushed.len /\ Stored = buffered.len
        /\ flushed \in [arr : DOMAIN arrays, len : Nat]
        /\ buffered \in [arr : DOMAIN arrays, len : Nat]
        /\ arrays \in Seq(Seq(0..MaxItems))
    BY Free DEF CoreInv, WriterTypeOK
  <2>2. Holds(flushed.arr, Settled, 0) /\ Holds(buffered.arr, Stored, Settled)
    BY DEF CoreInv, ItemsInv
  <2>3. m \in Nat /\ n \in Nat /\ source \in Seq(0..MaxItems)
    BY <2>1
  <2>4. n <= Len(source) /\ \A j \in 1..n : source[j] = m + j
    BY <2>1, <2>2 DEF Holds
  <2>5. \A i \in 1..m : arrays[flushed.arr][i] = 0 + i
    BY <2>1, <2>2 DEF Holds
  <2>6. \A i \in 1..m : old[i] = i
    BY <2>3, <2>5
  <2> QED
    BY <2>3, <2>4, <2>6
<1>2. /\ Len(old) \in Nat /\ DOMAIN old = 1..Len(old) /\ Len(old) <= Len(old)
      /\ m + n <= Len(old)
  OBVIOUS
<1> HIDE DEF m, n, source
<1>3. \A i \in m + 1 .. m + n : i - m \in 1..n /\ m + (i - m) = i
  BY <1>1
<1>4. \A i \in m + 1 .. m + n : source[i - m] = i /\ source[i - m] \in 0..MaxItems
  <2>1. \A j \in 1..n : source[j] \in 0..MaxItems
    BY <1>1, ElementIs
  <2> QED
    BY <1>1, <1>3, <2>1
<1>5. new \in Seq(0..MaxItems) /\ Len(new) = Len(old)
  <2>1. \A i \in 1..Len(old) : old[i] \in 0..MaxItems
    BY <1>2, ElementIs
  <2>2. new \in [1..Len(old) -> 0..MaxItems]
    BY <1>2, <1>4, <2>1
  <2> HIDE DEF new
  <2> QED
    BY <1>2, <2>2, FunctionIsSeq
<1>6. \A i \in 1..m : new[i] = old[i]
  <2>1. \A i \in 1..m : i \in DOMAIN old /\ i \notin m + 1 .. m + n
    BY <1>1, <1>2
  <2>2. \A i \in DOMAIN old : i \notin m + 1 .. m + n => new[i] = old[i]
    OBVIOUS
  <2> HIDE DEF new
  <2> QED
    BY <2>1, <2>2
<1>7. \A i \in 1..m + n : new[i] = i
  <2>1. \A i \in m + 1 .. m + n : i \in DOMAIN old
    BY <1>1, <1>2
  <2>2. \A i \in m + 1 .. m + n : new[i] = i
    BY <1>4, <2>1
  <2>3. \A i \in 1..m + n : i \in 1..m \/ i \in m + 1 .. m + n
    BY <1>1
  <2> HIDE DEF new
  <2> QED
    BY <1>1, <1>6, <2>2, <2>3
<1> QED
  BY <1>5, <1>6, <1>7 DEF m, n, source

LEMMA FlushCopyInv ==
    ASSUME CoreInv, NEW p \in Procs, FlushCopy(p)
    PROVE  CoreInv' /\ UNCHANGED <<flushed, Settled, Stored>> /\ Kept
<1> DEFINE len == flushed.len + buffered.len
           room == len <= Cap(flushed)
           old == IF room THEN arrays[flushed.arr] ELSE Grown(flushed, len)
           new == [i \in DOMAIN old |-> IF i \in flushed.len + 1 .. len
                                        THEN arrays[buffered.arr][i - flushed.len] ELSE old[i]]
           arr == IF room THEN flushed.arr ELSE Len(arrays')
<1>1. /\ pc[p] = "idle" /\ mu = None /\ mu' = p /\ reply' = NoReply
      /\ pc \in [Procs -> {"idle", "reading", "returning"} \cup LockedPlaces]
      /\ pc' = [pc EXCEPT ![p] = "flushHeader"] /\ pc'[p] = "flushHeader"
      /\ arrays' = IF room THEN [arrays EXCEPT ![flushed.arr] = new] ELSE Append(arrays, new)
      /\ local' = [local EXCEPT ![p].arr = arr, ![p].len = len]
      /\ UNCHANGED <<flushed, buffered, seen, appended, done>>
  BY DEF FlushCopy, Begin, Goto, Destination, slices, ghosts, CoreInv, WriterTypeOK, LockedPlaces
<1>2. /\ Settled = flushed.len /\ Stored = buffered.len /\ Landed = flushed /\ ~Appending
      /\ flushed \in [arr : DOMAIN arrays, len : Nat] /\ flushed.len <= Cap(flushed)
      /\ buffered \in [arr : DOMAIN arrays, len : Nat] /\ buffered.len <= Cap(buffered)
      /\ appended = len /\ appended <= MaxItems /\ done = 1..appended
      /\ arrays \in Seq(Seq(0..MaxItems))
  BY <1>1, Free DEF CoreInv, WriterTypeOK
<1>3. flushed.len \in Nat /\ buffered.len \in Nat /\ len \in Nat /\ MaxItems \in Nat
  BY <1>2, MaxItemsAssumption
<1>4. /\ old \in Seq(0..MaxItems) /\ len <= Len(old)
      /\ \A i \in 1..flushed.len : old[i] = arrays[flushed.arr][i]
  <2>1. CASE room
    BY <1>2, <2>1 DEF Cap
  <2>2. CASE ~room
    <3>1. Cap(flushed) \in Nat /\ len > Cap(flushed)
      BY <1>2, <1>3, <2>2 DEF Cap
    <3>2. /\ Grown(flushed, len) \in Seq(0..MaxItems) /\ Len(Grown(flushed, len)) >= len
          /\ \A i \in 1..flushed.len : Grown(flushed, len)[i] = arrays[flushed.arr][i]
      BY <1>2, <1>3, <3>1, GrownIs
    <3>3. old = Grown(flushed, len) /\ Len(Grown(flushed, len)) \in Nat
      BY <2>2, <3>2
    <3> HIDE DEF len, old
    <3> QED
      BY <1>3, <3>2, <3>3
  <2> QED
    BY <2>1, <2>2
<1>5. /\ new \in Seq(0..MaxItems) /\ Len(new) = Len(old)
      /\ \A i \in 1..len : new[i] = i
      /\ \A i \in 1..flushed.len : new[i] = old[i]
  <2> HIDE DEF old
  <2> QED
    BY <1>1, <1>4, CopiedIs
<1> HIDE DEF new
<1>6. /\ arrays' \in Seq(Seq(0..MaxItems)) /\ Len(arrays) <= Len(arrays')
      /\ arr \in DOMAIN arrays' /\ arrays'[arr] = new
      /\ \A a \in DOMAIN arrays : /\ a \in DOMAIN arrays' /\ Len(arrays'[a]) = Len(arrays[a])
                                  /\ a # arr => arrays'[a] = arrays[a]
                                  /\ a = arr => a = flushed.arr
  <2>1. CASE room
    <3>1. arrays' = [arrays EXCEPT ![flushed.arr] = new] /\ Len(new) = Len(arrays[flushed.arr])
          /\ arr = flushed.arr
      BY <1>1, <1>5, <2>1
    <3> HIDE DEF room, arr
    <3>2. flushed.arr \in DOMAIN arrays
      BY <1>2
    <3>3. /\ arrays' \in Seq(Seq(0..MaxItems))
          /\ Len(arrays') = Len(arrays) /\ DOMAIN arrays' = DOMAIN arrays
          /\ arrays'[flushed.arr] = new
          /\ \A b \in DOMAIN arrays \ {flushed.arr} : arrays'[b] = arrays[b]
          /\ \A b \in DOMAIN arrays : Len(arrays'[b]) = Len(arrays[b])
      BY <1>2, <1>5, <3>1, <3>2, WrittenArray
    <3> QED
      BY <1>2, <3>1, <3>2, <3>3
  <2>2. CASE ~room
    <3>1. arrays' = Append(arrays, new) /\ arr = Len(arrays')
      BY <1>1, <2>2
    <3> HIDE DEF room, arr
    <3>2. /\ arrays' \in Seq(Seq(0..MaxItems))
          /\ Len(arrays') = Len(arrays) + 1
          /\ arrays'[Len(arrays')] = new
          /\ \A a \in DOMAIN arrays : a \in DOMAIN arrays' /\ arrays'[a] = arrays[a]
          /\ Len(arrays') \in DOMAIN arrays' /\ Len(arrays') \notin DOMAIN arrays
      BY <1>2, <1>5, <3>1, AddedArray
    <3> QED
      BY <1>2, <3>1, <3>2
  <2> QED
    BY <2>1, <2>2
<1>7. \A i \in 1..flushed.len : new[i] = arrays[flushed.arr][i]
  BY <1>4, <1>5
<1>8. len <= Len(new)
  BY <1>4, <1>5
<1>9. /\ local'[p] = [NoLocal EXCEPT !.arr = arr, !.len = len]
      /\ \A q \in Procs \ {p} : local'[q] = local[q]
      /\ local' = [q \in Procs |-> local'[q]]
  <2>1. local[p] = NoLocal /\ local = [q \in Procs |-> local[q]]
    BY <1>1 DEF CoreInv, LocalInv, LocalOf
  <2> HIDE DEF arr, len
  <2> QED
    BY <1>1, <2>1
<1> HIDE DEF old, room, arr
<1>10. arr \in Nat
  BY <1>6
<1>11. local'[p] = [arr |-> arr, len |-> len, words |-> << >>, due |-> {}, during |-> "none"]
  BY <1>9 DEF NoLocal
<1>12. ~Appending' /\ Flushing' /\ p # None /\ mu' # None /\ pc'[mu'] = "flushHeader"
  BY <1>1, NoneAssumption DEF Appending, Flushing, AppendPlaces, FlushPlaces
<1>13. Settled' = flushed.len /\ Stored' = buffered.len /\ Landed' = [arr |-> arr, len |-> len]
  <2>1. Settled' = len - buffered.len
    BY <1>1, <1>11, <1>12 DEF Settled
  <2>2. Stored' = buffered.len
    BY <1>1, <1>12 DEF Stored
  <2>3. Landed' = [arr |-> arr, len |-> len]
    <3>1. local'[mu'].arr = arr /\ local'[mu'].len = len
      BY <1>1, <1>11
    <3> QED
      BY <1>12, <3>1 DEF Landed
  <2> QED
    BY <1>3, <2>1, <2>2, <2>3
<1>14. LockedStep(p)
  BY <1>1, <1>9, <1>12 DEF LockedStep, TurnStep, LockedPlaces, FlushPlaces
<1>15. LocalOf(p)'
  <2>1. local'[p] \in Locals({})
    <3>1. << >> \in [{} -> Nat]
      OBVIOUS
    <3> HIDE DEF len
    <3> QED
      BY <1>3, <1>10, <1>11, <3>1 DEF Locals
  <2> QED
    BY <1>1, <2>1 DEF LocalOf, AppendPlaces
<1>16. /\ Landed.len = flushed.len /\ (Landed.len)' = len /\ (Landed.arr)' = arr
       /\ Landed.arr = flushed.arr
  BY <1>2, <1>13
<1> HIDE DEF len
<1>17. Kept
  <2>1. ASSUME NEW a \in DOMAIN arrays, arrays[a] = << >>
        PROVE  arrays'[a] = << >>
    BY <1>6, <2>1
  <2>2. ASSUME NEW a \in DOMAIN arrays
        PROVE  /\ WasFlushed(a) => WasFlushed(a)'
               /\ WasBuffered(a) => WasBuffered(a)'
    <3>1. WasFlushed(a) => WasFlushed(a)'
      BY <1>1, <1>6, <2>1 DEF WasFlushed
    <3>2. WasBuffered(a) => WasBuffered(a)'
      BY <1>6, <1>16, <2>1 DEF WasBuffered
    <3> QED
      BY <3>1, <3>2
  <2>3. ASSUME NEW a \in DOMAIN arrays, NEW i \in 1..Len(arrays[a]), i <= Landed.len
        PROVE  arrays'[a][i] = arrays[a][i]
    <3>1. i \in 1..flushed.len
      BY <1>2, <1>3, <1>16, <2>3
    <3> QED
      BY <1>6, <1>7, <3>1
  <2>4. ASSUME NEW a \in DOMAIN arrays, WasBuffered(a), NEW i \in 1..Len(arrays[a])
        PROVE  arrays'[a][i] = arrays[a][i]
    <3>1. a # arr
      BY <1>6, <1>16, <2>4 DEF WasBuffered
    <3> QED
      BY <1>6, <3>1
  <2>5. /\ (Landed.len)' \in Nat /\ Landed.len <= (Landed.len)'
        /\ Settled' \in Nat /\ Settled <= Settled' /\ Stored' \in Nat /\ Stored <= Stored'
    <3>1. /\ Settled' = flushed.len /\ Settled = flushed.len
          /\ Stored' = buffered.len /\ Stored = buffered.len
          /\ Landed.len = flushed.len /\ (Landed.len)' = flushed.len + buffered.len
      BY <1>2, <1>13, <1>16 DEF len
    <3>2. flushed.len \in Nat /\ buffered.len \in Nat
      BY <1>3
    <3> QED
      BY <3>1, <3>2
  <2> QED
    BY <1>1, <1>6, <2>2, <2>3, <2>4, <2>5 DEF Kept
<1>18. Settled' = Settled /\ Stored' = Stored
  BY <1>2, <1>13
<1>19. ItemsInv'
  <2>1. /\ flushed.arr \in DOMAIN arrays' /\ Settled <= Len(arrays'[flushed.arr])
        /\ \A i \in 1..Settled : arrays'[flushed.arr][i] = i
        /\ buffered.arr \in DOMAIN arrays' /\ Stored <= Len(arrays'[buffered.arr])
        /\ \A i \in 1..Stored : arrays'[buffered.arr][i] = Settled + i
    BY <1>17, HoldsKept
  <2>2. Holds(flushed.arr, Settled, 0)'
    <3>1. flushed' = flushed /\ Settled' = Settled /\ Settled \in Nat
      BY <1>1, <1>2, <1>3, <1>18
    <3>2. \A i \in 1..Settled : i = 0 + i
      BY <3>1
    <3> QED
      BY <2>1, <3>1, <3>2 DEF Holds
  <2>3. Holds(Landed.arr, Landed.len, 0)'
    BY <1>3, <1>5, <1>6, <1>8, <1>16 DEF Holds
  <2>4. Holds(buffered.arr, Stored, Settled)'
    <3>1. buffered' = buffered /\ Stored' = Stored /\ Settled' = Settled
      BY <1>1, <1>18
    <3> QED
      BY <2>1, <3>1 DEF Holds
  <2>5. buffered'.len + 0 <= Cap(buffered)'
    <3>1. buffered' = buffered /\ buffered.len \in Nat /\ buffered.len <= Len(arrays[buffered.arr])
      BY <1>1, <1>2, <1>3 DEF Cap
    <3>2. Len(arrays'[buffered.arr]) = Len(arrays[buffered.arr])
      BY <1>2, <1>6
    <3> QED
      BY <3>1, <3>2 DEF Cap
  <2>6. appended' = Settled' + Stored' + 0 /\ done' = 1..(Settled' + Stored')
    BY <1>1, <1>2, <1>3, <1>13 DEF len
  <2>7. /\ Settled' \in Nat /\ Stored' \in Nat /\ (Landed.len)' \in Nat
        /\ Settled' <= flushed'.len /\ flushed'.len <= (Landed.len)'
    BY <1>1, <1>3, <1>13, <1>16 DEF len
  <2> QED
    BY <1>1, <1>12, <2>2, <2>3, <2>4, <2>5, <2>6, <2>7 DEF ItemsInv
<1>20. FlushInv'
  <2>1. LockInv'
    BY <1>14, Alone DEF LockedStep
  <2>2. \A q \in Procs : q # p => pc'[q] \notin FlushPlaces
    BY <1>1, <2>1 DEF LockInv
  <2>3. flushed'.len = Settled'
    BY <1>1, <1>13
  <2> QED
    BY <1>1, <2>2, <2>3 DEF FlushInv, FlushPlaces
<1>21. ApartInv'
  <2>1. WasFlushed(flushed.arr)'
    BY <1>1, <1>2, <1>17 DEF CoreInv, ApartInv, WasFlushed, Kept
  <2>2. WasFlushed(Landed.arr)'
    BY <1>1, <1>2, <1>6, <1>16, <2>1 DEF WasFlushed
  <2> QED
    BY <2>1, <2>2 DEF ApartInv
<1>22. WriterTypeOK'
  <2>1. flushed' \in [arr : Nat, len : Nat] /\ buffered' \in [arr : Nat, len : Nat]
    <3>1. flushed \in [arr : Nat, len : Nat] /\ buffered \in [arr : Nat, len : Nat]
      BY <1>2, SliceIs
    <3> QED
      BY <1>1, <3>1
  <2>2. appended' \in 0..MaxItems
    BY <1>1 DEF CoreInv, WriterTypeOK
  <2>3. Settled' + buffered'.len <= MaxItems /\ (Landed.len)' <= MaxItems
    BY <1>1, <1>2, <1>13, <1>16 DEF len
  <2>4. buffered'.arr \in DOMAIN arrays'
    BY <1>1, <1>2, <1>6
  <2> QED
    BY <1>14, <1>17, <1>19, <1>21, <2>1, <2>2, <2>3, <2>4, TypesFollow
<1> QED
  BY <1>1, <1>14, <1>15, <1>17, <1>18, <1>19, <1>20, <1>21, <1>22, LockedInv

\* What holds while a Flush is under way, from the copy to the last store.
LEMMA WhileFlushing ==
    ASSUME CoreInv, NEW p \in Procs, pc[p] \in FlushPlaces
    PROVE  /\ mu = p /\ p # None /\ Flushing /\ ~Appending
           /\ Stored = buffered.len
           /\ Landed = [arr |-> local[p].arr, len |-> local[p].len]
           /\ Landed.arr = local[p].arr /\ Landed.len = local[p].len
           /\ Settled \in Nat /\ Stored \in Nat /\ MaxItems \in Nat
           /\ Settled = local[p].len - buffered.len
           /\ Landed.len = Settled + Stored /\ Landed.len <= MaxItems /\ appended = Landed.len
           /\ done = 1..(Settled + Stored)
           /\ Landed.arr \in DOMAIN arrays /\ Landed.len \in Nat /\ flushed.len \in Nat
           /\ flushed \in [arr : DOMAIN arrays, len : Nat]
           /\ Settled <= flushed.len /\ flushed.len <= Landed.len
           /\ buffered \in [arr : DOMAIN arrays, len : Nat]
           /\ buffered.len <= Len(arrays[buffered.arr])
           /\ arrays \in Seq(Seq(0..MaxItems))
<1>1. mu = p /\ p # None
  BY NoneAssumption DEF CoreInv, LockInv
<1>2. Flushing /\ ~Appending
  BY <1>1 DEF Appending, Flushing, AppendPlaces, FlushPlaces
<1>3. /\ Settled = local[p].len - buffered.len /\ Stored = buffered.len
      /\ Landed = [arr |-> local[p].arr, len |-> local[p].len]
  BY <1>1, <1>2 DEF Settled, Landed, Stored, FlushPlaces
<1>4. Landed.arr = local[p].arr /\ Landed.len = local[p].len
  BY <1>3
<1>5. /\ Settled \in Nat /\ Stored \in Nat /\ Landed.len \in Nat /\ MaxItems \in Nat
      /\ done = 1..(Settled + Stored) /\ arrays \in Seq(Seq(0..MaxItems))
      /\ Settled <= flushed.len /\ flushed.len <= Landed.len
      /\ flushed.len \in Nat /\ buffered.len \in Nat
  BY Counts, MaxItemsAssumption DEF CoreInv, WriterTypeOK
<1>6. Landed.len = Settled + Stored
  BY <1>3, <1>4, <1>5
<1>7. appended = Settled + Stored /\ appended <= MaxItems
  BY <1>2, <1>5 DEF CoreInv, ItemsInv, WriterTypeOK
<1>8. flushed \in [arr : DOMAIN arrays, len : Nat] /\ buffered \in [arr : DOMAIN arrays, len : Nat]
  BY MaxItemsAssumption DEF CoreInv, WriterTypeOK, IsSlice
<1>9. buffered.len <= Len(arrays[buffered.arr])
  <2>1. buffered.len + 0 <= Len(arrays[buffered.arr])
    BY <1>1 DEF CoreInv, ItemsInv, Cap, FlushPlaces
  <2> QED
    BY <1>5, <2>1
<1>10. Landed.arr \in DOMAIN arrays
  BY DEF CoreInv, ItemsInv, Holds
<1> QED
  BY <1>1, <1>2, <1>3, <1>4, <1>5, <1>6, <1>7, <1>8, <1>9, <1>10

LEMMA HoldsFewer ==
    ASSUME arrays \in Seq(Seq(0..MaxItems)), NEW a, NEW n \in Nat, NEW m \in Nat, m <= n,
           NEW base, Holds(a, n, base)
    PROVE  Holds(a, m, base)
<1>1. Len(arrays[a]) \in Nat /\ n <= Len(arrays[a]) /\ \A i \in 1..m : i \in 1..n
  BY DEF Holds
<1> QED
  BY <1>1 DEF Holds

\* A word of the flushed slice is stored: what counts does not change with it.
LEMMA FlushHeaderInv ==
    ASSUME CoreInv, NEW p \in Procs, FlushArr(p) \/ FlushLen(p)
    PROVE  CoreInv' /\ UNCHANGED <<Settled, Stored>> /\ Kept
<1>1. PICK place \in FlushPlaces :
         /\ pc' = [pc EXCEPT ![p] = place] /\ pc'[p] = place
         /\ \/ /\ pc[p] \in {"flushHeader", "flushArr"}
               /\ flushed' = [flushed EXCEPT !.arr = local[p].arr]
               /\ place = IF pc[p] = "flushHeader" THEN "flushLen" ELSE "flushClear"
            \/ /\ pc[p] \in {"flushHeader", "flushLen"}
               /\ flushed' = [flushed EXCEPT !.len = local[p].len]
               /\ place = IF pc[p] = "flushHeader" THEN "flushArr" ELSE "flushClear"
  BY DEF FlushArr, FlushLen, Goto, FlushPlaces, CoreInv, WriterTypeOK
<1>2. /\ reply' = NoReply /\ pc[p] \in FlushPlaces
      /\ UNCHANGED <<mu, arrays, buffered, local, seen, appended, done>>
  BY DEF FlushArr, FlushLen, ghosts, FlushPlaces
<1>3. /\ mu = p /\ p # None /\ Flushing /\ ~Appending
      /\ Stored = buffered.len
      /\ Landed = [arr |-> local[p].arr, len |-> local[p].len]
      /\ Landed.arr = local[p].arr /\ Landed.len = local[p].len
      /\ Settled \in Nat /\ Stored \in Nat /\ MaxItems \in Nat
      /\ Settled = local[p].len - buffered.len
      /\ Landed.len = Settled + Stored /\ Landed.len <= MaxItems /\ appended = Landed.len
      /\ done = 1..(Settled + Stored)
      /\ Landed.arr \in DOMAIN arrays /\ Landed.len \in Nat /\ flushed.len \in Nat
      /\ flushed \in [arr : DOMAIN arrays, len : Nat]
      /\ Settled <= flushed.len /\ flushed.len <= Landed.len
      /\ buffered \in [arr : DOMAIN arrays, len : Nat]
      /\ buffered.len <= Len(arrays[buffered.arr])
      /\ arrays \in Seq(Seq(0..MaxItems))
  BY <1>2, WhileFlushing
<1>4. /\ ~Appending' /\ Flushing' /\ mu' # None /\ pc'[mu'] \notin AppendPlaces
  BY <1>1, <1>2, <1>3 DEF Appending, Flushing, AppendPlaces, FlushPlaces
<1>5. Settled' = Settled /\ Stored' = Stored /\ Landed' = Landed
  <2>1. local'[mu'] = local[p] /\ buffered' = buffered
    BY <1>2, <1>3
  <2>2. Settled' = local[p].len - buffered.len
    BY <1>4, <2>1 DEF Settled
  <2>3. Stored' = buffered.len
    BY <1>4, <2>1 DEF Stored, AppendPlaces
  <2>4. Landed' = [arr |-> local[p].arr, len |-> local[p].len]
    BY <1>4, <2>1 DEF Landed
  <2> QED
    BY <1>3, <2>2, <2>3, <2>4
<1>6. LockedStep(p)
  <2>1. local' = [q \in Procs |-> local'[q]]
    BY <1>2 DEF CoreInv, LocalInv
  <2>2. pc[p] \in LockedPlaces /\ place \in LockedPlaces /\ place # "idle"
    BY <1>2 DEF LockedPlaces, FlushPlaces
  <2> QED
    BY <1>1, <1>2, <1>3, <1>4, <2>1, <2>2 DEF LockedStep, TurnStep
<1>7. LocalOf(p)'
  <2>1. pc'[p] \notin {"idle"} \cup AppendPlaces
    BY <1>1 DEF FlushPlaces, AppendPlaces
  <2>2. LocalOf(p)
    BY DEF CoreInv, LocalInv
  <2> QED
    BY <1>2, <2>1, <2>2 DEF LocalOf
<1>8. Kept
  BY <1>2, <1>5, KeptByHeaders
<1>9. flushed' = [flushed EXCEPT !.arr = Landed.arr] \/ flushed' = [flushed EXCEPT !.len = Landed.len]
  BY <1>1, <1>3
<1>10. /\ flushed' \in [arr : DOMAIN arrays, len : Nat]
       /\ flushed'.arr \in {flushed.arr, Landed.arr} /\ flushed'.len \in {flushed.len, Landed.len}
       /\ Settled <= flushed'.len /\ flushed'.len <= Landed.len
  <2>1. Landed.len \in Nat /\ flushed.len \in Nat
    BY <1>3
  <2>2. Landed.len <= Landed.len
    BY <2>1
  <2>3. Settled <= Landed.len
    <3>1. Settled \in Nat /\ Stored \in Nat /\ Landed.len = Settled + Stored
      BY <1>3
    <3> QED
      BY <3>1
  <2> QED
    BY <1>3, <1>9, <2>1, <2>2, <2>3
<1>11. /\ Holds(flushed.arr, Settled, 0) /\ Holds(Landed.arr, Landed.len, 0)
       /\ Holds(buffered.arr, Stored, Settled)
       /\ WasFlushed(flushed.arr) /\ WasFlushed(Landed.arr)
  BY DEF CoreInv, ItemsInv, ApartInv
<1>12. ItemsInv'
  <2>1. Holds(Landed.arr, Settled, 0)
    <3>1. Settled \in Nat /\ Landed.len \in Nat /\ Settled <= Landed.len
      BY <1>3
    <3>2. arrays \in Seq(Seq(0..MaxItems))
      BY <1>3
    <3> QED
      BY <1>11, <3>1, <3>2, HoldsFewer
  <2>2. Holds(flushed'.arr, Settled, 0)
    BY <1>10, <1>11, <2>1
  <2>3. Holds(flushed.arr, Settled, 0)'
    BY <1>2, <1>5, <2>2 DEF Holds
  <2>4. Holds(Landed.arr, Landed.len, 0)' /\ Holds(buffered.arr, Stored, Settled)'
    BY <1>2, <1>5, <1>11 DEF Holds
  <2>5. buffered'.len + 0 <= Cap(buffered)'
    <3>1. /\ buffered' = buffered /\ arrays' = arrays
          /\ buffered \in [arr : DOMAIN arrays, len : Nat]
          /\ buffered.len <= Len(arrays[buffered.arr])
      BY <1>2, <1>3
    <3>2. buffered.len \in Nat
      BY <3>1, Fields
    <3> QED
      BY <3>1, <3>2 DEF Cap
  <2>6. appended' = Settled' + Stored' + 0 /\ done' = 1..(Settled' + Stored')
    BY <1>2, <1>3, <1>5
  <2>7. /\ Settled' \in Nat /\ Stored' \in Nat /\ (Landed.len)' \in Nat
        /\ Settled' <= flushed'.len /\ flushed'.len <= (Landed.len)'
    <3>1. Settled \in Nat /\ Stored \in Nat /\ Landed.len \in Nat
      BY <1>3
    <3>2. (Landed.len)' = Landed.len
      BY <1>5
    <3> QED
      BY <1>5, <1>10, <3>1, <3>2
  <2> QED
    BY <1>4, <2>3, <2>4, <2>5, <2>6, <2>7 DEF ItemsInv, AppendPlaces
<1>13. FlushInv'
  <2>1. LockInv'
    BY <1>6, Alone DEF LockedStep
  <2>2. \A q \in Procs : q # p => pc'[q] \notin FlushPlaces
    BY <1>2, <1>3, <2>1 DEF LockInv
  <2>3. /\ pc'[p] \in {"flushHeader", "flushLen"} => flushed'.len = Settled'
        /\ pc'[p] \in {"flushLen", "flushClear"} => flushed'.arr = local'[p].arr
        /\ pc'[p] \in {"flushArr", "flushClear"} => flushed'.len = local'[p].len
    <3>1. /\ pc[p] \in {"flushHeader", "flushLen"} => flushed.len = Settled
          /\ pc[p] \in {"flushLen", "flushClear"} => flushed.arr = local[p].arr
          /\ pc[p] \in {"flushArr", "flushClear"} => flushed.len = local[p].len
      BY DEF CoreInv, FlushInv
    <3>2. CASE /\ pc[p] \in {"flushHeader", "flushArr"}
               /\ flushed' = [flushed EXCEPT !.arr = local[p].arr]
               /\ place = IF pc[p] = "flushHeader" THEN "flushLen" ELSE "flushClear"
      <4>1. flushed'.len = flushed.len /\ flushed'.arr = local[p].arr
        BY <1>3, <3>2
      <4> QED
        BY <1>1, <1>2, <1>5, <3>1, <3>2, <4>1
    <3>3. CASE /\ pc[p] \in {"flushHeader", "flushLen"}
               /\ flushed' = [flushed EXCEPT !.len = local[p].len]
               /\ place = IF pc[p] = "flushHeader" THEN "flushArr" ELSE "flushClear"
      <4>1. flushed'.len = local[p].len /\ flushed'.arr = flushed.arr
        BY <1>3, <3>3
      <4> QED
        BY <1>1, <1>2, <1>5, <3>1, <3>3, <4>1
    <3> QED
      BY <1>1, <3>2, <3>3
  <2> QED
    BY <2>2, <2>3 DEF FlushInv, FlushPlaces
<1>14. ApartInv'
  <2>1. WasFlushed(flushed'.arr)
    BY <1>10, <1>11
  <2> QED
    BY <1>2, <1>5, <1>11, <2>1 DEF ApartInv, WasFlushed
<1>15. WriterTypeOK'
  <2>1. flushed' \in [arr : Nat, len : Nat] /\ buffered' \in [arr : Nat, len : Nat]
    <3>1. flushed' \in [arr : Nat, len : Nat] /\ buffered \in [arr : Nat, len : Nat]
      BY <1>3, <1>10, SliceIs
    <3> QED
      BY <1>2, <3>1
  <2>2. appended' \in 0..MaxItems
    BY <1>2 DEF CoreInv, WriterTypeOK
  <2>3. Settled' + buffered'.len <= MaxItems /\ (Landed.len)' <= MaxItems
    BY <1>2, <1>3, <1>5
  <2>4. buffered'.arr \in DOMAIN arrays'
    BY <1>2, <1>3
  <2> QED
    BY <1>6, <1>8, <1>12, <1>14, <2>1, <2>2, <2>3, <2>4, TypesFollow
<1> QED
  BY <1>2, <1>5, <1>6, <1>7, <1>8, <1>12, <1>13, <1>14, <1>15, LockedInv

\* The items move over at once: they count as flushed when the buffer is cleared.
LEMMA FlushClearInv ==
    ASSUME CoreInv, NEW p \in Procs, FlushClear(p)
    PROVE  /\ CoreInv' /\ UNCHANGED <<arrays, flushed, Landed>>
           /\ Settled' = Settled + Stored /\ Stored' = 0 /\ Landed = flushed
<1>1. /\ pc[p] = "flushClear" /\ pc[p] \in FlushPlaces /\ mu' = None /\ reply' = [kind |-> "flush"]
      /\ pc \in [Procs -> {"idle", "reading", "returning"} \cup LockedPlaces]
      /\ pc' = [pc EXCEPT ![p] = "idle"] /\ pc'[p] = "idle"
      /\ buffered' = [buffered EXCEPT !.len = 0]
      /\ local' = [Meanwhile("none", "flush") EXCEPT ![p] = NoLocal]
      /\ UNCHANGED <<arrays, flushed, seen, appended, done>>
  BY DEF FlushClear, Cleared, Goto, ghosts, CoreInv, WriterTypeOK, LockedPlaces, FlushPlaces
<1>2. /\ mu = p /\ p # None /\ Flushing /\ ~Appending
      /\ Stored = buffered.len
      /\ Landed = [arr |-> local[p].arr, len |-> local[p].len]
      /\ Landed.arr = local[p].arr /\ Landed.len = local[p].len
      /\ Settled \in Nat /\ Stored \in Nat /\ MaxItems \in Nat
      /\ Landed.len = Settled + Stored /\ Landed.len <= MaxItems /\ appended = Landed.len
      /\ done = 1..(Settled + Stored)
      /\ flushed \in [arr : DOMAIN arrays, len : Nat]
      /\ buffered \in [arr : DOMAIN arrays, len : Nat]
      /\ arrays \in Seq(Seq(0..MaxItems))
  BY <1>1, WhileFlushing
<1>3. flushed.arr = local[p].arr /\ flushed.len = local[p].len
  BY <1>1 DEF CoreInv, FlushInv
<1>4. Landed = flushed
  BY <1>2, <1>3
<1>5. ~Appending' /\ ~Flushing'
  BY <1>1 DEF Appending, Flushing
<1>6. buffered'.arr = buffered.arr /\ buffered'.len = 0
  BY <1>1, <1>2
<1>7. Settled' = Settled + Stored /\ Stored' = 0 /\ Landed' = Landed
  <2>1. Settled' = flushed.len /\ Landed' = flushed
    BY <1>1, <1>5 DEF Settled, Landed
  <2>2. Stored' = 0
    BY <1>1, <1>6 DEF Stored
  <2> QED
    BY <1>2, <1>4, <2>1, <2>2
<1>8. TurnStep(p)
  BY <1>1, <1>2 DEF TurnStep, LockedPlaces
<1>9. /\ LockInv' /\ mu' \in Procs \cup {None}
      /\ pc' \in [Procs -> {"idle", "reading", "returning"} \cup AppendPlaces \cup FlushPlaces]
      /\ \A q \in Procs \ {p} : pc'[q] = pc[q]
  BY <1>8, Alone
<1>10. \A a : (WasFlushed(a)' <=> WasFlushed(a)) /\ (WasBuffered(a)' <=> WasBuffered(a))
  BY <1>1, <1>6, <1>7 DEF WasFlushed, WasBuffered
<1>11. /\ Holds(flushed.arr, Settled + Stored, 0) /\ flushed.arr \in DOMAIN arrays
       /\ Holds(buffered.arr, 0, Settled + Stored)
       /\ WasFlushed(flushed.arr)
  <2>1. Holds(flushed.arr, Settled + Stored, 0) /\ WasFlushed(flushed.arr)
    BY <1>2, <1>4 DEF CoreInv, ItemsInv, ApartInv
  <2>2. Len(arrays[buffered.arr]) \in Nat
    BY <1>2
  <2> QED
    BY <1>2, <2>1, <2>2 DEF Holds
<1>12. ItemsInv'
  <2>1. Holds(flushed.arr, Settled, 0)' /\ Holds(Landed.arr, Landed.len, 0)'
    <3>1. (Landed.arr)' = flushed.arr /\ (Landed.len)' = Settled + Stored /\ flushed' = flushed
      BY <1>1, <1>2, <1>4, <1>7
    <3> QED
      BY <1>1, <1>7, <1>11, <3>1 DEF Holds
  <2>2. Holds(buffered.arr, Stored, Settled)'
    BY <1>1, <1>6, <1>7, <1>11 DEF Holds
  <2>3. buffered'.len + 0 <= Cap(buffered)'
    <3>1. Len(arrays[buffered.arr]) \in Nat
      BY <1>2
    <3> QED
      BY <1>1, <1>6, <3>1 DEF Cap
  <2>4. appended' = Settled' + Stored' + 0 /\ done' = 1..(Settled' + Stored')
    BY <1>1, <1>2, <1>7
  <2>5. /\ Settled' \in Nat /\ Stored' \in Nat /\ (Landed.len)' \in Nat
        /\ Settled' <= flushed'.len /\ flushed'.len <= (Landed.len)'
    <3>1. (Landed.len)' = Settled + Stored /\ flushed'.len = Settled + Stored
      BY <1>1, <1>2, <1>4, <1>7
    <3>2. Settled + Stored \in Nat
      BY <1>2
    <3> QED
      BY <1>7, <3>1, <3>2
  <2> QED
    BY <1>1, <1>5, <2>1, <2>2, <2>3, <2>4, <2>5 DEF ItemsInv
<1>13. FlushInv'
  BY <1>1, <1>9, NobodyFlushes DEF FlushPlaces
<1>14. ApartInv'
  BY <1>1, <1>4, <1>7, <1>10, <1>11 DEF ApartInv
<1>15. WriterTypeOK'
  <2>1. IsSlice(flushed)' /\ IsSlice(buffered)'
    <3>1. 0 \in 0..MaxItems
      BY <1>2
    <3> QED
      BY <1>1, <3>1 DEF CoreInv, WriterTypeOK, IsSlice
  <2>2. flushed'.len <= Cap(flushed)' /\ buffered'.len <= Cap(buffered)'
    <3>1. Len(arrays[buffered.arr]) \in Nat
      BY <1>2
    <3>2. flushed.len <= Len(arrays[flushed.arr])
      BY <1>2, <1>4, <1>11 DEF Holds
    <3> QED
      BY <1>1, <1>6, <3>1, <3>2 DEF Cap
  <2>3. flushed'.arr = buffered'.arr => Cap(flushed)' = 0
    BY <1>1, <1>6 DEF CoreInv, WriterTypeOK, Cap
  <2> QED
    BY <1>1, <1>9, <2>1, <2>2, <2>3 DEF CoreInv, WriterTypeOK
<1>16. /\ local'[p] = NoLocal /\ local' = [q \in Procs |-> local'[q]]
       /\ \A q \in Procs \ {p} :
             IF pc[q] \in {"reading", "returning"} /\ local[q].during = "none"
             THEN local'[q] = [local[q] EXCEPT !.during = "flush"] ELSE local'[q] = local[q]
  BY <1>1 DEF Meanwhile
<1>17. ASSUME NEW q \in Procs
       PROVE  SeenBy(q)'
  <2>1. Shown(seen[q].slice)' = Shown(seen[q].slice) /\ Torn(seen[q].slice)' = Torn(seen[q].slice)
    BY <1>1 DEF Shown, Torn, Cap
  <2>2. SeenBy(q)
    BY DEF CoreInv
  <2>3. WasFlushed(seen[q].slice.arr)'
    BY <1>1, <1>10, <2>2 DEF SeenBy
  <2> QED
    BY <1>1, <1>7, <2>1, <2>2, <2>3 DEF SeenBy
<1>18. LocalOf(p)' /\ ReaderOf(p)'
  <2>1. NoLocal \in Locals({})
    <3>1. << >> \in [{} -> Nat]
      OBVIOUS
    <3> QED
      BY <3>1 DEF NoLocal, Locals
  <2> QED
    BY <1>1, <1>16, <2>1 DEF LocalOf, ReaderOf
<1>19. ASSUME NEW q \in Procs, q # p
       PROVE  LocalOf(q)' /\ ReaderOf(q)'
  <2>1. pc'[q] = pc[q]
    BY <1>9, <1>19
  <2>2. PICK read \in SUBSET (1..4) : local[q] \in Locals(read)
    BY DEF CoreInv, LocalInv, LocalOf
  <2>3. CASE pc[q] \notin {"reading", "returning"}
    <3>1. local'[q] = local[q]
      BY <1>16, <1>19, <2>3
    <3> QED
      BY <2>1, <2>3, <3>1 DEF CoreInv, LocalInv, LocalOf, ReaderOf
  <2>4. CASE pc[q] \in {"reading", "returning"}
    <3>1. /\ local'[q].words = local[q].words /\ local'[q].due = local[q].due
          /\ local'[q] \in Locals(read)
          /\ local'[q].during # "none"
          /\ local[q].during = "reused" <=> local'[q].during = "reused"
      BY <1>16, <1>19, <2>2, <2>4 DEF Locals
    <3>2. LocalOf(q)'
      BY <2>1, <2>4, <3>1 DEF LocalOf, AppendPlaces
    <3>3. Read(q)' = Read(q) /\ \A n : Word(q, n)' = Word(q, n)
      BY <3>1 DEF Read, Word
    <3>4. /\ WordsOf(q) /\ local[q].due \subseteq done
          /\ local[q].during # "reused" => Covered(q)
      BY <2>4 DEF CoreInv, ReaderOf
    <3>5. WordsOf(q)'
      BY <1>7, <1>10, <2>1, <3>3, <3>4 DEF WordsOf
    <3>6. ASSUME local'[q].during # "reused"
          PROVE  Covered(q)'
      <4> SUFFICES ASSUME NEW i \in local[q].due
                   PROVE  InFlushed(q, i)' \/ \E j \in 1..MaxItems : InBuffered(q, i, j)'
        BY <3>1 DEF Covered
      <4>1. i \in Nat /\ i <= Settled'
        BY <1>2, <1>7, <3>4
      <4>2. CASE InFlushed(q, i)
        BY <1>1, <3>3, <4>1, <4>2 DEF InFlushed
      <4>3. ASSUME NEW j \in 1..MaxItems, InBuffered(q, i, j), 2 \in Read(q)
            PROVE  InBuffered(q, i, j)'
        <5>1. ReadFrom(q)' = ReadFrom(q)
          BY <1>6, <3>3 DEF ReadFrom
        <5> QED
          BY <1>1, <3>1, <3>3, <4>3, <5>1 DEF InBuffered
      <4>4. CASE 2 \notin Read(q)
        BY <3>3, <3>4, <4>1, <4>4 DEF WordsOf, InFlushed
      <4> QED
        BY <3>1, <3>4, <3>6, <4>2, <4>3, <4>4 DEF Covered
    <3> QED
      BY <1>1, <1>5, <3>1, <3>2, <3>4, <3>5, <3>6 DEF ReaderOf
  <2> QED
    BY <2>3, <2>4
<1>20. LocalInv'
  <2>1. seen' = [q \in Procs |-> seen'[q]]
    BY <1>1 DEF CoreInv, LocalInv
  <2> QED
    BY <1>16, <1>18, <1>19, <2>1 DEF LocalInv
<1>21. NothingForgotten'
  BY <1>1 DEF NothingForgotten
<1>22. CoreInv'
  BY <1>9, <1>12, <1>13, <1>14, <1>15, <1>17, <1>18, <1>19, <1>20, <1>21 DEF CoreInv
<1> QED
  BY <1>1, <1>4, <1>7, <1>22

-----------------------------------------------------------------------------
(* The invariant but for what State returns whole *)

LEMMA CoreInit == Init => CoreInv
<1> SUFFICES ASSUME Init PROVE CoreInv
  OBVIOUS
<1>1. /\ mu = None /\ arrays = << << >> >> /\ flushed = Empty /\ buffered = Empty
      /\ pc = [p \in Procs |-> "idle"] /\ local = [p \in Procs |-> NoLocal]
      /\ seen = [p \in Procs |-> [slice |-> Empty, items |-> << >>]]
      /\ reply = NoReply /\ appended = 0 /\ done = {}
  BY DEF Init
<1>2. /\ arrays \in Seq(Seq(0..MaxItems)) /\ DOMAIN arrays = {1}
      /\ arrays[1] = << >> /\ Len(arrays[1]) = 0
  BY <1>1
<1>3. /\ flushed.arr = 1 /\ flushed.len = 0 /\ buffered.arr = 1 /\ buffered.len = 0
      /\ Cap(flushed) = 0 /\ Cap(buffered) = 0
  BY <1>1, <1>2 DEF Empty, Cap
<1>4. Settled = 0 /\ Stored = 0 /\ Landed = flushed /\ ~Appending
  BY <1>1, <1>3, FreeSlices
<1>5. WriterTypeOK
  <2>1. IsSlice(flushed) /\ IsSlice(buffered)
    BY <1>1, <1>2, MaxItemsAssumption DEF IsSlice, Empty
  <2>2. pc \in [Procs -> {"idle", "reading", "returning"} \cup AppendPlaces \cup FlushPlaces]
    BY <1>1
  <2> QED
    BY <1>1, <1>2, <1>3, <2>1, <2>2, MaxItemsAssumption DEF WriterTypeOK
<1>6. LockInv
  BY <1>1, NoneAssumption DEF LockInv, AppendPlaces, FlushPlaces
<1>7. LocalInv
  <2>1. NoLocal \in Locals({})
    <3>1. << >> \in [{} -> Nat]
      OBVIOUS
    <3> QED
      BY <3>1 DEF NoLocal, Locals
  <2> QED
    BY <1>1, <2>1 DEF LocalInv, LocalOf
<1>8. WasFlushed(1)
  BY <1>2 DEF WasFlushed
<1>9. ItemsInv
  <2>1. Holds(1, 0, 0)
    BY <1>2 DEF Holds
  <2> QED
    BY <1>1, <1>3, <1>4, <2>1 DEF ItemsInv
<1>10. FlushInv /\ ApartInv
  BY <1>1, <1>3, <1>4, <1>8 DEF FlushInv, ApartInv
<1>11. ASSUME NEW p \in Procs
       PROVE  SeenBy(p) /\ ReaderOf(p)
  <2>1. ~Torn(Empty) /\ Shown(Empty) = << >>
    <3>1. Empty.arr = 1 /\ Empty.len = 0
      BY DEF Empty
    <3>2. ~Torn(Empty)
      BY <1>2, <3>1 DEF Torn, Cap
    <3>3. Shown(Empty) \in Seq(0..MaxItems) /\ Len(Shown(Empty)) = 0
      BY <1>2, <3>1, <3>2, ShownIs
    <3> QED
      BY <3>2, <3>3
  <2>2. seen[p].slice = Empty /\ seen[p].items = << >> /\ Empty.arr = 1 /\ Empty.len = 0
    BY <1>1 DEF Empty
  <2>3. SeenBy(p)
    BY <1>3, <1>4, <1>8, <2>1, <2>2 DEF SeenBy
  <2> QED
    BY <1>1, <2>3 DEF ReaderOf
<1>12. NothingForgotten
  BY <1>1 DEF NothingForgotten, NoReply
<1> QED
  BY <1>5, <1>6, <1>7, <1>9, <1>10, <1>11, <1>12 DEF CoreInv

LEMMA CoreNext == CoreInv /\ [Next]_vars => CoreInv'
<1> SUFFICES ASSUME CoreInv, [Next]_vars PROVE CoreInv'
  OBVIOUS
<1>1. CASE Next
  <2> SUFFICES ASSUME NEW p \in Procs,
                      \/ AppendGrow(p) \/ AppendLen(p) \/ AppendStore(p)
                      \/ FlushCopy(p) \/ FlushArr(p) \/ FlushLen(p) \/ FlushClear(p)
                      \/ GetLength(p)
                      \/ StateBegin(p) \/ (\E n \in DOMAIN Words : ReadWord(p, n)) \/ StateReturn(p)
               PROVE  CoreInv'
    BY <1>1 DEF Next
  <2>1. CASE AppendGrow(p) \/ AppendLen(p) \/ AppendStore(p)
    BY <2>1, AppendGrowInv, AppendLenInv, AppendStoreInv
  <2>2. CASE FlushCopy(p) \/ FlushArr(p) \/ FlushLen(p) \/ FlushClear(p)
    BY <2>2, FlushCopyInv, FlushHeaderInv, FlushClearInv
  <2>3. CASE GetLength(p) \/ StateBegin(p) \/ StateReturn(p)
    BY <2>3, GetLengthInv, StateBeginInv, StateReturnInv
  <2>4. CASE \E n \in DOMAIN Words : ReadWord(p, n)
    BY <2>4, ReadWordInv
  <2> QED
    BY <2>1, <2>2, <2>3, <2>4
<1>2. CASE UNCHANGED vars
  <2>1. UNCHANGED <<mu, arrays, flushed, buffered, pc, local, seen, reply, appended, done>>
    BY <1>2 DEF vars, slices, ghosts
  <2>2. Flushing' = Flushing /\ Appending' = Appending
    BY <2>1 DEF Flushing, Appending
  <2>3. Settled' = Settled /\ Stored' = Stored /\ Landed' = Landed
    BY <2>1, <2>2 DEF Settled, Stored, Landed
  <2>4. \A a, n, base : Holds(a, n, base)' <=> Holds(a, n, base)
    BY <2>1 DEF Holds
  <2>5. \A a : (WasFlushed(a)' <=> WasFlushed(a)) /\ (WasBuffered(a)' <=> WasBuffered(a))
    BY <2>1, <2>3 DEF WasFlushed, WasBuffered
  <2>6. \A slice : /\ Shown(slice)' = Shown(slice) /\ Within(slice)' = Within(slice)
                   /\ Cap(slice)' = Cap(slice) /\ Torn(slice)' = Torn(slice)
    BY <2>1 DEF Shown, Within, Torn, Cap
  <2>7. WriterTypeOK' /\ LockInv' /\ LocalInv' /\ FlushInv'
    BY <2>1, <2>3, <2>6 DEF CoreInv, WriterTypeOK, IsSlice, LockInv, LocalInv, LocalOf, FlushInv
  <2>8. ItemsInv' /\ ApartInv'
    BY <2>1, <2>2, <2>3, <2>4, <2>5, <2>6 DEF CoreInv, ItemsInv, ApartInv
  <2>9. ASSUME NEW p \in Procs
        PROVE  SeenBy(p)' /\ ReaderOf(p)'
    <3>1. SeenBy(p) /\ ReaderOf(p)
      BY DEF CoreInv
    <3>2. SeenBy(p)'
      BY <2>1, <2>3, <2>5, <2>6, <3>1 DEF SeenBy
    <3>3. Read(p)' = Read(p) /\ ReadFrom(p)' = ReadFrom(p) /\ \A n : Word(p, n)' = Word(p, n)
      BY <2>1 DEF Read, Word, ReadFrom
    <3>4. WordsOf(p)' <=> WordsOf(p)
      BY <2>1, <2>3, <2>5, <3>3 DEF WordsOf
    <3>5. \A i, j : (InFlushed(p, i)' <=> InFlushed(p, i)) /\ (InBuffered(p, i, j)' <=> InBuffered(p, i, j))
      BY <2>1, <2>3, <3>3 DEF InFlushed, InBuffered
    <3>6. Covered(p)' <=> Covered(p)
      BY <2>1, <3>5 DEF Covered
    <3>7. ReaderOf(p)'
      BY <2>1, <2>2, <3>1, <3>4, <3>6 DEF ReaderOf
    <3> QED
      BY <3>2, <3>7
  <2>10. NothingForgotten'
    BY <2>1, <2>6 DEF CoreInv, NothingForgotten
  <2> QED
    BY <2>7, <2>8, <2>9, <2>10 DEF CoreInv
<1> QED
  BY <1>1, <1>2

-----------------------------------------------------------------------------
(* What State returns whole *)

Readers == {q \in Procs : pc[q] \in {"reading", "returning"}}

\* Unless a slice is being moved, a step leaves it in its array, and that as large.
SameArrays(q) ==
    /\ moved[q] \subseteq moved'[q]
    /\ \/ "buffered" \in moved'[q]
       \/ buffered'.arr = buffered.arr /\ Cap(buffered)' = Cap(buffered)
    /\ \/ "flushed" \in moved'[q]
       \/ Landed.arr = flushed.arr => (Landed.arr)' = flushed'.arr /\ flushed'.arr = flushed.arr

LEMMA WholeKept ==
    ASSUME CoreInv, NEW q \in Procs, WholeOf(q), pc'[q] = pc[q],
           q \in Readers => SameArrays(q),
           \/ local'[q] = local[q]
           \/ \E event \in {"flush", "reused"} : local'[q] = [local[q] EXCEPT !.during = event]
    PROVE  WholeOf(q)'
<1>1. PICK read \in SUBSET (1..4) : local[q] \in Locals(read)
  BY DEF CoreInv, LocalInv, LocalOf
<1>2. local'[q].words = local[q].words
  BY <1>1 DEF Locals
<1>3. Read(q)' = Read(q) /\ \A n : Word(q, n)' = Word(q, n)
  BY <1>2 DEF Read, Word
<1> QED
  BY <1>3 DEF WholeOf, SameArrays, Readers

SliceNames == {"buffered", "flushed"}

LEMMA MovingIs ==
    ASSUME TypeOK, NEW name \in SliceNames
    PROVE  /\ Moving(name) \in [Procs -> SUBSET SliceNames]
           /\ \A q \in Procs : moved[q] \subseteq Moving(name)[q]
           /\ \A q \in Readers : name \in Moving(name)[q]
  BY DEF TypeOK, Moving, SliceNames, Readers

\* A step of a process that is not in State, as far as the others notice it.
LEMMA OthersWhole ==
    ASSUME CoreInv, CoreInv', TypeOK, WholeInv, NEW p \in Procs,
           p \notin Readers, pc'[p] \notin {"reading", "returning"},
           moved' \in [Procs -> SUBSET SliceNames],
           reply'.kind # "state",
           \A q \in Procs \ {p} :
              /\ pc'[q] = pc[q]
              /\ q \in Readers => SameArrays(q)
              /\ \/ local'[q] = local[q]
                 \/ \E event \in {"flush", "reused"} : local'[q] = [local[q] EXCEPT !.during = event]
    PROVE  TypeOK' /\ WholeInv'
<1>1. ASSUME NEW q \in Procs
      PROVE  WholeOf(q)'
  <2>1. CASE q = p
    BY <2>1 DEF WholeOf
  <2>2. CASE q # p
    <3>1. WholeOf(q)
      BY DEF WholeInv
    <3> QED
      BY <2>2, <3>1, WholeKept
  <2> QED
    BY <2>1, <2>2
<1>2. TypeOK'
  BY DEF TypeOK, CoreInv, SliceNames
<1> QED
  BY <1>1, <1>2 DEF WholeInv, TornOnlyByMove

LEMMA AppendWhole ==
    ASSUME CoreInv, CoreInv', TypeOK, WholeInv, NEW p \in Procs,
           AppendGrow(p) \/ AppendLen(p) \/ AppendStore(p)
    PROVE  TypeOK' /\ WholeInv'
<1>1. pc \in [Procs -> {"idle", "reading", "returning"} \cup AppendPlaces \cup FlushPlaces]
      /\ moved \in [Procs -> SUBSET SliceNames]
  BY DEF CoreInv, WriterTypeOK, TypeOK, SliceNames
<1>2. CASE AppendGrow(p)
  <2>1. /\ mu = None /\ pc[p] = "idle" /\ pc' = [pc EXCEPT ![p] = "appendLen"] /\ mu' = p
        /\ local' = Meanwhile("flush", "reused") /\ flushed' = flushed /\ reply' = NoReply
    BY <1>2 DEF AppendGrow, Begin, Goto
  <2>2. Landed = flushed /\ Landed' = flushed'
    <3>1. pc'[mu'] = "appendLen"
      BY <1>1, <2>1
    <3> QED
      BY <2>1, <3>1 DEF Landed, Flushing, FlushPlaces
  <2>3. \/ UNCHANGED <<arrays, buffered, moved>>
        \/ moved' = Moving("buffered")
    BY <1>2 DEF AppendGrow
  <2>4. ASSUME NEW q \in Readers
        PROVE  SameArrays(q)
    BY <2>1, <2>2, <2>3, <2>4, MovingIs DEF SameArrays, SliceNames, Cap, Readers
  <2>5. moved' \in [Procs -> SUBSET SliceNames]
    BY <1>1, <2>3, MovingIs DEF SliceNames
  <2>6. \A q \in Procs : \/ local'[q] = local[q]
                         \/ local'[q] = [local[q] EXCEPT !.during = "reused"]
    BY <2>1 DEF Meanwhile
  <2> QED
    BY <1>1, <2>1, <2>4, <2>5, <2>6, OthersWhole DEF Readers, NoReply
<1>3. CASE AppendLen(p) \/ AppendStore(p)
  <2>1. /\ pc[p] \in {"appendLen", "appendItem"} /\ mu = p
        /\ \E place \in {"idle", "appendItem"} :
              pc' = [pc EXCEPT ![p] = place] /\ mu' = IF place = "idle" THEN None ELSE p
        /\ UNCHANGED <<local, flushed, moved>> /\ reply' = NoReply
        /\ buffered'.arr = buffered.arr
    <3>1. pc[p] \in {"appendLen", "appendItem"} => mu = p
      BY DEF CoreInv, LockInv, AppendPlaces
    <3>2. buffered \in [arr : DOMAIN arrays, len : 0..MaxItems]
      BY DEF CoreInv, WriterTypeOK, IsSlice
    <3> QED
      BY <1>3, <3>1, <3>2 DEF AppendLen, AppendStore, Goto, ghosts, slices
  <2>2. Landed = flushed /\ Landed' = flushed'
    <3>1. ~Flushing
      BY <2>1 DEF Flushing, FlushPlaces
    <3>2. ~Flushing'
      BY <1>1, <2>1 DEF Flushing, FlushPlaces
    <3> QED
      BY <3>1, <3>2 DEF Landed
  <2>3. Cap(buffered)' = Cap(buffered)
    <3>1. CASE AppendLen(p)
      BY <2>1, <3>1 DEF AppendLen, Cap
    <3>2. CASE AppendStore(p)
      <4>1. /\ arrays' = [arrays EXCEPT ![buffered.arr][buffered.len] = appended]
            /\ arrays \in Seq(Seq(0..MaxItems)) /\ buffered.arr \in DOMAIN arrays
        BY <3>2 DEF AppendStore, CoreInv, WriterTypeOK, IsSlice
      <4>2. arrays[buffered.arr] \in Seq(0..MaxItems)
        BY <4>1
      <4>3. arrays'[buffered.arr] = [arrays[buffered.arr] EXCEPT ![buffered.len] = appended]
        BY <4>1
      <4> QED
        BY <2>1, <4>2, <4>3 DEF Cap
    <3> QED
      BY <1>3, <3>1, <3>2
  <2>4. \A q \in Readers : SameArrays(q)
    BY <2>1, <2>2, <2>3 DEF SameArrays
  <2> QED
    BY <1>1, <2>1, <2>4, OthersWhole DEF Readers, NoReply
<1> QED
  BY <1>2, <1>3

LEMMA FlushWhole ==
    ASSUME CoreInv, CoreInv', TypeOK, WholeInv, NEW p \in Procs,
           FlushCopy(p) \/ FlushArr(p) \/ FlushLen(p) \/ FlushClear(p)
    PROVE  TypeOK' /\ WholeInv'
<1>1. pc \in [Procs -> {"idle", "reading", "returning"} \cup AppendPlaces \cup FlushPlaces]
      /\ moved \in [Procs -> SUBSET SliceNames]
      /\ local = [q \in Procs |-> local[q]]
      /\ flushed \in [arr : DOMAIN arrays, len : 0..MaxItems]
      /\ buffered \in [arr : DOMAIN arrays, len : 0..MaxItems]
      /\ arrays \in Seq(Seq(0..MaxItems))
  BY DEF CoreInv, WriterTypeOK, TypeOK, SliceNames, LocalInv, IsSlice
<1>2. CASE FlushCopy(p)
  <2> DEFINE room == flushed.len + buffered.len <= Cap(flushed)
             arr == IF room THEN flushed.arr ELSE Len(arrays')
  <2>1. /\ mu = None /\ pc[p] = "idle" /\ pc' = [pc EXCEPT ![p] = "flushHeader"] /\ mu' = p
        /\ local' = [local EXCEPT ![p].arr = arr, ![p].len = flushed.len + buffered.len]
        /\ moved' = IF room THEN moved ELSE Moving("flushed")
        /\ UNCHANGED <<flushed, buffered>> /\ reply' = NoReply
    BY <1>2 DEF FlushCopy, Begin, Goto, Destination, slices
  <2>2. Landed = flushed
    BY <2>1, FreeSlices
  <2>3. (Landed.arr)' = arr
    <3>1. mu' # None /\ pc'[mu'] \in FlushPlaces
      BY <1>1, <2>1, NoneAssumption DEF FlushPlaces
    <3>2. \E read \in SUBSET (1..4) : local[p] \in Locals(read)
      BY DEF CoreInv, LocalInv, LocalOf
    <3> HIDE DEF arr
    <3>3. local'[p].arr = arr
      BY <1>1, <2>1, <3>2 DEF Locals
    <3> QED
      BY <2>1, <3>1, <3>3 DEF Landed, Flushing
  <2>4. Cap(buffered)' = Cap(buffered)
    <3>1. \A a \in DOMAIN arrays : Len(arrays'[a]) = Len(arrays[a])
      BY <1>2, FlushCopyInv DEF Kept
    <3> QED
      BY <1>1, <2>1, <3>1 DEF Cap
  <2>5. ASSUME NEW q \in Readers
        PROVE  SameArrays(q)
    <3>1. CASE room
      BY <2>1, <2>2, <2>3, <2>4, <3>1 DEF SameArrays
    <3>2. CASE ~room
      BY <2>1, <2>4, <2>5, <3>2, MovingIs DEF SameArrays, SliceNames, Readers
    <3> QED
      BY <3>1, <3>2
  <2>6. moved' \in [Procs -> SUBSET SliceNames]
    BY <1>1, <2>1, MovingIs DEF SliceNames
  <2>7. \A q \in Procs \ {p} : local'[q] = local[q] /\ pc'[q] = pc[q]
    BY <1>1, <2>1
  <2> HIDE DEF room, arr
  <2> QED
    BY <1>1, <2>1, <2>5, <2>6, <2>7, OthersWhole DEF Readers, NoReply
<1>3. CASE FlushArr(p) \/ FlushLen(p)
  <2>1. /\ pc[p] \in FlushPlaces /\ mu = p /\ mu' = p
        /\ \E place \in FlushPlaces : pc' = [pc EXCEPT ![p] = place]
        /\ UNCHANGED <<arrays, local, buffered, moved>> /\ reply' = NoReply
        /\ flushed'.arr \in {flushed.arr, local[p].arr}
    <3>1. pc[p] \in FlushPlaces => mu = p
      BY DEF CoreInv, LockInv
    <3> QED
      BY <1>1, <1>3, <3>1 DEF FlushArr, FlushLen, Goto, ghosts, FlushPlaces
  <2>2. (Landed.arr)' = Landed.arr /\ Landed.arr = local[p].arr
    <3>1. Flushing /\ Flushing'
      BY <1>1, <2>1, NoneAssumption DEF Flushing
    <3> QED
      BY <2>1, <3>1 DEF Landed
  <2>3. \A q \in Readers : SameArrays(q)
    BY <2>1, <2>2 DEF SameArrays, Cap
  <2>4. p \notin Readers /\ pc'[p] \notin {"reading", "returning"} /\ \A q \in Procs \ {p} : pc'[q] = pc[q]
    BY <1>1, <2>1 DEF Readers, FlushPlaces
  <2> QED
    BY <1>1, <2>1, <2>3, <2>4, OthersWhole DEF NoReply
<1>4. CASE FlushClear(p)
  <2>1. /\ pc[p] = "flushClear" /\ pc' = [pc EXCEPT ![p] = "idle"]
        /\ buffered'.arr = buffered.arr /\ moved' = moved /\ reply' = [kind |-> "flush"]
        /\ local' = [Meanwhile("none", "flush") EXCEPT ![p] = NoLocal]
    BY <1>1, <1>4 DEF FlushClear, Goto, Cleared, ghosts
  <2>2. UNCHANGED <<arrays, flushed, Landed>>
    BY <1>4, FlushClearInv
  <2>3. \A q \in Readers : SameArrays(q)
    BY <2>1, <2>2 DEF SameArrays, Cap
  <2>4. \A q \in Procs \ {p} : \/ local'[q] = local[q]
                               \/ local'[q] = [local[q] EXCEPT !.during = "flush"]
    BY <2>1 DEF Meanwhile
  <2> QED
    BY <1>1, <2>1, <2>3, <2>4, OthersWhole DEF Readers
<1> QED
  BY <1>2, <1>3, <1>4

\* A slice that lies in one array, at a length that the array has room for, is whole.
LEMMA StateWhole ==
    ASSUME CoreInv, CoreInv', TypeOK, WholeInv, NEW p \in Procs,
           \/ GetLength(p) \/ StateBegin(p) \/ StateReturn(p)
           \/ \E n \in DOMAIN Words : ReadWord(p, n)
    PROVE  TypeOK' /\ WholeInv'
<1>1. OutsideStep(p) /\ pc \in [Procs -> {"idle", "reading", "returning"} \cup AppendPlaces \cup FlushPlaces]
      /\ moved \in [Procs -> SUBSET SliceNames]
  BY GetLengthInv, StateBeginInv, StateReturnInv, ReadWordInv
     DEF CoreInv, WriterTypeOK, TypeOK, SliceNames
<1>2. /\ UNCHANGED <<arrays, flushed, buffered>> /\ Landed' = Landed
      /\ \A q \in Procs \ {p} : pc'[q] = pc[q] /\ local'[q] = local[q]
  BY <1>1, OutsideLeaves DEF OutsideStep
<1>3. /\ moved' \in [Procs -> SUBSET SliceNames]
      /\ \A q \in Procs \ {p} : moved'[q] = moved[q]
  <2>1. \/ moved' = moved
        \/ \E names \in SUBSET SliceNames : moved' = [moved EXCEPT ![p] = names]
    <3>1. CASE StateBegin(p)
      BY <3>1 DEF StateBegin, SliceNames
    <3>2. CASE StateReturn(p)
      BY <3>2 DEF StateReturn
    <3>3. CASE GetLength(p) \/ \E n \in DOMAIN Words : ReadWord(p, n)
      BY <3>3 DEF GetLength, ReadWord, ghosts
    <3> QED
      BY <3>1, <3>2, <3>3
  <2> QED
    BY <1>1, <2>1
<1>4. ASSUME NEW q \in Procs, q # p
      PROVE  WholeOf(q)'
  <2>1. SameArrays(q)
    BY <1>2, <1>3, <1>4 DEF SameArrays, Cap
  <2> QED
    BY <1>2, <1>4, <2>1, WholeKept DEF WholeInv
<1>5. TypeOK'
  BY <1>3 DEF TypeOK, CoreInv, SliceNames
<1>6. /\ buffered.len <= Cap(buffered)
      /\ Landed.len <= Len(arrays[Landed.arr])
  <2>1. buffered.len \in Nat /\ Cap(buffered) \in Nat
    BY MaxItemsAssumption DEF CoreInv, WriterTypeOK, IsSlice, Cap
  <2>2. buffered.len + (IF mu # None /\ pc[mu] = "appendLen" THEN 1 ELSE 0) <= Cap(buffered)
    BY DEF CoreInv, ItemsInv
  <2> QED
    BY <2>1, <2>2 DEF CoreInv, ItemsInv, Holds
<1>7. CASE GetLength(p)
  <2>1. pc'[p] = "idle" /\ reply'.kind = "length"
    BY <1>1, <1>7 DEF GetLength
  <2> QED
    BY <1>4, <1>5, <2>1 DEF WholeInv, WholeOf, TornOnlyByMove
<1>8. CASE StateBegin(p)
  <2>1. /\ reply' = NoReply /\ local' = [local EXCEPT ![p].due = done] /\ local[p] = NoLocal
        /\ local = [q \in Procs |-> local[q]]
        /\ moved'[p] = IF Flushing /\ local[mu].arr # flushed.arr THEN {"flushed"} ELSE {}
    BY <1>1, <1>8 DEF StateBegin, CoreInv, LocalInv, LocalOf
  <2>2. Read(p)' = {}
    <3>1. local'[p].words = << >>
      BY <2>1 DEF NoLocal
    <3> QED
      BY <3>1 DEF Read
  <2>3. "flushed" \notin moved'[p] => Landed.arr = flushed.arr
    BY <2>1 DEF Landed
  <2>4. WholeOf(p)'
    BY <1>2, <2>2, <2>3 DEF WholeOf
  <2> QED
    BY <1>4, <1>5, <2>1, <2>4 DEF WholeInv, TornOnlyByMove, NoReply
<1>9. ASSUME NEW n \in DOMAIN Words, ReadWord(p, n)
      PROVE  TypeOK' /\ WholeInv'
  <2>1. PICK read \in SUBSET (1..4) : local[p] \in Locals(read)
    BY DEF CoreInv, LocalInv, LocalOf
  <2>2. /\ reply' = NoReply /\ pc[p] = "reading" /\ moved' = moved
        /\ local = [q \in Procs |-> local[q]]
        /\ local' = [local EXCEPT ![p].words =
              [m \in Read(p) \cup {n} |-> IF m = n THEN Words[n] ELSE local[p].words[m]]]
    BY <1>9 DEF ReadWord, Read, ghosts, CoreInv, LocalInv
  <2>3. local'[p].words = [m \in Read(p) \cup {n} |-> IF m = n THEN Words[n] ELSE local[p].words[m]]
    BY <2>1, <2>2 DEF Locals
  <2>4. /\ Read(p)' = Read(p) \cup {n}
        /\ Word(p, n)' = Words[n]
        /\ \A m \in Read(p) : m # n => Word(p, m)' = Word(p, m)
    BY <2>3 DEF Read, Word
  <2>5. Words[1] = buffered.arr /\ Words[2] = buffered.len /\ Words[3] = flushed.arr
    BY DEF Words
  <2>6. WholeOf(p)
    BY DEF WholeInv
  <2>7. Cap(buffered)' = Cap(buffered)
    BY <1>2 DEF Cap
  <2>8. WholeOf(p)'
    BY <1>2, <1>6, <2>2, <2>4, <2>5, <2>6, <2>7 DEF WholeOf
  <2> QED
    BY <1>4, <1>5, <2>2, <2>8 DEF WholeInv, TornOnlyByMove, NoReply
<1>10. CASE StateReturn(p)
  <2> DEFINE bu == MakeSlice(local[p].words, 1)
             fl == MakeSlice(local[p].words, 3)
  <2>1. /\ pc[p] = "returning" /\ pc'[p] = "idle"
        /\ reply' = [kind |-> "state", buffered |-> bu, flushed |-> fl,
                     due |-> local[p].due, during |-> local[p].during, moved |-> moved[p]]
    BY <1>1, <1>10 DEF StateReturn, Goto
  <2>2. /\ WordsOf(p) /\ WholeOf(p) /\ Read(p) = 1..4
        /\ bu.arr = Word(p, 1) /\ bu.len = Word(p, 2) /\ fl.arr = Word(p, 3) /\ fl.len = Word(p, 4)
    BY <2>1 DEF CoreInv, ReaderOf, WordsOf, WholeInv, MakeSlice, Word
  <2> HIDE DEF bu, fl
  <2>3. ASSUME "buffered" \notin moved[p]
        PROVE  ~Torn(bu)
    <3>1. bu.arr = buffered.arr /\ bu.len <= Cap(buffered)
      BY <2>1, <2>2, <2>3 DEF WholeOf
    <3>2. bu.len \in Nat /\ Cap(buffered) \in Nat
      <4>1. \E read \in SUBSET (1..4) : local[p] \in Locals(read)
        BY DEF CoreInv, LocalInv, LocalOf
      <4>2. Word(p, 2) \in Nat
        BY <2>2, <4>1 DEF Locals, Read, Word
      <4>3. arrays \in Seq(Seq(0..MaxItems)) /\ buffered.arr \in DOMAIN arrays
        BY DEF CoreInv, WriterTypeOK, IsSlice
      <4> QED
        BY <2>2, <4>2, <4>3 DEF Cap
    <3> QED
      BY <3>1, <3>2 DEF Torn, Cap
  <2>4. ASSUME "flushed" \notin moved[p]
        PROVE  ~Torn(fl)
    <3>1. fl.arr = Landed.arr /\ fl.len <= Landed.len
      BY <2>1, <2>2, <2>4 DEF WholeOf, WordsOf
    <3>2. /\ fl.len \in Nat /\ Landed.len \in Nat /\ Len(arrays[Landed.arr]) \in Nat
      <4>1. \E read \in SUBSET (1..4) : local[p] \in Locals(read)
        BY DEF CoreInv, LocalInv, LocalOf
      <4>2. fl.len \in Nat
        BY <2>2, <4>1 DEF Locals, Read, Word
      <4>3. Landed.arr \in DOMAIN arrays /\ arrays \in Seq(Seq(0..MaxItems)) /\ Landed.len \in Nat
        BY DEF CoreInv, ItemsInv, Holds, WriterTypeOK
      <4> QED
        BY <4>2, <4>3
    <3> QED
      BY <1>6, <3>1, <3>2 DEF Torn, Cap
  <2>5. TornOnlyByMove'
    <3>1. Torn(reply.buffered)' = Torn(bu) /\ Torn(reply.flushed)' = Torn(fl) /\ reply'.moved = moved[p]
      BY <1>2, <2>1 DEF Torn, Cap
    <3> QED
      BY <2>3, <2>4, <3>1 DEF TornOnlyByMove
  <2> QED
    BY <1>4, <1>5, <2>1, <2>5 DEF WholeInv, WholeOf
<1> QED
  BY <1>7, <1>8, <1>9, <1>10

LEMMA InitInv == Init => IInv
<1> SUFFICES ASSUME Init PROVE IInv
  OBVIOUS
<1>1. CoreInv
  BY CoreInit
<1>2. /\ pc = [p \in Procs |-> "idle"] /\ moved = [p \in Procs |-> {}] /\ reply.kind = "none"
  BY DEF Init, NoReply
<1>3. TypeOK
  BY <1>1, <1>2 DEF TypeOK, CoreInv
<1> QED
  BY <1>1, <1>2, <1>3 DEF IInv, WholeInv, WholeOf, TornOnlyByMove

LEMMA NextInv == IInv /\ [Next]_vars => IInv'
<1> SUFFICES ASSUME IInv, [Next]_vars PROVE IInv'
  OBVIOUS
<1>1. CoreInv /\ CoreInv' /\ TypeOK /\ WholeInv
  BY CoreNext DEF IInv
<1>2. CASE Next
  <2>1. PICK p \in Procs :
           \/ AppendGrow(p) \/ AppendLen(p) \/ AppendStore(p)
           \/ FlushCopy(p) \/ FlushArr(p) \/ FlushLen(p) \/ FlushClear(p)
           \/ GetLength(p)
           \/ StateBegin(p) \/ (\E n \in DOMAIN Words : ReadWord(p, n)) \/ StateReturn(p)
    BY <1>2 DEF Next
  <2> QED
    BY <1>1, <2>1, AppendWhole, FlushWhole, StateWhole DEF IInv
<1>3. CASE UNCHANGED vars
  <2>1. UNCHANGED <<mu, arrays, flushed, buffered, pc, local, moved, reply>>
    BY <1>3 DEF vars, slices, ghosts
  <2>2. Landed' = Landed
    BY <2>1 DEF Landed, Flushing
  <2>3. \A q \in Procs : WholeOf(q)'
    BY <1>1, <2>1, <2>2 DEF WholeInv, WholeOf, Read, Word, Cap
  <2>4. TornOnlyByMove'
    BY <1>1, <2>1 DEF WholeInv, TornOnlyByMove, Torn, Cap
  <2> QED
    BY <1>1, <2>1, <2>3, <2>4 DEF IInv, WholeInv, TypeOK, CoreInv
<1> QED
  BY <1>2, <1>3

-----------------------------------------------------------------------------
(* The theorems *)

\* Spec => []IInv: at every step of an Append or a Flush, with State calls under way at
\* any point, the arrays hold the items in order where the slices, and the words that
\* State has read, need them.
THEOREM Invariant == Spec => []IInv
  BY InitInv, NextInv, PTL DEF Spec

\* Every variable has its type, each slice fits its array when the mutex is free, and
\* the two slices never share memory (writer.go:28, 35-36).
THEOREM TypeCorrect == Spec => []TypeOK
<1>1. IInv => TypeOK
  BY DEF IInv
<1> QED
  BY <1>1, Invariant, PTL

\* State, which takes no lock, misses no item whose Append had returned, unless a Flush
\* ends and an Append begins during the call; GetLength counts them all
\* (writer.go:13-15, 39-44).
THEOREM StateMissesNothing == Spec => []NothingForgotten
<1>1. IInv => NothingForgotten
  BY DEF IInv, CoreInv
<1> QED
  BY <1>1, Invariant, PTL

\* What State returns is torn, and not to be read, only if an Append or a Flush was moving
\* that slice to a larger array during the call; otherwise the flushed items that it
\* shows are never written again (writer.go:14, 28, 35).
THEOREM WhatWasSeenStays == Spec => []SnapshotSound
<1>1. IInv => SnapshotSound
  BY DEF IInv, CoreInv, WholeInv, SeenBy, SnapshotSound, FlushedStable
<1> QED
  BY <1>1, Invariant, PTL

-----------------------------------------------------------------------------
(* The locked methods implement buffered_writer.fizz *)

FlushedItems == SubSeq(arrays[flushed.arr], 1, Settled)
BufferedItems == SubSeq(arrays[buffered.arr], 1, Stored)

\* What the slices stand for is told by how much of them counts.
LEMMA ItemsAre ==
    ASSUME CoreInv
    PROVE  /\ Settled \in Nat /\ Stored \in Nat
           /\ FlushedItems \in Seq(0..MaxItems) /\ Len(FlushedItems) = Settled
           /\ BufferedItems \in Seq(0..MaxItems) /\ Len(BufferedItems) = Stored
           /\ \A i \in 1..Settled : FlushedItems[i] = i
           /\ \A i \in 1..Stored : BufferedItems[i] = Settled + i
<1>1. /\ Settled \in Nat /\ Stored \in Nat /\ arrays \in Seq(Seq(0..MaxItems))
      /\ Holds(flushed.arr, Settled, 0) /\ Holds(buffered.arr, Stored, Settled)
  BY DEF CoreInv, WriterTypeOK, ItemsInv
<1>2. /\ arrays[flushed.arr] \in Seq(0..MaxItems) /\ Settled <= Len(arrays[flushed.arr])
      /\ arrays[buffered.arr] \in Seq(0..MaxItems) /\ Stored <= Len(arrays[buffered.arr])
      /\ \A i \in 1..Settled : arrays[flushed.arr][i] = i
      /\ \A i \in 1..Stored : arrays[buffered.arr][i] = Settled + i
  BY <1>1 DEF Holds
<1>3. /\ FlushedItems \in Seq(0..MaxItems) /\ Len(FlushedItems) = Settled
      /\ \A i \in 1..Settled : FlushedItems[i] = arrays[flushed.arr][i]
  BY <1>1, <1>2, PrefixIs DEF FlushedItems
<1>4. /\ BufferedItems \in Seq(0..MaxItems) /\ Len(BufferedItems) = Stored
      /\ \A i \in 1..Stored : BufferedItems[i] = arrays[buffered.arr][i]
  BY <1>1, <1>2, PrefixIs DEF BufferedItems
<1> QED
  BY <1>1, <1>2, <1>3, <1>4

LEMMA ItemsAreNext ==
    ASSUME CoreInv'
    PROVE  /\ Settled' \in Nat /\ Stored' \in Nat
           /\ FlushedItems' \in Seq(0..MaxItems) /\ Len(FlushedItems') = Settled'
           /\ BufferedItems' \in Seq(0..MaxItems) /\ Len(BufferedItems') = Stored'
           /\ \A i \in 1..Settled' : FlushedItems'[i] = i
           /\ \A i \in 1..Stored' : BufferedItems'[i] = Settled' + i
<1>1. /\ Settled' \in Nat /\ Stored' \in Nat /\ arrays' \in Seq(Seq(0..MaxItems))
      /\ Holds(flushed.arr, Settled, 0)' /\ Holds(buffered.arr, Stored, Settled)'
  BY DEF CoreInv, WriterTypeOK, ItemsInv
<1>2. /\ arrays'[flushed'.arr] \in Seq(0..MaxItems) /\ Settled' <= Len(arrays'[flushed'.arr])
      /\ arrays'[buffered'.arr] \in Seq(0..MaxItems) /\ Stored' <= Len(arrays'[buffered'.arr])
      /\ \A i \in 1..Settled' : arrays'[flushed'.arr][i] = i
      /\ \A i \in 1..Stored' : arrays'[buffered'.arr][i] = Settled' + i
  BY <1>1 DEF Holds
<1>3. /\ FlushedItems' \in Seq(0..MaxItems) /\ Len(FlushedItems') = Settled'
      /\ \A i \in 1..Settled' : FlushedItems'[i] = arrays'[flushed'.arr][i]
  BY <1>1, <1>2, PrefixIs DEF FlushedItems
<1>4. /\ BufferedItems' \in Seq(0..MaxItems) /\ Len(BufferedItems') = Stored'
      /\ \A i \in 1..Stored' : BufferedItems'[i] = arrays'[buffered'.arr][i]
  BY <1>1, <1>2, PrefixIs DEF BufferedItems
<1> QED
  BY <1>1, <1>2, <1>3, <1>4

\* A step in which the same items count is no step of the specification.
LEMMA SameItems ==
    ASSUME CoreInv, CoreInv', UNCHANGED <<Settled, Stored>>
    PROVE  UNCHANGED <<FlushedItems, BufferedItems>>
<1>1. FlushedItems' = FlushedItems
  BY ItemsAre, ItemsAreNext, SeqEqual
<1>2. BufferedItems' = BufferedItems
  BY ItemsAre, ItemsAreNext, SeqEqual
<1> QED
  BY <1>1, <1>2

LEMMA StoreAppends ==
    ASSUME CoreInv, NEW p \in Procs, AppendStore(p)
    PROVE  /\ appended \in 1..MaxItems
           /\ BufferedItems' = Append(BufferedItems, appended) /\ FlushedItems' = FlushedItems
<1>1. /\ CoreInv' /\ Settled' = Settled /\ Stored' = Stored + 1
      /\ appended \in 1..MaxItems /\ appended = Settled + Stored'
  BY AppendStoreInv
<1> DEFINE longer == Append(BufferedItems, appended)
<1>2. FlushedItems' = FlushedItems
  BY <1>1, ItemsAre, ItemsAreNext, SeqEqual
<1>3. /\ longer \in Seq(0..MaxItems) /\ Len(longer) = Stored + 1
      /\ \A i \in 1..Stored + 1 : longer[i] = Settled + i
  <2>1. BufferedItems \in Seq(0..MaxItems) /\ Len(BufferedItems) = Stored /\ Stored \in Nat
        /\ appended \in 0..MaxItems /\ Settled \in Nat
        /\ \A i \in 1..Stored : BufferedItems[i] = Settled + i
    BY <1>1, ItemsAre
  <2>2. /\ longer \in Seq(0..MaxItems) /\ Len(longer) = Stored + 1
        /\ \A i \in 1..Stored : longer[i] = BufferedItems[i]
        /\ longer[Stored + 1] = appended
    BY <2>1
  <2>3. \A i \in 1..Stored + 1 : i \in 1..Stored \/ i = Stored + 1
    BY <2>1
  <2> HIDE DEF longer
  <2> QED
    BY <1>1, <2>1, <2>2, <2>3
<1> HIDE DEF longer
<1>4. BufferedItems' = longer
  BY <1>1, <1>3, ItemsAreNext, SeqEqual
<1> QED
  BY <1>1, <1>2, <1>4 DEF longer

LEMMA ClearFlushes ==
    ASSUME CoreInv, NEW p \in Procs, FlushClear(p)
    PROVE  FlushedItems' = FlushedItems \o BufferedItems /\ BufferedItems' = << >>
<1>1. CoreInv' /\ Settled' = Settled + Stored /\ Stored' = 0
  BY FlushClearInv
<1> DEFINE both == FlushedItems \o BufferedItems
<1>2. /\ both \in Seq(0..MaxItems) /\ Len(both) = Settled + Stored
      /\ \A i \in 1..Settled + Stored : both[i] = i
  <2>1. /\ Settled \in Nat /\ Stored \in Nat
        /\ FlushedItems \in Seq(0..MaxItems) /\ Len(FlushedItems) = Settled
        /\ BufferedItems \in Seq(0..MaxItems) /\ Len(BufferedItems) = Stored
        /\ \A i \in 1..Settled : FlushedItems[i] = i
        /\ \A i \in 1..Stored : BufferedItems[i] = Settled + i
    BY ItemsAre
  <2>2. /\ both \in Seq(0..MaxItems) /\ Len(both) = Settled + Stored
        /\ \A i \in 1..Settled + Stored :
              both[i] = IF i <= Settled THEN FlushedItems[i] ELSE BufferedItems[i - Settled]
    BY <2>1
  <2>3. \A i \in 1..Settled + Stored :
           IF i <= Settled THEN i \in 1..Settled
                           ELSE i - Settled \in 1..Stored /\ Settled + (i - Settled) = i
    BY <2>1
  <2> HIDE DEF both
  <2> QED
    BY <2>1, <2>2, <2>3
<1> HIDE DEF both
<1>3. FlushedItems' = both
  BY <1>1, <1>2, ItemsAreNext, SeqEqual
<1>4. BufferedItems' = << >>
  BY <1>1, ItemsAreNext
<1> QED
  BY <1>3, <1>4 DEF both

\* To callers of the methods that lock, an Append takes effect when its item is stored
\* and a Flush when the buffer is cleared, each in one step of buffered_writer.fizz
\* (writer.go:20-44).
THEOREM Refinement == Spec => ImplementsWriter
<1>1. Init => Writer!WriterInit
  <2> SUFFICES ASSUME Init PROVE FlushedItems = << >> /\ BufferedItems = << >>
    BY DEF Writer!WriterInit, FlushedItems, BufferedItems
  <2>1. CoreInv
    BY CoreInit
  <2>2. Settled = 0 /\ Stored = 0
    BY FreeSlices DEF Init, Empty
  <2> QED
    BY <2>1, <2>2, ItemsAre
<1>2. CoreInv /\ CoreInv' /\ [Next]_vars => [Writer!WriterNext]_(Writer!writerVars)
  <2> SUFFICES ASSUME CoreInv, CoreInv', [Next]_vars
               PROVE  \/ \E x \in 1..MaxItems :
                            BufferedItems' = Append(BufferedItems, x) /\ UNCHANGED FlushedItems
                      \/ FlushedItems' = FlushedItems \o BufferedItems /\ BufferedItems' = << >>
                      \/ UNCHANGED <<FlushedItems, BufferedItems>>
    BY DEF Writer!WriterNext, Writer!AppendItem, Writer!FlushItems, Writer!writerVars,
           FlushedItems, BufferedItems
  <2>1. CASE UNCHANGED vars
    <3>1. UNCHANGED <<mu, arrays, flushed, buffered, pc, local>>
      BY <2>1 DEF vars, slices
    <3>2. Flushing' = Flushing
      BY <3>1 DEF Flushing
    <3>3. UNCHANGED <<Settled, Stored>>
      BY <3>1, <3>2 DEF Settled, Stored
    <3> QED
      BY <3>3, SameItems
  <2>2. ASSUME NEW p \in Procs, AppendGrow(p) \/ AppendLen(p) \/ FlushCopy(p)
        PROVE  UNCHANGED <<FlushedItems, BufferedItems>>
    BY <2>2, AppendGrowInv, AppendLenInv, FlushCopyInv, SameItems
  <2>3. ASSUME NEW p \in Procs, FlushArr(p) \/ FlushLen(p)
        PROVE  UNCHANGED <<FlushedItems, BufferedItems>>
    BY <2>3, FlushHeaderInv, SameItems
  <2>4. ASSUME NEW p \in Procs, OutsideStep(p)
        PROVE  UNCHANGED <<FlushedItems, BufferedItems>>
    BY <2>4, OutsideLeaves, SameItems
  <2>5. ASSUME NEW p \in Procs,
               GetLength(p) \/ StateBegin(p) \/ (\E n \in DOMAIN Words : ReadWord(p, n)) \/ StateReturn(p)
        PROVE  UNCHANGED <<FlushedItems, BufferedItems>>
    BY <2>4, <2>5, GetLengthInv, StateBeginInv, ReadWordInv, StateReturnInv
  <2>6. ASSUME NEW p \in Procs, AppendStore(p)
        PROVE  \E x \in 1..MaxItems :
                  BufferedItems' = Append(BufferedItems, x) /\ UNCHANGED FlushedItems
    BY <2>6, StoreAppends
  <2>7. ASSUME NEW p \in Procs, FlushClear(p)
        PROVE  FlushedItems' = FlushedItems \o BufferedItems /\ BufferedItems' = << >>
    BY <2>7, ClearFlushes
  <2> QED
    BY <2>1, <2>2, <2>3, <2>5, <2>6, <2>7 DEF Next
<1>3. IInv => CoreInv
  BY DEF IInv
<1> QED
  BY <1>1, <1>2, <1>3, Invariant, PTL DEF Spec, ImplementsWriter, Writer!WriterSpec
=============================================================================
