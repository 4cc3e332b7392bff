--------------------------- MODULE BufferedWriter ---------------------------
(***************************************************************************)
(* The buffered writer of buffered-writer/go/writer.go, down to the words of *)
(* its slices.  A slice is a pointer to an array and a length; append writes *)
(* into the array when there is room and into a larger copy when there is    *)
(* not.  Append, Flush and GetLength hold mu, State does not: it races with  *)
(* them and may read each word between any two of their stores.             *)
(*                                                                         *)
(* Loads and stores happen one after the other, in the order in which the    *)
(* compiler emits them: append of an item stores a new array, then the       *)
(* length, then the item; append of a slice copies, then stores the two      *)
(* words in either order.  The capacity is that of the array.               *)
(***************************************************************************)
EXTENDS Naturals, FiniteSets, Sequences, Functions

CONSTANTS
    Procs,      \* goroutines that call the writer
    None,       \* no goroutine: the owner of a free mutex
    MaxItems    \* bound on the number of Appends

ASSUME MaxItemsAssumption == MaxItems \in Nat
ASSUME NoneAssumption == None \notin Procs

VARIABLES
    mu,         \* the mutex
    arrays,     \* the arrays that were allocated; an array is never freed
    flushed,    \* the two slices, as [arr |-> index in arrays, len |-> length]
    buffered,
    pc,         \* where each goroutine is
    local,      \* what each keeps: the flushed slice to store, the words State has read
    seen,       \* ghost: the flushed part of what State returned last, and its items then
    moved,      \* ghost: the slices that were being moved during a State call under way
    reply,      \* ghost: what the call that the last step ended returned
    appended,   \* ghost: the number of Appends that have begun
    done        \* ghost: the items whose Append has returned

slices == <<flushed, buffered>>
ghosts == <<seen, moved, appended, done>>
vars == <<mu, arrays, slices, pc, local, reply, ghosts>>

Empty == [arr |-> 1, len |-> 0]

\* local[p].during: what happened during a State call, "none", a "flush" that ended,
\* or after that an Append too, so that the buffer was "reused".
NoLocal == [arr |-> 1, len |-> 0, words |-> << >>, due |-> {}, during |-> "none"]
NoReply == [kind |-> "none"]

Cap(slice) == Len(arrays[slice.arr])

\* A slice that reaches beyond its array, as State may copy one: an old array, of no items
\* at first, with a new length.  Reading it there faults, or shows what else is in memory.
Torn(slice) == slice.len > Cap(slice)

\* What a slice shows that is not torn, and the items that are within the array of any.
Shown(slice) == SubSeq(arrays[slice.arr], 1, slice.len)
Within(slice) == {arrays[slice.arr][i] : i \in 1..slice.len \cap DOMAIN arrays[slice.arr]}

\* The words that State copies.
Words == <<buffered.arr, buffered.len, flushed.arr, flushed.len>>
BufferedWords == {1, 2}
FlushedWords == {3, 4}
MakeSlice(words, n) == [arr |-> words[n], len |-> words[n + 1]]

\* growslice for a few words: at least twice the capacity; new memory is zero.
Grown(slice, len) ==
    LET cap == IF len > 2 * Cap(slice) THEN len ELSE 2 * Cap(slice)
    IN  [i \in 1..cap |-> IF i <= slice.len THEN arrays[slice.arr][i] ELSE 0]

-----------------------------------------------------------------------------
(* Decisions of the code, named; each Mutant is a mistake the properties      *)
(* below are known to catch in the decision that follows it.                *)

\* Flush, line 36: the slice that is left.
MutantCleared(slice) == slice
Cleared(slice) == [slice EXCEPT !.len = 0]

\* Flush, line 35: the array of the flushed items from then on.
MutantDestination(arr) == IF flushed.len = 0 THEN buffered.arr ELSE arr
Destination(arr) == arr

\* State: the words of buffered are read before those of flushed.
MutantMayRead(n, read) == n \in FlushedWords \/ FlushedWords \subseteq read
MayRead(n, read) == n \in BufferedWords \/ BufferedWords \subseteq read

-----------------------------------------------------------------------------
Init ==
    /\ mu = None
    /\ arrays = << << >> >>
    /\ flushed = Empty
    /\ buffered = Empty
    /\ pc = [p \in Procs |-> "idle"]
    /\ local = [p \in Procs |-> NoLocal]
    /\ seen = [p \in Procs |-> [slice |-> Empty, items |-> << >>]]
    /\ moved = [p \in Procs |-> {}]
    /\ reply = NoReply
    /\ appended = 0
    /\ done = {}

Goto(p, place) == pc' = [pc EXCEPT ![p] = place]

AppendPlaces == {"appendLen", "appendItem"}
FlushPlaces == {"flushHeader", "flushArr", "flushLen", "flushClear"}
Flushing == mu # None /\ pc[mu] \in FlushPlaces

\* The calls of State under way notice an event.
Meanwhile(from, to) ==
    [q \in Procs |-> IF pc[q] \in {"reading", "returning"} /\ local[q].during = from
                     THEN [local[q] EXCEPT !.during = to] ELSE local[q]]

\* So they do when a slice gets a larger array.
Moving(slice) ==
    [q \in Procs |-> IF pc[q] \in {"reading", "returning"} THEN moved[q] \cup {slice} ELSE moved[q]]

Begin(p) == pc[p] = "idle" /\ mu = None /\ mu' = p /\ reply' = NoReply

-----------------------------------------------------------------------------
(* Append *)

\* mu.Lock, and a larger array if there is no room: nothing shows yet but that.
AppendGrow(p) ==
    /\ Begin(p)
    /\ appended < MaxItems
    /\ appended' = appended + 1
    /\ IF buffered.len < Cap(buffered)
       THEN UNCHANGED <<arrays, buffered, moved>>
       ELSE /\ arrays' = Append(arrays, Grown(buffered, buffered.len + 1))
            /\ buffered' = [buffered EXCEPT !.arr = Len(arrays')]
            /\ moved' = Moving("buffered")
    /\ local' = Meanwhile("flush", "reused")
    /\ Goto(p, "appendLen")
    /\ UNCHANGED <<flushed, seen, done>>

AppendLen(p) ==
    /\ pc[p] = "appendLen"
    /\ buffered' = [buffered EXCEPT !.len = @ + 1]
    /\ Goto(p, "appendItem")
    /\ reply' = NoReply
    /\ UNCHANGED <<mu, arrays, flushed, local, ghosts>>

\* The item is stored, and mu.Unlock.
AppendStore(p) ==
    /\ pc[p] = "appendItem"
    /\ arrays' = [arrays EXCEPT ![buffered.arr][buffered.len] = appended]
    /\ done' = done \cup {appended}
    /\ mu' = None
    /\ Goto(p, "idle")
    /\ reply' = NoReply
    /\ UNCHANGED <<slices, local, seen, moved, appended>>

-----------------------------------------------------------------------------
(* Flush *)

\* mu.Lock, and the copy of append(bw.flushed, bw.buffered...).
FlushCopy(p) ==
    LET len == flushed.len + buffered.len
        room == len <= Cap(flushed)
        old == IF room THEN arrays[flushed.arr] ELSE Grown(flushed, len)
        new == [i \in DOMAIN old |-> IF i \in flushed.len + 1 .. len
                                     THEN arrays[buffered.arr][i - flushed.len]
                                     ELSE old[i]]
    IN  /\ Begin(p)
        /\ arrays' = IF room THEN [arrays EXCEPT ![flushed.arr] = new]
                             ELSE Append(arrays, new)
        /\ local' = [local EXCEPT ![p].arr = Destination(IF room THEN flushed.arr ELSE Len(arrays')),
                                  ![p].len = len]
        /\ moved' = IF room THEN moved ELSE Moving("flushed")
        /\ Goto(p, "flushHeader")
        /\ UNCHANGED <<slices, seen, appended, done>>

\* bw.flushed = ..., one word and then the other.
FlushArr(p) ==
    /\ pc[p] \in {"flushHeader", "flushArr"}
    /\ flushed' = [flushed EXCEPT !.arr = local[p].arr]
    /\ Goto(p, IF pc[p] = "flushHeader" THEN "flushLen" ELSE "flushClear")
    /\ reply' = NoReply
    /\ UNCHANGED <<mu, arrays, buffered, local, ghosts>>

FlushLen(p) ==
    /\ pc[p] \in {"flushHeader", "flushLen"}
    /\ flushed' = [flushed EXCEPT !.len = local[p].len]
    /\ Goto(p, IF pc[p] = "flushHeader" THEN "flushArr" ELSE "flushClear")
    /\ reply' = NoReply
    /\ UNCHANGED <<mu, arrays, buffered, local, ghosts>>

\* bw.buffered = bw.buffered[:0] stores the length alone; mu.Unlock.
FlushClear(p) ==
    /\ pc[p] = "flushClear"
    /\ buffered' = Cleared(buffered)
    /\ mu' = None
    /\ local' = [Meanwhile("none", "flush") EXCEPT ![p] = NoLocal]
    /\ Goto(p, "idle")
    /\ reply' = [kind |-> "flush"]
    /\ UNCHANGED <<arrays, flushed, ghosts>>

-----------------------------------------------------------------------------
(* GetLength and State *)

GetLength(p) ==
    /\ pc[p] = "idle"
    /\ mu = None
    /\ reply' = [kind |-> "length", length |-> flushed.len + buffered.len]
    /\ UNCHANGED <<mu, arrays, slices, pc, local, ghosts>>

StateBegin(p) ==
    /\ pc[p] = "idle"
    /\ local' = [local EXCEPT ![p].due = done]
    /\ moved' = [moved EXCEPT ![p] = IF Flushing /\ local[mu].arr # flushed.arr THEN {"flushed"} ELSE {}]
    /\ Goto(p, "reading")
    /\ reply' = NoReply
    /\ UNCHANGED <<mu, arrays, slices, seen, appended, done>>

ReadWord(p, n) ==
    LET read == DOMAIN local[p].words
        words == [m \in read \cup {n} |-> IF m = n THEN Words[n] ELSE local[p].words[m]]
    IN  /\ pc[p] = "reading"
        /\ n \notin read
        /\ MayRead(n, read)
        /\ local' = [local EXCEPT ![p].words = words]
        /\ Goto(p, IF DOMAIN words = DOMAIN Words THEN "returning" ELSE "reading")
        /\ reply' = NoReply
        /\ UNCHANGED <<mu, arrays, slices, ghosts>>

StateReturn(p) ==
    LET fl == MakeSlice(local[p].words, 3)
    IN  /\ pc[p] = "returning"
        /\ reply' = [kind |-> "state", buffered |-> MakeSlice(local[p].words, 1),
                     flushed |-> fl, due |-> local[p].due, during |-> local[p].during,
                     moved |-> moved[p]]
        /\ seen' = [seen EXCEPT ![p] = [slice |-> fl, items |-> IF Torn(fl) THEN << >> ELSE Shown(fl)]]
        /\ moved' = [moved EXCEPT ![p] = {}]
        /\ local' = [local EXCEPT ![p] = NoLocal]
        /\ Goto(p, "idle")
        /\ UNCHANGED <<mu, arrays, slices, appended, done>>

-----------------------------------------------------------------------------
Next == \E p \in Procs :
    \/ AppendGrow(p) \/ AppendLen(p) \/ AppendStore(p)
    \/ FlushCopy(p) \/ FlushArr(p) \/ FlushLen(p) \/ FlushClear(p)
    \/ GetLength(p)
    \/ StateBegin(p) \/ (\E n \in DOMAIN Words : ReadWord(p, n)) \/ StateReturn(p)

Spec == Init /\ [][Next]_vars

-----------------------------------------------------------------------------
(* Properties *)

\* How much of the slices counts: what a Flush moves is still buffered until it
\* unlocks, and an item is only there once it is stored.
Settled == IF Flushing THEN local[mu].len - buffered.len ELSE flushed.len
Stored == IF mu # None /\ pc[mu] = "appendItem" THEN buffered.len - 1 ELSE buffered.len

IsSlice(slice) == slice \in [arr : DOMAIN arrays, len : 0..MaxItems]

WriterTypeOK ==
    /\ mu \in Procs \cup {None}
    /\ arrays \in Seq(Seq(0..MaxItems))
    /\ IsSlice(flushed) /\ IsSlice(buffered)
    /\ mu = None => flushed.len <= Cap(flushed) /\ buffered.len <= Cap(buffered)
    /\ flushed.arr = buffered.arr => Cap(flushed) = 0
    /\ pc \in [Procs -> {"idle", "reading", "returning"} \cup AppendPlaces \cup FlushPlaces]
    /\ appended \in 0..MaxItems
    /\ done \subseteq 1..appended

\* Every variable has its type; each slice of the writer fits its array once it is
\* stored, and the two never share memory, though both start with none and append
\* moves each to new arrays on its own (writer.go:28, 35-36).
TypeOK == WriterTypeOK /\ moved \in [Procs -> SUBSET {"buffered", "flushed"}]

\* An item whose Append has returned before State is called is within the arrays of what
\* State returns, although State takes no lock and a Flush may be moving it, and
\* GetLength counts it (writer.go:13-15, 39-44).  What else a slice may show is not told
\* here: an item twice, a slot that is not written yet, or no item at all where it is
\* torn.  Only when a Flush ends and then an Append begins within one call may State
\* miss an item: line 36 lets the Append overwrite what State holds.
NothingForgotten ==
    /\ (reply.kind = "state" /\ reply.during # "reused") =>
          reply.due \subseteq Within(reply.buffered) \cup Within(reply.flushed)
    /\ reply.kind = "length" => reply.length = Cardinality(done)

\* A slice that State returns is torn, so that reading it may fault, only if it was
\* being moved to a larger array during the call: no other overlap with an Append
\* or a Flush, such as the clearing of the buffer, can do that (writer.go:14, 28, 35).
TornOnlyByMove ==
    reply.kind = "state" =>
        /\ Torn(reply.buffered) => "buffered" \in reply.moved
        /\ Torn(reply.flushed) => "flushed" \in reply.moved

\* Unless they are torn, the flushed items that State returned never change under its
\* caller, although the array goes on being used: later Flushes write behind them or
\* elsewhere (writer.go:14, 35).  The buffered ones do change: line 36 keeps their array.
FlushedStable ==
    \A p \in Procs : ~Torn(seen[p].slice) => Shown(seen[p].slice) = seen[p].items

\* What the caller of State may rely on: when a slice is torn, and that it stays else.
SnapshotSound == TornOnlyByMove /\ FlushedStable

\* To callers of the methods that lock, the writer is the one of
\* buffered_writer.fizz: an Append or a Flush takes effect when it unlocks.
Writer == INSTANCE BufferedWriterSpec WITH
    Items <- 1..MaxItems,
    flushed <- SubSeq(arrays[flushed.arr], 1, Settled),
    buffered <- SubSeq(arrays[buffered.arr], 1, Stored)
ImplementsWriter == Writer!WriterSpec
=============================================================================
