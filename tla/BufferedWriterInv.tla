-------------------------- MODULE BufferedWriterInv --------------------------
(***************************************************************************)
(* The inductive invariant of BufferedWriter: which items each array holds, *)
(* which parts of which arrays may still be written, and what a State call  *)
(* that is under way has read and can still read.                          *)
(***************************************************************************)
EXTENDS BufferedWriter

Appending == mu # None /\ pc[mu] \in AppendPlaces

\* The flushed slice as it will be when the Flush under way has stored it.
Landed == IF Flushing THEN [arr |-> local[mu].arr, len |-> local[mu].len] ELSE flushed

\* The mutex has an owner exactly while one is in Append or Flush.
LockInv == \A p \in Procs : pc[p] \in AppendPlaces \cup FlushPlaces <=> mu = p

\* Who is not in Flush or State keeps nothing; a Flush keeps the slice to store.
Locals(read) == [arr : Nat, len : Nat, due : SUBSET (1..MaxItems), words : [read -> Nat],
                 during : {"none", "flush", "reused"}]

LocalOf(p) ==
    /\ \E read \in SUBSET (1..4) : local[p] \in Locals(read)
    /\ pc[p] \in {"idle"} \cup AppendPlaces => local[p] = NoLocal

LocalInv ==
    /\ local = [p \in Procs |-> local[p]]
    /\ seen = [p \in Procs |-> seen[p]]
    /\ \A p \in Procs : LocalOf(p)

\* Items are stored in the order in which they were appended: n of them in an array,
\* of which the first is base + 1.
Holds(a, n, base) ==
    /\ a \in DOMAIN arrays
    /\ n <= Len(arrays[a])
    /\ \A i \in 1..n : arrays[a][i] = base + i

\* The flushed items are the first ones and the buffered items those after them, at
\* every step of an Append or a Flush.
ItemsInv ==
    /\ Settled \in Nat /\ Stored \in Nat /\ Landed.len \in Nat
    /\ Holds(flushed.arr, Settled, 0)
    /\ Holds(Landed.arr, Landed.len, 0)
    /\ Holds(buffered.arr, Stored, Settled)
    /\ done = 1..(Settled + Stored)
    /\ appended = Settled + Stored + IF Appending THEN 1 ELSE 0
    /\ Settled <= flushed.len /\ flushed.len <= Landed.len
    /\ buffered.len + (IF mu # None /\ pc[mu] = "appendLen" THEN 1 ELSE 0) <= Cap(buffered)

\* Where a Flush is.
FlushInv ==
    \A p \in Procs :
        /\ pc[p] \in {"flushHeader", "flushLen"} => flushed.len = Settled
        /\ pc[p] \in {"flushLen", "flushClear"} => flushed.arr = local[p].arr
        /\ pc[p] \in {"flushArr", "flushClear"} => flushed.len = local[p].len

\* An array that was the flushed one is not the one that Append writes, and one that
\* was the buffered one is not the one that Flush writes; an empty one cannot be written.
WasFlushed(a) == a \in DOMAIN arrays /\ (a = buffered.arr => arrays[a] = << >>)
WasBuffered(a) == a \in DOMAIN arrays /\ (a = Landed.arr => arrays[a] = << >>)

ApartInv == WasFlushed(flushed.arr) /\ WasFlushed(Landed.arr)

\* A flushed slice that State has returned is of the part of its array that no
\* Flush writes again.
SeenBy(p) ==
    /\ WasFlushed(seen[p].slice.arr)
    /\ seen[p].slice.len \in 0..Landed.len
    /\ ~Torn(seen[p].slice) => Shown(seen[p].slice) = seen[p].items

\* What State has read of the four words.
Read(p) == DOMAIN local[p].words
Word(p, n) == local[p].words[n]

\* Item i is in the flushed slice as far as p has read that, and will be in it.
InFlushed(p, i) ==
    /\ 3 \in Read(p) => i <= Len(arrays[Word(p, 3)]) /\ arrays[Word(p, 3)][i] = i
    /\ 4 \in Read(p) => i <= Word(p, 4)
    /\ i <= Settled \/ (3 \in Read(p) /\ 4 \in Read(p))

\* Item i is at j in the buffered slice as far as p has read that, and will stay there.
ReadFrom(p) == IF 1 \in Read(p) THEN Word(p, 1) ELSE buffered.arr
InBuffered(p, i, j) ==
    /\ j <= Len(arrays[ReadFrom(p)]) /\ arrays[ReadFrom(p)][j] = i
    /\ IF 2 \in Read(p) THEN j <= Word(p, 2) ELSE j <= Stored
    /\ local[p].during = "none" => j <= Stored

\* A State call misses no item of those that were there when it began, unless a
\* Flush ended and an Append began since.
Covered(p) == \A i \in local[p].due : InFlushed(p, i) \/ \E j \in 1..MaxItems : InBuffered(p, i, j)

WordsOf(p) ==
    /\ pc[p] = "returning" => Read(p) = 1..4
    /\ 3 \in Read(p) \/ 4 \in Read(p) => 1 \in Read(p) /\ 2 \in Read(p)
    /\ 1 \in Read(p) => WasBuffered(Word(p, 1))
    /\ 3 \in Read(p) => WasFlushed(Word(p, 3))
    /\ 4 \in Read(p) => Word(p, 4) <= Landed.len

ReaderOf(p) ==
    pc[p] \in {"reading", "returning"} =>
        /\ WordsOf(p)
        /\ local[p].due \subseteq done
        /\ local[p].during = "flush" => ~Appending
        /\ local[p].during # "reused" => Covered(p)

CoreInv ==
    /\ WriterTypeOK /\ LockInv /\ LocalInv /\ ItemsInv /\ FlushInv /\ ApartInv
    /\ \A p \in Procs : SeenBy(p) /\ ReaderOf(p)
    /\ NothingForgotten

\* As long as nobody moves a slice, a State call has read its one array, and no length
\* that reaches beyond that.
WholeOf(p) ==
    pc[p] \in {"reading", "returning"} =>
        /\ "buffered" \notin moved[p] =>
              /\ 1 \in Read(p) => Word(p, 1) = buffered.arr
              /\ 2 \in Read(p) => Word(p, 2) <= Cap(buffered)
        /\ "flushed" \notin moved[p] =>
              /\ Landed.arr = flushed.arr
              /\ 3 \in Read(p) => Word(p, 3) = flushed.arr

WholeInv == (\A p \in Procs : WholeOf(p)) /\ TornOnlyByMove

IInv == CoreInv /\ TypeOK /\ WholeInv
=============================================================================
