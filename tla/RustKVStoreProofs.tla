------------------------- MODULE RustKVStoreProofs -------------------------
(***************************************************************************)
(* IInv is an invariant of the Rust store with and without faults, and the  *)
(* properties of RustKVStore follow from it.                               *)
(***************************************************************************)
EXTENDS RustKVStoreInv, EntriesProofs

USE MaxWritesAssumption, NoneAssumption

-----------------------------------------------------------------------------
(* Types *)

Places == {"idle"} \cup Reading \cup Flushing
Gets == [key : Keys \cup {None}, level : {"memory", "remote"},
         floor : Entry, start : Entry, raced : BOOLEAN]
Flushes == [content : Table, due : Table]

LEMMA Typed ==
    ASSUME TypeOK
    PROVE  /\ pc \in [Procs -> Places]
           /\ get \in [Procs -> Gets]
           /\ flush \in [Procs -> Flushes]
           /\ NoGet \in Gets /\ NoFlush \in Flushes
BY NoEntryType DEF TypeOK, Places, Reading, Gets, Flushes, NoGet, NoFlush

\* TypeOK from the parts that the steps of a task move.
LEMMA TypedBack ==
    ASSUME TypeOK, pc' \in [Procs -> Places], get' \in [Procs -> Gets],
           flush' \in [Procs -> Flushes], UNCHANGED <<memory, segments, ghosts>>,
           flush_gate' \in Procs \cup {None}, bufWriter' \in Procs \cup {None}
    PROVE  TypeOK'
BY DEF TypeOK, Places, Reading, Gets, Flushes, memory, ghosts

LEMMA ViewType ==
    ASSUME TypeOK
    PROVE  /\ RemoteView \in Table
           /\ MemoryView \in Table
           /\ \A p \in Procs : FrozenBy(p) \in Table
<1>1. \A k \in Keys : Newest(segments, k, Len(segments)) \in Entry
  <2>1. Len(segments) \in Nat /\ \A i \in 1..Len(segments) : segments[i] \in Table
    BY DEF TypeOK
  <2> QED
    BY <2>1, NewestType
<1>2. RemoteView \in Table
  BY <1>1 DEF RemoteView, Table
<1>3. \A p \in Procs : flush[p].content \in Table
  BY DEF TypeOK
<1> QED
  BY <1>2, <1>3, OverlayType DEF MemoryView, FrozenBy, TypeOK

\* Every id the invariant compares is a natural number.
LEMMA Ids ==
    ASSUME TypeOK
    PROVE  /\ \A k \in Keys : /\ buf[k] \in Entry /\ buf[k].id \in Nat
                              /\ immutable_buf[k].id \in Nat
                              /\ RemoteView[k].id \in Nat
                              /\ MemoryView[k].id \in Nat
                              /\ last[k] \in Entry /\ last[k].id \in Nat
           /\ \A p \in Procs, k \in Keys : /\ flush[p].content[k].id \in Nat
                                           /\ flush[p].due[k].id \in Nat
                                           /\ FrozenBy(p)[k].id \in Nat
           /\ \A p \in Procs : get[p].floor.id \in Nat /\ get[p].start.id \in Nat
<1>1. \A t \in Table, k \in Keys : t[k] \in Entry /\ t[k].id \in Nat
  BY DEF Table, Entry
<1>2. \A e \in Entry : e.id \in Nat
  BY DEF Entry
<1> QED
  BY <1>1, <1>2, ViewType DEF TypeOK

\* The segment put last covers the ones before it.
LEMMA RemoteAfterPut ==
    ASSUME TypeOK, NEW map \in Table, segments' = Append(segments, map)
    PROVE  RemoteView' = Overlay(map, RemoteView)
<1> DEFINE n == Len(segments)
<1>1. /\ n \in Nat /\ n + 1 - 1 = n
      /\ Len(segments') = n + 1
      /\ segments'[n + 1] = map
      /\ \A i \in 1..n : segments'[i] = segments[i]
  BY DEF TypeOK
<1> HIDE DEF n
<1>2. ASSUME NEW k \in Keys
      PROVE  Newest(segments', k, n + 1) = IF Has(map, k) THEN map[k]
                                           ELSE Newest(segments, k, n)
  <2>1. CASE Has(map, k)
    <3>1. n + 1 \in Nat /\ n + 1 > 0 /\ Has(segments'[n + 1], k)
      BY <1>1, <2>1
    <3>2. Newest(segments', k, n + 1) = segments'[n + 1][k]
      BY <3>1, NewestHit
    <3> QED
      BY <1>1, <2>1, <3>2
  <2>2. CASE ~Has(map, k)
    <3>1. Newest(segments', k, n + 1) = Newest(segments', k, n)
      <4>1. ~Has(segments'[n + 1], k)
        BY <1>1, <2>2
      <4> QED
        BY <1>1, <4>1, NewestNext
    <3>2. Newest(segments', k, n) = Newest(segments, k, n)
      BY <1>1, NewestSame
    <3> QED
      BY <2>2, <3>1, <3>2
  <2> QED
    BY <2>1, <2>2
<1> QED
  BY <1>1, <1>2 DEF RemoteView, Overlay, n

LEMMA OneFlusher ==
    ASSUME LockInv, NEW p \in Procs, pc[p] \in Flushing
    PROVE  \A q \in Procs : pc[q] \in Flushing => q = p
BY DEF LockInv

LEMMA ViewFrame ==
    ASSUME UNCHANGED <<memory, segments>>
    PROVE  RemoteView' = RemoteView /\ MemoryView' = MemoryView
<1>1. RemoteView' = RemoteView
  BY DEF RemoteView
<1> QED
  BY <1>1 DEF MemoryView, memory

-----------------------------------------------------------------------------
(* Steps of a Get *)

\* A task outside flush moves between calls and the places of a Get.
LEMMA GetMoves ==
    ASSUME IInv, NEW p \in Procs, NEW next \in {"idle"} \cup Reading, NEW g \in Gets,
           pc[p] \in {"idle"} \cup Reading,
           pc' = [pc EXCEPT ![p] = next], get' = [get EXCEPT ![p] = g],
           next \in Reading => OnCourse(g, next),
           UNCHANGED <<locks, memory, segments, flush, ghosts>>
    PROVE  IInv'
<1>1. TypeOK /\ pc \in [Procs -> Places] /\ get \in [Procs -> Gets]
  BY Typed DEF IInv
<1>2. pc'[p] = next /\ get'[p] = g
  BY <1>1
<1>3. \A q \in Procs : q # p => pc'[q] = pc[q] /\ get'[q] = get[q]
  BY <1>1
<1>4. pc[p] \notin Flushing /\ next \notin Flushing
  BY DEF Reading, Flushing
<1>5. \A q \in Procs, place \in Flushing : pc'[q] = place <=> pc[q] = place
  BY <1>2, <1>3, <1>4
<1>6. /\ RemoteView' = RemoteView /\ MemoryView' = MemoryView
      /\ buf' = buf /\ immutable_buf' = immutable_buf
      /\ writes' = writes /\ last' = last /\ failed' = failed /\ faulty' = faulty
  BY ViewFrame DEF memory, ghosts
<1>7. InFlight' <=> InFlight
  BY <1>5 DEF InFlight, Flushing
<1>8. TypeOK'
  <2>1. pc' \in [Procs -> Places] /\ get' \in [Procs -> Gets]
    BY <1>1 DEF Places, Reading
  <2> QED
    BY <1>1, <2>1, Typed, TypedBack DEF TypeOK, locks
<1>9. LockInv' /\ HandoverInv' /\ FaultInv'
  BY <1>5, <1>6 DEF IInv, LockInv, HandoverInv, FaultInv, locks, Flushing
<1>10. OrderInv'
  BY <1>6 DEF IInv, OrderInv, Has
<1>11. LossConfinedToWrite'
  BY <1>5, <1>6 DEF IInv, LossConfinedToWrite, Flushing
<1>12. DueInv'
  <2>1. \A q \in Procs : FrozenBy(q)' = FrozenBy(q)
    BY <1>6 DEF FrozenBy
  <2> QED
    BY <1>5, <1>6, <2>1 DEF IInv, DueInv, Flushing
<1>13. GetInv'
  <2>1. ASSUME NEW q \in Procs, pc'[q] \in Reading PROVE OnCourse(get[q], pc[q])'
    <3>1. CASE q = p
      BY <1>2, <1>6, <1>7, <2>1, <3>1 DEF OnCourse
    <3>2. CASE q # p
      BY <1>3, <1>6, <1>7, <2>1, <3>2 DEF IInv, GetInv, OnCourse
    <3> QED
      BY <3>1, <3>2
  <2> QED
    BY <2>1 DEF GetInv
<1> QED
  BY <1>8, <1>9, <1>10, <1>11, <1>12, <1>13 DEF IInv

\* What is written and not yet frozen or put is where the lookups look.
LEMMA LatestIsSeen ==
    ASSUME IInv, ~InFlight, NEW k \in Keys
    PROVE  MemoryView[k] = last[k] \/ last[k].id \in failed
BY DEF IInv, LossConfinedToWrite, InFlight

\* A Get that starts: on course unless it finds its answer at once.
LEMMA GetStarts ==
    ASSUME IInv, NEW k \in Keys,
           NEW level \in {"memory", "remote"}, NEW next \in Reading,
           level = "memory" => next = "getImm" /\ ~Has(buf, k)
    PROVE  LET g == [key |-> k, level |-> level, floor |-> RemoteView[k],
                     start |-> last[k], raced |-> InFlight]
           IN  g \in Gets /\ OnCourse(g, next)
<1> DEFINE g == [key |-> k, level |-> level, floor |-> RemoteView[k],
                 start |-> last[k], raced |-> InFlight]
<1>1. /\ RemoteView[k] \in Entry /\ last[k] \in Entry
      /\ RemoteView[k].id \in Nat /\ immutable_buf[k].id \in Nat /\ last[k].id \in Nat
  BY ViewType, Ids DEF IInv, Table
<1>2. /\ g.key = k /\ g.level = level /\ g.floor = RemoteView[k]
      /\ g.start = last[k] /\ g.raced = InFlight
  OBVIOUS
<1>3. g \in Gets
  BY <1>1 DEF Gets, InFlight
<1>4. ASSUME level = "memory", ~InFlight
      PROVE  \/ last[k].id <= RemoteView[k].id
             \/ next = "getImm" /\ last[k].id <= immutable_buf[k].id
             \/ last[k].id \in failed
  <2>1. MemoryView[k] = IF Has(immutable_buf, k) THEN immutable_buf[k] ELSE RemoteView[k]
    BY <1>4 DEF MemoryView, Overlay
  <2> QED
    BY <1>1, <1>4, <2>1, LatestIsSeen
<1>5. OnCourse(g, next)
  <2> HIDE DEF g
  <2> QED
    BY <1>1, <1>2, <1>4 DEF OnCourse
<1> QED
  BY <1>3, <1>5

GetStep(p) ==
    \/ \E k \in Keys : GetBufHit(p, k) \/ GetBufMiss(p, k) \/ GetRemote(p, k)
    \/ GetImmHit(p) \/ GetImmMiss(p) \/ GetListed(p) \/ GetFails(p)

\* Returning from a Get, with an answer or with an error.
LEMMA GetReturns ==
    ASSUME IInv, NEW p \in Procs, pc[p] \in Reading,
           pc' = [pc EXCEPT ![p] = "idle"], get' = [get EXCEPT ![p] = NoGet],
           UNCHANGED <<locks, memory, segments, flush, ghosts>>
    PROVE  IInv'
<1>1. "idle" \notin Reading /\ NoGet \in Gets
  BY Typed DEF IInv, Reading
<1> QED
  BY <1>1, GetMoves

LEMMA GetSteps ==
    ASSUME IInv, NEW p \in Procs, GetStep(p)
    PROVE  IInv'
<1>0. /\ pc \in [Procs -> Places] /\ get \in [Procs -> Gets]
      /\ "getImm" \in Reading /\ "listing" \in Reading /\ "idle" \notin Reading
  BY Typed DEF IInv, Reading
<1>1. ASSUME NEW k \in Keys, GetBufHit(p, k) PROVE IInv'
  <2>1. pc' = [pc EXCEPT ![p] = "idle"] /\ get' = [get EXCEPT ![p] = get[p]]
    BY <1>0, <1>1 DEF GetBufHit
  <2>2. pc[p] = "idle" /\ UNCHANGED <<locks, memory, segments, flush, ghosts>>
    BY <1>1 DEF GetBufHit
  <2> QED
    BY <1>0, <2>1, <2>2, GetMoves
<1>2. ASSUME NEW k \in Keys, GetBufMiss(p, k) PROVE IInv'
  BY <1>0, <1>2, GetMoves, GetStarts DEF GetBufMiss, StartGet
<1>3. ASSUME NEW k \in Keys, GetRemote(p, k) PROVE IInv'
  BY <1>0, <1>3, GetMoves, GetStarts DEF GetRemote, StartGet
<1>4. CASE GetImmMiss(p)
  <2> DEFINE g == get[p]
  <2>1. /\ pc[p] = "getImm" /\ ~Has(immutable_buf, g.key) /\ OnCourse(g, "getImm")
        /\ pc' = [pc EXCEPT ![p] = "listing"] /\ get' = [get EXCEPT ![p] = g]
        /\ UNCHANGED <<locks, memory, segments, flush, ghosts>>
    BY <1>0, <1>4 DEF GetImmMiss, IInv, GetInv
  <2>2. OnCourse(g, "listing")
    <3>1. g.key \in Keys /\ g.start.id \in Nat /\ RemoteView[g.key].id \in Nat
      BY <2>1, Ids DEF OnCourse, IInv
    <3>2. immutable_buf[g.key].id = 0
      BY <2>1 DEF Has, NoEntry
    <3> QED
      BY <2>1, <3>1, <3>2 DEF OnCourse
  <2> QED
    BY <1>0, <2>1, <2>2, GetMoves
<1>5. CASE GetImmHit(p) \/ GetListed(p) \/ GetFails(p)
  BY <1>0, <1>5, GetReturns DEF GetImmHit, GetListed, GetFails, ReturnGet
<1> QED
  BY <1>1, <1>2, <1>3, <1>4, <1>5 DEF GetStep

-----------------------------------------------------------------------------
(* Put and Delete *)

LEMMA InsertView ==
    ASSUME TypeOK, NEW p \in Procs, NEW k \in Keys, NEW dead \in BOOLEAN, Insert(p, k, dead)
    PROVE  /\ RemoteView' = RemoteView
           /\ MemoryView' = [MemoryView EXCEPT ![k] = [id |-> writes + 1, dead |-> dead]]
<1> DEFINE new == [id |-> writes + 1, dead |-> dead]
<1>1. RemoteView' = RemoteView
  BY DEF Insert, RemoteView
<1>2. /\ buf' = [buf EXCEPT ![k] = new] /\ buf \in Table
      /\ immutable_buf' = immutable_buf /\ new # NoEntry
  BY DEF Insert, TypeOK, NoEntry
<1>3. \A j \in Keys : MemoryView'[j] = IF j = k THEN new ELSE MemoryView[j]
  <2> HIDE DEF new
  <2> QED
    BY <1>1, <1>2 DEF MemoryView, Overlay, Has, Table
<1> QED
  BY <1>1, <1>3 DEF MemoryView, Overlay

LEMMA InsertStep ==
    ASSUME IInv, NEW p \in Procs, NEW k \in Keys, NEW dead \in BOOLEAN, Insert(p, k, dead)
    PROVE  IInv'
<1> DEFINE new == [id |-> writes + 1, dead |-> dead]
<1>1. /\ writes' = writes + 1 /\ writes < MaxWrites
      /\ last' = [last EXCEPT ![k] = new] /\ buf' = [buf EXCEPT ![k] = new]
      /\ UNCHANGED <<locks, immutable_buf, segments, pc, get, flush, failed, faulty>>
  BY DEF Insert, IInv, TypeOK
<1>2. RemoteView' = RemoteView /\ MemoryView' = [MemoryView EXCEPT ![k] = new]
  BY InsertView DEF IInv
<1>3. new \in Entry /\ new.id = writes + 1 /\ writes \in Nat /\ buf \in Table /\ last \in Table
  BY DEF IInv, TypeOK, Entry
<1> HIDE DEF new
<1>4. \A j \in Keys : /\ buf'[j] = IF j = k THEN new ELSE buf[j]
                      /\ last'[j] = IF j = k THEN new ELSE last[j]
                      /\ MemoryView'[j] = IF j = k THEN new ELSE MemoryView[j]
  BY <1>1, <1>2, <1>3, ViewType DEF Table, IInv
<1>5. TypeOK'
  BY <1>1, <1>3 DEF IInv, TypeOK, Table, locks
<1>6. LockInv' /\ HandoverInv' /\ FaultInv'
  BY <1>1 DEF IInv, LockInv, HandoverInv, FaultInv, locks
<1>7. \A j \in Keys : last[j].id <= writes
  BY DEF IInv, OrderInv
<1>8. OrderInv'
  <2>1. \A j \in Keys : /\ immutable_buf[j].id < new.id /\ RemoteView[j].id < new.id
                        /\ last[j].id < new.id
    BY <1>3, <1>7, Ids DEF IInv, OrderInv
  <2>2. \A q \in Procs, j \in Keys : flush[q].content[j].id < new.id
    BY <1>3, <1>7, Ids DEF IInv, OrderInv
  <2>3. \A j \in Keys : /\ last'[j].id <= writes'
                        /\ Has(buf', j) => buf'[j] = last'[j]
                        /\ last[j].id <= last'[j].id
    <3>1. \A j \in Keys : last[j].id \in Nat /\ (Has(buf, j) => buf[j] = last[j])
      BY Ids DEF IInv, OrderInv
    <3> QED
      BY <1>1, <1>3, <1>4, <1>7, <2>1, <3>1 DEF Has
  <2>4. \A i, j \in Keys : Has(buf', i) => /\ buf'[i].id > immutable_buf[j].id
                                           /\ buf'[i].id > RemoteView[j].id
    BY <1>3, <1>4, <2>1, Ids DEF IInv, OrderInv, Has
  <2>5. \A q \in Procs, i, j \in Keys : Has(buf', i) => buf'[i].id > flush[q].content[j].id
    BY <1>3, <1>4, <2>2, Ids DEF IInv, OrderInv, Has
  <2>6. /\ \A j \in Keys : immutable_buf[j].id <= last'[j].id /\ RemoteView[j].id <= last'[j].id
        /\ \A q \in Procs, j \in Keys : flush[q].content[j].id <= last'[j].id
    <3>1. /\ \A j \in Keys : /\ immutable_buf[j].id <= last[j].id
                             /\ RemoteView[j].id <= last[j].id
          /\ \A q \in Procs, j \in Keys : flush[q].content[j].id <= last[j].id
      BY DEF IInv, OrderInv
    <3>2. /\ \A j \in Keys : immutable_buf[j].id \in Nat /\ RemoteView[j].id \in Nat
          /\ \A q \in Procs, j \in Keys : flush[q].content[j].id \in Nat
      BY Ids DEF IInv
    <3> QED
      BY <1>3, <1>4, <2>1, <2>2, <3>1, <3>2
  <2>7. \A i, j \in Keys : Has(immutable_buf, i) => immutable_buf[i].id > RemoteView[j].id
    BY DEF IInv, OrderInv
  <2>8. \A q \in Procs, i, j \in Keys :
            Has(flush[q].content, i) => flush[q].content[i].id > RemoteView[j].id
    BY DEF IInv, OrderInv
  <2>9. \A j \in Keys : Has(RemoteView, j) => RemoteView[j].id > 0
    BY DEF IInv, OrderInv
  <2> QED
    BY <1>1, <1>2, <2>3, <2>4, <2>5, <2>6, <2>7, <2>8, <2>9 DEF OrderInv
<1>9. LossConfinedToWrite'
  BY <1>1, <1>4 DEF IInv, LossConfinedToWrite
<1>10. DueInv'
  <2>1. \A q \in Procs : FrozenBy(q)' = FrozenBy(q)
    BY <1>1, <1>2 DEF FrozenBy
  <2>2. \A q \in Procs, j \in Keys :
            /\ Overlay(buf, FrozenBy(q))[j].id \in Nat
            /\ Overlay(buf', FrozenBy(q))[j] = IF j = k THEN new
                                               ELSE Overlay(buf, FrozenBy(q))[j]
    BY <1>3, <1>4, Ids DEF IInv, Overlay, Has, NoEntry
  <2>3. \A q \in Procs : Overlay(buf, FrozenBy(q))[k].id <= new.id
    <3>1. buf[k].id <= writes
      BY <1>3, <1>7, Ids DEF IInv, OrderInv, Has, NoEntry
    <3>2. \A q \in Procs : FrozenBy(q)[k].id <= writes
      <4>1. immutable_buf[k].id <= last[k].id /\ RemoteView[k].id <= last[k].id
        BY DEF IInv, OrderInv
      <4>2. \A q \in Procs : flush[q].content[k].id <= last[k].id
        BY DEF IInv, OrderInv
      <4> QED
        BY <1>3, <1>7, <4>1, <4>2, Ids DEF IInv, FrozenBy, Overlay
    <3> QED
      BY <1>3, <3>1, <3>2, Ids DEF IInv, Overlay
  <2>4. \A q \in Procs, j \in Keys : Overlay(buf, FrozenBy(q))[j].id
                                        <= Overlay(buf', FrozenBy(q))[j].id
    BY <1>3, <2>2, <2>3
  <2>5. ASSUME NEW q \in Procs, NEW j \in Keys, pc[q] \in Flushing,
               flush[q].due[j].id <= Overlay(buf, FrozenBy(q))[j].id
        PROVE  flush[q].due[j].id <= Overlay(buf', FrozenBy(q))[j].id
    <3>1. flush[q].due[j].id \in Nat /\ new.id \in Nat
      BY <1>3, Ids DEF IInv
    <3> QED
      BY <2>2, <2>4, <2>5, <3>1
  <2> QED
    BY <1>1, <2>1, <2>5 DEF IInv, DueInv
<1>11. GetInv'
  BY <1>1, <1>2 DEF IInv, GetInv, OnCourse, InFlight
<1> QED
  BY <1>5, <1>6, <1>8, <1>9, <1>10, <1>11 DEF IInv

-----------------------------------------------------------------------------
(* Steps of a Flush *)

\* While a task is in flush, the others are not; the lock of buf goes with it.
LEMMA LockMoves ==
    ASSUME TypeOK, LockInv, NEW p \in Procs, NEW next \in {"idle"} \cup Flushing,
           flush_gate \in {p, None},
           flush_gate' = IF next \in Flushing THEN p ELSE None,
           next = "swapping" => bufWriter = None,
           bufWriter' = IF next = "swapping" THEN p
                        ELSE IF bufWriter = p THEN None ELSE bufWriter,
           pc' = [pc EXCEPT ![p] = next]
    PROVE  /\ LockInv'
           /\ flush_gate' \in Procs \cup {None} /\ bufWriter' \in Procs \cup {None}
           /\ pc' \in [Procs -> Places]
           /\ pc'[p] = next
           /\ \A q \in Procs : q # p => /\ pc'[q] = pc[q]
                                        /\ pc[q] \notin Flushing
                                        /\ pc[q] # "putting"
<1>1. pc \in [Procs -> Places] /\ pc' \in [Procs -> Places]
  <2>1. pc \in [Procs -> Places] /\ next \in Places
    BY Typed DEF Places
  <2> QED
    BY <2>1
<1>2. pc'[p] = next /\ \A q \in Procs : q # p => pc'[q] = pc[q]
  BY <1>1
<1>3. \A q \in Procs : q # p => pc[q] \notin Flushing
  BY DEF LockInv
<1>4. LockInv'
  <2>1. ASSUME NEW q \in Procs, q # p
        PROVE  /\ flush_gate' = q <=> pc'[q] \in Flushing
               /\ bufWriter' = q <=> pc'[q] = "swapping"
    BY <1>2, <1>3, <2>1 DEF LockInv
  <2>2. /\ flush_gate' = p <=> pc'[p] \in Flushing
        /\ bufWriter' = p <=> pc'[p] = "swapping"
    BY <1>2
  <2> QED
    BY <2>1, <2>2 DEF LockInv
<1>5. flush_gate' \in Procs \cup {None} /\ bufWriter' \in Procs \cup {None}
  BY DEF TypeOK
<1> QED
  BY <1>1, <1>2, <1>3, <1>4, <1>5 DEF Flushing

\* A flush that waits, starts or ends moves no write.
LEMMA FlushMoves ==
    ASSUME IInv, NEW p \in Procs, NEW next \in {"idle"} \cup Flushing, NEW f \in Flushes,
           flush_gate \in {p, None},
           flush_gate' = IF next \in Flushing THEN p ELSE None,
           next = "swapping" => bufWriter = None,
           bufWriter' = IF next = "swapping" THEN p
                        ELSE IF bufWriter = p THEN None ELSE bufWriter,
           pc' = [pc EXCEPT ![p] = next],
           pc[p] \notin Reading, pc[p] # "putting", next # "putting",
           flush' = [flush EXCEPT ![p] = f], f.content = EmptyTable,
           UNCHANGED <<memory, segments, get, ghosts>>,
           next = "clearing" => immutable_buf = EmptyTable,
           \/ faulty
           \/ next = "taking"
           \/ pc[p] # "taking"
           \/ immutable_buf = EmptyTable,
           \A k \in Keys : next \in Flushing =>
              \/ f.due[k].id <= FrozenBy(p)[k].id
              \/ /\ faulty \/ next \in {"freezing", "swapping"}
                 /\ f.due[k].id <= Overlay(buf, FrozenBy(p))[k].id
              \/ f.due[k].id \in failed
    PROVE  IInv'
<1>1. /\ LockInv'
      /\ flush_gate' \in Procs \cup {None} /\ bufWriter' \in Procs \cup {None}
      /\ pc' \in [Procs -> Places]
      /\ pc'[p] = next
      /\ \A q \in Procs : q # p => /\ pc'[q] = pc[q]
                                   /\ pc[q] \notin Flushing
                                   /\ pc[q] # "putting"
  BY LockMoves DEF IInv
<1>2. flush \in [Procs -> Flushes] /\ get \in [Procs -> Gets] /\ TypeOK
  BY Typed DEF IInv
<1>3. /\ flush'[p] = f
      /\ \A q \in Procs : q # p => flush'[q] = flush[q]
      /\ \A q \in Procs : flush'[q].content = flush[q].content
  BY <1>2 DEF IInv, HandoverInv
<1>4. /\ RemoteView' = RemoteView /\ MemoryView' = MemoryView
      /\ buf' = buf /\ immutable_buf' = immutable_buf /\ get' = get
      /\ writes' = writes /\ last' = last /\ failed' = failed /\ faulty' = faulty
  BY ViewFrame DEF memory, ghosts
<1>5. \A q \in Procs : pc[q] # "putting" /\ pc'[q] # "putting"
  BY <1>1
<1>6. TypeOK'
  <2>1. flush' \in [Procs -> Flushes]
    BY <1>2
  <2> QED
    BY <1>1, <1>2, <2>1, TypedBack
<1>7. HandoverInv' /\ FaultInv'
  <2>1. HandoverInv'
    BY <1>1, <1>3, <1>4, <1>5 DEF IInv, HandoverInv, Flushing
  <2>2. ASSUME ~faulty, \A q \in Procs : pc'[q] # "taking" PROVE immutable_buf = EmptyTable
    BY <1>1, <2>2 DEF IInv, FaultInv, Flushing
  <2>3. ~faulty => failed = {}
    BY DEF IInv, FaultInv
  <2> QED
    BY <1>4, <2>1, <2>2, <2>3 DEF FaultInv
<1>8. OrderInv'
  BY <1>3, <1>4 DEF IInv, OrderInv, Has
<1>9. LossConfinedToWrite'
  BY <1>4, <1>5 DEF IInv, LossConfinedToWrite
<1>10. DueInv'
  <2>1. \A q \in Procs : FrozenBy(q)' = FrozenBy(q)
    BY <1>3, <1>4 DEF FrozenBy
  <2> QED
    BY <1>1, <1>3, <1>4, <2>1 DEF DueInv
<1>11. GetInv'
  <2>1. ~InFlight /\ ~InFlight'
    BY <1>5 DEF InFlight
  <2>2. next \notin Reading
    BY DEF Reading, Flushing
  <2>3. ASSUME NEW q \in Procs, pc'[q] \in Reading PROVE OnCourse(get[q], pc[q])'
    <3>1. q # p /\ pc'[q] = pc[q]
      BY <1>1, <2>2, <2>3
    <3> QED
      BY <1>4, <2>1, <2>3, <3>1 DEF IInv, GetInv, OnCourse
  <2> QED
    BY <2>3 DEF GetInv
<1> QED
  BY <1>1, <1>6, <1>7, <1>8, <1>9, <1>10, <1>11 DEF IInv

\* Before the swap a flush finds what it owes where a memory read finds it.
LEMMA FlushGateStep ==
    ASSUME IInv, NEW p \in Procs, FlushGate(p)
    PROVE  IInv'
<1> DEFINE f == [flush[p] EXCEPT !.due = last]
<1>1. /\ pc[p] = "idle" /\ flush_gate = None
      /\ flush_gate' = p /\ pc' = [pc EXCEPT ![p] = "freezing"]
      /\ UNCHANGED <<bufWriter, memory, segments, get, ghosts>>
  BY DEF FlushGate
<1>2. flush \in [Procs -> Flushes] /\ last \in Table
  BY Typed DEF IInv, TypeOK
<1>3. flush' = [flush EXCEPT ![p] = f]
  BY <1>2 DEF FlushGate, Flushes
<1>4. f \in Flushes /\ f.due = last /\ f.content = EmptyTable
  BY <1>1, <1>2 DEF Flushes, IInv, HandoverInv
<1> HIDE DEF f
<1>5. bufWriter # p
  BY <1>1 DEF IInv, LockInv
<1>6. ~InFlight
  BY <1>1 DEF InFlight, IInv, LockInv, Flushing
<1>7. \A k \in Keys : f.due[k].id <= Overlay(buf, FrozenBy(p))[k].id \/ f.due[k].id \in failed
  <2>1. flush[p].content = EmptyTable
    BY <1>1 DEF IInv, HandoverInv
  <2>2. \A k \in Keys : Overlay(buf, FrozenBy(p))[k] = MemoryView[k]
    BY <2>1 DEF FrozenBy, MemoryView, Overlay, Has, EmptyTable
  <2> QED
    BY <1>4, <1>6, <2>2, LatestIsSeen, Ids DEF IInv
<1>8. /\ "freezing" \in Flushing /\ "freezing" \notin Reading /\ pc[p] \notin Reading
  BY <1>1 DEF Flushing, Reading
<1> QED
  BY <1>1, <1>3, <1>4, <1>5, <1>7, <1>8, FlushMoves

LEMMA FreezeLockStep ==
    ASSUME IInv, NEW p \in Procs, FreezeLock(p)
    PROVE  IInv'
<1>1. /\ pc[p] = "freezing" /\ bufWriter = None /\ bufWriter' = p
      /\ pc' = [pc EXCEPT ![p] = "swapping"]
      /\ UNCHANGED <<flush_gate, memory, segments, get, flush, ghosts>>
  BY DEF FreezeLock
<1>2. /\ "freezing" \in Flushing /\ "swapping" \in Flushing
      /\ "freezing" \notin Reading /\ "swapping" \notin Reading
  BY DEF Flushing, Reading
<1>3. flush_gate = p
  BY <1>1, <1>2 DEF IInv, LockInv
<1>4. flush \in [Procs -> Flushes] /\ flush' = [flush EXCEPT ![p] = flush[p]]
  BY <1>1, Typed DEF IInv
<1>5. flush[p].content = EmptyTable
  BY <1>1 DEF IInv, HandoverInv
<1>6. \A k \in Keys :
          \/ flush[p].due[k].id <= FrozenBy(p)[k].id
          \/ /\ faulty \/ "swapping" \in {"freezing", "swapping"}
             /\ flush[p].due[k].id <= Overlay(buf, FrozenBy(p))[k].id
          \/ flush[p].due[k].id \in failed
  BY <1>1, <1>2 DEF IInv, DueInv
<1>7. flush[p] \in Flushes
  BY <1>4
<1> DEFINE next == "swapping"
           f == flush[p]
<1>8. /\ next \in {"idle"} \cup Flushing /\ next # "putting" /\ next # "clearing"
      /\ pc[p] \notin Reading /\ pc[p] # "putting" /\ pc[p] # "taking"
      /\ flush_gate \in {p, None} /\ flush_gate' = IF next \in Flushing THEN p ELSE None
  BY <1>1, <1>2, <1>3
<1>9. /\ bufWriter' = IF next = "swapping" THEN p
                      ELSE IF bufWriter = p THEN None ELSE bufWriter
      /\ pc' = [pc EXCEPT ![p] = next] /\ bufWriter = None
      /\ UNCHANGED <<memory, segments, get, ghosts>>
  BY <1>1
<1>10. flush' = [flush EXCEPT ![p] = f] /\ f \in Flushes /\ f.content = EmptyTable
  BY <1>4, <1>5, <1>7
<1>11. \A k \in Keys :
          \/ f.due[k].id <= FrozenBy(p)[k].id
          \/ /\ faulty \/ next \in {"freezing", "swapping"}
             /\ f.due[k].id <= Overlay(buf, FrozenBy(p))[k].id
          \/ f.due[k].id \in failed
  BY <1>6
<1> HIDE DEF next, f
<1> QED
  BY <1>8, <1>9, <1>10, <1>11, FlushMoves

\* Nothing is frozen, so nothing is owed that is not durable.
LEMMA TakeNothingStep ==
    ASSUME IInv, NEW p \in Procs, TakeNothing(p)
    PROVE  IInv'
<1>1. /\ pc[p] = "taking" /\ immutable_buf = EmptyTable
      /\ pc' = [pc EXCEPT ![p] = "clearing"]
      /\ UNCHANGED <<locks, memory, segments, get, flush, ghosts>>
  BY DEF TakeNothing
<1>2. /\ "taking" \in Flushing /\ "clearing" \in Flushing
      /\ "taking" \notin Reading /\ "clearing" \notin Reading
  BY DEF Flushing, Reading
<1>3. flush_gate = p /\ bufWriter # p
  BY <1>1, <1>2 DEF IInv, LockInv
<1>4. flush \in [Procs -> Flushes] /\ flush' = [flush EXCEPT ![p] = flush[p]]
  BY <1>1, Typed DEF IInv
<1>5. flush[p].content = EmptyTable
  BY <1>1 DEF IInv, HandoverInv
<1>6. \A k \in Keys :
          \/ flush[p].due[k].id <= FrozenBy(p)[k].id
          \/ /\ faulty
             /\ flush[p].due[k].id <= Overlay(buf, FrozenBy(p))[k].id
          \/ flush[p].due[k].id \in failed
  BY <1>1, <1>2 DEF IInv, DueInv
<1>7. flush[p] \in Flushes
  BY <1>4
<1>8. bufWriter' = bufWriter /\ flush_gate' = flush_gate
  BY <1>1 DEF locks
<1> QED
  BY <1>1, <1>2, <1>3, <1>4, <1>5, <1>6, <1>7, <1>8, FlushMoves

\* The end of a flush that holds no content, whatever it returns.
LEMMA FlushEnds ==
    ASSUME IInv, NEW p \in Procs, NEW ok, ReturnFlush(p, ok),
           pc[p] \in Flushing \ {"putting"},
           faulty \/ pc[p] = "clearing",
           bufWriter' = IF bufWriter = p THEN None ELSE bufWriter,
           UNCHANGED <<memory, segments, get, ghosts>>
    PROVE  IInv'
<1>1. /\ pc[p] \notin Reading /\ "idle" \notin Flushing
      /\ flush_gate = p /\ flush_gate' = None
      /\ pc' = [pc EXCEPT ![p] = "idle"] /\ flush' = [flush EXCEPT ![p] = NoFlush]
  BY DEF ReturnFlush, Flushing, Reading, IInv, LockInv
<1>2. NoFlush \in Flushes /\ NoFlush.content = EmptyTable
  BY Typed DEF IInv, NoFlush
<1>3. faulty \/ pc[p] # "taking"
  OBVIOUS
<1> QED
  BY <1>1, <1>2, <1>3, FlushMoves

LEMMA FlushEndSteps ==
    ASSUME IInv, NEW p \in Procs, FlushClear(p) \/ (faulty /\ DropFlush(p))
    PROVE  IInv'
<1>1. CASE FlushClear(p)
  <2>1. /\ pc[p] = "clearing" /\ immutable_buf' = EmptyTable /\ ReturnFlush(p, TRUE)
        /\ UNCHANGED <<bufWriter, buf, segments, get, ghosts>>
    BY <1>1 DEF FlushClear
  <2>2. immutable_buf = EmptyTable /\ bufWriter # p
    BY <2>1 DEF IInv, HandoverInv, LockInv
  <2> QED
    BY <2>1, <2>2, FlushEnds DEF memory, Flushing
<1>2. CASE faulty /\ DropFlush(p)
  BY <1>2, FlushEnds DEF DropFlush
<1> QED
  BY <1>1, <1>2

\* A flush that finds a frozen buffer, or nothing to freeze, moves no write.
LEMMA FreezeSkipsStep ==
    ASSUME IInv, NEW p \in Procs, FreezeSwap(p), ~DidFreeze
    PROVE  IInv'
<1>1. /\ pc[p] = "swapping" /\ bufWriter' = None
      /\ immutable_buf' = immutable_buf /\ buf' = buf
      /\ pc' = [pc EXCEPT ![p] = "taking"]
      /\ UNCHANGED <<flush_gate, segments, get, flush, ghosts>>
  BY DEF FreezeSwap
<1>2. /\ "swapping" \in Flushing /\ "taking" \in Flushing
      /\ "swapping" \notin Reading /\ "taking" \notin Reading
  BY DEF Flushing, Reading
<1>3. flush_gate = p /\ bufWriter = p /\ flush_gate' = p
  BY <1>1, <1>2 DEF IInv, LockInv
<1>4. flush \in [Procs -> Flushes] /\ flush' = [flush EXCEPT ![p] = flush[p]]
  BY <1>1, Typed DEF IInv
<1>5. flush[p].content = EmptyTable /\ flush[p] \in Flushes
  BY <1>1, <1>4 DEF IInv, HandoverInv
<1>6. ~faulty => buf = EmptyTable
  <2>1. \A q \in Procs : pc[q] # "taking"
    BY <1>1, <1>2, OneFlusher DEF IInv, Flushing
  <2> QED
    BY <2>1 DEF IInv, FaultInv, DidFreeze
<1>7. \A k \in Keys :
          \/ flush[p].due[k].id <= FrozenBy(p)[k].id
          \/ /\ faulty
             /\ flush[p].due[k].id <= Overlay(buf, FrozenBy(p))[k].id
          \/ flush[p].due[k].id \in failed
  <2>1. ~faulty => \A k \in Keys : Overlay(buf, FrozenBy(p))[k] = FrozenBy(p)[k]
    BY <1>6 DEF Overlay, Has, EmptyTable
  <2> QED
    BY <1>1, <1>2, <2>1 DEF IInv, DueInv
<1>8. UNCHANGED memory
  BY <1>1 DEF memory
<1> DEFINE next == "taking"
           f == flush[p]
<1>9. /\ next \in {"idle"} \cup Flushing /\ next # "putting" /\ next # "clearing"
      /\ next # "swapping" /\ next = "taking"
      /\ pc[p] \notin Reading /\ pc[p] # "putting"
      /\ flush_gate \in {p, None} /\ flush_gate' = IF next \in Flushing THEN p ELSE None
  BY <1>1, <1>2, <1>3
<1>10. /\ bufWriter' = IF next = "swapping" THEN p
                       ELSE IF bufWriter = p THEN None ELSE bufWriter
       /\ pc' = [pc EXCEPT ![p] = next]
       /\ UNCHANGED <<memory, segments, get, ghosts>>
  BY <1>1, <1>3, <1>8
<1>11. flush' = [flush EXCEPT ![p] = f] /\ f \in Flushes /\ f.content = EmptyTable
  BY <1>4, <1>5
<1>12. \A k \in Keys :
          \/ f.due[k].id <= FrozenBy(p)[k].id
          \/ faulty /\ f.due[k].id <= Overlay(buf, FrozenBy(p))[k].id
          \/ f.due[k].id \in failed
  BY <1>7
<1> HIDE DEF next, f
<1> QED
  BY <1>9, <1>10, <1>11, <1>12, FlushMoves

\* The active buffer becomes the frozen one; no lookup is the wiser.
LEMMA FreezeView ==
    ASSUME TypeOK, UNCHANGED segments, immutable_buf = EmptyTable,
           immutable_buf' = buf, buf' = EmptyTable
    PROVE  RemoteView' = RemoteView /\ MemoryView' = MemoryView
<1>1. RemoteView' = RemoteView
  BY DEF RemoteView
<1>2. \A k \in Keys : ~Has(EmptyTable, k)
  BY DEF Has, EmptyTable
<1>3. \A k \in Keys : MemoryView'[k] = MemoryView[k]
  BY <1>1, <1>2 DEF MemoryView, Overlay
<1> QED
  BY <1>1, <1>3 DEF MemoryView, Overlay

LEMMA FreezeSwapStep ==
    ASSUME IInv, NEW p \in Procs, FreezeSwap(p), DidFreeze
    PROVE  IInv'
<1>1. /\ pc[p] = "swapping" /\ bufWriter' = None
      /\ immutable_buf = EmptyTable /\ immutable_buf' = buf /\ buf' = EmptyTable
      /\ pc' = [pc EXCEPT ![p] = "taking"]
      /\ UNCHANGED <<flush_gate, segments, get, flush, ghosts>>
  BY DEF FreezeSwap, DidFreeze, Frozen, AfterFreeze
<1>2. "swapping" \in Flushing /\ "taking" \in Flushing /\ "taking" \notin Reading
  BY DEF Flushing, Reading
<1>3. flush_gate = p /\ bufWriter = p
  BY <1>1, <1>2 DEF IInv, LockInv
<1>4. /\ LockInv'
      /\ flush_gate' \in Procs \cup {None} /\ bufWriter' \in Procs \cup {None}
      /\ pc' \in [Procs -> Places]
      /\ pc'[p] = "taking"
      /\ \A q \in Procs : q # p => /\ pc'[q] = pc[q]
                                   /\ pc[q] \notin Flushing
                                   /\ pc[q] # "putting"
  BY <1>1, <1>2, <1>3, LockMoves DEF IInv
<1>5. /\ RemoteView' = RemoteView /\ MemoryView' = MemoryView
      /\ writes' = writes /\ last' = last /\ failed' = failed /\ faulty' = faulty
      /\ get' = get /\ flush' = flush
  BY <1>1, FreezeView DEF IInv, ghosts
<1>6. \A q \in Procs : pc[q] # "putting" /\ pc'[q] # "putting"
  BY <1>1, <1>4
<1>7. \A k \in Keys : ~Has(EmptyTable, k)
  BY DEF Has, EmptyTable
<1>8. TypeOK'
  BY <1>1, <1>4, <1>5, NoEntryType DEF IInv, TypeOK, Places, Reading
<1>9. HandoverInv' /\ FaultInv'
  BY <1>1, <1>4, <1>5, <1>6 DEF IInv, HandoverInv, FaultInv, Flushing
<1>10. OrderInv'
  <2>1. \A k \in Keys : Has(buf, k) => buf[k] = last[k]
    BY DEF IInv, OrderInv
  <2>2. \A k \in Keys : buf[k].id <= last[k].id
    BY <2>1, Ids DEF IInv, Has, NoEntry
  <2>3. \A j, k \in Keys : Has(buf, j) => buf[j].id > RemoteView[k].id
    BY DEF IInv, OrderInv
  <2> QED
    BY <1>1, <1>5, <1>7, <2>2, <2>3 DEF IInv, OrderInv
<1>11. LossConfinedToWrite'
  BY <1>5, <1>6 DEF IInv, LossConfinedToWrite
<1>12. DueInv'
  <2>1. flush[p].content = EmptyTable
    BY <1>1 DEF IInv, HandoverInv
  <2>2. \A k \in Keys : /\ FrozenBy(p)[k] = RemoteView[k]
                        /\ FrozenBy(p)'[k] = Overlay(buf, FrozenBy(p))[k]
    BY <1>1, <1>5, <1>7, <2>1 DEF FrozenBy, Overlay
  <2>3. \A k \in Keys : FrozenBy(p)[k].id <= FrozenBy(p)'[k].id
    BY <2>2, Ids DEF IInv, OrderInv, Overlay
  <2>4. \A k \in Keys : FrozenBy(p)'[k].id \in Nat
    BY <2>2, Ids DEF IInv, Overlay
  <2>5. ASSUME NEW k \in Keys
        PROVE  \/ flush[p].due[k].id <= FrozenBy(p)'[k].id
               \/ flush[p].due[k].id \in failed
    BY <1>1, <1>2, <2>2, <2>3, <2>4, Ids DEF IInv, DueInv
  <2>6. \A q \in Procs : pc'[q] \in Flushing => q = p
    BY <1>4
  <2> QED
    BY <1>5, <2>5, <2>6 DEF DueInv
<1>13. GetInv'
  <2>1. ~InFlight /\ ~InFlight'
    BY <1>6 DEF InFlight
  <2>2. ASSUME NEW q \in Procs, pc'[q] \in Reading PROVE OnCourse(get[q], pc[q])'
    <3>1. pc'[q] = pc[q] /\ OnCourse(get[q], pc[q])
      BY <1>2, <1>4, <2>2 DEF IInv, GetInv
    <3>2. /\ get[q].key \in Keys /\ immutable_buf[get[q].key].id = 0
          /\ get[q].start.id \in Nat /\ RemoteView[get[q].key].id \in Nat
      BY <1>1, <3>1, Ids DEF IInv, OnCourse, EmptyTable, NoEntry
    <3> QED
      BY <1>5, <2>1, <3>1, <3>2 DEF OnCourse
  <2> QED
    BY <2>2 DEF GetInv
<1> QED
  BY <1>4, <1>8, <1>9, <1>10, <1>11, <1>12, <1>13 DEF IInv

\* mem::take: what was frozen goes out of the sight of readers, with the flush.
LEMMA TakeStep ==
    ASSUME IInv, NEW p \in Procs, Take(p)
    PROVE  IInv'
<1> DEFINE f == [flush[p] EXCEPT !.content = immutable_buf]
<1>1. /\ pc[p] = "taking" /\ immutable_buf' = EmptyTable
      /\ pc' = [pc EXCEPT ![p] = "putting"]
      /\ get' = [q \in Procs |-> IF pc[q] \in Reading
                                 THEN [get[q] EXCEPT !.raced = TRUE] ELSE get[q]]
      /\ UNCHANGED <<locks, buf, segments, ghosts>>
  BY DEF Take, Reading
<1>2. /\ "taking" \in Flushing /\ "putting" \in Flushing /\ "putting" \notin Reading
      /\ "putting" # "taking"
  BY DEF Flushing, Reading
<1>3. flush_gate = p /\ bufWriter # p
  BY <1>1, <1>2 DEF IInv, LockInv
<1>4. /\ LockInv'
      /\ flush_gate' \in Procs \cup {None} /\ bufWriter' \in Procs \cup {None}
      /\ pc' \in [Procs -> Places]
      /\ pc'[p] = "putting"
      /\ \A q \in Procs : q # p => /\ pc'[q] = pc[q]
                                   /\ pc[q] \notin Flushing
                                   /\ pc[q] # "putting"
  BY <1>1, <1>2, <1>3, LockMoves DEF IInv, locks
<1>5. /\ flush \in [Procs -> Flushes] /\ get \in [Procs -> Gets]
      /\ immutable_buf \in Table /\ flush' = [flush EXCEPT ![p] = f]
  BY Typed DEF IInv, TypeOK, Take, Flushes
<1>6. /\ f \in Flushes /\ f.content = immutable_buf /\ f.due = flush[p].due
      /\ flush[p].content = EmptyTable
  BY <1>1, <1>5 DEF Flushes, IInv, HandoverInv
<1> HIDE DEF f
<1>7. flush'[p] = f /\ \A q \in Procs : q # p => flush'[q] = flush[q]
  BY <1>5
<1>8. /\ RemoteView' = RemoteView /\ buf' = buf
      /\ writes' = writes /\ last' = last /\ failed' = failed /\ faulty' = faulty
  BY <1>1 DEF RemoteView, ghosts
<1>9. \A k \in Keys : ~Has(EmptyTable, k) /\ EmptyTable[k].id = 0
  BY DEF Has, EmptyTable, NoEntry
<1>10. TypeOK'
  <2>1. \A g \in Gets : [g EXCEPT !.raced = TRUE] \in Gets
    BY DEF Gets
  <2>2. get' \in [Procs -> Gets]
    <3> HIDE DEF Gets
    <3> QED
      BY <1>1, <1>5, <2>1
  <2>3. flush' \in [Procs -> Flushes]
    BY <1>5, <1>6
  <2>4. segments' = segments /\ pc' \in [Procs -> {"idle", "getImm", "listing"} \cup Flushing]
    BY <1>1, <1>4 DEF Places, Reading
  <2> QED
    BY <1>1, <1>4, <1>8, <2>2, <2>3, <2>4, NoEntryType
    DEF IInv, TypeOK, Gets, Flushes
<1>11. HandoverInv' /\ FaultInv'
  BY <1>1, <1>2, <1>4, <1>7, <1>8 DEF IInv, HandoverInv, FaultInv
<1>12. OrderInv'
  <2>1. /\ \A k \in Keys : /\ last[k].id <= writes
                           /\ Has(buf, k) => buf[k] = last[k]
                           /\ immutable_buf[k].id <= last[k].id
                           /\ RemoteView[k].id <= last[k].id
                           /\ Has(RemoteView, k) => RemoteView[k].id > 0
        /\ \A j, k \in Keys : /\ Has(buf, j) => /\ buf[j].id > immutable_buf[k].id
                                                /\ buf[j].id > RemoteView[k].id
                              /\ Has(immutable_buf, j) => immutable_buf[j].id > RemoteView[k].id
    BY DEF IInv, OrderInv
  <2>2. \A q \in Procs : flush'[q].content = IF q = p THEN immutable_buf ELSE flush[q].content
    BY <1>6, <1>7
  <2>3. \A q \in Procs, j, k \in Keys :
            /\ flush'[q].content[k].id <= last[k].id
            /\ Has(buf, j) => buf[j].id > flush'[q].content[k].id
            /\ Has(flush'[q].content, j) => flush'[q].content[j].id > RemoteView[k].id
    BY <2>1, <2>2 DEF IInv, OrderInv
  <2>4. \A k \in Keys : last[k].id \in Nat /\ (Has(buf, k) => buf[k].id > 0)
    BY <2>1, Ids DEF IInv
  <2> QED
    BY <1>1, <1>8, <1>9, <2>1, <2>3, <2>4 DEF OrderInv, Has
<1>13. LossConfinedToWrite'
  <2>1. \A q \in Procs : pc[q] # "putting"
    BY <1>1, <1>4
  <2>2. ASSUME NEW k \in Keys, MemoryView'[k] # last[k], last[k].id \notin failed
        PROVE  immutable_buf[k] = last[k]
    <3>1. MemoryView[k] = last[k]
      BY <2>1, <2>2 DEF IInv, LossConfinedToWrite
    <3> QED
      BY <1>1, <1>8, <1>9, <2>2, <3>1 DEF MemoryView, Overlay
  <2> QED
    BY <1>4, <1>6, <1>7, <1>8, <2>2 DEF LossConfinedToWrite
<1>14. DueInv'
  <2>1. \A k \in Keys : FrozenBy(p)'[k] = FrozenBy(p)[k]
    BY <1>1, <1>6, <1>7, <1>8, <1>9 DEF FrozenBy, Overlay
  <2>2. \A k \in Keys : Overlay(buf, FrozenBy(p))'[k] = Overlay(buf, FrozenBy(p))[k]
    BY <1>8, <2>1 DEF Overlay
  <2>3. \A q \in Procs : pc'[q] \in Flushing => q = p
    BY <1>4
  <2>4. \A k \in Keys : \/ f.due[k].id <= FrozenBy(p)[k].id
                        \/ faulty /\ f.due[k].id <= Overlay(buf, FrozenBy(p))[k].id
                        \/ f.due[k].id \in failed
    BY <1>1, <1>2, <1>6 DEF IInv, DueInv
  <2> QED
    BY <1>7, <1>8, <2>1, <2>2, <2>3, <2>4 DEF DueInv
<1>15. GetInv'
  <2>1. ASSUME NEW q \in Procs, pc'[q] \in Reading PROVE OnCourse(get[q], pc[q])'
    <3>1. q # p /\ pc'[q] = pc[q] /\ OnCourse(get[q], pc[q])
      BY <1>2, <1>4, <2>1 DEF IInv, GetInv
    <3>2. /\ get'[q].raced /\ get'[q].key = get[q].key /\ get'[q].floor = get[q].floor
      BY <1>1, <1>5, <2>1, <3>1 DEF Gets
    <3> QED
      BY <1>8, <3>1, <3>2 DEF OnCourse
  <2> QED
    BY <2>1 DEF GetInv
<1> QED
  BY <1>4, <1>10, <1>11, <1>12, <1>13, <1>14, <1>15 DEF IInv

\* What a put, complete or not, does to a remote reader.
LEMMA PutView ==
    ASSUME IInv, NEW p \in Procs, pc[p] = "putting",
           \/ segments' = segments
           \/ segments' = Append(segments, flush[p].content)
    PROVE  /\ RemoteView' \in {RemoteView, Overlay(flush[p].content, RemoteView)}
           /\ \A k \in Keys : RemoteView[k].id <= RemoteView'[k].id
           /\ segments' \in Seq(Table)
<1>1. flush[p].content \in Table /\ segments \in Seq(Table)
  BY DEF IInv, TypeOK
<1>2. RemoteView' \in {RemoteView, Overlay(flush[p].content, RemoteView)}
  <2>1. CASE segments' = segments
    BY <2>1 DEF RemoteView
  <2>2. CASE segments' = Append(segments, flush[p].content)
    BY <1>1, <2>2, RemoteAfterPut DEF IInv
  <2> QED
    BY <2>1, <2>2
<1>3. \A k \in Keys : RemoteView[k].id <= RemoteView'[k].id
  <2>1. \A k \in Keys : /\ RemoteView[k].id \in Nat /\ flush[p].content[k].id \in Nat
                        /\ Has(flush[p].content, k) =>
                              flush[p].content[k].id > RemoteView[k].id
    BY Ids DEF IInv, OrderInv
  <2> QED
    BY <1>2, <2>1 DEF Overlay
<1> QED
  BY <1>1, <1>2, <1>3

\* A flush leaves the wait for its put: with the segment there, whether or not
\* it learns so, or with its writes given up for lost.
LEMMA PutMoves ==
    ASSUME IInv, NEW p \in Procs, NEW next \in {"idle", "clearing"}, NEW f \in Flushes,
           pc[p] = "putting",
           \/ segments' = segments /\ next = "idle"
           \/ segments' = Append(segments, flush[p].content),
           failed' = IF next = "idle" THEN failed \cup IdsIn(flush[p].content) ELSE failed,
           next = "idle" => faulty,
           pc' = [pc EXCEPT ![p] = next],
           flush_gate' = IF next = "idle" THEN None ELSE p,
           flush' = [flush EXCEPT ![p] = f], f.content = EmptyTable,
           next = "clearing" => f.due = flush[p].due,
           UNCHANGED <<bufWriter, memory, get, writes, last, faulty>>
    PROVE  IInv'
<1> DEFINE c == flush[p].content
<1>1. /\ "putting" \in Flushing /\ "clearing" \in Flushing /\ "idle" \notin Flushing
      /\ next \in {"idle"} \cup Flushing /\ next \notin Reading /\ next # "putting"
      /\ next # "swapping" /\ next # "taking"
  BY DEF Flushing, Reading
<1>2. flush_gate = p /\ bufWriter # p
  BY <1>1 DEF IInv, LockInv
<1>3. /\ LockInv'
      /\ flush_gate' \in Procs \cup {None} /\ bufWriter' \in Procs \cup {None}
      /\ pc' \in [Procs -> Places]
      /\ pc'[p] = next
      /\ \A q \in Procs : q # p => /\ pc'[q] = pc[q]
                                   /\ pc[q] \notin Flushing
                                   /\ pc[q] # "putting"
  BY <1>1, <1>2, LockMoves DEF IInv
<1>4. /\ RemoteView' \in {RemoteView, Overlay(c, RemoteView)}
      /\ \A k \in Keys : RemoteView[k].id <= RemoteView'[k].id
      /\ segments' \in Seq(Table)
  BY PutView
<1>5. next = "clearing" => RemoteView' = Overlay(c, RemoteView)
  BY RemoteAfterPut DEF IInv, TypeOK
<1>6. /\ buf' = buf /\ immutable_buf' = EmptyTable /\ immutable_buf = EmptyTable
      /\ get' = get /\ writes' = writes /\ last' = last /\ faulty' = faulty
  BY <1>1 DEF IInv, HandoverInv, memory
<1>7. flush \in [Procs -> Flushes] /\ c \in Table
  BY Typed DEF IInv, TypeOK
<1>8. /\ flush'[p] = f
      /\ \A q \in Procs : q # p => flush'[q] = flush[q]
      /\ \A q \in Procs : flush'[q].content = EmptyTable
  BY <1>3, <1>7 DEF IInv, HandoverInv
<1>9. \A k \in Keys : ~Has(EmptyTable, k) /\ EmptyTable[k].id = 0
  BY DEF Has, EmptyTable, NoEntry
<1>10. \A q \in Procs : pc'[q] # "putting"
  BY <1>1, <1>3
<1>11. /\ \A k \in Keys : /\ last[k].id <= writes /\ last[k].id \in Nat
                          /\ Has(buf, k) => buf[k] = last[k]
                          /\ RemoteView[k].id <= last[k].id /\ RemoteView[k].id \in Nat
                          /\ Has(RemoteView, k) => RemoteView[k].id > 0
                          /\ c[k].id <= last[k].id /\ c[k].id \in Nat
                          /\ Has(c, k) => c[k].id > RemoteView[k].id
       /\ \A j, k \in Keys : Has(buf, j) => /\ buf[j].id > c[k].id
                                            /\ buf[j].id > RemoteView[k].id
  BY Ids DEF IInv, OrderInv
<1> HIDE DEF c
<1>12. TypeOK'
  <2>1. flush' \in [Procs -> Flushes]
    BY <1>7
  <2>2. pc' \in [Procs -> {"idle", "getImm", "listing"} \cup Flushing]
    BY <1>3 DEF Places, Reading
  <2>3. \A k \in Keys : Has(c, k) => c[k].id \in 1..MaxWrites
    <3>1. writes \in 0..MaxWrites
      BY DEF IInv, TypeOK
    <3> QED
      BY <1>11, <3>1
  <2>4. failed' \subseteq 1..MaxWrites
    <3>1. failed' \subseteq failed \cup IdsIn(c)
      BY DEF c
    <3>2. IdsIn(c) \subseteq 1..MaxWrites
      BY <2>3 DEF IdsIn
    <3> QED
      BY <3>1, <3>2 DEF IInv, TypeOK
  <2> QED
    BY <1>3, <1>4, <1>6, <2>1, <2>2, <2>4, NoEntryType DEF IInv, TypeOK, Flushes
<1>13. HandoverInv' /\ FaultInv'
  <2>1. ~faulty => failed' = failed
    BY <1>1
  <2> QED
    BY <1>6, <1>8, <1>10, <2>1 DEF IInv, HandoverInv, FaultInv
<1>14. OrderInv'
  <2>1. \A k \in Keys : /\ RemoteView'[k].id <= last[k].id
                        /\ Has(RemoteView', k) => RemoteView'[k].id > 0
    BY <1>4, <1>11 DEF Overlay, Has
  <2>2. \A j, k \in Keys : Has(buf, j) => buf[j].id > RemoteView'[k].id
    BY <1>4, <1>11 DEF Overlay
  <2>3. \A k \in Keys : Has(buf, k) => buf[k].id > 0
    BY <1>11, Ids DEF IInv
  <2>4. \A k \in Keys : Has(buf', k) <=> Has(buf, k)
    BY <1>6 DEF Has
  <2> QED
    BY <1>6, <1>8, <1>9, <1>11, <2>1, <2>2, <2>3, <2>4 DEF OrderInv
<1>15. LossConfinedToWrite'
  <2>1. ASSUME NEW k \in Keys, MemoryView'[k] # last[k], last[k].id \notin failed'
        PROVE  FALSE
    <3>1. /\ MemoryView[k] = IF Has(buf, k) THEN buf[k] ELSE RemoteView[k]
          /\ MemoryView'[k] = IF Has(buf, k) THEN buf[k] ELSE RemoteView'[k]
      BY <1>6, <1>9 DEF MemoryView, Overlay, Has
    <3>2. ~Has(buf, k) /\ RemoteView'[k] # last[k]
      BY <1>11, <2>1, <3>1
    <3>3. last[k].id \notin failed
      BY <2>1
    <3>4. RemoteView[k] = last[k] \/ c[k] = last[k]
      BY <1>3, <3>1, <3>2, <3>3 DEF IInv, LossConfinedToWrite, c, Flushing
    <3>5. ~Has(c, k) => RemoteView'[k] = RemoteView[k]
      BY <1>4 DEF Overlay
    <3>6. CASE ~Has(c, k)
      <4>1. c[k] = last[k] /\ c[k] = NoEntry /\ RemoteView[k] # NoEntry
        BY <3>2, <3>4, <3>5, <3>6 DEF Has
      <4>2. last[k].id = 0
        BY <4>1 DEF NoEntry
      <4>3. RemoteView[k].id > 0
        BY <1>11, <4>1 DEF Has
      <4> QED
        BY <1>11, <4>2, <4>3
    <3>7. CASE Has(c, k)
      <4>1. c[k] = last[k]
        BY <1>11, <3>4, <3>7
      <4>2. RemoteView' = RemoteView /\ next = "idle"
        BY <1>4, <1>5, <3>2, <3>7, <4>1 DEF Overlay
      <4>3. c[k].id \in IdsIn(c)
        BY <3>7 DEF IdsIn
      <4> QED
        BY <2>1, <4>1, <4>2, <4>3 DEF c
    <3> QED
      BY <3>6, <3>7
  <2> QED
    BY <1>6, <2>1 DEF LossConfinedToWrite
<1>16. DueInv'
  <2>1. ASSUME NEW q \in Procs, pc'[q] \in Flushing
        PROVE  q = p /\ next = "clearing"
    BY <1>1, <1>3, <2>1
  <2>2. ASSUME next = "clearing", NEW k \in Keys
        PROVE  FrozenBy(p)'[k] = FrozenBy(p)[k]
    BY <1>5, <1>6, <1>8, <1>9, <2>2 DEF FrozenBy, Overlay, c
  <2>3. ASSUME next = "clearing", NEW k \in Keys
        PROVE  Overlay(buf, FrozenBy(p))'[k] = Overlay(buf, FrozenBy(p))[k]
    BY <1>6, <2>2, <2>3 DEF Overlay
  <2>4. \A k \in Keys : \/ flush[p].due[k].id <= FrozenBy(p)[k].id
                        \/ faulty /\ flush[p].due[k].id <= Overlay(buf, FrozenBy(p))[k].id
                        \/ flush[p].due[k].id \in failed
    BY <1>1 DEF IInv, DueInv
  <2> QED
    BY <1>6, <1>8, <2>1, <2>2, <2>3, <2>4 DEF DueInv
<1>17. GetInv'
  <2>1. InFlight
    BY DEF InFlight
  <2>2. ASSUME NEW q \in Procs, pc'[q] \in Reading PROVE OnCourse(get[q], pc[q])'
    <3>1. q # p /\ pc'[q] = pc[q] /\ OnCourse(get[q], pc[q])
      BY <1>1, <1>3, <2>2 DEF IInv, GetInv
    <3>2. get[q].raced /\ get[q].key \in Keys /\ get[q].floor.id \in Nat
      BY <2>1, <3>1, Ids DEF OnCourse, IInv
    <3>3. RemoteView[get[q].key].id <= RemoteView'[get[q].key].id
      BY <1>4, <3>2
    <3>4. get[q].floor.id <= RemoteView'[get[q].key].id
      <4>1. RemoteView'[get[q].key].id \in Nat
        BY <1>4, <1>11, <3>2 DEF Overlay
      <4> QED
        BY <1>11, <3>1, <3>2, <3>3, <4>1 DEF OnCourse
    <3> QED
      BY <1>6, <3>2, <3>4 DEF OnCourse
  <2> QED
    BY <2>2 DEF GetInv
<1> QED
  BY <1>3, <1>12, <1>13, <1>14, <1>15, <1>16, <1>17 DEF IInv

LEMMA PutSteps ==
    ASSUME IInv, NEW p \in Procs,
           StorePut(p) \/ (faulty /\ \E landed \in BOOLEAN : PutFails(p, landed))
    PROVE  IInv'
<1>1. pc[p] = "putting" /\ flush \in [Procs -> Flushes]
  BY Typed DEF IInv, StorePut, PutFails
<1>2. flush_gate = p
  BY <1>1 DEF IInv, LockInv, Flushing
<1>3. CASE StorePut(p)
  <2> DEFINE f == [flush[p] EXCEPT !.content = EmptyTable]
  <2>1. /\ f \in Flushes /\ f.content = EmptyTable /\ f.due = flush[p].due
    BY <1>1, NoEntryType DEF Flushes
  <2>2. flush' = [flush EXCEPT ![p] = f]
    BY <1>1, <1>3 DEF StorePut, Flushes
  <2>3. /\ segments' = Append(segments, flush[p].content)
        /\ pc' = [pc EXCEPT ![p] = "clearing"]
        /\ flush_gate' = p /\ failed' = failed
        /\ UNCHANGED <<bufWriter, memory, get, writes, last, faulty>>
    BY <1>2, <1>3 DEF StorePut, AddSegment, locks, ghosts
  <2> HIDE DEF f
  <2> QED
    BY <1>1, <2>1, <2>2, <2>3, PutMoves
<1>4. ASSUME faulty, NEW landed \in BOOLEAN, PutFails(p, landed) PROVE IInv'
  <2>1. /\ segments' = segments \/ segments' = Append(segments, flush[p].content)
        /\ failed' = failed \cup IdsIn(flush[p].content)
        /\ pc' = [pc EXCEPT ![p] = "idle"] /\ flush_gate' = None
        /\ flush' = [flush EXCEPT ![p] = NoFlush]
        /\ UNCHANGED <<bufWriter, memory, get, writes, last, faulty>>
    BY <1>4 DEF PutFails, AddSegment, ReturnFlush
  <2>2. NoFlush \in Flushes /\ NoFlush.content = EmptyTable
    BY Typed DEF IInv, NoFlush
  <2> QED
    BY <1>1, <1>4, <2>1, <2>2, PutMoves
<1> QED
  BY <1>3, <1>4

LEMMA StepInv == IInv /\ [Next]_vars => IInv'
<1> SUFFICES ASSUME IInv, [Next]_vars PROVE IInv'
  OBVIOUS
<1>1. CASE UNCHANGED vars
  <2>1. RemoteView' = RemoteView /\ MemoryView' = MemoryView
    BY <1>1, ViewFrame DEF vars
  <2>2. \A p \in Procs : FrozenBy(p)' = FrozenBy(p)
    BY <1>1, <2>1 DEF FrozenBy, vars, memory
  <2>3. TypeOK' /\ LockInv' /\ HandoverInv' /\ FaultInv'
    BY <1>1 DEF vars, memory, locks, ghosts, IInv, TypeOK, LockInv, HandoverInv, FaultInv
  <2>4. OrderInv' /\ LossConfinedToWrite'
    BY <1>1, <2>1 DEF vars, memory, ghosts, IInv, OrderInv, LossConfinedToWrite, Has
  <2>5. DueInv'
    BY <1>1, <2>2 DEF vars, memory, ghosts, IInv, DueInv, Overlay, Has
  <2>6. GetInv'
    BY <1>1, <2>1 DEF vars, memory, ghosts, IInv, GetInv, OnCourse, InFlight
  <2> QED
    BY <2>3, <2>4, <2>5, <2>6 DEF IInv
<1>2. ASSUME NEW p \in Procs, Step(p) PROVE IInv'
  <2>1. ASSUME NEW k \in Keys, Put(p, k) \/ Delete(p, k) PROVE IInv'
    BY <2>1, InsertStep DEF Put, Delete
  <2>2. CASE GetStep(p)
    BY <2>2, GetSteps
  <2>3. CASE FlushGate(p)
    BY <2>3, FlushGateStep
  <2>4. CASE FreezeLock(p)
    BY <2>4, FreezeLockStep
  <2>5. CASE FreezeSwap(p)
    BY <2>5, FreezeSkipsStep, FreezeSwapStep
  <2>6. CASE TakeNothing(p)
    BY <2>6, TakeNothingStep
  <2>7. CASE Take(p)
    BY <2>7, TakeStep
  <2>8. CASE StorePut(p)
    BY <2>8, PutSteps
  <2>9. CASE FlushClear(p)
    BY <2>9, FlushEndSteps
  <2> QED
    BY <1>2, <2>1, <2>2, <2>3, <2>4, <2>5, <2>6, <2>7, <2>8, <2>9 DEF Step, GetStep
<1>3. ASSUME NEW p \in Procs, Fault(p) PROVE IInv'
  BY <1>3, PutSteps, FlushEndSteps, GetSteps DEF Fault, GetStep
<1> QED
  BY <1>1, <1>2, <1>3 DEF Next

LEMMA InitView == Init => RemoteView = EmptyTable /\ MemoryView = EmptyTable
<1> SUFFICES ASSUME Init PROVE RemoteView = EmptyTable /\ MemoryView = EmptyTable
  OBVIOUS
<1>1. Len(segments) = 0
  BY DEF Init
<1>2. RemoteView = EmptyTable
  BY <1>1, NewestNone DEF RemoteView, EmptyTable
<1> QED
  BY <1>2 DEF Init, MemoryView, Overlay, EmptyTable

LEMMA InitInv == Init => IInv
<1> SUFFICES ASSUME Init PROVE IInv
  OBVIOUS
<1>1. RemoteView = EmptyTable /\ MemoryView = EmptyTable
  BY InitView
<1>2. /\ EmptyTable \in Table
      /\ \A k \in Keys : EmptyTable[k] = NoEntry /\ ~Has(EmptyTable, k) /\ EmptyTable[k].id = 0
  BY NoEntryType DEF Has, EmptyTable, NoEntry
<1>3. \A p \in Procs : pc[p] = "idle" /\ flush[p] = NoFlush /\ "idle" \notin Flushing
  BY DEF Init, Flushing
<1>4. TypeOK
  BY <1>2, NoEntryType DEF Init, TypeOK, NoGet, NoFlush
<1>5. LockInv /\ HandoverInv /\ FaultInv
  BY <1>3 DEF Init, LockInv, HandoverInv, FaultInv, NoFlush
<1>6. OrderInv
  BY <1>1, <1>2, <1>3 DEF Init, OrderInv, NoFlush
<1>7. LossConfinedToWrite /\ DueInv /\ GetInv
  BY <1>1, <1>2, <1>3 DEF Init, LossConfinedToWrite, DueInv, GetInv, Reading
<1> QED
  BY <1>4, <1>5, <1>6, <1>7 DEF IInv

\* The inductive invariant holds for any number of tasks, keys and writes, with
\* any failures of the object store and any futures dropped.
THEOREM Invariant == Spec => []IInv
BY InitInv, StepInv, PTL DEF Spec

\* Every variable has its type.
THEOREM TypeCorrect == Spec => []TypeOK
<1>1. IInv => TypeOK
  BY DEF IInv
<1> QED
  BY <1>1, Invariant, PTL

\* A memory read misses a write only while a flush puts it, or after its put has
\* failed (kvstore.rs:80-91).
THEOREM LossesConfined == Spec => []LossConfinedToWrite
<1>1. IInv => LossConfinedToWrite
  BY DEF IInv
<1> QED
  BY <1>1, Invariant, PTL

-----------------------------------------------------------------------------
(* What calls return *)

\* The properties of the answers, for the answer r given in the current state.
AnswerOK(r) ==
    /\ r.kind = "get" => r.entry.id >= r.floor.id
    /\ (r.kind = "get" /\ r.level = "memory" /\ ~r.raced) =>
          r.entry.id >= r.start.id \/ r.start.id \in failed
    /\ (r.kind = "flush" /\ r.ok) =>
          \A k \in Keys :
              \/ RemoteView[k].id >= r.due[k].id
              \/ faulty /\ (\/ Overlay(buf, RemoteView)[k].id >= r.due[k].id
                           \/ r.due[k].id \in failed)

LEMMA AnswersSplit ==
    AnswerOK(reply) <=> GetNotBehindDurable /\ MemoryGetFresh /\ FlushDurable
BY DEF AnswerOK, GetNotBehindDurable, MemoryGetFresh, FlushDurable

\* A memory Get that hits the active buffer returns the latest write.
LEMMA GetBufHitAnswers ==
    ASSUME IInv, NEW p \in Procs, NEW k \in Keys, GetBufHit(p, k)
    PROVE  AnswerOK(reply)'
<1>1. /\ Has(buf, k)
      /\ reply' = GetReply("memory", buf[k], RemoteView[k], last[k], InFlight)
  BY DEF GetBufHit
<1>2. buf[k] = last[k] /\ buf[k].id > RemoteView[k].id
  BY <1>1 DEF IInv, OrderInv
<1>3. /\ reply'.kind = "get" /\ reply'.entry = buf[k]
      /\ reply'.floor = RemoteView[k] /\ reply'.start = last[k]
  BY <1>1 DEF GetReply
<1>4. buf[k].id \in Nat /\ RemoteView[k].id \in Nat
  BY Ids DEF IInv
<1> QED
  BY <1>2, <1>3, <1>4 DEF AnswerOK

\* One that has moved on returns an entry at least as new as what it must not
\* be behind.
LEMMA ReturnGetAnswers ==
    ASSUME IInv, NEW p \in Procs, NEW entry, ReturnGet(p, entry), get[p].key \in Keys,
           entry.id \in Nat, entry.id >= get[p].floor.id,
           (get[p].level = "memory" /\ ~get[p].raced) =>
               entry.id >= get[p].start.id \/ get[p].start.id \in failed
    PROVE  AnswerOK(reply)'
<1>1. /\ reply' = GetReply(get[p].level, entry, get[p].floor, get[p].start, get[p].raced)
      /\ failed' = failed
  BY DEF ReturnGet, ghosts
<1>2. /\ reply'.kind = "get" /\ reply'.entry = entry /\ reply'.level = get[p].level
      /\ reply'.floor = get[p].floor /\ reply'.start = get[p].start
      /\ reply'.raced = get[p].raced
  BY <1>1 DEF GetReply
<1> QED
  BY <1>1, <1>2 DEF AnswerOK

LEMMA GetImmHitAnswers ==
    ASSUME IInv, NEW p \in Procs, GetImmHit(p)
    PROVE  AnswerOK(reply)'
<1> DEFINE k == get[p].key
<1>1. /\ Has(immutable_buf, k) /\ ReturnGet(p, immutable_buf[k])
      /\ OnCourse(get[p], "getImm")
  BY DEF GetImmHit, IInv, GetInv, Reading
<1>2. k \in Keys
  BY <1>1 DEF OnCourse
<1>3. immutable_buf[k].id > RemoteView[k].id
  BY <1>1, <1>2 DEF IInv, OrderInv
<1>4. /\ immutable_buf[k].id \in Nat /\ RemoteView[k].id \in Nat
      /\ get[p].floor.id \in Nat /\ get[p].start.id \in Nat
  BY <1>2, Ids DEF IInv
<1>5. immutable_buf[k].id >= get[p].floor.id
  BY <1>1, <1>3, <1>4 DEF OnCourse
<1>6. (get[p].level = "memory" /\ ~get[p].raced) =>
          immutable_buf[k].id >= get[p].start.id \/ get[p].start.id \in failed
  BY <1>1, <1>3, <1>4 DEF OnCourse
<1> QED
  BY <1>1, <1>2, <1>4, <1>5, <1>6, ReturnGetAnswers

LEMMA GetListedAnswers ==
    ASSUME IInv, NEW p \in Procs, GetListed(p)
    PROVE  AnswerOK(reply)'
<1> DEFINE k == get[p].key
<1>1. ReturnGet(p, RemoteView[k]) /\ OnCourse(get[p], "listing")
  BY DEF GetListed, IInv, GetInv, Reading
<1>2. k \in Keys
  BY <1>1 DEF OnCourse
<1>3. RemoteView[k].id \in Nat /\ get[p].floor.id \in Nat /\ get[p].start.id \in Nat
  BY <1>2, Ids DEF IInv
<1>4. RemoteView[k].id >= get[p].floor.id
  BY <1>1, <1>3 DEF OnCourse
<1>5. (get[p].level = "memory" /\ ~get[p].raced) =>
          RemoteView[k].id >= get[p].start.id \/ get[p].start.id \in failed
  BY <1>1, <1>3 DEF OnCourse
<1> QED
  BY <1>1, <1>2, <1>3, <1>4, <1>5, ReturnGetAnswers

\* A flush that returns Ok has nothing left in its hands.
LEMMA FlushClearAnswers ==
    ASSUME IInv, NEW p \in Procs, FlushClear(p)
    PROVE  AnswerOK(reply)'
<1>1. /\ pc[p] = "clearing" /\ reply' = FlushReply(TRUE, flush[p].due)
      /\ UNCHANGED <<buf, segments>> /\ failed' = failed /\ faulty' = faulty
  BY DEF FlushClear, ReturnFlush, ghosts
<1>2. RemoteView' = RemoteView
  BY <1>1 DEF RemoteView
<1>3. flush[p].content = EmptyTable /\ immutable_buf = EmptyTable
  BY <1>1 DEF IInv, HandoverInv
<1>4. \A k \in Keys : FrozenBy(p)[k] = RemoteView[k]
  BY <1>3 DEF FrozenBy, Overlay, Has, EmptyTable
<1>5. \A k \in Keys : Overlay(buf, FrozenBy(p))[k] = Overlay(buf, RemoteView)[k]
  BY <1>4 DEF Overlay
<1>6. ~faulty => failed = {}
  BY DEF IInv, FaultInv
<1>7. ASSUME NEW k \in Keys
      PROVE  \/ RemoteView[k].id >= flush[p].due[k].id
             \/ faulty /\ (\/ Overlay(buf, RemoteView)[k].id >= flush[p].due[k].id
                          \/ flush[p].due[k].id \in failed)
  <2>1. \/ flush[p].due[k].id <= RemoteView[k].id
        \/ faulty /\ flush[p].due[k].id <= Overlay(buf, RemoteView)[k].id
        \/ flush[p].due[k].id \in failed
    BY <1>1, <1>4, <1>5 DEF IInv, DueInv, Flushing
  <2>2. /\ flush[p].due[k].id \in Nat /\ RemoteView[k].id \in Nat
        /\ Overlay(buf, RemoteView)[k].id \in Nat
    BY Ids DEF IInv, Overlay
  <2> QED
    BY <1>6, <2>1, <2>2
<1>8. reply'.kind = "flush" /\ reply'.due = flush[p].due
  BY <1>1 DEF FlushReply
<1>9. \A k \in Keys : Overlay(buf, RemoteView)'[k] = Overlay(buf, RemoteView)[k]
  BY <1>1, <1>2 DEF Overlay
<1> QED
  BY <1>1, <1>2, <1>7, <1>8, <1>9 DEF AnswerOK

\* Neither a step that answers nobody nor a failed flush promises anything.
LEMMA NothingPromised ==
    ASSUME reply' = NoReply \/ \E due : reply' = FlushReply(FALSE, due)
    PROVE  AnswerOK(reply)'
BY DEF NoReply, FlushReply, AnswerOK

LEMMA StepAnswers ==
    ASSUME IInv, AnswerOK(reply), [Next]_vars
    PROVE  AnswerOK(reply)'
<1>1. CASE UNCHANGED vars
  <2>1. RemoteView' = RemoteView
    BY <1>1, ViewFrame DEF vars
  <2> QED
    BY <1>1, <2>1 DEF AnswerOK, Overlay, Has, vars, memory, ghosts
<1>2. ASSUME NEW p \in Procs, Step(p) PROVE AnswerOK(reply)'
  <2>1. CASE reply' = NoReply
    BY <2>1, NothingPromised
  <2>2. ASSUME NEW k \in Keys, GetBufHit(p, k) PROVE AnswerOK(reply)'
    BY <2>2, GetBufHitAnswers
  <2>3. CASE GetImmHit(p)
    BY <2>3, GetImmHitAnswers
  <2>4. CASE GetListed(p)
    BY <2>4, GetListedAnswers
  <2>5. CASE FlushClear(p)
    BY <2>5, FlushClearAnswers
  <2> QED
    BY <1>2, <2>1, <2>2, <2>3, <2>4, <2>5 DEF Step, Put, Delete, Insert, GetBufMiss,
       GetRemote, StartGet, GetImmMiss, FlushGate, FreezeLock, FreezeSwap, TakeNothing,
       Take, StorePut
<1>3. ASSUME NEW p \in Procs, Fault(p) PROVE AnswerOK(reply)'
  BY <1>3, NothingPromised DEF Fault, PutFails, DropFlush, ReturnFlush, GetFails
<1> QED
  BY <1>1, <1>2, <1>3 DEF Next

LEMMA Answers == Spec => []AnswerOK(reply)
<1>1. Init => AnswerOK(reply)
  BY DEF Init, AnswerOK, NoReply
<1> QED
  BY <1>1, StepAnswers, Invariant, PTL DEF Spec

\* A Get, memory or remote, is never behind what was durable when it began.
THEOREM GetsNotBehindDurable == Spec => []GetNotBehindDurable
<1>1. AnswerOK(reply) => GetNotBehindDurable
  BY AnswersSplit
<1> QED
  BY <1>1, Answers, PTL

\* A memory Get that raced with no take misses no write but those of a failed put.
THEOREM MemoryGetsFresh == Spec => []MemoryGetFresh
<1>1. AnswerOK(reply) => MemoryGetFresh
  BY AnswersSplit
<1> QED
  BY <1>1, Answers, PTL

\* A flush that returns Ok has made durable what was written before it, without
\* faults; with them, it has lost nothing that was not lost already.
THEOREM FlushesDurable == Spec => []FlushDurable
<1>1. AnswerOK(reply) => FlushDurable
  BY AnswersSplit
<1> QED
  BY <1>1, Answers, PTL

-----------------------------------------------------------------------------
(* How the remote view moves *)

\* No step takes a remote reader back, whichever puts fail and however a future
\* is dropped.
THEOREM NeverRegresses == Spec => DurableNeverRegresses
<1>1. ASSUME IInv, [Next]_vars
      PROVE  [\A k \in Keys : RemoteView'[k].id >= RemoteView[k].id]_vars
  <2> DEFINE Goal == \A k \in Keys : RemoteView'[k].id >= RemoteView[k].id
  <2>1. \A k \in Keys : RemoteView[k].id \in Nat
    BY <1>1, Ids DEF IInv
  <2>2. ASSUME segments' = segments PROVE Goal
    <3>1. RemoteView' = RemoteView
      BY <2>2 DEF RemoteView
    <3> QED
      BY <2>1, <3>1
  <2>3. ASSUME NEW p \in Procs, pc[p] = "putting",
               segments' = segments \/ segments' = Append(segments, flush[p].content)
        PROVE  Goal
    <3>1. \A k \in Keys : RemoteView[k].id <= RemoteView'[k].id
      BY <1>1, <2>3, PutView
    <3>2. \A k \in Keys : RemoteView'[k].id \in Nat
      <4>1. RemoteView' \in {RemoteView, Overlay(flush[p].content, RemoteView)}
        BY <1>1, <2>3, PutView
      <4> QED
        BY <1>1, <4>1, Ids DEF IInv, Overlay
    <3> QED
      BY <2>1, <3>1, <3>2
  <2>4. ASSUME NEW p \in Procs, Step(p) PROVE Goal
    <3>1. CASE StorePut(p)
      BY <2>3, <3>1 DEF StorePut, AddSegment
    <3>2. CASE ~StorePut(p)
      BY <2>2, <2>4, <3>2 DEF Step, Put, Delete, Insert, GetBufHit, GetBufMiss, GetRemote,
         StartGet, GetImmHit, GetImmMiss, GetListed, ReturnGet, FlushGate, FreezeLock,
         FreezeSwap, TakeNothing, Take, FlushClear
    <3> QED
      BY <3>1, <3>2
  <2>5. ASSUME NEW p \in Procs, Fault(p) PROVE Goal
    <3>1. ASSUME NEW landed \in BOOLEAN, PutFails(p, landed) PROVE Goal
      BY <2>3, <3>1 DEF PutFails, AddSegment
    <3> QED
      BY <2>2, <2>5, <3>1 DEF Fault, DropFlush, GetFails
  <2> HIDE DEF Goal
  <2>6. Next => Goal
    BY <2>4, <2>5 DEF Next
  <2> QED
    BY <1>1, <2>6 DEF Goal
<1> QED
  BY <1>1, Invariant, PTL DEF Spec, DurableNeverRegresses

-----------------------------------------------------------------------------
(* Refinement, without faults *)

\* The state that the flush under way is making durable.
FrozenView == IF InFlight
              THEN LET p == CHOOSE q \in Procs : pc[q] = "putting"
                   IN  Overlay(flush[p].content, RemoteView)
              ELSE Overlay(immutable_buf, RemoteView)

StoreUnchanged == UNCHANGED <<last, FrozenView, RemoteView, writes>>

\* One flush at a time puts, so the frozen state is what that flush puts.
LEMMA FrozenViewIs ==
    ASSUME LockInv
    PROVE  /\ \A p \in Procs : pc[p] = "putting" =>
                  FrozenView = Overlay(flush[p].content, RemoteView)
           /\ (\A p \in Procs : pc[p] # "putting") =>
                  FrozenView = Overlay(immutable_buf, RemoteView)
<1>1. ASSUME NEW p \in Procs, pc[p] = "putting"
      PROVE  FrozenView = Overlay(flush[p].content, RemoteView)
  <2>1. \A q \in Procs : pc[q] = "putting" => q = p
    BY <1>1, OneFlusher DEF Flushing
  <2>2. (CHOOSE q \in Procs : pc[q] = "putting") = p
    BY <1>1, <2>1
  <2>3. InFlight
    BY <1>1 DEF InFlight
  <2> QED
    BY <2>2, <2>3 DEF FrozenView
<1> QED
  BY <1>1 DEF FrozenView, InFlight

\* Steps that put, freeze and take nothing.
LEMMA QuietStep ==
    ASSUME LockInv, LockInv', UNCHANGED <<last, writes, segments, immutable_buf>>,
           \A q \in Procs : /\ pc'[q] = "putting" <=> pc[q] = "putting"
                            /\ flush'[q].content = flush[q].content
    PROVE  StoreUnchanged
<1>1. RemoteView' = RemoteView
  BY DEF RemoteView
<1>2. FrozenView' = FrozenView
  <2>1. CASE \E q \in Procs : pc[q] = "putting"
    <3>1. PICK q \in Procs : pc[q] = "putting"
      BY <2>1
    <3>2. FrozenView = Overlay(flush[q].content, RemoteView)
      BY <3>1, FrozenViewIs
    <3>3. FrozenView' = Overlay(flush[q].content, RemoteView)'
      <4>1. pc'[q] = "putting" /\ \A r \in Procs : pc'[r] = "putting" => r = q
        BY <3>1 DEF LockInv, Flushing
      <4>2. (CHOOSE r \in Procs : pc'[r] = "putting") = q /\ InFlight'
        BY <4>1 DEF InFlight
      <4> QED
        BY <4>2 DEF FrozenView
    <3> QED
      BY <1>1, <3>2, <3>3 DEF Overlay, Has
  <2>2. CASE \A q \in Procs : pc[q] # "putting"
    BY <1>1, <2>2 DEF FrozenView, InFlight, Overlay, Has
  <2> QED
    BY <2>1, <2>2
<1> QED
  BY <1>1, <1>2 DEF StoreUnchanged

LEMMA InsertIsWrite ==
    ASSUME IInv, ~faulty, NEW p \in Procs, NEW k \in Keys, NEW dead \in BOOLEAN,
           Insert(p, k, dead)
    PROVE  Store!Write(k, dead)
<1>1. /\ writes < MaxWrites /\ writes' = writes + 1
      /\ last' = [last EXCEPT ![k] = [id |-> writes + 1, dead |-> dead]]
      /\ UNCHANGED <<locks, immutable_buf, segments, pc, flush>>
  BY DEF Insert
<1>2. RemoteView' = RemoteView
  BY <1>1 DEF RemoteView
<1>3. FrozenView' = FrozenView
  BY <1>1, <1>2 DEF FrozenView, InFlight, Overlay, Has
<1> QED
  BY <1>1, <1>2, <1>3 DEF Store!Write, FrozenView

\* The swap is the Freeze: nothing is frozen before it, and what it freezes is
\* the state of that instant.
LEMMA FreezeSwapIsFreeze ==
    ASSUME IInv, IInv', ~faulty, NEW p \in Procs, FreezeSwap(p), DidFreeze
    PROVE  Store!Freeze
<1>1. /\ pc[p] = "swapping" /\ pc' = [pc EXCEPT ![p] = "taking"]
      /\ immutable_buf = EmptyTable /\ immutable_buf' = buf /\ buf' = EmptyTable
      /\ UNCHANGED <<segments, flush>> /\ writes' = writes /\ last' = last
  BY DEF FreezeSwap, DidFreeze, Frozen, AfterFreeze, ghosts
<1>2. RemoteView' = RemoteView /\ MemoryView' = MemoryView
  BY <1>1, FreezeView DEF IInv
<1>3. \A q \in Procs : pc[q] # "putting" /\ pc'[q] # "putting"
  BY <1>1, OneFlusher DEF IInv, TypeOK, Flushing
<1>4. FrozenView = Overlay(immutable_buf, RemoteView)
  BY <1>3 DEF FrozenView, InFlight
<1>5. FrozenView' = Overlay(immutable_buf', RemoteView')
  BY <1>3 DEF FrozenView, InFlight
<1>6. \A k \in Keys : ~Has(EmptyTable, k)
  BY DEF Has, EmptyTable
<1>7. FrozenView = RemoteView
  <2>1. \A k \in Keys : FrozenView[k] = RemoteView[k]
    BY <1>1, <1>4, <1>6 DEF Overlay
  <2> QED
    BY <1>4, <2>1, ViewType DEF Overlay, IInv, Table
<1>8. FrozenView' = last
  <2>1. \A k \in Keys : MemoryView[k] = last[k]
    BY <1>3, LatestIsSeen DEF IInv, FaultInv, InFlight
  <2>2. \A k \in Keys : FrozenView'[k] = last[k]
    BY <1>1, <1>2, <1>5, <1>6, <2>1 DEF MemoryView, Overlay
  <2> QED
    BY <1>5, <2>2 DEF Overlay, IInv, TypeOK, Table
<1> QED
  BY <1>1, <1>2, <1>7, <1>8 DEF Store!Freeze, FrozenView

LEMMA TakeStutters ==
    ASSUME IInv, IInv', NEW p \in Procs, Take(p)
    PROVE  StoreUnchanged
<1>1. /\ pc[p] = "taking" /\ pc'[p] = "putting"
      /\ flush'[p].content = immutable_buf
      /\ UNCHANGED segments /\ writes' = writes /\ last' = last
  BY DEF Take, ghosts, IInv, TypeOK
<1>2. RemoteView' = RemoteView
  BY <1>1 DEF RemoteView
<1>3. FrozenView = Overlay(immutable_buf, RemoteView)
  BY <1>1, OneFlusher DEF IInv, Flushing, FrozenView, InFlight
<1>4. FrozenView' = Overlay(immutable_buf, RemoteView)
  <2>1. \A r \in Procs : pc'[r] = "putting" => r = p
    BY <1>1 DEF IInv, LockInv, Flushing
  <2>2. (CHOOSE r \in Procs : pc'[r] = "putting") = p /\ InFlight'
    BY <1>1, <2>1 DEF InFlight
  <2> QED
    BY <1>1, <1>2, <2>2 DEF FrozenView, Overlay, Has
<1> QED
  BY <1>1, <1>2, <1>3, <1>4 DEF StoreUnchanged

\* The segment that appears makes the frozen state durable as a whole.
LEMMA StorePutIsPersist ==
    ASSUME IInv, NEW p \in Procs, StorePut(p)
    PROVE  Store!Persist
<1>1. /\ pc[p] = "putting" /\ pc' = [pc EXCEPT ![p] = "clearing"]
      /\ segments' = Append(segments, flush[p].content)
      /\ immutable_buf' = immutable_buf /\ writes' = writes /\ last' = last
  BY DEF StorePut, AddSegment, memory, ghosts
<1>2. RemoteView' = Overlay(flush[p].content, RemoteView)
  BY <1>1, RemoteAfterPut DEF IInv, TypeOK
<1>3. FrozenView = Overlay(flush[p].content, RemoteView)
  BY <1>1, FrozenViewIs DEF IInv
<1>4. FrozenView' = RemoteView'
  <2>1. \A q \in Procs : pc'[q] # "putting"
    BY <1>1, OneFlusher DEF IInv, TypeOK, Flushing
  <2>2. FrozenView' = Overlay(immutable_buf', RemoteView')
    BY <2>1 DEF FrozenView, InFlight
  <2>3. \A k \in Keys : ~Has(immutable_buf', k)
    BY <1>1 DEF IInv, HandoverInv, Has, EmptyTable
  <2> QED
    BY <1>2, <2>2, <2>3 DEF Overlay
<1> QED
  BY <1>1, <1>2, <1>3, <1>4 DEF Store!Persist, FrozenView

LEMMA StepRefines ==
    ASSUME IInv, [Next]_vars
    PROVE  [~faulty => Store!StoreNext]_(Store!storeVars)
<1> DEFINE Goal == faulty \/ Store!StoreNext \/ StoreUnchanged
<1>0. IInv'
  BY StepInv
<1>1. ASSUME UNCHANGED vars PROVE Goal
  <2>1. UNCHANGED <<last, writes, segments, immutable_buf, pc, flush>>
    BY <1>1 DEF vars, memory, ghosts
  <2> QED
    BY <1>0, <2>1, QuietStep DEF IInv
<1>2. ASSUME NEW p \in Procs, Step(p) PROVE Goal
  <2>1. ASSUME NEW k \in Keys, Put(p, k) \/ Delete(p, k) PROVE Goal
    BY <2>1, InsertIsWrite DEF Put, Delete, Store!StoreNext
  <2>2. CASE GetStep(p)
    <3>1. /\ UNCHANGED <<last, writes, segments, immutable_buf, flush>>
          /\ \A q \in Procs : pc'[q] = "putting" <=> pc[q] = "putting"
      BY <2>2 DEF GetStep, GetBufHit, GetBufMiss, GetRemote, StartGet, GetImmHit,
         GetImmMiss, GetListed, ReturnGet, GetFails, memory, ghosts, IInv, TypeOK
    <3> QED
      BY <1>0, <3>1, QuietStep DEF IInv
  <2>3. CASE FreezeSwap(p) /\ DidFreeze
    BY <1>0, <2>3, FreezeSwapIsFreeze DEF Store!StoreNext
  <2>4. CASE Take(p)
    BY <1>0, <2>4, TakeStutters
  <2>5. CASE StorePut(p)
    BY <2>5, StorePutIsPersist DEF Store!StoreNext
  <2>6. CASE FlushGate(p) \/ FreezeLock(p) \/ (FreezeSwap(p) /\ ~DidFreeze)
             \/ TakeNothing(p) \/ FlushClear(p)
    <3>1. UNCHANGED <<last, writes, segments, immutable_buf>>
      BY <2>6 DEF FlushGate, FreezeLock, FreezeSwap, TakeNothing, FlushClear, memory,
         ghosts, IInv, HandoverInv
    <3>2. \A q \in Procs : pc'[q] = "putting" <=> pc[q] = "putting"
      BY <2>6 DEF FlushGate, FreezeLock, FreezeSwap, TakeNothing, FlushClear, ReturnFlush,
         IInv, TypeOK
    <3>3. \A q \in Procs : flush'[q].content = flush[q].content
      <4>1. CASE FlushGate(p)
        BY <4>1 DEF FlushGate, IInv, TypeOK
      <4>2. CASE FlushClear(p)
        BY <4>2 DEF FlushClear, ReturnFlush, NoFlush, IInv, TypeOK, HandoverInv
      <4> QED
        BY <2>6, <4>1, <4>2 DEF FreezeLock, FreezeSwap, TakeNothing
    <3> QED
      BY <1>0, <3>1, <3>2, <3>3, QuietStep DEF IInv
  <2> QED
    BY <1>2, <2>1, <2>2, <2>3, <2>4, <2>5, <2>6 DEF Step, GetStep
<1>3. Goal
  BY <1>1, <1>2 DEF Next, Fault
<1> QED
  BY <1>3 DEF StoreUnchanged, FrozenView, Store!storeVars

\* Without faults the store implements DurableStore: what a remote reader, or a
\* restart, finds is always one whole past state of the store.
THEOREM Refinement == Spec => ImplementsStore
<1>1. Init => Store!StoreInit
  <2> SUFFICES ASSUME Init PROVE Store!StoreInit
    OBVIOUS
  <2>1. ~InFlight /\ FrozenView = Overlay(immutable_buf, RemoteView)
    BY DEF Init, FrozenView, InFlight
  <2>2. FrozenView = EmptyTable
    BY <2>1, InitView DEF Init, Overlay, EmptyTable
  <2> QED
    BY <2>2, InitView DEF Init, Store!StoreInit, FrozenView, EmptyTable, NoEntry,
       Store!EmptyTable, Store!NoEntry
<1> QED
  BY <1>1, StepRefines, Invariant, PTL DEF Spec, ImplementsStore
=============================================================================
