-------------------------- MODULE GoKVStoreProofs --------------------------
(***************************************************************************)
(* IInv is an invariant of the store with and without faults, and the       *)
(* properties of GoKVStore follow from it, with those that it has as an      *)
(* implementation of DurableStore.  LivesInv is one of the lives of a       *)
(* bucket, for any number of them: what a store has made durable stays, and *)
(* the lives are apart, as far as GoKVStoreReopen says.  Last what          *)
(* DurableStore itself promises.                                           *)
(***************************************************************************)
EXTENDS GoKVStoreReopenInv, EntriesProofs

\* The state of a DurableStore that is not a view of the store's.
VARIABLES latest, frozen, durable
Abstract == INSTANCE DurableStore

USE MaxWritesAssumption, NoneAssumption

-----------------------------------------------------------------------------
(* What a step does to the remote view *)

LEMMA RemoteType == TypeOK => RemoteView \in Table /\ MemoryView \in Table
<1> SUFFICES ASSUME TypeOK PROVE RemoteView \in Table /\ MemoryView \in Table
  OBVIOUS
<1>1. \A k \in Keys : Newest(bucket, k, flushID) \in Entry
  <2>1. flushID \in Nat /\ \A i \in 1..flushID : bucket[i] \in Table
    BY DEF TypeOK, Slots
  <2> QED
    BY <2>1, NewestType
<1>2. RemoteView \in Table
  BY <1>1 DEF RemoteView, Table
<1> QED
  BY <1>2, OverlayType DEF MemoryView, TypeOK

\* A new number without a blob changes nothing.
LEMMA RemoteAfterFreeze ==
    ASSUME TypeOK, NumberInv, flushID < MaxWrites,
           flushID' = flushID + 1, bucket' = bucket
    PROVE  RemoteView' = RemoteView
<1>1. ASSUME NEW k \in Keys
      PROVE  Newest(bucket, k, flushID + 1) = Newest(bucket, k, flushID)
  <2>1. bucket[flushID + 1] = EmptyTable
    BY DEF TypeOK, NumberInv, Slots
  <2>2. ~Has(bucket[flushID + 1], k)
    BY <2>1 DEF Has, EmptyTable
  <2> QED
    BY <2>2, NewestNext DEF TypeOK
<1> QED
  BY <1>1 DEF RemoteView

\* A blob that lands at the newest number covers the older ones.
LEMMA RemoteAfterWrite ==
    ASSUME TypeOK, flushID > 0, bucket[flushID] = EmptyTable, NEW map \in Table,
           bucket' = [bucket EXCEPT ![flushID] = map], flushID' = flushID
    PROVE  RemoteView' = Overlay(map, RemoteView)
<1>0. flushID \in Nat /\ flushID - 1 \in Nat /\ flushID \in Slots
  BY DEF TypeOK, Slots
<1>1. bucket'[flushID] = map /\ \A i \in 1..(flushID - 1) : bucket'[i] = bucket[i]
  BY <1>0 DEF TypeOK, Slots
<1>2. ASSUME NEW k \in Keys
      PROVE  Newest(bucket', k, flushID) = Overlay(map, RemoteView)[k]
  <2>1. CASE Has(map, k)
    <3>1. Has(bucket'[flushID], k)
      BY <1>1, <2>1
    <3>2. Newest(bucket', k, flushID) = bucket'[flushID][k]
      BY <1>0, <3>1, NewestHit
    <3> QED
      BY <1>1, <2>1, <3>2 DEF Overlay
  <2>2. CASE ~Has(map, k)
    <3>1. Newest(bucket', k, flushID) = Newest(bucket', k, flushID - 1)
      BY <1>0, <1>1, <2>2, NewestMiss
    <3>2. Newest(bucket', k, flushID - 1) = Newest(bucket, k, flushID - 1)
      BY <1>0, <1>1, NewestSame
    <3>3. ~Has(bucket[flushID], k)
      BY DEF Has, EmptyTable
    <3>4. Newest(bucket, k, flushID) = Newest(bucket, k, flushID - 1)
      BY <1>0, <3>3, NewestMiss
    <3> QED
      BY <2>2, <3>1, <3>2, <3>4 DEF Overlay, RemoteView
  <2> QED
    BY <2>1, <2>2
<1> QED
  BY <1>2 DEF RemoteView, Overlay

\* Once it has landed, the frozen buffer shows nothing the blobs do not.
LEMMA RemoteCoversWritten ==
    ASSUME TypeOK, flushID > 0, NEW k \in Keys, Has(bucket[flushID], k)
    PROVE  RemoteView[k] = bucket[flushID][k]
BY NewestHit DEF RemoteView, TypeOK

-----------------------------------------------------------------------------
(* Steps that move a goroutine and leave the data alone *)

DataUnchanged == UNCHANGED <<memory, flushID, bucket, ghosts>>

LEMMA ViewFrame ==
    ASSUME DataUnchanged
    PROVE  /\ RemoteView' = RemoteView
           /\ MemoryView' = MemoryView
<1>1. buffer' = buffer /\ immutableBuf' = immutableBuf
  BY DEF DataUnchanged, memory
<1>2. RemoteView' = RemoteView
  BY DEF DataUnchanged, RemoteView
<1> QED
  BY <1>1, <1>2 DEF MemoryView

\* What IInv says of the data alone.
DataInv == NumberInv /\ LossConfinedToFailedFlush

LEMMA DataFrame ==
    ASSUME DataUnchanged, DataInv
    PROVE  DataInv'
<1>1. MemoryView' = MemoryView
  BY ViewFrame
<1>2. NumberInv'
  BY DEF DataUnchanged, DataInv, NumberInv, memory, ghosts
<1>3. LossConfinedToFailedFlush'
  BY <1>1 DEF DataUnchanged, DataInv, LossConfinedToFailedFlush, ghosts
<1> QED
  BY <1>2, <1>3 DEF DataInv

\* Order and orphans depend on which goroutines are in a Flush, and where.
LEMMA OrderFrame ==
    ASSUME DataUnchanged, OrderInv, OrphanInv,
           \A p \in Procs : /\ pc'[p] = "frozen" => pc[p] = "frozen"
                            /\ Writing(p) => Writing(p)'
    PROVE  OrderInv' /\ OrphanInv'
<1>1. RemoteView' = RemoteView
  BY ViewFrame
<1>2. /\ buffer' = buffer /\ immutableBuf' = immutableBuf
      /\ writes' = writes /\ last' = last /\ failed' = failed
  BY DEF DataUnchanged, memory, ghosts
<1>3. OrderInv'
  BY <1>1, <1>2 DEF OrderInv, Has
<1>4. OrphanInv'
  BY <1>2 DEF OrphanInv, Has
<1> QED
  BY <1>3, <1>4

LEMMA GetFromMemoryStep ==
    ASSUME IInv, NEW p \in Procs, NEW k \in Keys, NEW level \in Levels,
           GetFromMemory(p, k, level)
    PROVE  IInv'
<1> USE DEF GetFromMemory, locks, memory, blobs, ghosts
<1>1. RemoteView' = RemoteView /\ MemoryView' = MemoryView
  BY ViewFrame DEF DataUnchanged
<1>2. TypeOK' /\ LockInv'
  BY DEF IInv, TypeOK, LockInv, Writing
<1>3. DataInv'
  BY DataFrame DEF IInv, DataInv, DataUnchanged
<1>4. FlushInv'
  BY DEF IInv, FlushInv, Writing
<1>5. OrderInv' /\ OrphanInv'
  BY OrderFrame DEF IInv, DataUnchanged, Writing
<1>6. DueInv'
  BY <1>1 DEF IInv, DueInv
<1>7. ScanInv'
  BY <1>1 DEF IInv, ScanInv, Has
<1> QED
  BY <1>2, <1>3, <1>4, <1>5, <1>6, <1>7 DEF IInv, DataInv

\* The loop starts at the newest blob: nothing is behind it.
LEMMA GetFromBucketStep ==
    ASSUME IInv, NEW p \in Procs, NEW k \in Keys, NEW level \in Levels,
           GetFromBucket(p, k, level)
    PROVE  IInv'
<1> USE DEF GetFromBucket, locks, memory, blobs, ghosts
<1> DEFINE new == [key |-> k, level |-> level, at |-> flushID,
                   floor |-> ValueOf(RemoteView[k]), skipped |-> FALSE]
<1>1. RemoteView' = RemoteView /\ MemoryView' = MemoryView
  BY ViewFrame DEF DataUnchanged
<1>2. scan' = [scan EXCEPT ![p] = new] /\ scan'[p] = new
  BY DEF IInv, TypeOK, ScanFrom
<1>3. TypeOK'
  <2>1. ValueOf(RemoteView[k]) \in Nat
    BY RemoteType DEF IInv, ValueOf, NotFound, Table, Entry
  <2>2. new \in [key : Keys \cup {None}, level : Levels, at : 0..MaxWrites,
                 floor : Nat, skipped : BOOLEAN]
    BY <2>1 DEF IInv, TypeOK
  <2> QED
    BY <1>2, <2>2 DEF IInv, TypeOK
<1>4. pc' = [pc EXCEPT ![p] = "scanning"] /\ pc[p] = "idle"
  OBVIOUS
<1>5. \A q \in Procs : q # p => pc'[q] = pc[q] /\ scan'[q] = scan[q]
  BY <1>2, <1>4 DEF IInv, TypeOK
<1>6. pc'[p] = "scanning"
  BY <1>4 DEF IInv, TypeOK
<1>7. LockInv'
  BY <1>4, <1>5, <1>6 DEF IInv, LockInv, Writing
<1>8. DataInv'
  BY DataFrame DEF IInv, DataInv, DataUnchanged
<1>9. FlushInv'
  BY <1>5, <1>6 DEF IInv, FlushInv, Writing
<1>10. OrderInv' /\ OrphanInv'
  <2>1. \A q \in Procs : /\ pc'[q] = "frozen" => pc[q] = "frozen"
                         /\ Writing(q) => Writing(q)'
    BY <1>4, <1>5, <1>6 DEF Writing
  <2> QED
    BY <2>1, OrderFrame DEF IInv, DataUnchanged
<1>11. DueInv'
  BY <1>1, <1>5, <1>6 DEF IInv, DueInv
<1>12. ScanInv'
  <2>1. \A q \in Procs : pc'[q] = "frozen" <=> pc[q] = "frozen"
    BY <1>4, <1>5, <1>6
  <2>2. ASSUME NEW q \in Procs, q # p, pc'[q] = "scanning" PROVE FALSE
    BY <1>5, <2>2 DEF IInv, LockInv
  <2>3. level = "memory" => ~Has(buffer, k) /\ ~Has(immutableBuf, k)
    BY DEF BufferedFor, Overlay, Has
  <2>4. new.at = flushID /\ new.key = k /\ new.level = level /\ ~new.skipped
        /\ new.floor = ValueOf(RemoteView[k])
    OBVIOUS
  <2>5. RemoteView[k] = Newest(bucket, k, flushID)
    BY DEF RemoteView
  <2> QED
    BY <1>1, <1>2, <2>2, <2>3, <2>4, <2>5 DEF IInv, TypeOK, ScanInv, Has
<1> QED
  BY <1>3, <1>7, <1>8, <1>9, <1>10, <1>11, <1>12 DEF IInv, DataInv

\* Returning from the loop.
LEMMA GetReturnsStep ==
    ASSUME IInv, NEW p \in Procs, pc[p] = "scanning", NEW value, GetReturns(p, value)
    PROVE  IInv'
<1> USE DEF GetReturns, locks, memory, blobs, ghosts
<1>1. RemoteView' = RemoteView /\ MemoryView' = MemoryView
  BY ViewFrame DEF DataUnchanged
<1>2. TypeOK'
  BY DEF IInv, TypeOK, NoScan, NotFound, Levels
<1>3. \A q \in Procs : q # p => pc'[q] = pc[q] /\ scan'[q] = scan[q]
  BY DEF IInv, TypeOK
<1>4. pc'[p] = "idle" /\ mu = p
  BY DEF IInv, TypeOK, LockInv
<1>5. LockInv'
  BY <1>3, <1>4 DEF IInv, LockInv, Writing
<1>6. DataInv'
  BY DataFrame DEF IInv, DataInv, DataUnchanged
<1>7. FlushInv'
  BY <1>3, <1>4 DEF IInv, FlushInv, Writing
<1>8. OrderInv' /\ OrphanInv'
  <2>1. \A q \in Procs : /\ pc'[q] = "frozen" => pc[q] = "frozen"
                         /\ Writing(q) => Writing(q)'
    BY <1>3, <1>4 DEF Writing
  <2> QED
    BY <2>1, OrderFrame DEF IInv, DataUnchanged
<1>9. DueInv'
  BY <1>1, <1>3, <1>4 DEF IInv, DueInv
<1>10. ScanInv'
  <2>1. ASSUME NEW q \in Procs, pc'[q] = "scanning" PROVE FALSE
    BY <1>3, <1>4, <2>1 DEF IInv, LockInv
  <2> QED
    BY <2>1 DEF ScanInv
<1> QED
  BY <1>2, <1>5, <1>6, <1>7, <1>8, <1>9, <1>10 DEF IInv, DataInv

\* Passing over a blob: one that lacks the key leaves the answer ahead, one
\* that could not be read sets skipped.
LEMMA ScanMovesStep ==
    ASSUME IInv, NEW p \in Procs, ScanMiss(p) \/ ScanReadFails(p)
    PROVE  IInv'
<1> DEFINE s == scan[p]
           t == scan'[p]
<1>0. /\ pc[p] = "scanning" /\ s.at > 0 /\ DataUnchanged
      /\ UNCHANGED <<mu, flushMutex, bucketOpen, pc, flush>>
  BY DEF ScanMiss, ScanReadFails, locks, blobs, DataUnchanged
<1>1. RemoteView' = RemoteView /\ MemoryView' = MemoryView
  BY <1>0, ViewFrame
<1>2. /\ \A q \in Procs : q # p => scan'[q] = scan[q]
      /\ t.key = s.key /\ t.level = s.level /\ t.floor = s.floor /\ t.at = s.at - 1
      /\ ~t.skipped => ~s.skipped /\ ~Has(bucket[s.at], s.key)
  BY DEF IInv, TypeOK, ScanMiss, ScanReadFails
<1>3. TypeOK'
  <2> DEFINE Scans == [key : Keys \cup {None}, level : Levels, at : 0..MaxWrites,
                       floor : Nat, skipped : BOOLEAN]
  <2>1. scan \in [Procs -> Scans] /\ s \in Scans /\ s.at - 1 \in 0..MaxWrites
    BY <1>0, MaxWritesAssumption DEF IInv, TypeOK
  <2>2. \/ scan' = [scan EXCEPT ![p] = [s EXCEPT !.at = s.at - 1]]
        \/ scan' = [scan EXCEPT ![p] = [s EXCEPT !.at = s.at - 1, !.skipped = TRUE]]
    BY <2>1 DEF ScanMiss, ScanReadFails
  <2>3. /\ [s EXCEPT !.at = s.at - 1] \in Scans
        /\ [s EXCEPT !.at = s.at - 1, !.skipped = TRUE] \in Scans
    BY <2>1
  <2>4. scan' \in [Procs -> Scans]
    <3> HIDE DEF Scans
    <3> QED
      BY <2>1, <2>2, <2>3
  <2> QED
    BY <1>0, <2>4 DEF IInv, TypeOK, DataUnchanged, memory, ghosts
<1>4. LockInv'
  BY <1>0 DEF IInv, LockInv, Writing
<1>5. DataInv'
  BY <1>0, DataFrame DEF IInv, DataInv
<1>6. FlushInv'
  BY <1>0 DEF IInv, FlushInv, Writing, DataUnchanged, memory
<1>7. OrderInv' /\ OrphanInv'
  BY <1>0, OrderFrame DEF IInv, Writing
<1>8. DueInv'
  BY <1>0, <1>1 DEF IInv, DueInv, DataUnchanged, memory, ghosts
<1>9. ScanInv'
  <2>1. ~t.skipped => Newest(bucket, s.key, s.at - 1) = Newest(bucket, s.key, s.at)
    BY <1>0, <1>2, NewestMiss DEF IInv, TypeOK
  <2>2. buffer' = buffer /\ immutableBuf' = immutableBuf /\ flushID' = flushID
        /\ bucket' = bucket
    BY <1>0 DEF DataUnchanged, memory
  <2>3. ASSUME NEW q \in Procs, q # p, pc'[q] = "scanning" PROVE FALSE
    BY <1>0, <2>3 DEF IInv, LockInv
  <2>4. /\ t.key \in Keys
        /\ t.at <= flushID
        /\ t.level = "memory" => ~Has(buffer, t.key) /\ ~Has(immutableBuf, t.key)
        /\ ~t.skipped => ValueOf(Newest(bucket, t.key, t.at))
                            \in {t.floor, ValueOf(RemoteView[t.key])}
        /\ (\E q \in Procs : pc[q] = "frozen") => t.floor = ValueOf(RemoteView[t.key])
        /\ t.level = "memory" => t.floor = ValueOf(RemoteView[t.key])
    BY <1>0, <1>2, <2>1 DEF IInv, TypeOK, ScanInv
  <2> QED
    BY <1>0, <1>1, <2>2, <2>3, <2>4 DEF ScanInv, Has
<1> QED
  BY <1>3, <1>4, <1>5, <1>6, <1>7, <1>8, <1>9 DEF IInv, DataInv

LEMMA CloseStep ==
    ASSUME IInv, NEW p \in Procs, Close(p)
    PROVE  IInv'
<1> USE DEF Close, locks, memory, blobs, ghosts
<1>1. RemoteView' = RemoteView /\ MemoryView' = MemoryView
  BY ViewFrame DEF DataUnchanged
<1>2. TypeOK' /\ LockInv'
  BY DEF IInv, TypeOK, LockInv, Writing
<1>3. DataInv'
  BY DataFrame DEF IInv, DataInv, DataUnchanged
<1>4. FlushInv'
  BY DEF IInv, FlushInv, Writing
<1>5. OrderInv' /\ OrphanInv'
  BY OrderFrame DEF IInv, DataUnchanged, Writing
<1>6. DueInv'
  BY <1>1 DEF IInv, DueInv
<1>7. ScanInv'
  BY <1>1 DEF IInv, ScanInv, Has
<1> QED
  BY <1>2, <1>3, <1>4, <1>5, <1>6, <1>7 DEF IInv, DataInv

-----------------------------------------------------------------------------
(* Writes *)

\* A new write goes on top of everything a reader can see.
LEMMA SetView ==
    ASSUME TypeOK, NEW p \in Procs, NEW k \in Keys, NEW dead \in BOOLEAN, Set(p, k, dead)
    PROVE  /\ RemoteView' = RemoteView
           /\ MemoryView' = [MemoryView EXCEPT ![k] = [id |-> writes + 1, dead |-> dead]]
<1> USE DEF Set, locks, blobs
<1> DEFINE e == [id |-> writes + 1, dead |-> dead]
<1>1. RemoteView' = RemoteView
  BY DEF RemoteView
<1>2. e # NoEntry
  BY DEF NoEntry, TypeOK
<1>3. buffer' = [buffer EXCEPT ![k] = e] /\ immutableBuf' = immutableBuf
  OBVIOUS
<1> HIDE DEF e, Set
<1>4. \A j \in Keys : MemoryView'[j] = IF j = k THEN e ELSE MemoryView[j]
  BY <1>1, <1>2, <1>3 DEF TypeOK, Table, MemoryView, Overlay, Has
<1>5. MemoryView' = [MemoryView EXCEPT ![k] = e]
  BY <1>4 DEF MemoryView, Overlay
<1> QED
  BY <1>1, <1>5 DEF e

LEMMA SetStep ==
    ASSUME IInv, NEW p \in Procs, NEW k \in Keys, NEW dead \in BOOLEAN, Set(p, k, dead)
    PROVE  IInv'
<1> USE DEF Set, locks, blobs
<1> DEFINE e == [id |-> writes + 1, dead |-> dead]
<1>1. RemoteView' = RemoteView /\ MemoryView' = [MemoryView EXCEPT ![k] = e]
  BY SetView DEF IInv
<1>2. TypeOK'
  BY DEF IInv, TypeOK, Table, Entry
<1>3. LockInv'
  BY DEF IInv, LockInv, Writing
<1>4. NumberInv'
  BY DEF IInv, NumberInv, TypeOK
<1>5. FlushInv'
  BY DEF IInv, FlushInv, Writing
<1>6. /\ RemoteView \in Table /\ MemoryView \in Table
      /\ writes \in Nat /\ buffer \in Table /\ immutableBuf \in Table /\ last \in Table
      /\ flush \in [Procs -> [id : 0..MaxWrites, map : Table, due : Table]]
  BY RemoteType DEF IInv, TypeOK
<1>7. \A j \in Keys : /\ buffer'[j] = IF j = k THEN e ELSE buffer[j]
                      /\ last'[j] = IF j = k THEN e ELSE last[j]
                      /\ MemoryView'[j] = IF j = k THEN e ELSE MemoryView[j]
  BY <1>1, <1>6 DEF Table
<1>8. e.id = writes + 1
  OBVIOUS
<1>9. \A j \in Keys : /\ last[j].id <= writes
                      /\ buffer[j].id <= writes /\ immutableBuf[j].id <= writes
                      /\ RemoteView[j].id <= writes /\ MemoryView[j].id <= writes
  <2>1. \A j \in Keys : /\ last[j].id \in Nat /\ buffer[j].id \in Nat
                        /\ immutableBuf[j].id \in Nat /\ RemoteView[j].id \in Nat
    BY <1>6 DEF Table, Entry
  <2> QED
    BY <1>6, <2>1 DEF IInv, OrderInv, MemoryView, Overlay
<1>10. OrderInv'
  <2>1. \A j \in Keys : /\ last'[j].id <= writes'
                        /\ buffer'[j].id <= last'[j].id
                        /\ immutableBuf[j].id <= last'[j].id
                        /\ RemoteView[j].id <= last'[j].id
    BY <1>6, <1>7, <1>8, <1>9 DEF IInv, OrderInv, Table, Entry
  <2>2. ASSUME NEW i \in Keys, NEW j \in Keys, Has(buffer', i)
        PROVE  buffer'[i].id > immutableBuf[j].id /\ buffer'[i].id > RemoteView[j].id
    <3>1. immutableBuf[j].id \in Nat /\ RemoteView[j].id \in Nat
      BY <1>6 DEF Table, Entry
    <3>2. CASE i = k
      BY <1>6, <1>7, <1>8, <1>9, <3>1, <3>2
    <3>3. CASE i # k
      BY <1>7, <2>2, <3>3 DEF IInv, OrderInv, Has
    <3> QED
      BY <3>2, <3>3
  <2> QED
    BY <1>1, <2>1, <2>2 DEF IInv, OrderInv
<1>11. OrphanInv'
  BY DEF IInv, OrphanInv, Writing
<1>12. LossConfinedToFailedFlush'
  BY <1>7 DEF IInv, LossConfinedToFailedFlush
<1>13. DueInv'
  <2>1. ASSUME NEW j \in Keys
        PROVE  MemoryView'[j].id >= MemoryView[j].id
    <3>1. MemoryView[j].id \in Nat
      BY <1>6 DEF Table, Entry
    <3>2. CASE j = k
      BY <1>6, <1>7, <1>8, <1>9, <3>1, <3>2
    <3>3. CASE j # k
      BY <1>7, <3>1, <3>3
    <3> QED
      BY <3>2, <3>3
  <2>2. \A q \in Procs, j \in Keys : flush[q].due[j].id \in Nat
    BY <1>6 DEF Table, Entry
  <2>3. \A j \in Keys : MemoryView[j].id \in Nat /\ MemoryView'[j].id \in Nat
    BY <1>6, <1>7, <1>8 DEF Table, Entry
  <2> QED
    BY <1>1, <2>1, <2>2, <2>3 DEF IInv, DueInv
<1>14. ScanInv'
  BY DEF IInv, LockInv, ScanInv
<1> QED
  BY <1>2, <1>3, <1>4, <1>5, <1>10, <1>11, <1>12, <1>13, <1>14 DEF IInv

-----------------------------------------------------------------------------
(* Flush *)

\* What the caller may expect is on record before anything is frozen.
LEMMA FlushBeginStep ==
    ASSUME IInv, NEW p \in Procs, FlushBegin(p)
    PROVE  IInv'
<1> USE DEF FlushBegin, memory, blobs, ghosts
<1>1. RemoteView' = RemoteView /\ MemoryView' = MemoryView
  BY ViewFrame DEF DataUnchanged
<1>2. /\ pc[p] = "idle" /\ pc'[p] = "flushing" /\ flush'[p].due = last
      /\ \A q \in Procs : q # p => pc'[q] = pc[q] /\ flush'[q] = flush[q]
  BY DEF IInv, TypeOK
<1>3. TypeOK'
  <2>1. flush' \in [Procs -> [id : 0..MaxWrites, map : Table, due : Table]]
    BY DEF IInv, TypeOK
  <2> QED
    BY <2>1 DEF IInv, TypeOK
<1>4. LockInv'
  BY <1>2 DEF IInv, LockInv, Writing
<1>5. DataInv'
  BY DataFrame DEF IInv, DataInv, DataUnchanged
<1>6. FlushInv'
  BY <1>2 DEF IInv, FlushInv, Writing
<1>7. OrderInv' /\ OrphanInv'
  <2>1. \A q \in Procs : /\ pc'[q] = "frozen" => pc[q] = "frozen"
                         /\ Writing(q) => Writing(q)'
    BY <1>2 DEF Writing
  <2> QED
    BY <2>1, OrderFrame DEF IInv, DataUnchanged
<1>8. DueInv'
  <2>1. \A k \in Keys : last[k].id <= MemoryView[k].id \/ last[k].id \in failed
    <3>1. \A k \in Keys : last[k].id \in Nat
      BY DEF IInv, TypeOK, Table, Entry
    <3> QED
      BY <3>1 DEF IInv, LossConfinedToFailedFlush
  <2>2. \A k \in Keys : immutableBuf[k].id <= last[k].id
    BY DEF IInv, OrderInv
  <2>3. ASSUME NEW q \in Procs, q # p, pc'[q] \in {"flushing", "frozen", "written"}
        PROVE  FALSE
    BY <1>2, <2>3 DEF IInv, LockInv, Writing
  <2> QED
    BY <1>1, <1>2, <2>1, <2>2, <2>3 DEF DueInv
<1>9. ScanInv'
  <2>1. \A q \in Procs : /\ pc'[q] = "frozen" <=> pc[q] = "frozen"
                         /\ pc'[q] = "scanning" <=> pc[q] = "scanning"
    BY <1>2
  <2> QED
    BY <1>1, <2>1 DEF IInv, ScanInv, Has
<1> QED
  BY <1>3, <1>4, <1>5, <1>6, <1>7, <1>8, <1>9 DEF IInv, DataInv

LEMMA FlushEmptyStep ==
    ASSUME IInv, NEW p \in Procs, FlushEmpty(p)
    PROVE  IInv'
<1> USE DEF FlushEmpty, FlushReturns, memory, blobs, ghosts
<1>1. RemoteView' = RemoteView /\ MemoryView' = MemoryView
  BY ViewFrame DEF DataUnchanged
<1>2. /\ pc[p] = "flushing" /\ pc'[p] = "idle" /\ flushMutex = p
      /\ \A q \in Procs : q # p => pc'[q] = pc[q] /\ flush'[q] = flush[q]
  BY DEF IInv, TypeOK, LockInv
<1>3. TypeOK'
  <2>1. NoFlush \in [id : 0..MaxWrites, map : Table, due : Table]
    BY NoEntryType DEF NoFlush
  <2> QED
    BY <2>1 DEF IInv, TypeOK
<1>4. LockInv'
  BY <1>2 DEF IInv, LockInv, Writing
<1>5. DataInv'
  BY DataFrame DEF IInv, DataInv, DataUnchanged
<1>6. FlushInv'
  BY <1>2 DEF IInv, FlushInv, Writing
<1>7. OrderInv' /\ OrphanInv'
  <2>1. \A q \in Procs : /\ pc'[q] = "frozen" => pc[q] = "frozen"
                         /\ Writing(q) => Writing(q)'
    BY <1>2 DEF Writing
  <2> QED
    BY <2>1, OrderFrame DEF IInv, DataUnchanged
<1>8. DueInv'
  BY <1>1, <1>2 DEF IInv, DueInv
<1>9. ScanInv'
  <2>1. \A q \in Procs : /\ pc'[q] = "frozen" <=> pc[q] = "frozen"
                         /\ pc'[q] = "scanning" <=> pc[q] = "scanning"
    BY <1>2
  <2> QED
    BY <1>1, <2>1 DEF IInv, ScanInv, Has
<1> QED
  BY <1>3, <1>4, <1>5, <1>6, <1>7, <1>8, <1>9 DEF IInv, DataInv

\* flushMutex keeps every other goroutine out of Flush, mu every one out of Get.
LEMMA OneFlusher ==
    ASSUME LockInv, NEW p \in Procs, pc[p] = "flushing" \/ Writing(p)
    PROVE  \A q \in Procs : q # p => ~Writing(q) /\ pc[q] # "flushing"
BY DEF LockInv, Writing

LEMMA NoScanner ==
    ASSUME LockInv, mu = None
    PROVE  \A q \in Procs : pc[q] # "scanning"
BY DEF LockInv

\* Freezing replaces a frozen buffer whose blob failed: that is the loss.
LEMMA FlushFreezeStep ==
    ASSUME IInv, NEW p \in Procs, FlushFreeze(p)
    PROVE  IInv'
<1> DEFINE next == [id |-> flushID + 1, map |-> buffer, due |-> flush[p].due]
<1>1. /\ pc[p] = "flushing" /\ mu = None /\ buffer # EmptyTable
      /\ flushID' = flushID + 1 /\ immutableBuf' = buffer /\ buffer' = EmptyTable
      /\ pc' = [pc EXCEPT ![p] = "frozen"]
      /\ UNCHANGED <<mu, flushMutex, bucket, bucketOpen, scan, writes, last, failed>>
  BY DEF FlushFreeze, NothingToFlush, NextFlushID, FrozenFor, SnapshotOf, locks,
         blobs, ghosts
<1>2. /\ flush' = [flush EXCEPT ![p] = next]
      /\ next.id = flushID + 1 /\ next.map = buffer /\ next.due = flush[p].due
  BY DEF FlushFreeze, NextFlushID, SnapshotOf, IInv, TypeOK
<1>3. /\ pc'[p] = "frozen" /\ flush'[p] = next
      /\ \A q \in Procs : q # p => pc'[q] = pc[q] /\ flush'[q] = flush[q]
  BY <1>1, <1>2 DEF IInv, TypeOK
<1> HIDE DEF next
<1>4. flushID < writes /\ writes <= MaxWrites /\ writes \in Nat /\ flushID \in Nat
  BY <1>1 DEF IInv, NumberInv, TypeOK
<1>5. RemoteView' = RemoteView
  BY <1>1, <1>4, RemoteAfterFreeze DEF IInv
<1>6. /\ \A q \in Procs : ~Writing(q) /\ pc[q] # "scanning"
      /\ \A q \in Procs : q # p => pc[q] # "flushing"
  BY <1>1, OneFlusher, NoScanner DEF IInv, Writing
<1>7. TypeOK'
  <2>1. next \in [id : 0..MaxWrites, map : Table, due : Table]
    BY <1>4 DEF next, IInv, TypeOK
  <2> QED
    BY <1>1, <1>2, <1>4, <2>1, NoEntryType DEF IInv, TypeOK
<1>8. LockInv'
  BY <1>1, <1>3 DEF IInv, LockInv, Writing
<1>9. NumberInv'
  BY <1>1, <1>4 DEF IInv, NumberInv, TypeOK, Slots
<1>10. FlushInv'
  <2>1. bucket[flushID + 1] = EmptyTable
    BY <1>4 DEF IInv, NumberInv, Slots
  <2> QED
    BY <1>1, <1>2, <1>3, <1>4, <1>6, <2>1 DEF FlushInv, Writing
<1>11. /\ \A k \in Keys : /\ buffer'[k] = NoEntry /\ buffer'[k].id = 0
                          /\ immutableBuf'[k] = buffer[k]
       /\ \A k \in Keys : /\ buffer[k].id \in Nat /\ immutableBuf[k].id \in Nat
                          /\ RemoteView[k].id \in Nat /\ last[k].id \in Nat
  BY <1>1, RemoteType DEF IInv, TypeOK, Table, Entry, EmptyTable, NoEntry
<1>12. OrderInv'
  <2>1. \A k \in Keys : /\ last'[k].id <= writes'
                        /\ buffer'[k].id <= last'[k].id
                        /\ immutableBuf'[k].id <= last'[k].id
                        /\ RemoteView[k].id <= last'[k].id
    BY <1>1, <1>11 DEF IInv, OrderInv
  <2>2. \A j, k \in Keys : Has(immutableBuf', j) => immutableBuf'[j].id > RemoteView[k].id
    BY <1>11 DEF IInv, OrderInv, Has
  <2>3. \A k \in Keys : ~Has(buffer', k)
    BY <1>11 DEF Has
  <2>4. \A k \in Keys : Has(immutableBuf', k) => immutableBuf'[k].id >= RemoteView[k].id
    BY <1>1, <1>11, <2>2
  <2> QED
    BY <1>5, <2>1, <2>2, <2>3, <2>4 DEF OrderInv
<1>13. OrphanInv'
  BY <1>3 DEF OrphanInv, Writing
<1>14. \A k \in Keys : MemoryView'[k] = IF Has(buffer, k) THEN buffer[k] ELSE RemoteView[k]
  BY <1>5, <1>11 DEF MemoryView, Overlay, Has
<1>15. \A k \in Keys : ~Has(buffer, k) /\ Has(immutableBuf, k) =>
           MemoryView[k] = immutableBuf[k] /\ immutableBuf[k].id \in failed
  BY <1>6 DEF IInv, OrphanInv, MemoryView, Overlay
<1>16. \A k \in Keys : ~Has(immutableBuf, k) \/ Has(buffer, k) =>
           MemoryView[k] = IF Has(buffer, k) THEN buffer[k] ELSE RemoteView[k]
  BY DEF MemoryView, Overlay
<1>17. LossConfinedToFailedFlush'
  BY <1>1, <1>14, <1>15, <1>16 DEF IInv, LossConfinedToFailedFlush
<1>18. DueInv'
  <2>1. ASSUME NEW k \in Keys
        PROVE  \/ flush[p].due[k].id <= Overlay(buffer, RemoteView)[k].id
               \/ flush[p].due[k].id \in failed
    <3> DEFINE due == flush[p].due[k].id
    <3>1. due \in Nat
      BY DEF IInv, TypeOK, Table, Entry
    <3>2. (due <= MemoryView[k].id \/ due \in failed) /\ immutableBuf[k].id <= due
      BY <1>1 DEF IInv, DueInv
    <3>3. CASE ~Has(buffer, k) /\ Has(immutableBuf, k)
      BY <1>11, <1>15, <3>1, <3>2, <3>3
    <3>4. CASE ~Has(immutableBuf, k) \/ Has(buffer, k)
      BY <1>16, <3>2, <3>4 DEF Overlay
    <3> QED
      BY <3>3, <3>4
  <2>2. flush'[p].due = flush[p].due
    BY <1>2, <1>3
  <2> QED
    BY <1>1, <1>3, <1>5, <1>6, <2>1, <2>2 DEF DueInv, Writing
<1>19. ScanInv'
  BY <1>3, <1>6 DEF ScanInv
<1> QED
  BY <1>7, <1>8, <1>9, <1>10, <1>12, <1>13, <1>17, <1>18, <1>19 DEF IInv

\* The blob of a Flush lands, whatever that Flush is told.
BlobLands(p) ==
    /\ pc[p] = "frozen"
    /\ bucket' = [bucket EXCEPT ![flush[p].id] = flush[p].map]
    /\ UNCHANGED <<memory, flushID, scan, writes, last>>

LEMMA LandView ==
    ASSUME IInv, NEW p \in Procs, BlobLands(p)
    PROVE  /\ RemoteView' = Overlay(immutableBuf, RemoteView)
           /\ MemoryView' = MemoryView
           /\ bucket'[flushID] = immutableBuf
           /\ flushID \in Slots
           /\ \A i \in Slots : i # flushID => bucket'[i] = bucket[i]
<1>1. /\ flushID > 0 /\ bucket[flushID] = EmptyTable
      /\ bucket' = [bucket EXCEPT ![flushID] = immutableBuf]
      /\ flushID' = flushID /\ buffer' = buffer /\ immutableBuf' = immutableBuf
  BY DEF BlobLands, memory, IInv, FlushInv, Writing
<1>2. RemoteView' = Overlay(immutableBuf, RemoteView)
  BY <1>1, RemoteAfterWrite DEF IInv, TypeOK
<1>3. flushID \in Slots
  BY <1>1 DEF IInv, TypeOK, Slots
<1>4. \A k \in Keys : MemoryView'[k] = MemoryView[k]
  BY <1>1, <1>2 DEF MemoryView, Overlay
<1> QED
  BY <1>1, <1>2, <1>3, <1>4 DEF MemoryView, Overlay, IInv, TypeOK

LEMMA LandType ==
    ASSUME IInv, NEW p \in Procs, BlobLands(p)
    PROVE  bucket' \in [Slots -> Table]
BY DEF BlobLands, IInv, TypeOK

\* The scan of a Get under way is either still ahead of the blob that lands,
\* and will find it, or past it, and answers as of its start.
LEMMA LandScan ==
    ASSUME IInv, NEW p \in Procs, BlobLands(p),
           NEW q \in Procs, pc[q] = "scanning"
    PROVE  LET s == scan[q]
           IN  /\ s.key \in Keys
               /\ s.at <= flushID
               /\ s.level = "memory" =>
                     ~Has(buffer, s.key) /\ ~Has(immutableBuf, s.key)
               /\ ~s.skipped => ValueOf(Newest(bucket', s.key, s.at))
                                   \in {s.floor, ValueOf(RemoteView'[s.key])}
               /\ s.level = "memory" => s.floor = ValueOf(RemoteView'[s.key])
<1> DEFINE s == scan[q]
<1>1. /\ s.key \in Keys /\ s.at <= flushID /\ s.at \in Nat
      /\ s.level = "memory" => ~Has(buffer, s.key) /\ ~Has(immutableBuf, s.key)
      /\ ~s.skipped => ValueOf(Newest(bucket, s.key, s.at))
                          \in {s.floor, ValueOf(RemoteView[s.key])}
      /\ s.floor = ValueOf(RemoteView[s.key])
  BY DEF IInv, ScanInv, TypeOK, BlobLands
<1>2. s.level = "memory" => s.floor = ValueOf(RemoteView'[s.key])
  BY <1>1, LandView DEF Overlay
<1>3. CASE s.at = flushID
  <2>1. Newest(bucket', s.key, s.at) = RemoteView'[s.key]
    BY <1>1, <1>3 DEF RemoteView, BlobLands
  <2> QED
    BY <1>1, <1>2, <2>1
<1>4. CASE s.at < flushID
  <2>1. flushID \in Slots
    BY LandView
  <2>2. \A i \in 1..s.at : i \in Slots /\ i # flushID
    BY <1>1, <1>4, <2>1 DEF Slots, IInv, TypeOK
  <2>3. \A i \in 1..s.at : bucket'[i] = bucket[i]
    BY <2>2, LandView
  <2>4. Newest(bucket', s.key, s.at) = Newest(bucket, s.key, s.at)
    BY <1>1, <2>3, NewestSame
  <2> QED
    BY <1>1, <1>2, <2>4
<1>5. flushID \in Nat
  BY DEF IInv, TypeOK
<1> QED
  BY <1>1, <1>3, <1>4, <1>5

\* Order among what the readers see, once the blob is there.
LEMMA LandOrder ==
    ASSUME IInv, NEW p \in Procs, BlobLands(p)
    PROVE  /\ \A k \in Keys : /\ last[k].id <= writes
                              /\ buffer[k].id <= last[k].id
                              /\ immutableBuf[k].id <= last[k].id
                              /\ RemoteView'[k].id <= last[k].id
           /\ \A j, k \in Keys : Has(buffer, j) =>
                 buffer[j].id > immutableBuf[k].id /\ buffer[j].id > RemoteView'[k].id
           /\ \A k \in Keys : Has(immutableBuf, k) =>
                 immutableBuf[k].id >= RemoteView'[k].id
<1>1. \A k \in Keys :
          RemoteView'[k] = IF Has(immutableBuf, k) THEN immutableBuf[k] ELSE RemoteView[k]
  BY LandView DEF Overlay
<1>2. \A k \in Keys : immutableBuf[k].id \in Nat
  BY DEF IInv, TypeOK, Table, Entry
<1> QED
  BY <1>1, <1>2 DEF IInv, OrderInv

LEMMA FlushWriteStep ==
    ASSUME IInv, NEW p \in Procs, FlushWrite(p)
    PROVE  IInv'
<1>1. /\ pc[p] = "frozen" /\ pc' = [pc EXCEPT ![p] = "written"]
      /\ buffer' = buffer /\ immutableBuf' = immutableBuf
      /\ UNCHANGED <<mu, flushMutex, flushID, bucketOpen, scan, flush, writes, last,
                     failed>>
      /\ BlobLands(p)
  BY DEF FlushWrite, BlobLands, locks, memory, ghosts
<1>2. /\ pc'[p] = "written"
      /\ \A q \in Procs : q # p => pc'[q] = pc[q] /\ ~Writing(q) /\ pc[q] # "flushing"
  BY <1>1, OneFlusher DEF IInv, TypeOK, Writing
<1>3. TypeOK'
  BY <1>1, LandType DEF IInv, TypeOK
<1>4. LockInv'
  BY <1>1, <1>2 DEF IInv, LockInv, Writing
<1>5. NumberInv'
  BY <1>1, LandView DEF IInv, NumberInv, TypeOK
<1>6. FlushInv'
  BY <1>1, <1>2, LandView DEF IInv, FlushInv, Writing
<1>7. OrderInv'
  BY <1>1, <1>2, LandOrder DEF OrderInv, Has, Writing
<1>8. OrphanInv'
  BY <1>2 DEF OrphanInv, Writing
<1>9. LossConfinedToFailedFlush'
  BY <1>1, LandView DEF IInv, LossConfinedToFailedFlush
<1>10. DueInv'
  BY <1>1, <1>2, LandView DEF IInv, DueInv, Writing
<1>11. ScanInv'
  <2>1. \A q \in Procs : pc'[q] # "frozen"
    BY <1>2 DEF Writing
  <2>2. \A q \in Procs : pc'[q] = "scanning" => pc[q] = "scanning"
    BY <1>2
  <2> QED
    BY <1>1, <2>1, <2>2, LandScan DEF ScanInv, Has
<1> QED
  BY <1>3, <1>4, <1>5, <1>6, <1>7, <1>8, <1>9, <1>10, <1>11 DEF IInv

\* immutableBuf is dropped only after the blobs show what it showed.
LEMMA FlushClearStep ==
    ASSUME IInv, NEW p \in Procs, FlushClear(p)
    PROVE  IInv'
<1>1. /\ pc[p] = "written" /\ pc' = [pc EXCEPT ![p] = "idle"] /\ mu = None
      /\ flushMutex' = None /\ flush' = [flush EXCEPT ![p] = NoFlush]
      /\ immutableBuf' = EmptyTable /\ buffer' = buffer
      /\ UNCHANGED <<mu, flushID, bucket, bucketOpen, scan, writes, last, failed>>
  BY DEF FlushClear, FlushReturns, blobs, ghosts
<1>2. /\ pc'[p] = "idle" /\ flushMutex = p
      /\ \A q \in Procs : q # p => /\ pc'[q] = pc[q] /\ flush'[q] = flush[q]
                                   /\ ~Writing(q) /\ pc[q] # "flushing"
      /\ \A q \in Procs : pc[q] # "scanning"
  BY <1>1, OneFlusher, NoScanner DEF IInv, TypeOK, LockInv, Writing
<1>3. RemoteView' = RemoteView
  BY <1>1 DEF RemoteView
<1>4. \A k \in Keys : Has(immutableBuf, k) => RemoteView[k] = immutableBuf[k]
  <2>1. flushID > 0 /\ bucket[flushID] = immutableBuf
    BY <1>1 DEF IInv, FlushInv, Writing
  <2> QED
    BY <2>1, RemoteCoversWritten DEF IInv
<1>5. \A k \in Keys : immutableBuf'[k] = NoEntry /\ immutableBuf'[k].id = 0
  BY <1>1 DEF EmptyTable, NoEntry
<1>6. \A k \in Keys : MemoryView'[k] = MemoryView[k]
  BY <1>1, <1>3, <1>4, <1>5 DEF MemoryView, Overlay, Has
<1>7. TypeOK'
  <2>1. NoFlush \in [id : 0..MaxWrites, map : Table, due : Table]
    BY NoEntryType DEF NoFlush
  <2> QED
    BY <1>1, <2>1, NoEntryType DEF IInv, TypeOK
<1>8. LockInv'
  BY <1>1, <1>2 DEF IInv, LockInv, Writing
<1>9. NumberInv'
  BY <1>1 DEF IInv, NumberInv
<1>10. FlushInv'
  BY <1>2 DEF FlushInv, Writing
<1>11. OrderInv'
  <2>1. \A k \in Keys : last[k].id \in Nat /\ buffer[k].id \in Nat /\ immutableBuf[k].id \in Nat
    BY DEF IInv, TypeOK, Table, Entry
  <2>2. \A q \in Procs : pc'[q] # "frozen"
    BY <1>2 DEF Writing
  <2>3. \A j, k \in Keys : Has(buffer, j) => buffer[j].id > 0
    BY <2>1 DEF IInv, OrderInv
  <2> QED
    BY <1>1, <1>3, <1>5, <2>1, <2>2, <2>3 DEF IInv, OrderInv, Has
<1>12. OrphanInv'
  BY <1>5 DEF OrphanInv, Has
<1>13. LossConfinedToFailedFlush'
  BY <1>1, <1>6 DEF IInv, LossConfinedToFailedFlush
<1>14. DueInv'
  BY <1>2 DEF DueInv, Writing
<1>15. ScanInv'
  BY <1>2 DEF ScanInv
<1> QED
  BY <1>7, <1>8, <1>9, <1>10, <1>11, <1>12, <1>13, <1>14, <1>15 DEF IInv

\* The writes of a snapshot whose Flush fails are on record as failed, and
\* immutableBuf stays.
LEMMA FlushWriteFailsStep ==
    ASSUME IInv, NEW p \in Procs, NEW landed \in BOOLEAN, FlushWriteFails(p, landed)
    PROVE  IInv'
<1> DEFINE lost == IdsIn(flush[p].map)
<1>1. /\ pc[p] = "frozen" /\ pc' = [pc EXCEPT ![p] = "idle"]
      /\ flushMutex' = None /\ flush' = [flush EXCEPT ![p] = NoFlush]
      /\ buffer' = buffer /\ immutableBuf' = immutableBuf
      /\ failed' = failed \cup lost
      /\ UNCHANGED <<mu, flushID, bucketOpen, scan, writes, last>>
      /\ BlobLands(p) \/ bucket' = bucket
  BY DEF FlushWriteFails, FlushReturns, BlobLands, memory
<1>2. /\ pc'[p] = "idle" /\ flushMutex = p
      /\ \A q \in Procs : q # p => /\ pc'[q] = pc[q] /\ flush'[q] = flush[q]
                                   /\ ~Writing(q) /\ pc[q] # "flushing"
  BY <1>1, OneFlusher DEF IInv, TypeOK, LockInv, Writing
<1>3. lost = {immutableBuf[k].id : k \in {j \in Keys : Has(immutableBuf, j)}}
  BY <1>1 DEF IdsIn, IInv, FlushInv, Writing
<1> HIDE DEF lost
<1>4. \A k \in Keys : Has(immutableBuf, k) => immutableBuf[k].id \in 1..MaxWrites
  <2>1. \A k \in Keys : immutableBuf[k].id \in Nat /\ RemoteView[k].id \in Nat
                        /\ last[k].id \in Nat
    BY RemoteType DEF IInv, TypeOK, Table, Entry
  <2>2. ASSUME NEW k \in Keys, Has(immutableBuf, k)
        PROVE  immutableBuf[k].id > RemoteView[k].id
    BY <1>1, <2>2 DEF IInv, OrderInv
  <2>3. \A k \in Keys : immutableBuf[k].id <= last[k].id /\ last[k].id <= writes
    BY DEF IInv, OrderInv
  <2>4. writes \in Nat /\ writes <= MaxWrites
    BY DEF IInv, TypeOK
  <2> QED
    BY <2>1, <2>2, <2>3, <2>4
<1>5. TypeOK'
  <2>1. NoFlush \in [id : 0..MaxWrites, map : Table, due : Table]
    BY NoEntryType DEF NoFlush
  <2>2. bucket' \in [Slots -> Table]
    BY <1>1, LandType DEF IInv, TypeOK
  <2>3. failed' \subseteq 1..MaxWrites
    <3>1. lost \subseteq 1..MaxWrites
      BY <1>3, <1>4
    <3> QED
      BY <1>1, <3>1 DEF IInv, TypeOK
  <2>4. pc' \in [Procs -> {"idle", "scanning", "flushing", "frozen", "written"}]
    BY <1>1 DEF IInv, TypeOK
  <2>5. flush' \in [Procs -> [id : 0..MaxWrites, map : Table, due : Table]]
    BY <1>1, <2>1 DEF IInv, TypeOK
  <2>6. /\ mu' = mu /\ flushID' = flushID /\ bucketOpen' = bucketOpen
        /\ scan' = scan /\ writes' = writes /\ last' = last
        /\ buffer' = buffer /\ immutableBuf' = immutableBuf /\ flushMutex' = None
    BY <1>1
  <2> QED
    BY <2>2, <2>3, <2>4, <2>5, <2>6 DEF IInv, TypeOK
<1>6. LockInv'
  BY <1>1, <1>2 DEF IInv, LockInv, Writing
<1>7. NumberInv'
  BY <1>1, LandView DEF IInv, NumberInv, TypeOK
<1>8. FlushInv'
  BY <1>2 DEF FlushInv, Writing
<1>9. \A q \in Procs : pc'[q] # "frozen"
  BY <1>2 DEF Writing
<1>10. bucket' = bucket => RemoteView' = RemoteView /\ MemoryView' = MemoryView
  <2>1. bucket' = bucket => RemoteView' = RemoteView
    BY <1>1 DEF RemoteView
  <2> QED
    BY <1>1, <2>1 DEF MemoryView
<1>11. OrderInv'
  <2>1. CASE bucket' = bucket
    BY <1>1, <1>9, <1>10, <2>1 DEF IInv, OrderInv, Has
  <2>2. CASE BlobLands(p)
    BY <1>1, <1>9, <2>2, LandOrder DEF OrderInv, Has
  <2> QED
    BY <1>1, <2>1, <2>2
<1>12. OrphanInv'
  BY <1>1, <1>3 DEF OrphanInv, Has
<1>13. LossConfinedToFailedFlush'
  BY <1>1, <1>10, LandView DEF IInv, LossConfinedToFailedFlush
<1>14. DueInv'
  BY <1>2 DEF DueInv, Writing
<1>15. ScanInv'
  <2>1. \A q \in Procs : pc'[q] = "scanning" => pc[q] = "scanning"
    BY <1>2
  <2>2. CASE bucket' = bucket
    BY <1>1, <1>9, <1>10, <2>1, <2>2 DEF IInv, ScanInv, Has
  <2>3. CASE BlobLands(p)
    BY <1>1, <1>9, <2>1, <2>3, LandScan DEF ScanInv, Has
  <2> QED
    BY <1>1, <2>2, <2>3
<1> QED
  BY <1>5, <1>6, <1>7, <1>8, <1>11, <1>12, <1>13, <1>14, <1>15 DEF IInv

-----------------------------------------------------------------------------
(* The invariant *)

LEMMA InitView == Init => RemoteView = EmptyTable /\ MemoryView = EmptyTable
<1> SUFFICES ASSUME Init PROVE RemoteView = EmptyTable /\ MemoryView = EmptyTable
  OBVIOUS
<1>1. RemoteView = EmptyTable
  BY NewestNone DEF Init, RemoteView, EmptyTable
<1> QED
  BY <1>1 DEF Init, MemoryView, Overlay, EmptyTable

LEMMA InitInv == Init => IInv
<1> SUFFICES ASSUME Init PROVE IInv
  OBVIOUS
<1>1. RemoteView = EmptyTable /\ MemoryView = EmptyTable
  BY InitView
<1>2. TypeOK
  <2>1. NoFlush \in [id : 0..MaxWrites, map : Table, due : Table]
    BY NoEntryType DEF NoFlush
  <2>2. NoScan \in [key : Keys \cup {None}, level : Levels, at : 0..MaxWrites,
                    floor : Nat, skipped : BOOLEAN]
    BY DEF NoScan, Levels, NotFound
  <2> QED
    BY <2>1, <2>2, NoEntryType DEF Init, TypeOK
<1>3. LockInv /\ FlushInv /\ DueInv /\ ScanInv
  BY DEF Init, LockInv, FlushInv, DueInv, ScanInv, Writing
<1>4. NumberInv
  BY DEF Init, NumberInv
<1>5. OrderInv /\ OrphanInv
  BY <1>1 DEF Init, OrderInv, OrphanInv, Has, EmptyTable, NoEntry
<1>6. LossConfinedToFailedFlush
  BY <1>1 DEF Init, LossConfinedToFailedFlush
<1> QED
  BY <1>2, <1>3, <1>4, <1>5, <1>6 DEF IInv

LEMMA StutterInv == IInv /\ UNCHANGED vars => IInv'
<1> SUFFICES ASSUME IInv, UNCHANGED vars PROVE IInv'
  OBVIOUS
<1> USE DEF vars, locks, memory, blobs, ghosts
<1>1. RemoteView' = RemoteView /\ MemoryView' = MemoryView
  BY ViewFrame DEF DataUnchanged
<1>2. TypeOK' /\ LockInv' /\ NumberInv' /\ FlushInv'
  BY DEF IInv, TypeOK, LockInv, NumberInv, FlushInv, Writing
<1>3. OrderInv' /\ OrphanInv' /\ LossConfinedToFailedFlush'
  BY <1>1 DEF IInv, OrderInv, OrphanInv, LossConfinedToFailedFlush, Has, Writing
<1>4. DueInv' /\ ScanInv'
  BY <1>1 DEF IInv, DueInv, ScanInv, Has
<1> QED
  BY <1>2, <1>3, <1>4 DEF IInv

LEMMA StepInv == IInv /\ [FaultyNext]_vars => IInv'
<1> SUFFICES ASSUME IInv, [FaultyNext]_vars PROVE IInv'
  OBVIOUS
<1>1. CASE UNCHANGED vars
  BY <1>1, StutterInv
<1>2. ASSUME NEW p \in Procs, Step(p) PROVE IInv'
  <2>1. ASSUME NEW k \in Keys, Put(p, k) \/ Delete(p, k) PROVE IInv'
    BY <2>1, SetStep DEF Put, Delete
  <2>2. ASSUME NEW k \in Keys, NEW level \in Levels,
               GetFromMemory(p, k, level) \/ GetFromBucket(p, k, level)
        PROVE  IInv'
    BY <2>2, GetFromMemoryStep, GetFromBucketStep
  <2>3. CASE ScanHit(p)
    BY <2>3, GetReturnsStep DEF ScanHit
  <2>4. CASE ScanMiss(p)
    BY <2>4, ScanMovesStep
  <2>5. CASE ScanEnd(p)
    BY <2>5, GetReturnsStep DEF ScanEnd
  <2>6. CASE FlushBegin(p)
    BY <2>6, FlushBeginStep
  <2>7. CASE FlushEmpty(p)
    BY <2>7, FlushEmptyStep
  <2>8. CASE FlushFreeze(p)
    BY <2>8, FlushFreezeStep
  <2>9. CASE FlushWrite(p)
    BY <2>9, FlushWriteStep
  <2>10. CASE FlushClear(p)
    BY <2>10, FlushClearStep
  <2> QED
    BY <1>2, <2>1, <2>2, <2>3, <2>4, <2>5, <2>6, <2>7, <2>8, <2>9, <2>10 DEF Step
<1>3. ASSUME NEW p \in Procs, Fault(p) PROVE IInv'
  <2>1. ASSUME NEW landed \in BOOLEAN, FlushWriteFails(p, landed) PROVE IInv'
    BY <2>1, FlushWriteFailsStep
  <2>2. CASE ScanReadFails(p)
    BY <2>2, ScanMovesStep
  <2>3. CASE Close(p)
    BY <2>3, CloseStep
  <2> QED
    BY <1>3, <2>1, <2>2, <2>3 DEF Fault
<1> QED
  BY <1>1, <1>2, <1>3 DEF FaultyNext

\* IInv holds in every state of the store, whichever reads and writes of the
\* bucket fail and whoever closes it.
THEOREM Invariant == FaultySpec => []IInv
<1>1. FaultySpec => Init /\ [][FaultyNext]_vars
  BY DEF FaultySpec
<1> QED
  BY <1>1, InitInv, StepInv, PTL

\* The variables keep their types, the mutexes and the numbering their bounds.
THEOREM TypeCorrect == FaultySpec => []TypeOK
<1>1. IInv => TypeOK
  BY DEF IInv
<1> QED
  BY <1>1, Invariant, PTL

\* A write that no memory read sees any more was in a snapshot whose Flush
\* returned an error.
THEOREM LossConfined == FaultySpec => []LossConfinedToFailedFlush
<1>1. IInv => LossConfinedToFailedFlush
  BY DEF IInv
<1> QED
  BY <1>1, Invariant, PTL

\* Memory reads are never behind remote reads, faults or not.
THEOREM MemoryNotBehind == FaultySpec => []MemoryNotBehindRemote
<1>1. ASSUME IInv PROVE MemoryNotBehindRemote
  <2>1. RemoteView \in Table /\ buffer \in Table /\ immutableBuf \in Table
    BY <1>1, RemoteType DEF IInv, TypeOK
  <2>2. \A k \in Keys : RemoteView[k].id \in Nat /\ buffer[k].id \in Nat
                        /\ immutableBuf[k].id \in Nat
    BY <2>1 DEF Table, Entry
  <2> QED
    BY <1>1, <2>2 DEF IInv, OrderInv, MemoryNotBehindRemote, MemoryView, Overlay
<1> QED
  BY <1>1, Invariant, PTL

-----------------------------------------------------------------------------
(* What readers and callers of Flush are told *)

Answers == GetLinearizableUnlessSkipped /\ FlushDurableUnlessFailed

\* A step that tells nobody anything, or that ends a Get, or a Flush.
LEMMA SilentAnswers == reply' = NoReply => Answers'
BY DEF Answers, GetLinearizableUnlessSkipped, FlushDurableUnlessFailed, AnswersFrom,
       NoReply

LEMMA GetAnswers ==
    ASSUME NEW k \in Keys, NEW level, NEW value, NEW floor, NEW skipped,
           reply' = GetReply(k, level, value, floor, skipped),
           ~skipped => value \in IF level = "memory"
                                 THEN {ValueOf(MemoryView'[k])}
                                 ELSE {floor, ValueOf(RemoteView'[k])}
    PROVE  Answers'
BY DEF Answers, GetLinearizableUnlessSkipped, FlushDurableUnlessFailed, AnswersFrom,
       GetReply

LEMMA FlushAnswers ==
    ASSUME NEW ok, NEW due, reply' = FlushReply(ok, due),
           ok => \A k \in Keys : RemoteView'[k].id >= due[k].id \/ due[k].id \in failed'
    PROVE  Answers'
BY DEF Answers, GetLinearizableUnlessSkipped, FlushDurableUnlessFailed, AnswersFrom,
       FlushReply

LEMMA GetFromMemoryAnswers ==
    ASSUME IInv, NEW p \in Procs, NEW k \in Keys, NEW level \in Levels,
           GetFromMemory(p, k, level)
    PROVE  Answers'
<1>1. /\ Has(BufferedFor(level), k)
      /\ reply' = GetReply(k, level, ValueOf(BufferedFor(level)[k]), NotFound, FALSE)
      /\ MemoryView' = MemoryView
  BY ViewFrame DEF GetFromMemory, DataUnchanged, blobs
<1>2. level = "memory" /\ BufferedFor(level)[k] = MemoryView[k]
  BY <1>1 DEF BufferedFor, MemoryView, Overlay, Has, EmptyTable
<1> QED
  BY <1>1, <1>2, GetAnswers

\* The answer found at the end of the loop, in the terms of ScanInv.
LEMMA GetReturnsAnswers ==
    ASSUME IInv, NEW p \in Procs, pc[p] = "scanning", NEW value, GetReturns(p, value),
           value = ValueOf(Newest(bucket, scan[p].key, scan[p].at))
    PROVE  Answers'
<1> DEFINE s == scan[p]
<1>1. /\ reply' = GetReply(s.key, s.level, value, s.floor, s.skipped)
      /\ MemoryView' = MemoryView /\ RemoteView' = RemoteView
  BY ViewFrame DEF GetReturns, DataUnchanged, blobs
<1>2. /\ s.key \in Keys
      /\ ~s.skipped => value \in {s.floor, ValueOf(RemoteView[s.key])}
      /\ s.level = "memory" =>
            /\ s.floor = ValueOf(RemoteView[s.key])
            /\ ~Has(buffer, s.key) /\ ~Has(immutableBuf, s.key)
  BY DEF IInv, ScanInv
<1>3. s.level = "memory" => RemoteView[s.key] = MemoryView[s.key]
  BY <1>2 DEF MemoryView, Overlay
<1> QED
  BY <1>1, <1>2, <1>3, GetAnswers

\* With nothing in the buffer, what an earlier Flush left frozen is all that
\* this Flush fails to make durable.
LEMMA FlushEmptyAnswers ==
    ASSUME IInv, NEW p \in Procs, FlushEmpty(p)
    PROVE  Answers'
<1>1. /\ pc[p] = "flushing" /\ buffer = EmptyTable
      /\ reply' = FlushReply(TRUE, flush[p].due)
      /\ RemoteView' = RemoteView /\ failed' = failed
  BY ViewFrame DEF FlushEmpty, FlushReturns, NothingToFlush, DataUnchanged, blobs, ghosts
<1>2. ASSUME NEW k \in Keys
      PROVE  RemoteView[k].id >= flush[p].due[k].id \/ flush[p].due[k].id \in failed
  <2> DEFINE due == flush[p].due[k].id
  <2>1. due \in Nat /\ immutableBuf[k].id \in Nat
    BY DEF IInv, TypeOK, Table, Entry
  <2>2. (due <= MemoryView[k].id \/ due \in failed) /\ immutableBuf[k].id <= due
    BY <1>1 DEF IInv, DueInv
  <2>3. ~Has(buffer, k)
    BY <1>1 DEF Has, EmptyTable
  <2>4. CASE Has(immutableBuf, k)
    <3>1. immutableBuf[k].id \in failed
      BY <1>1, <2>4, OneFlusher DEF IInv, OrphanInv, Writing
    <3>2. MemoryView[k] = immutableBuf[k]
      BY <2>3, <2>4 DEF MemoryView, Overlay
    <3> QED
      BY <2>1, <2>2, <3>1, <3>2
  <2>5. CASE ~Has(immutableBuf, k)
    <3>1. MemoryView[k] = RemoteView[k]
      BY <2>3, <2>5 DEF MemoryView, Overlay
    <3> QED
      BY <2>2, <3>1
  <2> QED
    BY <2>4, <2>5
<1> QED
  BY <1>1, <1>2, FlushAnswers

LEMMA FlushClearAnswers ==
    ASSUME IInv, NEW p \in Procs, FlushClear(p)
    PROVE  Answers'
<1>1. /\ pc[p] = "written" /\ reply' = FlushReply(TRUE, flush[p].due)
      /\ failed' = failed
      /\ UNCHANGED <<flushID, bucket>>
  BY DEF FlushClear, FlushReturns, blobs, ghosts
<1>2. RemoteView' = RemoteView
  BY <1>1 DEF RemoteView
<1>3. \A k \in Keys :
          flush[p].due[k].id <= RemoteView[k].id \/ flush[p].due[k].id \in failed
  BY <1>1 DEF IInv, DueInv
<1> QED
  BY <1>1, <1>2, <1>3, FlushAnswers

LEMMA StepAnswers == IInv /\ Answers /\ [FaultyNext]_vars => Answers'
<1> SUFFICES ASSUME IInv, Answers, [FaultyNext]_vars PROVE Answers'
  OBVIOUS
<1>1. CASE UNCHANGED vars
  <2>1. RemoteView' = RemoteView /\ MemoryView' = MemoryView /\ reply' = reply
        /\ failed' = failed
    BY <1>1, ViewFrame DEF DataUnchanged, vars, blobs, memory, ghosts
  <2> QED
    BY <2>1 DEF Answers, GetLinearizableUnlessSkipped, FlushDurableUnlessFailed,
                AnswersFrom
<1>2. ASSUME NEW p \in Procs, Step(p) PROVE Answers'
  <2>1. ASSUME NEW k \in Keys, Put(p, k) \/ Delete(p, k) PROVE Answers'
    BY <2>1, SilentAnswers DEF Put, Delete, Set
  <2>2. ASSUME NEW k \in Keys, NEW level \in Levels, GetFromMemory(p, k, level)
        PROVE  Answers'
    BY <2>2, GetFromMemoryAnswers
  <2>3. ASSUME NEW k \in Keys, NEW level \in Levels, GetFromBucket(p, k, level)
        PROVE  Answers'
    BY <2>3, SilentAnswers DEF GetFromBucket
  <2>4. CASE ScanHit(p)
    <3>1. /\ pc[p] = "scanning"
          /\ GetReturns(p, ValueOf(bucket[scan[p].at][scan[p].key]))
      BY <2>4 DEF ScanHit
    <3>2. Newest(bucket, scan[p].key, scan[p].at) = bucket[scan[p].at][scan[p].key]
      BY <2>4, NewestHit DEF ScanHit, IInv, TypeOK
    <3> QED
      BY <3>1, <3>2, GetReturnsAnswers
  <2>5. CASE ScanEnd(p)
    <3>1. pc[p] = "scanning" /\ GetReturns(p, NotFound) /\ scan[p].at = 0
      BY <2>5 DEF ScanEnd
    <3>2. NotFound = ValueOf(Newest(bucket, scan[p].key, scan[p].at))
      BY <3>1, NewestNone DEF NoEntry, ValueOf
    <3> QED
      BY <3>1, <3>2, GetReturnsAnswers
  <2>6. CASE ScanMiss(p) \/ FlushBegin(p) \/ FlushFreeze(p) \/ FlushWrite(p)
    BY <2>6, SilentAnswers DEF ScanMiss, FlushBegin, FlushFreeze, FlushWrite
  <2>7. CASE FlushEmpty(p)
    BY <2>7, FlushEmptyAnswers
  <2>8. CASE FlushClear(p)
    BY <2>8, FlushClearAnswers
  <2> QED
    BY <1>2, <2>1, <2>2, <2>3, <2>4, <2>5, <2>6, <2>7, <2>8 DEF Step
<1>3. ASSUME NEW p \in Procs, Fault(p) PROVE Answers'
  <2>1. ASSUME NEW landed \in BOOLEAN, FlushWriteFails(p, landed) PROVE Answers'
    <3>1. reply' = FlushReply(FALSE, flush[p].due)
      BY <2>1 DEF FlushWriteFails, FlushReturns
    <3> QED
      BY <3>1, FlushAnswers
  <2>2. CASE ScanReadFails(p) \/ Close(p)
    BY <2>2, SilentAnswers DEF ScanReadFails, Close
  <2> QED
    BY <1>3, <2>1, <2>2 DEF Fault
<1> QED
  BY <1>1, <1>2, <1>3 DEF FaultyNext

LEMMA AnswersInvariant == FaultySpec => []Answers
<1>1. Init => Answers
  BY DEF Init, Answers, GetLinearizableUnlessSkipped, FlushDurableUnlessFailed,
         AnswersFrom, NoReply
<1> QED
  BY <1>1, StepAnswers, Invariant, PTL DEF FaultySpec

\* Every Get that skipped no unreadable blob answers as of one instant of it.
THEOREM GetsLinearizableUnlessSkipped == FaultySpec => []GetLinearizableUnlessSkipped
<1>1. Answers => GetLinearizableUnlessSkipped
  BY DEF Answers
<1> QED
  BY <1>1, AnswersInvariant, PTL

\* Every Flush that returns nil has made its caller's writes durable, but for
\* those an earlier failed Flush took with it.
THEOREM FlushesDurableUnlessFailed == FaultySpec => []FlushDurableUnlessFailed
<1>1. Answers => FlushDurableUnlessFailed
  BY DEF Answers
<1> QED
  BY <1>1, AnswersInvariant, PTL

-----------------------------------------------------------------------------
(* How the remote view moves *)

\* A step leaves the remote view alone, or the frozen buffer lands on it.
LEMMA RemoteStep ==
    ASSUME IInv, [FaultyNext]_vars
    PROVE  \/ RemoteView' = RemoteView
           \/ /\ RemoteView' = Overlay(immutableBuf, RemoteView)
              /\ \E p \in Procs : pc[p] = "frozen"
<1> DEFINE Goal == \/ RemoteView' = RemoteView
                   \/ /\ RemoteView' = Overlay(immutableBuf, RemoteView)
                      /\ \E p \in Procs : pc[p] = "frozen"
<1>1. ASSUME UNCHANGED <<flushID, bucket>> PROVE Goal
  BY <1>1 DEF RemoteView
<1>2. ASSUME NEW p \in Procs, FlushFreeze(p) PROVE Goal
  <2>1. flushID' = flushID + 1 /\ bucket' = bucket /\ buffer # EmptyTable
    BY <1>2 DEF FlushFreeze, NextFlushID, NothingToFlush, blobs
  <2>2. flushID < MaxWrites
    BY <2>1 DEF IInv, NumberInv, TypeOK
  <2> QED
    BY <2>1, <2>2, RemoteAfterFreeze DEF IInv
<1>3. ASSUME NEW p \in Procs, BlobLands(p) PROVE Goal
  BY <1>3, LandView DEF BlobLands
<1>4. ASSUME NEW p \in Procs, Step(p) PROVE Goal
  <2>1. CASE FlushFreeze(p)
    BY <1>2, <2>1
  <2>2. CASE FlushWrite(p)
    BY <1>3, <2>2 DEF FlushWrite, BlobLands, ghosts
  <2>3. CASE ~FlushFreeze(p) /\ ~FlushWrite(p)
    <3>1. UNCHANGED <<flushID, bucket>>
      BY <1>4, <2>3 DEF Step, Put, Delete, Set, GetFromMemory, GetFromBucket, ScanHit,
         ScanMiss, ScanEnd, GetReturns, FlushBegin, FlushEmpty, FlushClear, blobs
    <3> QED
      BY <1>1, <3>1
  <2> QED
    BY <2>1, <2>2, <2>3
<1>5. ASSUME NEW p \in Procs, Fault(p) PROVE Goal
  <2>1. ASSUME NEW landed \in BOOLEAN, FlushWriteFails(p, landed) PROVE Goal
    <3>1. BlobLands(p) \/ UNCHANGED <<flushID, bucket>>
      BY <2>1 DEF FlushWriteFails, BlobLands
    <3> QED
      BY <1>1, <1>3, <3>1
  <2>2. CASE ScanReadFails(p) \/ Close(p)
    BY <1>1, <2>2 DEF ScanReadFails, Close, blobs
  <2> QED
    BY <1>5, <2>1, <2>2 DEF Fault
<1>6. CASE UNCHANGED vars
  BY <1>1, <1>6 DEF vars, blobs
<1> QED
  BY <1>4, <1>5, <1>6 DEF FaultyNext

\* No step takes a remote reader back to an older write of a key.
THEOREM NeverRegresses == FaultySpec => DurableNeverRegresses
<1>1. ASSUME IInv, [FaultyNext]_vars
      PROVE  [\A k \in Keys : RemoteView'[k].id >= RemoteView[k].id]_vars
  <2>1. \A k \in Keys : RemoteView[k].id \in Nat /\ immutableBuf[k].id \in Nat
    BY <1>1, RemoteType DEF IInv, TypeOK, Table, Entry
  <2>2. CASE RemoteView' = RemoteView
    BY <2>1, <2>2
  <2>3. CASE RemoteView' = Overlay(immutableBuf, RemoteView)
    BY <1>1, <2>1, <2>3 DEF Overlay, IInv, OrderInv
  <2> QED
    BY <1>1, <2>2, <2>3, RemoteStep
<1> QED
  BY <1>1, Invariant, PTL DEF FaultySpec, DurableNeverRegresses

-----------------------------------------------------------------------------
(* Without faults *)

LEMMA SpecIsFaultySpec == Spec => FaultySpec
<1>1. [Next]_vars => [FaultyNext]_vars
  BY DEF Next, FaultyNext
<1> QED
  BY <1>1, PTL DEF Spec, FaultySpec

NoFault ==
    /\ failed = {}
    /\ \A p \in Procs : ~scan[p].skipped
    /\ reply.kind = "get" => ~reply.skipped

LEMMA FaultFree == Spec => []NoFault
<1>1. Init => NoFault
  BY DEF Init, NoFault, NoScan, NoReply
<1>2. ASSUME TypeOK, NoFault, [Next]_vars PROVE NoFault'
  <2>1. CASE UNCHANGED vars
    BY <1>2, <2>1 DEF NoFault, vars, ghosts
  <2>2. ASSUME NEW p \in Procs, Step(p) PROVE NoFault'
    <3>1. failed' = failed
      BY <2>2 DEF Step, Put, Delete, Set, GetFromMemory, GetFromBucket, ScanHit,
         ScanMiss, ScanEnd, GetReturns, FlushBegin, FlushEmpty, FlushFreeze,
         FlushWrite, FlushClear, ghosts
    <3>2. ASSUME NEW q \in Procs PROVE ~scan'[q].skipped
      <4>1. CASE scan' = scan
        BY <1>2, <4>1 DEF NoFault
      <4>2. ASSUME NEW k \in Keys, NEW level \in Levels, GetFromBucket(p, k, level)
            PROVE  ~scan'[q].skipped
        BY <1>2, <4>2 DEF GetFromBucket, NoFault, TypeOK
      <4>3. CASE ScanMiss(p)
        BY <1>2, <4>3 DEF ScanMiss, NoFault, TypeOK
      <4>4. ASSUME NEW value, GetReturns(p, value) PROVE ~scan'[q].skipped
        BY <1>2, <4>4 DEF GetReturns, NoScan, NoFault, TypeOK
      <4> QED
        BY <2>2, <4>1, <4>2, <4>3, <4>4 DEF Step, Put, Delete, Set, GetFromMemory,
           ScanHit, ScanEnd, FlushBegin, FlushEmpty, FlushFreeze, FlushWrite, FlushClear
    <3>3. reply'.kind = "get" => ~reply'.skipped
      <4>1. CASE reply' = NoReply
        BY <4>1 DEF NoReply
      <4>2. ASSUME NEW ok, NEW due, reply' = FlushReply(ok, due)
            PROVE  reply'.kind # "get"
        BY <4>2 DEF FlushReply
      <4>3. ASSUME NEW k \in Keys, NEW level \in Levels, GetFromMemory(p, k, level)
            PROVE  ~reply'.skipped
        BY <4>3 DEF GetFromMemory, GetReply
      <4>4. ASSUME NEW value, GetReturns(p, value) PROVE ~reply'.skipped
        BY <1>2, <4>4 DEF GetReturns, GetReply, NoFault
      <4> QED
        BY <2>2, <4>1, <4>2, <4>3, <4>4 DEF Step, Put, Delete, Set, GetFromBucket,
           ScanHit, ScanMiss, ScanEnd, FlushBegin, FlushEmpty, FlushFreeze,
           FlushWrite, FlushClear, FlushReturns
    <3> QED
      BY <1>2, <3>1, <3>2, <3>3 DEF NoFault
  <2> QED
    BY <1>2, <2>1, <2>2 DEF Next
<1> QED
  BY <1>1, <1>2, SpecIsFaultySpec, TypeCorrect, PTL DEF Spec

LEMMA FreshView == IInv /\ NoFault => MemoryView = last
<1> SUFFICES ASSUME IInv, NoFault PROVE MemoryView = last
  OBVIOUS
<1>1. \A k \in Keys : MemoryView[k] = last[k]
  BY DEF IInv, LossConfinedToFailedFlush, NoFault
<1> QED
  BY <1>1, RemoteType DEF IInv, TypeOK, Table

\* embedded_kvstore.fizz, DirtyRead: a memory read always sees the latest write.
THEOREM DirtyRead == Spec => []DirtyReadFresh
<1>1. IInv /\ NoFault => DirtyReadFresh
  BY FreshView DEF DirtyReadFresh
<1> QED
  BY <1>1, Invariant, FaultFree, SpecIsFaultySpec, PTL

\* Every Get answers as if it had run at one instant.
THEOREM GetsLinearizable == Spec => []GetLinearizable
<1>1. ASSUME IInv, NoFault, Answers PROVE GetLinearizable
  BY <1>1, FreshView DEF NoFault, Answers, GetLinearizable, AnswersFrom,
     GetLinearizableUnlessSkipped
<1> QED
  BY <1>1, Invariant, AnswersInvariant, FaultFree, SpecIsFaultySpec, PTL

\* A Flush that returns nil has made its caller's writes durable.
THEOREM FlushesDurable == Spec => []FlushDurable
<1>1. NoFault /\ Answers => FlushDurable
  BY DEF NoFault, Answers, FlushDurable, FlushDurableUnlessFailed
<1> QED
  BY <1>1, AnswersInvariant, FaultFree, SpecIsFaultySpec, PTL

\* Where a key's latest write is that no Flush has to do with any more.
LEMMA DurableIsLast ==
    ASSUME IInv, NoFault, NEW j \in Keys, ~Has(buffer, j),
           \A p \in Procs : pc[p] = "frozen" => ~Has(immutableBuf, j)
    PROVE  RemoteView[j] = last[j]
<1>1. last[j] = Overlay(immutableBuf, RemoteView)[j]
  BY FreshView DEF MemoryView, Overlay
<1>2. CASE ~Has(immutableBuf, j)
  BY <1>1, <1>2 DEF Overlay
<1>3. CASE Has(immutableBuf, j)
  <2>1. PICK p \in Procs : Writing(p)
    BY <1>3 DEF IInv, OrphanInv, NoFault
  <2>2. pc[p] = "written"
    BY <1>3, <2>1 DEF Writing
  <2>3. flushID > 0 /\ bucket[flushID] = immutableBuf
    BY <2>1, <2>2 DEF IInv, FlushInv
  <2> QED
    BY <1>1, <1>3, <2>3, RemoteCoversWritten DEF IInv, Overlay
<1> QED
  BY <1>2, <1>3

\* What is durable is a prefix of the history of writes.
THEOREM PrefixDurable == Spec => []DurablePrefix
<1>1. ASSUME IInv, NoFault, NEW j \in Keys, NEW k \in Keys,
             last[j].id <= RemoteView[k].id
      PROVE  RemoteView[j] = last[j]
  <2>1. \A i \in Keys : /\ last[i].id \in Nat /\ buffer[i].id \in Nat
                        /\ immutableBuf[i].id \in Nat /\ RemoteView[i].id \in Nat
    BY <1>1, RemoteType DEF IInv, TypeOK, Table, Entry
  <2>2. ~Has(buffer, j)
    <3>1. buffer[j].id <= last[j].id
      BY <1>1 DEF IInv, OrderInv
    <3>2. Has(buffer, j) => buffer[j].id > RemoteView[k].id
      BY <1>1 DEF IInv, OrderInv
    <3> QED
      BY <1>1, <2>1, <3>1, <3>2
  <2>3. ASSUME NEW p \in Procs, pc[p] = "frozen", Has(immutableBuf, j) PROVE FALSE
    <3>1. immutableBuf[j].id <= last[j].id
      BY <1>1 DEF IInv, OrderInv
    <3>2. immutableBuf[j].id > RemoteView[k].id
      BY <1>1, <2>3 DEF IInv, OrderInv
    <3> QED
      BY <1>1, <2>1, <3>1, <3>2
  <2> QED
    BY <1>1, <2>2, <2>3, DurableIsLast
<1>2. IInv /\ NoFault => DurablePrefix
  BY <1>1 DEF DurablePrefix
<1> QED
  BY <1>2, Invariant, FaultFree, SpecIsFaultySpec, PTL

-----------------------------------------------------------------------------
(* Refinement *)

FrozenView == Overlay(immutableBuf, RemoteView)

StoreUnchanged == UNCHANGED <<MemoryView, FrozenView, RemoteView, writes>>

LEMMA FrozenViewFrame ==
    ASSUME DataUnchanged
    PROVE  StoreUnchanged
<1>1. immutableBuf' = immutableBuf /\ writes' = writes
  BY DEF DataUnchanged, memory, ghosts
<1> QED
  BY <1>1, ViewFrame DEF StoreUnchanged, FrozenView

\* A Put or a Delete is a Write, a freeze is a Freeze, and the moment the blob
\* lands is the Persist; nothing else changes what a reader can see.
LEMMA SetIsWrite ==
    ASSUME IInv, NEW p \in Procs, NEW k \in Keys, NEW dead \in BOOLEAN, Set(p, k, dead)
    PROVE  Store!Write(k, dead)
<1>1. /\ RemoteView' = RemoteView
      /\ MemoryView' = [MemoryView EXCEPT ![k] = [id |-> writes + 1, dead |-> dead]]
  BY SetView DEF IInv
<1>2. immutableBuf' = immutableBuf /\ writes < MaxWrites /\ writes' = writes + 1
  BY DEF Set
<1>3. FrozenView' = FrozenView
  BY <1>1, <1>2 DEF FrozenView
<1> QED
  BY <1>1, <1>2, <1>3 DEF Store!Write, FrozenView

LEMMA FlushFreezeIsFreeze ==
    ASSUME IInv, NoFault, NEW p \in Procs, FlushFreeze(p)
    PROVE  Store!Freeze
<1>1. /\ pc[p] = "flushing" /\ buffer # EmptyTable
      /\ flushID' = flushID + 1 /\ bucket' = bucket
      /\ immutableBuf' = buffer /\ buffer' = EmptyTable /\ writes' = writes
  BY DEF FlushFreeze, NothingToFlush, NextFlushID, FrozenFor, SnapshotOf, blobs, ghosts
<1>2. flushID < MaxWrites
  BY <1>1 DEF IInv, NumberInv, TypeOK
<1>3. RemoteView' = RemoteView
  BY <1>1, <1>2, RemoteAfterFreeze DEF IInv
<1>4. \A k \in Keys : ~Has(immutableBuf, k)
  BY <1>1, OneFlusher DEF IInv, OrphanInv, NoFault, Writing
<1>5. FrozenView = RemoteView
  BY <1>4, RemoteType DEF FrozenView, Overlay, IInv, Table
<1>6. \A k \in Keys : MemoryView[k] = IF Has(buffer, k) THEN buffer[k] ELSE RemoteView[k]
  BY <1>4 DEF MemoryView, Overlay
<1>7. \A k \in Keys : ~Has(buffer', k)
  BY <1>1 DEF Has, EmptyTable
<1>8. FrozenView' = MemoryView
  BY <1>1, <1>3, <1>6 DEF FrozenView, MemoryView, Overlay
<1>9. MemoryView' = FrozenView'
  BY <1>7 DEF FrozenView, MemoryView, Overlay
<1> QED
  BY <1>1, <1>3, <1>5, <1>8, <1>9 DEF Store!Freeze, FrozenView

LEMMA FlushWriteIsPersist ==
    ASSUME IInv, NEW p \in Procs, FlushWrite(p)
    PROVE  Store!Persist
<1>1. BlobLands(p) /\ immutableBuf' = immutableBuf /\ writes' = writes
  BY DEF FlushWrite, BlobLands, memory, ghosts
<1>2. RemoteView' = FrozenView /\ MemoryView' = MemoryView
  BY <1>1, LandView DEF FrozenView
<1>3. FrozenView' = FrozenView
  BY <1>1, <1>2 DEF FrozenView, Overlay
<1> QED
  BY <1>1, <1>2, <1>3 DEF Store!Persist, FrozenView

LEMMA FlushClearStutters ==
    ASSUME IInv, NEW p \in Procs, FlushClear(p)
    PROVE  StoreUnchanged
<1>1. /\ pc[p] = "written" /\ immutableBuf' = EmptyTable /\ buffer' = buffer
      /\ writes' = writes /\ UNCHANGED <<flushID, bucket>>
  BY DEF FlushClear, FlushReturns, blobs, ghosts
<1>2. RemoteView' = RemoteView
  BY <1>1 DEF RemoteView
<1>3. flushID > 0 /\ bucket[flushID] = immutableBuf
  BY <1>1 DEF IInv, FlushInv, Writing
<1>4. \A k \in Keys : Has(immutableBuf, k) => RemoteView[k] = immutableBuf[k]
  BY <1>3, RemoteCoversWritten DEF IInv
<1>5. \A k \in Keys : ~Has(immutableBuf', k)
  BY <1>1 DEF Has, EmptyTable
<1>6. FrozenView' = FrozenView
  BY <1>2, <1>4, <1>5 DEF FrozenView, Overlay
<1>7. MemoryView' = MemoryView
  BY <1>1, <1>6 DEF MemoryView, FrozenView, Overlay
<1> QED
  BY <1>1, <1>2, <1>6, <1>7 DEF StoreUnchanged

LEMMA StepRefines ==
    ASSUME IInv, NoFault, [Next]_vars
    PROVE  [Store!StoreNext]_(Store!storeVars)
<1> DEFINE Goal == Store!StoreNext \/ StoreUnchanged
<1>1. ASSUME UNCHANGED vars PROVE Goal
  BY <1>1, FrozenViewFrame DEF vars, blobs, ghosts, memory, DataUnchanged
<1>2. ASSUME NEW p \in Procs, Step(p) PROVE Goal
  <2>1. ASSUME NEW k \in Keys, Put(p, k) \/ Delete(p, k) PROVE Goal
    BY <2>1, SetIsWrite DEF Put, Delete, Store!StoreNext
  <2>2. CASE FlushFreeze(p)
    BY <2>2, FlushFreezeIsFreeze DEF Store!StoreNext
  <2>3. CASE FlushWrite(p)
    BY <2>3, FlushWriteIsPersist DEF Store!StoreNext
  <2>4. CASE FlushClear(p)
    BY <2>4, FlushClearStutters
  <2>5. ASSUME DataUnchanged PROVE Goal
    BY <2>5, FrozenViewFrame
  <2> QED
    BY <1>2, <2>1, <2>2, <2>3, <2>4, <2>5 DEF Step, GetFromMemory, GetFromBucket,
       ScanHit, ScanMiss, ScanEnd, GetReturns, FlushBegin, FlushEmpty, DataUnchanged,
       blobs
<1>3. Goal
  BY <1>1, <1>2 DEF Next
<1> QED
  BY <1>3 DEF StoreUnchanged, FrozenView, Store!storeVars

\* The store implements DurableStore: readers cannot tell its buffer, frozen
\* buffer and blobs from one table and the whole past states of it.
THEOREM Refinement == Spec => ImplementsStore
<1>1. Init => Store!StoreInit
  <2>1. Init => FrozenView = EmptyTable
    BY InitView DEF Init, FrozenView, Overlay, EmptyTable
  <2> QED
    BY <2>1, InitView DEF Init, Store!StoreInit, FrozenView, EmptyTable, NoEntry,
       Store!EmptyTable, Store!NoEntry
<1> QED
  BY <1>1, StepRefines, Invariant, FaultFree, SpecIsFaultySpec, PTL
  DEF Spec, ImplementsStore, Store!StoreSpec

-----------------------------------------------------------------------------
(* The lives of stores on one bucket, each of which finds the blobs that   *)
(* the ones before it have left                                             *)

\* The last number is the store's own, except while a Flush writes its blob.
LEMMA TopType ==
    ASSUME TypeOK, LivesFlushInv
    PROVE  /\ flushID \in Nat /\ OwnTop \in Nat /\ OwnTop <= flushID /\ flushID <= MaxWrites
           /\ Frozen => flushID > 0 /\ OwnTop = flushID - 1
           /\ ~Frozen => OwnTop = flushID
<1>1. flushID \in Nat /\ flushID <= MaxWrites
  BY DEF TypeOK
<1>2. Frozen => flushID > 0
  BY DEF Frozen, LivesFlushInv, Writing
<1> QED
  BY <1>1, <1>2 DEF OwnTop, Frozen

\* An entry of no write is older than any other.
LEMMA IdsType ==
    ASSUME TypeOK, EntriesInv
    PROVE  /\ writes \in Nat /\ NoEntry.id = 0
           /\ \A k \in Keys :
                 /\ buffer[k].id \in Nat /\ immutableBuf[k].id \in Nat
                 /\ buffer[k].id <= writes /\ immutableBuf[k].id <= writes
                 /\ \A i \in Slots : bucket[i][k].id \in Nat /\ bucket[i][k].id <= writes
<1>1. writes \in Nat /\ NoEntry.id = 0
  BY DEF TypeOK, NoEntry
<1>2. ASSUME NEW k \in Keys
      PROVE  /\ buffer[k].id \in Nat /\ immutableBuf[k].id \in Nat
             /\ \A i \in Slots : bucket[i][k].id \in Nat
  BY DEF TypeOK, Table, Entry
<1>3. ASSUME NEW k \in Keys, NEW table \in {buffer, immutableBuf}
      PROVE  table[k].id <= writes
  <2>1. Has(table, k) => table[k].id <= writes
    BY DEF EntriesInv
  <2> QED
    BY <1>1, <2>1 DEF Has
<1>4. ASSUME NEW k \in Keys, NEW i \in Slots
      PROVE  bucket[i][k].id <= writes
  <2>1. Has(bucket[i], k) => bucket[i][k].id <= writes
    BY DEF EntriesInv
  <2> QED
    BY <1>1, <2>1 DEF Has
<1> QED
  BY <1>1, <1>2, <1>3, <1>4

LEMMA BlobType ==
    ASSUME TypeOK, LivesFlushInv, NEW k \in Keys, NEW n \in Nat, n <= flushID
    PROVE  Newest(bucket, k, n) \in Entry
<1>1. \A i \in 1..n : bucket[i] \in Table
  BY DEF TypeOK, Slots
<1> QED
  BY <1>1, NewestType

-----------------------------------------------------------------------------
(* Steps that move a goroutine and leave the data alone *)

LivesDataUnchanged == UNCHANGED <<memory, flushID, bucket, ghosts, base>>

\* Nobody begins or ends to write a blob.
WritersUnchanged ==
    \A q \in Procs : /\ Writing(q)' <=> Writing(q)
                     /\ Writing(q) => pc'[q] = pc[q] /\ flush'[q] = flush[q]

LivesDataInv == LivesNumberInv /\ EntriesInv /\ LivesOrderInv /\ OldInv /\ LivesFlushInv /\ OwnInv

LEMMA LivesDataFrame ==
    ASSUME LivesDataInv, LivesDataUnchanged, WritersUnchanged
    PROVE  /\ LivesDataInv'
           /\ OwnTop' = OwnTop /\ OwnView' = OwnView
<1>1. /\ buffer' = buffer /\ immutableBuf' = immutableBuf /\ flushID' = flushID
      /\ bucket' = bucket /\ writes' = writes /\ last' = last /\ failed' = failed
      /\ base' = base
  BY DEF LivesDataUnchanged, memory, ghosts
<1>2. \A q \in Procs : pc'[q] = "frozen" <=> pc[q] = "frozen"
  BY DEF WritersUnchanged, Writing
<1>3. Frozen' <=> Frozen
  BY <1>2 DEF Frozen
<1>4. OwnTop' = OwnTop
  BY <1>1, <1>2 DEF OwnTop
<1>5. OwnView' = OwnView
  BY <1>1, <1>4 DEF OwnView
<1>6. LivesNumberInv' /\ EntriesInv'
  BY <1>1 DEF LivesDataInv, LivesNumberInv, EntriesInv, Has
<1>7. LivesOrderInv' /\ OldInv'
  BY <1>1, <1>3, <1>4 DEF LivesDataInv, LivesOrderInv, OldInv, Has
<1>8. LivesFlushInv'
  BY <1>1 DEF LivesDataInv, LivesFlushInv, WritersUnchanged
<1>9. OwnInv'
  BY <1>1, <1>4, <1>5 DEF LivesDataInv, OwnInv, Has, WritersUnchanged
<1> QED
  BY <1>4, <1>5, <1>6, <1>7, <1>8, <1>9 DEF LivesDataInv

\* Only a Get has an answer.
LEMMA NoAnswer ==
    ASSUME \/ reply' = NoReply
           \/ \E ok, due : reply' = FlushReply(ok, due)
    PROVE  AnswersAreOwn'
BY DEF AnswersAreOwn, NoReply, FlushReply

LEMMA LivesGetFromMemoryStep ==
    ASSUME LivesInv, NEW p \in Procs, NEW k \in Keys, NEW level \in Levels,
           GetFromMemory(p, k, level), UNCHANGED lifeVars
    PROVE  LivesInv'
<1>1. LivesDataUnchanged /\ UNCHANGED <<locks, blobs, pc, scan, flush>>
  BY DEF GetFromMemory, LivesDataUnchanged, lifeVars, blobs
<1>2. TypeOK' /\ LockInv' /\ LivesScanInv' /\ base' \in 0..MaxWrites
  BY <1>1 DEF LivesInv, TypeOK, LockInv, LivesScanInv, Writing, LivesDataUnchanged, locks, memory,
     blobs, ghosts, Has
<1>3. LivesDataInv'
  BY <1>1, LivesDataFrame DEF LivesInv, LivesDataInv, WritersUnchanged, Writing
<1>4. AnswersAreOwn'
  <2> DEFINE table == Overlay(buffer, immutableBuf)
  <2>1. level = "memory" /\ Has(table, k)
    BY DEF GetFromMemory, BufferedFor, Has, EmptyTable
  <2>2. table[k].id \in base + 1 .. writes
    BY <2>1 DEF LivesInv, EntriesInv, Overlay, Has
  <2>3. reply' = GetReply(k, level, ValueOf(table[k]), NotFound, FALSE)
    BY <2>1 DEF GetFromMemory, BufferedFor
  <2>4. base' = base /\ base \in Nat /\ writes \in Nat
    BY <1>1 DEF LivesDataUnchanged, LivesInv, TypeOK
  <2>5. ValueOf(table[k]) \notin 1..base
    BY <2>2, <2>4 DEF ValueOf, NotFound
  <2>6. reply'.value = ValueOf(table[k])
    BY <2>3 DEF GetReply
  <2> QED
    BY <2>4, <2>5, <2>6 DEF AnswersAreOwn
<1> QED
  BY <1>2, <1>3, <1>4 DEF LivesInv, LivesDataInv

LEMMA LivesGetFromBucketStep ==
    ASSUME LivesInv, NEW p \in Procs, NEW k \in Keys, NEW level \in Levels,
           GetFromBucket(p, k, level), UNCHANGED lifeVars
    PROVE  LivesInv'
<1> DEFINE new == [key |-> k, level |-> level, at |-> flushID,
                   floor |-> ValueOf(RemoteView[k]), skipped |-> FALSE]
<1>1. /\ LivesDataUnchanged /\ UNCHANGED <<flushMutex, bucketOpen, flush>>
      /\ mu = None /\ mu' = p /\ pc[p] = "idle"
      /\ pc' = [pc EXCEPT ![p] = "scanning"] /\ scan' = [scan EXCEPT ![p] = new]
  BY DEF GetFromBucket, LivesDataUnchanged, lifeVars, blobs, ScanFrom
<1>2. /\ pc'[p] = "scanning" /\ scan'[p] = new
      /\ \A q \in Procs : q # p => pc'[q] = pc[q] /\ scan'[q] = scan[q]
  BY <1>1 DEF LivesInv, TypeOK
<1>3. TypeOK' /\ base' \in 0..MaxWrites
  <2>1. RemoteView[k] \in Entry
    BY BlobType, TopType DEF LivesInv, RemoteView
  <2>2. new \in [key : Keys \cup {None}, level : Levels, at : 0..MaxWrites,
                 floor : Nat, skipped : BOOLEAN]
    BY <2>1 DEF LivesInv, TypeOK, ValueOf, NotFound, Entry
  <2> HIDE DEF new
  <2> QED
    BY <1>1, <2>2 DEF LivesInv, TypeOK, LivesDataUnchanged, memory, ghosts
<1>4. LockInv'
  BY <1>1, <1>2 DEF LivesInv, LockInv, Writing
<1>5. LivesDataInv'
  BY <1>1, <1>2, LivesDataFrame DEF LivesInv, LivesDataInv, WritersUnchanged, Writing
<1>6. LivesScanInv'
  <2>1. level = "memory" => ~Has(buffer, k) /\ ~Has(immutableBuf, k)
    BY DEF GetFromBucket, BufferedFor, Overlay, Has
  <2>2. \A q \in Procs : q # p => pc'[q] # "scanning"
    BY <1>1, <1>2, NoScanner DEF LivesInv
  <2>3. new.at = flushID /\ new.key = k /\ new.level = level /\ flushID \in Nat
    BY DEF LivesInv, TypeOK
  <2> QED
    BY <1>1, <1>2, <2>1, <2>2, <2>3 DEF LivesScanInv, LivesDataUnchanged, memory, Has
<1>7. AnswersAreOwn'
  BY NoAnswer DEF GetFromBucket
<1> QED
  BY <1>3, <1>4, <1>5, <1>6, <1>7 DEF LivesInv, LivesDataInv

\* Where no Flush of this store has failed, an old blob that a Get finds is the
\* one that a Flush is about to overwrite, and hides newer ones only.
LEMMA ScanHitAnswer ==
    ASSUME LivesInv, NEW p \in Procs, ScanHit(p), UNCHANGED lifeVars
    PROVE  AnswersAreOwn'
<1> DEFINE s == scan[p]
           entry == bucket[s.at][s.key]
<1>1. /\ pc[p] = "scanning" /\ s.at > 0 /\ Has(bucket[s.at], s.key)
      /\ GetReturns(p, ValueOf(entry)) /\ LivesDataUnchanged /\ pc' = [pc EXCEPT ![p] = "idle"]
      /\ flush' = flush
  BY DEF ScanHit, GetReturns, LivesDataUnchanged, lifeVars, blobs
<1>2. /\ s.key \in Keys /\ s.at \in Nat /\ s.at <= flushID /\ s.at \in Slots
      /\ s.level = "memory" => ~Has(buffer, s.key) /\ ~Has(immutableBuf, s.key)
  BY <1>1 DEF LivesInv, LivesScanInv, TypeOK, Slots
<1>3. WritersUnchanged
  BY <1>1 DEF WritersUnchanged, Writing, LivesInv, TypeOK
<1>4. /\ OwnTop' = OwnTop /\ OwnView' = OwnView /\ flushID' = flushID /\ last' = last
      /\ failed' = failed /\ base' = base
  BY <1>1, <1>3, LivesDataFrame DEF LivesInv, LivesDataInv, LivesDataUnchanged, ghosts
<1>5. /\ reply'.kind = "get" /\ reply'.key = s.key /\ reply'.level = s.level
      /\ reply'.value = ValueOf(entry)
  BY <1>1 DEF GetReturns, GetReply
<1>6. ASSUME failed = {}, ValueOf(entry) \in 1..base
      PROVE  /\ OwnTop < flushID
             /\ s.level = "memory" => OwnView[s.key] = last[s.key]
  <2>1. entry.id <= base /\ base \in Nat
    <3>1. base \in Nat
      BY DEF LivesInv
    <3>2. ValueOf(entry) = entry.id
      <4>1. ValueOf(entry) # 0
        BY <1>6, <3>1
      <4> HIDE DEF entry
      <4> QED
        BY <4>1 DEF ValueOf, NotFound
    <3> HIDE DEF entry
    <3> QED
      BY <1>6, <3>1, <3>2
  <2>2. OwnTop \in Nat /\ OwnTop <= flushID /\ flushID \in Nat
    BY TopType DEF LivesInv
  <2>3. s.at \in 1..OwnTop => entry.id > base
    BY <1>1, <1>2, <1>6 DEF LivesInv, OwnInv
  <2>4. entry.id \in Nat
    BY <1>2, IdsType DEF LivesInv
  <2>5. ~ (s.at <= OwnTop)
    <3>1. s.at \in Nat /\ s.at > 0
      BY <1>1, <1>2
    <3> HIDE DEF s, entry
    <3>2. ~ (entry.id > base)
      BY <2>1, <2>4
    <3>3. s.at \notin 1..OwnTop
      BY <2>3, <3>2
    <3> QED
      BY <2>2, <3>1, <3>3
  <2>6. OwnTop < flushID
    BY <1>2, <2>2, <2>5
  <2>7. Overlay(buffer, Overlay(immutableBuf, OwnView))[s.key] = last[s.key]
    BY <1>6 DEF LivesInv, OwnInv
  <2>8. s.level = "memory" => OwnView[s.key] = last[s.key]
    BY <1>2, <2>7 DEF Overlay
  <2> QED
    BY <2>6, <2>8
<1> QED
  BY <1>4, <1>5, <1>6 DEF AnswersAreOwn

\* Returning from the loop.
LEMMA LivesGetReturnsStep ==
    ASSUME LivesInv, NEW p \in Procs, ScanHit(p) \/ ScanEnd(p), UNCHANGED lifeVars
    PROVE  LivesInv'
<1>1. PICK value : GetReturns(p, value)
  BY DEF ScanHit, ScanEnd
<1>2. /\ LivesDataUnchanged /\ UNCHANGED <<flushMutex, bucketOpen, flush>>
      /\ mu' = None /\ pc[p] = "scanning" /\ mu = p
      /\ pc' = [pc EXCEPT ![p] = "idle"] /\ scan' = [scan EXCEPT ![p] = NoScan]
  BY <1>1 DEF GetReturns, LivesDataUnchanged, lifeVars, blobs, ScanHit, ScanEnd, LivesInv, LockInv
<1>3. /\ pc'[p] = "idle"
      /\ \A q \in Procs : q # p => pc'[q] = pc[q] /\ scan'[q] = scan[q]
  BY <1>2 DEF LivesInv, TypeOK
<1>4. TypeOK' /\ base' \in 0..MaxWrites
  BY <1>2 DEF LivesInv, TypeOK, LivesDataUnchanged, memory, ghosts, NoScan, NotFound, Levels
<1>5. LockInv'
  BY <1>2, <1>3 DEF LivesInv, LockInv, Writing
<1>6. LivesDataInv'
  BY <1>2, <1>3, LivesDataFrame DEF LivesInv, LivesDataInv, WritersUnchanged, Writing
<1>7. LivesScanInv'
  <2>1. \A q \in Procs : pc'[q] # "scanning"
    BY <1>2, <1>3 DEF LivesInv, LockInv
  <2> QED
    BY <2>1 DEF LivesScanInv
<1>8. AnswersAreOwn'
  <2>1. CASE ScanHit(p)
    BY <2>1, ScanHitAnswer
  <2>2. CASE ScanEnd(p)
    <3>1. reply'.value = 0 /\ base' \in Nat
      BY <1>4, <2>2 DEF ScanEnd, GetReturns, GetReply, NotFound
    <3> QED
      BY <3>1 DEF AnswersAreOwn
  <2> QED
    BY <2>1, <2>2
<1> QED
  BY <1>4, <1>5, <1>6, <1>7, <1>8 DEF LivesInv, LivesDataInv

\* Passing over a blob.
LEMMA LivesScanMovesStep ==
    ASSUME LivesInv, NEW p \in Procs, ScanMiss(p) \/ ScanReadFails(p), UNCHANGED lifeVars
    PROVE  LivesInv'
<1> DEFINE s == scan[p]
           t == scan'[p]
           Scans == [key : Keys \cup {None}, level : Levels, at : 0..MaxWrites,
                     floor : Nat, skipped : BOOLEAN]
<1>1. /\ pc[p] = "scanning" /\ s.at > 0 /\ LivesDataUnchanged
      /\ UNCHANGED <<mu, flushMutex, bucketOpen, pc, flush>>
  BY DEF ScanMiss, ScanReadFails, locks, blobs, LivesDataUnchanged, lifeVars
<1>2. scan \in [Procs -> Scans] /\ s \in Scans /\ s.at - 1 \in 0..MaxWrites
  BY <1>1 DEF LivesInv, TypeOK
<1>3. \/ scan' = [scan EXCEPT ![p] = [s EXCEPT !.at = s.at - 1]]
      \/ scan' = [scan EXCEPT ![p] = [s EXCEPT !.at = s.at - 1, !.skipped = TRUE]]
  BY <1>2 DEF ScanMiss, ScanReadFails
<1>4. /\ [s EXCEPT !.at = s.at - 1] \in Scans
      /\ [s EXCEPT !.at = s.at - 1, !.skipped = TRUE] \in Scans
  BY <1>2
<1>5. scan' \in [Procs -> Scans]
  <2> HIDE DEF Scans
  <2> QED
    BY <1>2, <1>3, <1>4
<1>6. TypeOK' /\ base' \in 0..MaxWrites
  BY <1>1, <1>5 DEF LivesInv, TypeOK, LivesDataUnchanged, memory, ghosts
<1>7. LockInv'
  BY <1>1 DEF LivesInv, LockInv, Writing
<1>8. LivesDataInv'
  BY <1>1, LivesDataFrame DEF LivesInv, LivesDataInv, WritersUnchanged, Writing
<1>9. LivesScanInv'
  <2>1. /\ \A q \in Procs : q # p => scan'[q] = scan[q]
        /\ t.key = s.key /\ t.level = s.level /\ t.at = s.at - 1
    BY DEF LivesInv, TypeOK, ScanMiss, ScanReadFails
  <2>2. flushID \in Nat /\ s.at \in Nat
    BY <1>2 DEF LivesInv, TypeOK
  <2>3. /\ buffer' = buffer /\ immutableBuf' = immutableBuf /\ flushID' = flushID
        /\ pc' = pc
    BY <1>1 DEF LivesDataUnchanged, memory
  <2>4. ASSUME NEW q \in Procs, pc[q] = "scanning"
        PROVE  /\ scan'[q].key = scan[q].key /\ scan'[q].level = scan[q].level
               /\ scan'[q].at = scan[q].at \/ scan'[q].at = scan[q].at - 1
    BY <2>1
  <2>5. \A q \in Procs : scan[q].at \in Nat
    BY DEF LivesInv, TypeOK
  <2> QED
    BY <2>2, <2>3, <2>4, <2>5 DEF LivesInv, LivesScanInv, Has
<1>10. AnswersAreOwn'
  BY NoAnswer DEF ScanMiss, ScanReadFails
<1> QED
  BY <1>6, <1>7, <1>8, <1>9, <1>10 DEF LivesInv, LivesDataInv

LEMMA LivesCloseStep ==
    ASSUME LivesInv, NEW p \in Procs, Close(p), UNCHANGED lifeVars
    PROVE  LivesInv'
<1>1. LivesDataUnchanged /\ UNCHANGED <<locks, pc, scan, flush>> /\ bucketOpen' = FALSE
  BY DEF Close, LivesDataUnchanged, lifeVars
<1>2. TypeOK' /\ LockInv' /\ LivesScanInv' /\ base' \in 0..MaxWrites
  BY <1>1 DEF LivesInv, TypeOK, LockInv, LivesScanInv, Writing, LivesDataUnchanged, locks, memory,
     ghosts, Has
<1>3. LivesDataInv'
  BY <1>1, LivesDataFrame DEF LivesInv, LivesDataInv, WritersUnchanged, Writing
<1>4. AnswersAreOwn'
  BY NoAnswer DEF Close
<1> QED
  BY <1>2, <1>3, <1>4 DEF LivesInv, LivesDataInv

LEMMA LivesFlushBeginStep ==
    ASSUME LivesInv, NEW p \in Procs, FlushBegin(p), UNCHANGED lifeVars
    PROVE  LivesInv'
<1>1. /\ LivesDataUnchanged /\ UNCHANGED <<mu, bucketOpen, scan>>
      /\ pc[p] = "idle" /\ pc' = [pc EXCEPT ![p] = "flushing"]
      /\ flushMutex = None /\ flushMutex' = p /\ flush' = [flush EXCEPT ![p].due = last]
  BY DEF FlushBegin, LivesDataUnchanged, lifeVars, blobs
<1>2. /\ pc'[p] = "flushing"
      /\ \A q \in Procs : q # p => pc'[q] = pc[q] /\ flush'[q] = flush[q]
  BY <1>1 DEF LivesInv, TypeOK
<1>3. TypeOK' /\ base' \in 0..MaxWrites
  <2>1. flush' \in [Procs -> [id : 0..MaxWrites, map : Table, due : Table]]
    BY <1>1 DEF LivesInv, TypeOK
  <2> QED
    BY <1>1, <2>1 DEF LivesInv, TypeOK, LivesDataUnchanged, memory, ghosts
<1>4. LockInv'
  BY <1>1, <1>2 DEF LivesInv, LockInv, Writing
<1>5. LivesDataInv'
  BY <1>1, <1>2, LivesDataFrame DEF LivesInv, LivesDataInv, WritersUnchanged, Writing
<1>6. LivesScanInv'
  BY <1>1, <1>2 DEF LivesInv, LivesScanInv, LivesDataUnchanged, memory, Has
<1>7. AnswersAreOwn'
  BY NoAnswer DEF FlushBegin
<1> QED
  BY <1>3, <1>4, <1>5, <1>6, <1>7 DEF LivesInv, LivesDataInv

LEMMA NoFlushType == NoFlush \in [id : 0..MaxWrites, map : Table, due : Table]
BY NoEntryType DEF NoFlush

LEMMA LivesFlushEmptyStep ==
    ASSUME LivesInv, NEW p \in Procs, FlushEmpty(p), UNCHANGED lifeVars
    PROVE  LivesInv'
<1>1. /\ LivesDataUnchanged /\ UNCHANGED <<mu, bucketOpen, scan>>
      /\ pc[p] = "flushing" /\ pc' = [pc EXCEPT ![p] = "idle"]
      /\ flushMutex = p /\ flushMutex' = None /\ flush' = [flush EXCEPT ![p] = NoFlush]
  BY DEF FlushEmpty, FlushReturns, LivesDataUnchanged, lifeVars, blobs, LivesInv, LockInv
<1>2. /\ pc'[p] = "idle"
      /\ \A q \in Procs : q # p => pc'[q] = pc[q] /\ flush'[q] = flush[q]
  BY <1>1 DEF LivesInv, TypeOK
<1>3. TypeOK' /\ base' \in 0..MaxWrites
  BY <1>1, NoFlushType DEF LivesInv, TypeOK, LivesDataUnchanged, memory, ghosts
<1>4. LockInv'
  BY <1>1, <1>2 DEF LivesInv, LockInv, Writing
<1>5. LivesDataInv'
  BY <1>1, <1>2, LivesDataFrame DEF LivesInv, LivesDataInv, WritersUnchanged, Writing
<1>6. LivesScanInv'
  BY <1>1, <1>2 DEF LivesInv, LivesScanInv, LivesDataUnchanged, memory, Has
<1>7. AnswersAreOwn'
  BY NoAnswer DEF FlushEmpty, FlushReturns
<1> QED
  BY <1>3, <1>4, <1>5, <1>6, <1>7 DEF LivesInv, LivesDataInv

-----------------------------------------------------------------------------
(* Steps that move data *)

LEMMA LivesSetStep ==
    ASSUME LivesInv, NEW p \in Procs, NEW k \in Keys, NEW dead \in BOOLEAN, Set(p, k, dead),
           UNCHANGED lifeVars
    PROVE  LivesInv'
<1> DEFINE e == [id |-> writes + 1, dead |-> dead]
<1>1. /\ mu = None /\ writes < MaxWrites /\ writes' = writes + 1
      /\ last' = [last EXCEPT ![k] = e] /\ buffer' = [buffer EXCEPT ![k] = e]
      /\ UNCHANGED <<mu, flushMutex, immutableBuf, flushID, bucket, bucketOpen, pc, scan,
                     flush, failed, base>>
  BY DEF Set, locks, blobs, lifeVars
<1>2. /\ writes \in Nat /\ base \in Nat /\ flushID \in Nat
      /\ last \in Table /\ buffer \in Table /\ e \in Entry
  BY DEF LivesInv, TypeOK, Entry
<1>3. e.id = writes + 1 /\ e # NoEntry
  BY <1>2 DEF NoEntry
<1> HIDE DEF e
<1>4. \A j \in Keys : /\ buffer'[j] = IF j = k THEN e ELSE buffer[j]
                      /\ last'[j] = IF j = k THEN e ELSE last[j]
  BY <1>1, <1>2 DEF Table
<1>5. TypeOK' /\ base' \in 0..MaxWrites
  <2>1. buffer' \in Table /\ last' \in Table
    BY <1>1, <1>2 DEF Table
  <2> QED
    BY <1>1, <1>2, <2>1 DEF LivesInv, TypeOK
<1>6. LockInv'
  BY <1>1 DEF LivesInv, LockInv, Writing
<1>7. base + flushID <= writes
  BY <1>2 DEF LivesInv, LivesNumberInv
<1>8. LivesNumberInv'
  <2>1. base + flushID + 1 <= writes + 1 /\ base + flushID + 0 <= writes + 1
    BY <1>2, <1>7
  <2> QED
    BY <1>1, <2>1 DEF LivesNumberInv
<1>9. EntriesInv'
  <2>1. ASSUME NEW j \in Keys, NEW table, NEW i \in Nat,
               Has(table, j) => table[j].id \in i .. writes
        PROVE  Has(table, j) => table[j].id \in i .. writes + 1
    BY <1>2, <2>1
  <2>2. ASSUME NEW j \in Keys
        PROVE  /\ Has(buffer', j) => buffer'[j].id \in base + 1 .. writes + 1
               /\ Has(last', j) => last'[j].id \in base + 1 .. writes + 1
    <3>1. CASE j = k
      BY <1>2, <1>3, <1>4, <1>7, <3>1
    <3>2. CASE j # k
      BY <1>2, <1>4, <3>2 DEF LivesInv, EntriesInv, Has
    <3> QED
      BY <3>1, <3>2
  <2>3. \A j \in Keys : Has(immutableBuf, j) => immutableBuf[j].id \in base + 1 .. writes + 1
    BY <1>2 DEF LivesInv, EntriesInv
  <2>4. \A j \in Keys, i \in Slots : Has(bucket[i], j) => bucket[i][j].id \in 1 .. writes + 1
    BY <1>2 DEF LivesInv, EntriesInv
  <2> QED
    BY <1>1, <2>2, <2>3, <2>4 DEF EntriesInv, Has
<1>10. LivesOrderInv'
  <2>1. /\ \A j \in Keys : immutableBuf[j].id \in Nat /\ immutableBuf[j].id <= writes
        /\ \A j \in Keys, i \in Slots : bucket[i][j].id \in Nat /\ bucket[i][j].id <= writes
    BY IdsType DEF LivesInv
  <2>2. /\ \A j \in Keys : writes + 1 > immutableBuf[j].id
        /\ \A j \in Keys, i \in Slots : writes + 1 > bucket[i][j].id
    BY <1>2, <2>1
  <2> QED
    BY <1>1, <1>3, <1>4, <2>2 DEF LivesInv, LivesOrderInv, Has, Frozen
<1>11. OwnTop' = OwnTop /\ OwnView' = OwnView
  BY <1>1 DEF OwnTop, OwnView
<1>12. OldInv' /\ LivesFlushInv'
  BY <1>1, <1>11 DEF LivesInv, OldInv, LivesFlushInv, Writing
<1>13. OwnInv'
  <2>1. ASSUME failed = {}
        PROVE  Overlay(buffer', Overlay(immutableBuf, OwnView)) = last'
    <3>1. Overlay(buffer, Overlay(immutableBuf, OwnView)) = last
      BY <2>1 DEF LivesInv, OwnInv
    <3>2. \A j \in Keys : Overlay(buffer', Overlay(immutableBuf, OwnView))[j] = last'[j]
      BY <1>3, <1>4, <3>1 DEF Overlay, Has
    <3> QED
      BY <1>5, <3>2 DEF Overlay, TypeOK, Table
  <2> QED
    BY <1>1, <1>11, <2>1 DEF LivesInv, OwnInv, Writing, Has
<1>14. LivesScanInv'
  BY <1>1, NoScanner DEF LivesInv, LivesScanInv
<1>15. AnswersAreOwn'
  BY NoAnswer DEF Set
<1> QED
  BY <1>5, <1>6, <1>8, <1>9, <1>10, <1>12, <1>13, <1>14, <1>15 DEF LivesInv

\* The buffer moves to immutableBuf, and the next number is drawn: its blob, if
\* there is one, is an old one.
LEMMA LivesFlushFreezeStep ==
    ASSUME LivesInv, NEW p \in Procs, FlushFreeze(p), UNCHANGED lifeVars
    PROVE  LivesInv' /\ OwnTop' = flushID /\ OwnTop = flushID
<1> DEFINE next == [id |-> flushID + 1, map |-> buffer, due |-> flush[p].due]
<1>1. /\ pc[p] = "flushing" /\ mu = None /\ buffer # EmptyTable
      /\ flushID' = flushID + 1 /\ immutableBuf' = buffer /\ buffer' = EmptyTable
      /\ pc' = [pc EXCEPT ![p] = "frozen"]
      /\ UNCHANGED <<mu, flushMutex, bucket, bucketOpen, scan, writes, last, failed, base>>
  BY DEF FlushFreeze, NothingToFlush, NextFlushID, FrozenFor, SnapshotOf, locks,
         blobs, ghosts, lifeVars
<1>2. flush' = [flush EXCEPT ![p] = next] /\ next.id = flushID + 1 /\ next.map = buffer
  BY DEF FlushFreeze, NextFlushID, SnapshotOf, LivesInv, TypeOK
<1>3. /\ pc'[p] = "frozen" /\ flush'[p] = next
      /\ \A q \in Procs : q # p => pc'[q] = pc[q]
      /\ \A q \in Procs : ~Writing(q) /\ pc[q] # "scanning"
  BY <1>1, <1>2, OneFlusher, NoScanner DEF LivesInv, TypeOK, Writing
<1>4. /\ flushID \in Nat /\ base \in Nat /\ writes \in Nat /\ writes <= MaxWrites
      /\ base + flushID + 1 <= writes
  BY <1>1 DEF LivesInv, LivesNumberInv, TypeOK
<1>5. TypeOK' /\ base' \in 0..MaxWrites
  <2>1. flushID + 1 \in 0..MaxWrites
    BY <1>4
  <2>2. next \in [id : 0..MaxWrites, map : Table, due : Table]
    BY <2>1 DEF LivesInv, TypeOK
  <2> HIDE DEF next
  <2> QED
    BY <1>1, <1>2, <2>1, <2>2, NoEntryType DEF LivesInv, TypeOK
<1> HIDE DEF next
<1>6. ~Frozen /\ Frozen' /\ OwnTop = flushID
  BY <1>3 DEF Frozen, OwnTop, Writing
<1>7. OwnTop' = flushID
  BY <1>1, <1>3, <1>4 DEF OwnTop
<1>8. OwnView' = OwnView
  BY <1>1, <1>6, <1>7 DEF OwnView
<1>9. LockInv'
  BY <1>1, <1>3 DEF LivesInv, LockInv, Writing
<1>10. LivesNumberInv'
  <2>1. base + (flushID + 1) + 0 <= writes
    BY <1>4
  <2> QED
    BY <1>1, <2>1 DEF LivesNumberInv
<1>11. \A k \in Keys : ~Has(buffer', k)
  BY <1>1 DEF Has, EmptyTable
<1>12. EntriesInv'
  BY <1>1, <1>11 DEF LivesInv, EntriesInv, Has
<1>13. LivesOrderInv'
  BY <1>1, <1>11 DEF LivesInv, LivesOrderInv, Has
<1>14. OldInv'
  BY <1>1, <1>6, <1>7 DEF LivesInv, OldInv
<1>15. LivesFlushInv'
  BY <1>1, <1>2, <1>3, <1>4 DEF LivesFlushInv, Writing
<1>16. OwnInv'
  <2>1. ASSUME failed = {}
        PROVE  Overlay(buffer', Overlay(buffer, OwnView)) = last
    <3>1. immutableBuf = EmptyTable
      BY <1>3, <2>1 DEF LivesInv, OwnInv
    <3>2. \A k \in Keys : ~Has(immutableBuf, k)
      BY <3>1 DEF Has, EmptyTable
    <3>3. Overlay(buffer, Overlay(immutableBuf, OwnView)) = last
      BY <2>1 DEF LivesInv, OwnInv
    <3> QED
      BY <1>11, <3>2, <3>3 DEF Overlay
  <2>2. Writing(p)'
    BY <1>3 DEF Writing
  <2> QED
    BY <1>1, <1>6, <1>7, <1>8, <2>1, <2>2 DEF LivesInv, OwnInv
<1>17. LivesScanInv'
  BY <1>3 DEF LivesScanInv
<1>18. AnswersAreOwn'
  BY NoAnswer DEF FlushFreeze
<1> QED
  BY <1>5, <1>6, <1>7, <1>9, <1>10, <1>12, <1>13, <1>14, <1>15, <1>16, <1>17, <1>18 DEF LivesInv

\* WriteAll puts the frozen buffer in the place of whatever was there.
LivesBlobLands ==
    /\ Frozen /\ bucketOpen' = bucketOpen
    /\ bucket' = [bucket EXCEPT ![flushID] = immutableBuf]
    /\ UNCHANGED <<memory, flushID, writes, last, base>>

LEMMA LandData ==
    ASSUME LivesInv, LivesBlobLands
    PROVE  /\ bucket' \in [Slots -> Table] /\ bucket'[flushID] = immutableBuf
           /\ \A i \in Slots : i # flushID => bucket'[i] = bucket[i]
           /\ \A k \in Keys : Newest(bucket', k, flushID)
                                  = IF Has(immutableBuf, k) THEN immutableBuf[k] ELSE OwnView[k]
<1>1. /\ flushID \in Nat /\ flushID > 0 /\ OwnTop = flushID - 1 /\ flushID \in Slots
      /\ flushID - 1 \in Nat
  BY TopType DEF LivesInv, LivesBlobLands, Slots
<1>2. bucket \in [Slots -> Table] /\ immutableBuf \in Table
  BY DEF LivesInv, TypeOK
<1>3. /\ bucket' \in [Slots -> Table] /\ bucket'[flushID] = immutableBuf
      /\ \A i \in Slots : i # flushID => bucket'[i] = bucket[i]
  BY <1>1, <1>2 DEF LivesBlobLands
<1>4. ASSUME NEW k \in Keys
      PROVE  Newest(bucket', k, flushID)
                 = IF Has(immutableBuf, k) THEN immutableBuf[k] ELSE OwnView[k]
  <2>1. CASE Has(immutableBuf, k)
    <3>1. Has(bucket'[flushID], k)
      BY <1>3, <2>1
    <3>2. Newest(bucket', k, flushID) = bucket'[flushID][k]
      BY <1>1, <3>1, NewestHit
    <3> QED
      BY <1>3, <2>1, <3>2
  <2>2. CASE ~Has(immutableBuf, k)
    <3>1. ~Has(bucket'[flushID], k)
      BY <1>3, <2>2
    <3>2. Newest(bucket', k, flushID) = Newest(bucket', k, flushID - 1)
      BY <1>1, <3>1, NewestMiss
    <3>3. \A i \in 1..(flushID - 1) : bucket'[i] = bucket[i]
      <4>1. flushID <= MaxWrites
        BY DEF LivesInv, TypeOK
      <4> QED
        BY <1>1, <1>3, <4>1 DEF Slots
    <3>4. Newest(bucket', k, flushID - 1) = Newest(bucket, k, flushID - 1)
      BY <1>1, <3>3, NewestSame
    <3> QED
      BY <1>1, <2>2, <3>2, <3>4 DEF OwnView
  <2> QED
    BY <2>1, <2>2
<1> QED
  BY <1>3, <1>4

\* What LivesInv says of the data, once the blob is there and its Flush is done
\* with it.
LEMMA LandInv ==
    ASSUME LivesInv, LivesBlobLands, ~Frozen'
    PROVE  /\ LivesNumberInv' /\ EntriesInv' /\ LivesOrderInv' /\ OldInv'
           /\ OwnTop' = flushID
           /\ failed = {} =>
                 /\ \A i \in 1..flushID, k \in Keys : Has(bucket'[i], k) => bucket'[i][k].id > base
                 /\ Overlay(buffer, Overlay(immutableBuf, OwnView')) = last
<1>1. /\ flushID \in Nat /\ flushID > 0 /\ OwnTop = flushID - 1 /\ flushID \in Slots
  BY TopType DEF LivesInv, LivesBlobLands, Slots
<1>2. /\ bucket'[flushID] = immutableBuf
      /\ \A i \in Slots : i # flushID => bucket'[i] = bucket[i]
  BY LandData
<1>3. /\ buffer' = buffer /\ immutableBuf' = immutableBuf /\ flushID' = flushID
      /\ writes' = writes /\ last' = last /\ base' = base
  BY DEF LivesBlobLands, memory
<1>4. OwnTop' = flushID
  BY <1>3 DEF OwnTop, Frozen
<1>5. LivesNumberInv'
  BY <1>3 DEF LivesInv, LivesNumberInv
<1>6. base \in Nat /\ writes \in Nat
  BY DEF LivesInv, TypeOK
<1>7. EntriesInv'
  <2>1. ASSUME NEW k \in Keys, NEW i \in Slots, Has(bucket'[i], k)
        PROVE  bucket'[i][k].id \in 1..writes
    <3>1. CASE i = flushID
      <4>1. immutableBuf[k].id \in base + 1 .. writes
        BY <1>2, <2>1, <3>1 DEF LivesInv, EntriesInv
      <4> QED
        BY <1>2, <1>6, <3>1, <4>1
    <3>2. CASE i # flushID
      BY <1>2, <2>1, <3>2 DEF LivesInv, EntriesInv
    <3> QED
      BY <3>1, <3>2
  <2> QED
    BY <1>3, <2>1 DEF LivesInv, EntriesInv, Has
<1>8. LivesOrderInv'
  BY <1>2, <1>3 DEF LivesInv, LivesOrderInv, Has
<1>9. OldInv'
  BY <1>1, <1>2, <1>3, <1>4 DEF LivesInv, OldInv, Slots
<1>10. ASSUME failed = {}, NEW i \in 1..flushID, NEW k \in Keys, Has(bucket'[i], k)
       PROVE  bucket'[i][k].id > base
  <2>1. CASE i = flushID
    <3>1. immutableBuf[k].id \in base + 1 .. writes
      BY <1>2, <1>10, <2>1 DEF LivesInv, EntriesInv
    <3> QED
      BY <1>2, <1>6, <2>1, <3>1
  <2>2. CASE i # flushID
    <3>1. i \in 1..OwnTop /\ i \in Slots
      BY <1>1, <2>2 DEF LivesInv, TypeOK, Slots
    <3> QED
      BY <1>2, <1>10, <2>2, <3>1 DEF LivesInv, OwnInv
  <2> QED
    BY <2>1, <2>2
<1>11. ASSUME failed = {}
       PROVE  Overlay(buffer, Overlay(immutableBuf, OwnView')) = last
  <2>1. Overlay(buffer, Overlay(immutableBuf, OwnView)) = last
    BY <1>11 DEF LivesInv, OwnInv
  <2>2. \A k \in Keys : OwnView'[k] = IF Has(immutableBuf, k) THEN immutableBuf[k]
                                                               ELSE OwnView[k]
    BY <1>4, LandData DEF OwnView
  <2>3. Overlay(immutableBuf, OwnView') = Overlay(immutableBuf, OwnView)
    BY <2>2 DEF Overlay
  <2> QED
    BY <2>1, <2>3
<1> QED
  BY <1>4, <1>5, <1>7, <1>8, <1>9, <1>10, <1>11

LEMMA LivesFlushWriteStep ==
    ASSUME LivesInv, NEW p \in Procs, FlushWrite(p), UNCHANGED lifeVars
    PROVE  LivesInv' /\ LivesBlobLands
<1>1. /\ pc[p] = "frozen" /\ pc' = [pc EXCEPT ![p] = "written"] /\ Frozen
      /\ UNCHANGED <<mu, flushMutex, memory, flushID, bucketOpen, scan, flush, writes, last,
                     failed, base>>
      /\ bucket' = [bucket EXCEPT ![flushID] = immutableBuf]
  BY DEF FlushWrite, locks, ghosts, lifeVars, LivesInv, LivesFlushInv, Writing, Frozen
<1>2. /\ pc'[p] = "written"
      /\ \A q \in Procs : q # p => pc'[q] = pc[q] /\ ~Writing(q) /\ pc[q] # "flushing"
  BY <1>1, OneFlusher DEF LivesInv, TypeOK, Writing
<1>3. LivesBlobLands /\ ~Frozen'
  BY <1>1, <1>2 DEF LivesBlobLands, Frozen, Writing
<1>4. buffer' = buffer /\ immutableBuf' = immutableBuf
  BY <1>1 DEF memory
<1>5. TypeOK' /\ base' \in 0..MaxWrites
  <2>1. bucket' \in [Slots -> Table]
    BY <1>3, LandData
  <2> QED
    BY <1>1, <1>4, <2>1 DEF LivesInv, TypeOK
<1>6. LockInv'
  BY <1>1, <1>2 DEF LivesInv, LockInv, Writing
<1>7. LivesNumberInv' /\ EntriesInv' /\ LivesOrderInv' /\ OldInv'
  BY <1>3, LandInv
<1>8. LivesFlushInv'
  <2>1. bucket'[flushID] = immutableBuf
    BY <1>3, LandData
  <2> QED
    BY <1>1, <1>2, <1>4, <2>1 DEF LivesInv, LivesFlushInv, Writing
<1>9. OwnInv'
  <2>1. Writing(p)'
    BY <1>2 DEF Writing
  <2> QED
    BY <1>1, <1>3, <1>4, <2>1, LandInv DEF OwnInv
<1>10. LivesScanInv'
  BY <1>1, <1>2, <1>4 DEF LivesInv, LivesScanInv, Has
<1>11. AnswersAreOwn'
  BY NoAnswer DEF FlushWrite
<1> QED
  BY <1>3, <1>5, <1>6, <1>7, <1>8, <1>9, <1>10, <1>11 DEF LivesInv

\* immutableBuf is dropped only after the blobs show what it showed.
LEMMA LivesFlushClearStep ==
    ASSUME LivesInv, NEW p \in Procs, FlushClear(p), UNCHANGED lifeVars
    PROVE  LivesInv'
<1>1. /\ pc[p] = "written" /\ pc' = [pc EXCEPT ![p] = "idle"] /\ mu = None
      /\ flushMutex = p /\ flushMutex' = None /\ flush' = [flush EXCEPT ![p] = NoFlush]
      /\ immutableBuf' = EmptyTable /\ buffer' = buffer
      /\ UNCHANGED <<mu, flushID, bucket, bucketOpen, scan, writes, last, failed, base>>
  BY DEF FlushClear, FlushReturns, blobs, ghosts, lifeVars, LivesInv, LockInv, Writing
<1>2. /\ pc'[p] = "idle"
      /\ \A q \in Procs : q # p => pc'[q] = pc[q] /\ ~Writing(q) /\ pc[q] # "flushing"
      /\ \A q \in Procs : pc[q] # "scanning"
  BY <1>1, OneFlusher, NoScanner DEF LivesInv, TypeOK, Writing
<1>3. TypeOK' /\ base' \in 0..MaxWrites
  BY <1>1, NoFlushType, NoEntryType DEF LivesInv, TypeOK
<1>4. LockInv'
  BY <1>1, <1>2 DEF LivesInv, LockInv, Writing
<1>5. ~Frozen /\ ~Frozen' /\ OwnTop = flushID /\ OwnTop' = flushID
  BY <1>1, <1>2 DEF Frozen, OwnTop, Writing
<1>6. OwnView' = OwnView
  BY <1>1, <1>5 DEF OwnView
<1>7. \A k \in Keys : ~Has(immutableBuf', k) /\ immutableBuf'[k].id = 0
  BY <1>1 DEF Has, EmptyTable, NoEntry
<1>8. LivesNumberInv' /\ OldInv'
  BY <1>1, <1>5 DEF LivesInv, LivesNumberInv, OldInv
<1>9. EntriesInv'
  BY <1>1, <1>7 DEF LivesInv, EntriesInv, Has
<1>10. LivesOrderInv'
  <2>1. \A k \in Keys : immutableBuf[k].id \in Nat /\ buffer[k].id \in Nat
    BY IdsType DEF LivesInv
  <2>2. \A j, k \in Keys : Has(buffer, j) => buffer[j].id > 0
    <3>1. ASSUME NEW j \in Keys, Has(buffer, j) PROVE buffer[j].id \in base + 1 .. writes
      BY <3>1 DEF LivesInv, EntriesInv
    <3>2. base \in Nat /\ writes \in Nat
      BY DEF LivesInv, TypeOK
    <3> QED
      BY <3>1, <3>2
  <2> QED
    BY <1>1, <1>5, <1>7, <2>2 DEF LivesInv, LivesOrderInv, Has
<1>11. LivesFlushInv'
  BY <1>2 DEF LivesFlushInv, Writing
<1>12. OwnInv'
  <2>1. ASSUME failed = {}
        PROVE  Overlay(buffer, Overlay(EmptyTable, OwnView)) = last
    <3>1. flushID > 0 /\ bucket[flushID] = immutableBuf /\ flushID \in Nat
      BY <1>1 DEF LivesInv, LivesFlushInv, Writing, TypeOK
    <3>2. \A k \in Keys : Has(immutableBuf, k) => OwnView[k] = immutableBuf[k]
      BY <1>5, <3>1, NewestHit DEF OwnView
    <3>3. Overlay(buffer, Overlay(immutableBuf, OwnView)) = last
      BY <2>1 DEF LivesInv, OwnInv
    <3>4. \A k \in Keys : ~Has(EmptyTable, k)
      BY DEF Has, EmptyTable
    <3>5. \A k \in Keys : Overlay(immutableBuf, OwnView)[k] = Overlay(EmptyTable, OwnView)[k]
      BY <3>2, <3>4 DEF Overlay
    <3> QED
      BY <3>3, <3>5 DEF Overlay
  <2> QED
    BY <1>1, <1>5, <1>6, <2>1 DEF LivesInv, OwnInv
<1>13. LivesScanInv'
  BY <1>2 DEF LivesScanInv
<1>14. AnswersAreOwn'
  BY NoAnswer DEF FlushClear, FlushReturns
<1> QED
  BY <1>3, <1>4, <1>8, <1>9, <1>10, <1>11, <1>12, <1>13, <1>14 DEF LivesInv

\* The writes of a snapshot whose Flush fails are on record as failed, and with
\* them nothing is promised any more of what readers find.
LEMMA LivesFlushWriteFailsStep ==
    ASSUME LivesInv, NEW p \in Procs, NEW landed \in BOOLEAN, FlushWriteFails(p, landed),
           UNCHANGED lifeVars
    PROVE  LivesInv' /\ (LivesBlobLands \/ bucket' = bucket)
<1> DEFINE lost == IdsIn(flush[p].map)
<1>1. /\ pc[p] = "frozen" /\ pc' = [pc EXCEPT ![p] = "idle"] /\ Frozen
      /\ flushMutex = p /\ flushMutex' = None /\ flush' = [flush EXCEPT ![p] = NoFlush]
      /\ buffer' = buffer /\ immutableBuf' = immutableBuf
      /\ failed' = failed \cup lost
      /\ UNCHANGED <<mu, flushID, bucketOpen, scan, writes, last, base>>
      /\ flush[p].map = immutableBuf /\ immutableBuf # EmptyTable
  BY DEF FlushWriteFails, FlushReturns, memory, lifeVars, LivesInv, LockInv, LivesFlushInv, Writing,
     Frozen
<1>2. /\ pc'[p] = "idle"
      /\ \A q \in Procs : q # p => pc'[q] = pc[q] /\ ~Writing(q) /\ pc[q] # "flushing"
  BY <1>1, OneFlusher DEF LivesInv, TypeOK, Writing
<1>3. ~Frozen'
  BY <1>2 DEF Frozen, Writing
<1>4. LivesBlobLands \/ bucket' = bucket
  BY <1>1 DEF FlushWriteFails, LivesBlobLands, memory, LivesInv, LivesFlushInv, Writing
<1>5. lost \subseteq 1..MaxWrites /\ lost # {}
  <2>1. ASSUME NEW k \in Keys, Has(immutableBuf, k)
        PROVE  immutableBuf[k].id \in 1..MaxWrites
    <3>1. immutableBuf[k].id \in base + 1 .. writes
      BY <2>1 DEF LivesInv, EntriesInv
    <3>2. base \in Nat /\ writes \in Nat /\ writes <= MaxWrites
      BY DEF LivesInv, TypeOK
    <3> QED
      BY <3>1, <3>2
  <2>2. \E k \in Keys : Has(immutableBuf, k)
    BY <1>1 DEF Has, EmptyTable, LivesInv, TypeOK, Table
  <2> QED
    BY <1>1, <2>1, <2>2 DEF IdsIn
<1> HIDE DEF lost
<1>6. TypeOK' /\ base' \in 0..MaxWrites
  <2>1. bucket' \in [Slots -> Table]
    BY <1>4, LandData DEF LivesInv, TypeOK
  <2>2. failed' \subseteq 1..MaxWrites
    BY <1>1, <1>5 DEF LivesInv, TypeOK
  <2>3. pc' \in [Procs -> {"idle", "scanning", "flushing", "frozen", "written"}]
    BY <1>1 DEF LivesInv, TypeOK
  <2>4. flush' \in [Procs -> [id : 0..MaxWrites, map : Table, due : Table]]
    BY <1>1, NoFlushType DEF LivesInv, TypeOK
  <2> QED
    BY <1>1, <2>1, <2>2, <2>3, <2>4 DEF LivesInv, TypeOK
<1>7. LockInv'
  BY <1>1, <1>2 DEF LivesInv, LockInv, Writing
<1>8. LivesNumberInv' /\ EntriesInv' /\ LivesOrderInv' /\ OldInv'
  <2>1. CASE LivesBlobLands
    BY <1>3, <2>1, LandInv
  <2>2. CASE bucket' = bucket
    <3>1. OwnTop' = flushID /\ OwnTop \in Nat /\ OwnTop <= flushID /\ flushID \in Nat
      BY <1>1, <1>3, TopType DEF OwnTop, Frozen, LivesInv
    <3>2. OldInv'
      BY <1>1, <2>2, <3>1 DEF LivesInv, OldInv, Slots
    <3> QED
      BY <1>1, <1>3, <2>2, <3>2 DEF LivesInv, LivesNumberInv, EntriesInv, LivesOrderInv, Has
  <2> QED
    BY <1>4, <2>1, <2>2
<1>9. LivesFlushInv'
  BY <1>2 DEF LivesFlushInv, Writing
<1>10. OwnInv'
  BY <1>1, <1>5 DEF OwnInv
<1>11. LivesScanInv'
  BY <1>1, <1>2 DEF LivesInv, LivesScanInv, Has
<1>12. AnswersAreOwn'
  BY NoAnswer DEF FlushWriteFails, FlushReturns
<1> QED
  BY <1>4, <1>6, <1>7, <1>8, <1>9, <1>10, <1>11, <1>12 DEF LivesInv

-----------------------------------------------------------------------------
(* The invariant *)

\* A store without memory, on blobs that hold what earlier stores wrote.
Fresh ==
    /\ mu = None /\ flushMutex = None /\ buffer = EmptyTable /\ immutableBuf = EmptyTable
    /\ flushID = 0 /\ bucketOpen = TRUE /\ last = EmptyTable /\ failed = {}
    /\ pc = [p \in Procs |-> "idle"] /\ scan = [p \in Procs |-> NoScan]
    /\ flush = [p \in Procs |-> NoFlush] /\ reply = NoReply
    /\ writes \in 0..MaxWrites /\ base = writes
    /\ bucket \in [Slots -> Table]
    /\ \A k \in Keys, i \in Slots : Has(bucket[i], k) => bucket[i][k].id \in 1..base

LEMMA FreshInv == Fresh => LivesInv
<1> SUFFICES ASSUME Fresh PROVE LivesInv
  OBVIOUS
<1> USE DEF Fresh
<1>1. TypeOK /\ base \in 0..MaxWrites
  <2>1. NoScan \in [key : Keys \cup {None}, level : Levels, at : 0..MaxWrites,
                    floor : Nat, skipped : BOOLEAN]
    BY DEF NoScan, Levels, NotFound
  <2> QED
    BY <2>1, NoFlushType, NoEntryType DEF TypeOK
<1>2. LockInv /\ LivesFlushInv /\ LivesScanInv /\ ~Frozen
  BY DEF LockInv, LivesFlushInv, LivesScanInv, Writing, Frozen
<1>3. OwnTop = 0
  BY <1>2 DEF OwnTop, Frozen
<1>4. \A k \in Keys : ~Has(EmptyTable, k)
  BY DEF Has, EmptyTable
<1>5. LivesNumberInv
  BY DEF LivesNumberInv
<1>6. EntriesInv
  BY <1>4 DEF EntriesInv
<1>7. LivesOrderInv
  BY <1>4 DEF LivesOrderInv
<1>8. OldInv
  <2>1. \A k \in Keys, i \in Slots : bucket[i][k] = NoEntry => bucket[i][k].id = 0
    BY DEF NoEntry
  <2> QED
    BY <2>1 DEF OldInv, Has
<1>9. OwnInv
  <2>1. OwnView = EmptyTable
    BY <1>3, NewestNone DEF OwnView, EmptyTable
  <2>2. Overlay(EmptyTable, Overlay(EmptyTable, EmptyTable)) = EmptyTable
    BY <1>4 DEF Overlay, EmptyTable
  <2> QED
    BY <1>3, <2>1, <2>2 DEF OwnInv
<1>10. AnswersAreOwn
  BY DEF AnswersAreOwn, NoReply
<1> QED
  BY <1>1, <1>2, <1>5, <1>6, <1>7, <1>8, <1>9, <1>10 DEF LivesInv

LEMMA LivesInitInv == LivesInit => LivesInv
<1> SUFFICES ASSUME LivesInit PROVE LivesInv
  OBVIOUS
<1>1. bucket \in [Slots -> Table] /\ \A k \in Keys, i \in Slots : ~Has(bucket[i], k)
  BY NoEntryType DEF LivesInit, Init, Has, EmptyTable
<1> QED
  BY <1>1, FreshInv DEF LivesInit, Init, Fresh

\* The same of the state that a step leads to.
LEMMA FreshInvNext == Fresh' => LivesInv'
BY FreshInv, PTL

LEMMA ReopenStep ==
    ASSUME LivesInv, Reopen
    PROVE  LivesInv'
<1>1. Fresh'
  BY DEF Reopen, Fresh, LivesInv, TypeOK, EntriesInv, Has
<1> QED
  BY <1>1, FreshInvNext

LEMMA LivesStutterInv == LivesInv /\ UNCHANGED <<vars, lifeVars>> => LivesInv'
<1> SUFFICES ASSUME LivesInv, UNCHANGED <<vars, lifeVars>> PROVE LivesInv'
  OBVIOUS
<1>1. LivesDataUnchanged /\ UNCHANGED <<locks, blobs, pc, scan, flush, reply>>
  BY DEF vars, lifeVars, LivesDataUnchanged, blobs
<1>2. TypeOK' /\ LockInv' /\ LivesScanInv' /\ base' \in 0..MaxWrites
  BY <1>1 DEF LivesInv, TypeOK, LockInv, LivesScanInv, Writing, LivesDataUnchanged, locks, memory,
     blobs, ghosts, Has
<1>3. LivesDataInv' /\ OwnTop' = OwnTop /\ OwnView' = OwnView
  BY <1>1, LivesDataFrame DEF LivesInv, LivesDataInv, WritersUnchanged, Writing
<1>4. AnswersAreOwn'
  BY <1>1, <1>3 DEF LivesInv, AnswersAreOwn, LivesDataUnchanged, ghosts
<1> QED
  BY <1>2, <1>3, <1>4 DEF LivesInv, LivesDataInv

LEMMA LivesStepInv == LivesInv /\ [LivesNext]_<<vars, lifeVars>> => LivesInv'
<1> SUFFICES ASSUME LivesInv, [LivesNext]_<<vars, lifeVars>> PROVE LivesInv'
  OBVIOUS
<1>1. CASE UNCHANGED <<vars, lifeVars>>
  BY <1>1, LivesStutterInv
<1>2. CASE Reopen
  BY <1>2, ReopenStep
<1>3. ASSUME NEW p \in Procs, Step(p), UNCHANGED lifeVars PROVE LivesInv'
  <2>1. ASSUME NEW k \in Keys, Put(p, k) \/ Delete(p, k) PROVE LivesInv'
    BY <1>3, <2>1, LivesSetStep DEF Put, Delete
  <2>2. ASSUME NEW k \in Keys, NEW level \in Levels,
               GetFromMemory(p, k, level) \/ GetFromBucket(p, k, level)
        PROVE  LivesInv'
    BY <1>3, <2>2, LivesGetFromMemoryStep, LivesGetFromBucketStep
  <2>3. CASE ScanHit(p) \/ ScanEnd(p)
    BY <1>3, <2>3, LivesGetReturnsStep
  <2>4. CASE ScanMiss(p)
    BY <1>3, <2>4, LivesScanMovesStep
  <2>5. CASE FlushBegin(p)
    BY <1>3, <2>5, LivesFlushBeginStep
  <2>6. CASE FlushEmpty(p)
    BY <1>3, <2>6, LivesFlushEmptyStep
  <2>7. CASE FlushFreeze(p)
    BY <1>3, <2>7, LivesFlushFreezeStep
  <2>8. CASE FlushWrite(p)
    BY <1>3, <2>8, LivesFlushWriteStep
  <2>9. CASE FlushClear(p)
    BY <1>3, <2>9, LivesFlushClearStep
  <2> QED
    BY <1>3, <2>1, <2>2, <2>3, <2>4, <2>5, <2>6, <2>7, <2>8, <2>9 DEF Step
<1>4. ASSUME NEW p \in Procs, Fault(p), UNCHANGED lifeVars PROVE LivesInv'
  <2>1. ASSUME NEW landed \in BOOLEAN, FlushWriteFails(p, landed) PROVE LivesInv'
    BY <1>4, <2>1, LivesFlushWriteFailsStep
  <2>2. CASE ScanReadFails(p)
    BY <1>4, <2>2, LivesScanMovesStep
  <2>3. CASE Close(p)
    BY <1>4, <2>3, LivesCloseStep
  <2> QED
    BY <1>4, <2>1, <2>2, <2>3 DEF Fault
<1> QED
  BY <1>1, <1>2, <1>3, <1>4 DEF LivesNext, FaultyNext

\* LivesInv holds for any number of lives, goroutines, keys and writes, wherever
\* a store stops and whatever its bucket fails to do.
THEOREM LivesInvariant == LivesSpec => []LivesInv
BY LivesInitInv, LivesStepInv, PTL DEF LivesSpec

\* Where no Flush has failed or is writing, memory reads see the latest writes
\* of the present store, and no Get answers with an older store's write unless a
\* Flush has drawn the number of its blob (kvstore.go:53-59, 115-131, 165-180).
THEOREM LivesAreApart == LivesSpec => []LivesApart
<1>1. ASSUME LivesInv, failed = {}, OwnTop = flushID PROVE MemoryView = last
  <2>1. OwnView = RemoteView
    BY <1>1 DEF OwnView, RemoteView
  <2> QED
    BY <1>1, <2>1 DEF LivesInv, OwnInv, MemoryView
<1>2. LivesInv => LivesApart
  BY <1>1 DEF LivesInv, LivesApart, LatestIsOwn
<1> QED
  BY <1>2, LivesInvariant, PTL

-----------------------------------------------------------------------------
(* What is durable within a life *)

\* What a step does to the remote view of a key: a blob that lands puts something
\* newer there, a number that is drawn something of an earlier store.
LEMMA LivesRemoteStep ==
    ASSUME LivesInv, [FaultyNext /\ UNCHANGED lifeVars]_<<vars, lifeVars>>
    PROVE  UNCHANGED <<flushID, bucket>> \/ LivesBlobLands
              \/ (bucket' = bucket /\ flushID' = flushID + 1 /\ OwnTop = flushID
                    /\ \E p \in Procs : FlushFreeze(p))
<1> DEFINE Goal == UNCHANGED <<flushID, bucket>> \/ LivesBlobLands
              \/ (bucket' = bucket /\ flushID' = flushID + 1 /\ OwnTop = flushID
                    /\ \E p \in Procs : FlushFreeze(p))
<1>1. ASSUME NEW p \in Procs, Step(p), UNCHANGED lifeVars PROVE Goal
  <2>1. CASE FlushFreeze(p)
    <3>1. OwnTop = flushID
      BY <1>1, <2>1, LivesFlushFreezeStep
    <3>2. bucket' = bucket /\ flushID' = flushID + 1
      BY <2>1 DEF FlushFreeze, blobs, NextFlushID
    <3> QED
      BY <2>1, <3>1, <3>2
  <2>2. CASE FlushWrite(p)
    BY <1>1, <2>2, LivesFlushWriteStep
  <2>3. CASE ~FlushFreeze(p) /\ ~FlushWrite(p)
    BY <1>1, <2>3 DEF Step, Put, Delete, Set, GetFromMemory, GetFromBucket, ScanHit,
       ScanMiss, ScanEnd, GetReturns, FlushBegin, FlushEmpty, FlushClear, blobs
  <2> QED
    BY <2>1, <2>2, <2>3
<1>2. ASSUME NEW p \in Procs, Fault(p), UNCHANGED lifeVars PROVE Goal
  <2>1. ASSUME NEW landed \in BOOLEAN, FlushWriteFails(p, landed) PROVE Goal
    <3>1. LivesBlobLands \/ bucket' = bucket
      BY <1>2, <2>1, LivesFlushWriteFailsStep
    <3>2. flushID' = flushID
      BY <2>1 DEF FlushWriteFails
    <3> QED
      BY <3>1, <3>2
  <2>2. CASE ScanReadFails(p) \/ Close(p)
    BY <2>2 DEF ScanReadFails, Close, blobs
  <2> QED
    BY <1>2, <2>1, <2>2 DEF Fault
<1>3. CASE UNCHANGED <<vars, lifeVars>>
  BY <1>3 DEF vars, blobs
<1> QED
  BY <1>1, <1>2, <1>3 DEF FaultyNext

LEMMA DurableStays ==
    ASSUME LivesInv, [FaultyNext /\ UNCHANGED lifeVars]_<<vars, lifeVars>>,
           NEW k \in Keys, RemoteView[k].id > base
    PROVE  \/ RemoteView'[k].id >= RemoteView[k].id
           \/ flushID' = flushID + 1 /\ RemoteView'[k].id \in 1..base
<1>1. /\ flushID \in Nat /\ OwnTop \in Nat /\ base \in Nat /\ flushID <= MaxWrites
      /\ Frozen => flushID > 0 /\ OwnTop = flushID - 1
  BY TopType DEF LivesInv
<1>2. RemoteView[k] = Newest(bucket, k, flushID) /\ RemoteView[k] \in Entry
  BY <1>1, BlobType DEF RemoteView, LivesInv
<1>3. RemoteView[k].id \in Nat
  BY <1>2 DEF Entry
<1>4. base' = base
  BY DEF lifeVars
<1>5. CASE UNCHANGED <<flushID, bucket>>
  BY <1>3, <1>5 DEF RemoteView
<1>6. CASE LivesBlobLands
  <2>1. /\ flushID \in Slots /\ OwnTop = flushID - 1 /\ flushID > 0 /\ flushID' = flushID
        /\ Frozen
    BY <1>1, <1>6 DEF LivesBlobLands, Slots
  <2>2. bucket[flushID][k].id <= base /\ bucket[flushID][k].id \in Nat
    <3>1. flushID > OwnTop
      BY <1>1, <2>1
    <3> QED
      BY <2>1, <3>1, IdsType DEF LivesInv, OldInv
  <2>3. RemoteView'[k] = IF Has(immutableBuf, k) THEN immutableBuf[k] ELSE OwnView[k]
    BY <1>6, <2>1, LandData DEF RemoteView
  <2>4. ~Has(bucket[flushID], k)
    <3>1. Has(bucket[flushID], k) => RemoteView[k] = bucket[flushID][k]
      BY <1>1, <1>2, <2>1, NewestHit
    <3> QED
      BY <1>1, <1>3, <2>2, <3>1
  <2>5. RemoteView[k] = OwnView[k]
    BY <1>1, <1>2, <2>1, <2>4, NewestMiss DEF OwnView
  <2>6. CASE ~Has(immutableBuf, k)
    BY <1>3, <2>3, <2>5, <2>6
  <2>7. CASE Has(immutableBuf, k)
    <3>1. \A i \in Slots : immutableBuf[k].id > bucket[i][k].id
      BY <2>1, <2>7 DEF LivesInv, LivesOrderInv
    <3>2. PICK i \in Slots : RemoteView[k] = bucket[i][k]
      <4>1. RemoteView[k] # NoEntry
        BY <1>1, <1>3 DEF NoEntry
      <4>2. Holders(bucket, k, flushID) # {}
        BY <1>2, <4>1 DEF Newest
      <4>3. Holders(bucket, k, flushID) \subseteq 1..flushID
        BY DEF Holders
      <4>4. Max(Holders(bucket, k, flushID)) \in 1..flushID
        BY <1>1, <4>2, <4>3, MaxOfSlots
      <4> QED
        BY <1>1, <1>2, <4>2, <4>4 DEF Newest, Slots
    <3>3. immutableBuf[k].id \in Nat
      BY IdsType DEF LivesInv
    <3> QED
      BY <1>3, <2>3, <2>7, <3>1, <3>2, <3>3
  <2> QED
    BY <2>6, <2>7
<1>7. CASE bucket' = bucket /\ flushID' = flushID + 1 /\ OwnTop = flushID
             /\ \E p \in Procs : FlushFreeze(p)
  <2>1. flushID + 1 \in Slots
    <3>1. PICK p \in Procs : FlushFreeze(p)
      BY <1>7
    <3>2. buffer # EmptyTable
      BY <3>1 DEF FlushFreeze, NothingToFlush
    <3>3. base + flushID + 1 <= writes /\ writes \in Nat /\ writes <= MaxWrites
      BY <3>2 DEF LivesInv, LivesNumberInv, TypeOK
    <3> QED
      BY <1>1, <3>3 DEF Slots
  <2>2. RemoteView'[k] = Newest(bucket, k, flushID + 1)
    BY <1>7 DEF RemoteView
  <2>3. CASE ~Has(bucket[flushID + 1], k)
    <3>1. RemoteView'[k] = RemoteView[k]
      BY <1>1, <1>2, <2>2, <2>3, NewestNext
    <3> QED
      BY <1>3, <3>1
  <2>4. CASE Has(bucket[flushID + 1], k)
    <3>1. RemoteView'[k] = bucket[flushID + 1][k]
      <4>1. flushID + 1 \in Nat /\ flushID + 1 > 0
        BY <1>1
      <4> QED
        BY <2>2, <2>4, <4>1, NewestHit
    <3>2. bucket[flushID + 1][k].id <= base
      <4>1. flushID + 1 > OwnTop
        BY <1>1, <1>7
      <4> QED
        BY <2>1, <4>1 DEF LivesInv, OldInv
    <3>3. bucket[flushID + 1][k].id \in 1..writes
      BY <2>1, <2>4 DEF LivesInv, EntriesInv
    <3>4. bucket[flushID + 1][k].id \in 1..base
      <4>1. writes \in Nat
        BY DEF LivesInv, TypeOK
      <4> QED
        BY <1>1, <3>2, <3>3, <4>1
    <3> QED
      BY <1>7, <3>1, <3>4
  <2> QED
    BY <2>3, <2>4
<1> QED
  BY <1>5, <1>6, <1>7, LivesRemoteStep

LEMMA LifeType == LivesSpec => [](life \in Nat)
<1>1. LivesInit => life \in Nat
  BY DEF LivesInit
<1>2. life \in Nat /\ [LivesNext]_<<vars, lifeVars>> => (life \in Nat)'
  BY DEF LivesNext, Reopen, lifeVars
<1> QED
  BY <1>1, <1>2, PTL DEF LivesSpec

\* Within a life nothing that this store has made durable is lost or replaced by
\* something older of its own; only the number that a Flush draws can put an
\* earlier store's write in front of it (kvstore.go:115-131, 165-180).
THEOREM DurableStaysInLife == LivesSpec => DurableWithinLife
<1>1. ASSUME LivesInv, life \in Nat, [LivesNext]_<<vars, lifeVars>>
      PROVE  [life' = life =>
                \A k \in Keys : RemoteView[k].id > base =>
                    \/ RemoteView'[k].id >= RemoteView[k].id
                    \/ flushID' = flushID + 1 /\ RemoteView'[k].id \in 1..base]_vars
  <2>1. life' = life => ~Reopen
    BY <1>1 DEF Reopen
  <2>2. life' = life => [FaultyNext /\ UNCHANGED lifeVars]_<<vars, lifeVars>>
    BY <1>1, <2>1 DEF LivesNext
  <2> QED
    BY <1>1, <2>2, DurableStays
<1> QED
  BY <1>1, LivesInvariant, LifeType, PTL DEF LivesSpec, DurableWithinLife

-----------------------------------------------------------------------------
(* The abstract store for itself: what is durable is the effect of a prefix  *)
(* of the writes.  Whatever implements DurableStore inherits it.             *)

\* The table past is a state that the store went through: it holds every write
\* up to its youngest one, unless a later write of the same key replaced it.
PastState(past) ==
    \A j, k \in Keys : latest[j].id <= past[k].id => past[j] = latest[j]

\* Both tables that are moved around are past states, and stamps are used up.
StoreInv ==
    /\ Abstract!StoreTypeOK
    /\ \A k \in Keys : latest[k].id <= writes /\ frozen[k].id <= writes /\ durable[k].id <= writes
    /\ PastState(frozen)
    /\ PastState(durable)

LEMMA StoreInvInit == Abstract!StoreInit => StoreInv
<1> SUFFICES ASSUME Abstract!StoreInit PROVE StoreInv
  OBVIOUS
<1>1. Abstract!EmptyTable \in Abstract!Table /\ \A k \in Keys : Abstract!EmptyTable[k] = Abstract!NoEntry /\ Abstract!NoEntry.id = 0
  BY DEF Abstract!EmptyTable, Abstract!Table, Abstract!Entry, Abstract!NoEntry
<1> QED
  BY <1>1 DEF Abstract!StoreInit, StoreInv, Abstract!StoreTypeOK, PastState

LEMMA StoreInvStep == StoreInv /\ [Abstract!StoreNext]_(Abstract!storeVars) => StoreInv'
<1> SUFFICES ASSUME StoreInv, [Abstract!StoreNext]_(Abstract!storeVars) PROVE StoreInv'
  OBVIOUS
<1> USE DEF StoreInv, Abstract!StoreTypeOK
<1>1. ASSUME NEW k \in Keys, NEW dead \in BOOLEAN, Abstract!Write(k, dead) PROVE StoreInv'
  <2> DEFINE new == [id |-> writes + 1, dead |-> dead]
  <2>1. /\ latest' = [latest EXCEPT ![k] = new]
        /\ writes' = writes + 1
        /\ frozen' = frozen
        /\ durable' = durable
    BY <1>1 DEF Abstract!Write
  <2>2. new \in Abstract!Entry
    BY DEF Abstract!Entry
  <2>3. Abstract!StoreTypeOK'
    BY <2>1, <2>2 DEF Abstract!Table
  <2>4. \A j \in Keys : /\ latest[j].id \in Nat
                        /\ frozen[j].id \in Nat
                        /\ durable[j].id \in Nat
                        /\ latest'[j] = IF j = k THEN new ELSE latest[j]
    BY <2>1 DEF Abstract!Table, Abstract!Entry
  <2>5. \A j \in Keys : latest'[j].id <= writes' /\ frozen'[j].id <= writes' /\ durable'[j].id <= writes'
    BY <2>1, <2>4
  <2>6. ASSUME NEW past \in Abstract!Table, PastState(past), \A j \in Keys : past[j].id <= writes
        PROVE  \A i, j \in Keys : latest'[i].id <= past[j].id => past[i] = latest'[i]
    <3>1. \A j \in Keys : past[j].id \in Nat /\ past[j].id < new.id
      BY <2>6 DEF Abstract!Table, Abstract!Entry
    <3> QED
      BY <2>4, <2>6, <3>1 DEF PastState
  <2>7. PastState(frozen)' /\ PastState(durable)'
    BY <2>1, <2>6 DEF PastState
  <2> QED
    BY <2>3, <2>5, <2>7
<1>2. ASSUME Abstract!Freeze PROVE StoreInv'
  <2>1. \A j, k \in Keys : latest[j].id <= latest[k].id => latest[j] = latest[j]
    OBVIOUS
  <2> QED
    BY <1>2, <2>1 DEF Abstract!Freeze, PastState
<1>3. ASSUME Abstract!Persist PROVE StoreInv'
  BY <1>3 DEF Abstract!Persist, PastState
<1>4. CASE UNCHANGED Abstract!storeVars
  BY <1>4 DEF Abstract!storeVars, PastState
<1> QED
  BY <1>1, <1>2, <1>3, <1>4 DEF Abstract!StoreNext

\* In every behaviour of the abstract store, what is durable is the effect of a
\* prefix of the writes (embedded_kvstore.fizz, freeze and write, 48-63).
THEOREM DurableIsPrefix == Abstract!StoreSpec => []Abstract!Prefix
<1>1. StoreInv => Abstract!Prefix
  BY DEF StoreInv, PastState, Abstract!Prefix
<1> QED
  BY <1>1, StoreInvInit, StoreInvStep, PTL DEF Abstract!StoreSpec
=============================================================================
