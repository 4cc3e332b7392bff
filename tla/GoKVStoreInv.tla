---------------------------- MODULE GoKVStoreInv ----------------------------
(***************************************************************************)
(* The inductive invariant of GoKVStore, with and without faults.  The      *)
(* properties follow from it; none of them is inductive alone, because what *)
(* a reader may see depends on where a Flush and another Get are.           *)
(***************************************************************************)
EXTENDS GoKVStore

Writing(p) == pc[p] \in {"frozen", "written"}

\* The owner of a mutex is the goroutine inside the section it guards.
LockInv ==
    \A p \in Procs :
        /\ mu = p <=> pc[p] = "scanning"
        /\ flushMutex = p <=> pc[p] = "flushing" \/ Writing(p)

\* Every flush number stands for at least one write, and no blob is numbered
\* ahead of flushID.
NumberInv ==
    /\ flushID + (IF buffer = EmptyTable THEN 0 ELSE 1) <= writes
    /\ \A i \in Slots : i > flushID => bucket[i] = EmptyTable

\* A Flush that has frozen the buffer owns the newest blob number, and what it
\* writes is what immutableBuf shows to readers.
FlushInv ==
    \A p \in Procs : Writing(p) =>
        /\ flushID > 0
        /\ flush[p].id = flushID
        /\ flush[p].map = immutableBuf
        /\ bucket[flushID] = IF pc[p] = "frozen" THEN EmptyTable ELSE immutableBuf

\* Buffer, frozen buffer and blobs hold ever older writes.
OrderInv ==
    /\ \A k \in Keys : /\ last[k].id <= writes
                       /\ buffer[k].id <= last[k].id
                       /\ immutableBuf[k].id <= last[k].id
                       /\ RemoteView[k].id <= last[k].id
    /\ \A j, k \in Keys : Has(buffer, j) =>
          buffer[j].id > immutableBuf[k].id /\ buffer[j].id > RemoteView[k].id
    /\ \A k \in Keys : Has(immutableBuf, k) => immutableBuf[k].id >= RemoteView[k].id
    /\ \A p \in Procs, j, k \in Keys :
          pc[p] = "frozen" /\ Has(immutableBuf, j) => immutableBuf[j].id > RemoteView[k].id

\* A frozen buffer that no Flush is writing is what a failed Flush left behind.
OrphanInv ==
    (\A p \in Procs : ~Writing(p)) =>
        \A k \in Keys : Has(immutableBuf, k) => immutableBuf[k].id \in failed

\* What a Flush owes its caller is where that Flush will find it.
DueInv ==
    \A p \in Procs, k \in Keys :
        LET due == flush[p].due[k].id
        IN  /\ pc[p] = "flushing" =>
                  /\ due <= MemoryView[k].id \/ due \in failed
                  /\ immutableBuf[k].id <= due
            /\ pc[p] = "frozen" =>
                  due <= Overlay(immutableBuf, RemoteView)[k].id \/ due \in failed
            /\ pc[p] = "written" => due <= RemoteView[k].id \/ due \in failed

\* A Get in its loop has not passed the answer it must give.
ScanInv ==
    \A p \in Procs : pc[p] = "scanning" =>
        LET s == scan[p]
        IN  /\ s.key \in Keys
            /\ s.at <= flushID
            /\ s.level = "memory" =>
                  ~Has(buffer, s.key) /\ ~Has(immutableBuf, s.key)
            /\ ~s.skipped => ValueOf(Newest(bucket, s.key, s.at))
                                \in {s.floor, ValueOf(RemoteView[s.key])}
            /\ (\E q \in Procs : pc[q] = "frozen") =>
                  s.floor = ValueOf(RemoteView[s.key])
            /\ s.level = "memory" => s.floor = ValueOf(RemoteView[s.key])

IInv ==
    /\ TypeOK
    /\ LockInv
    /\ NumberInv
    /\ FlushInv
    /\ OrderInv
    /\ OrphanInv
    /\ LossConfinedToFailedFlush
    /\ DueInv
    /\ ScanInv
=============================================================================
