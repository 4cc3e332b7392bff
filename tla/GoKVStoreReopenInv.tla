------------------------- MODULE GoKVStoreReopenInv -------------------------
(***************************************************************************)
(* The inductive invariant of GoKVStoreReopen: the blobs up to the last     *)
(* number hold writes of the present life, those above it what earlier      *)
(* stores left, and the blob of the last number is of either kind while a   *)
(* Flush is writing it.  Who owns which mutex is as in every single life.    *)
(***************************************************************************)
EXTENDS GoKVStoreReopen, GoKVStoreInv

Frozen == \E p \in Procs : pc[p] = "frozen"

\* Every number that this store has drawn stands for a write of this life.
LivesNumberInv ==
    base + flushID + (IF buffer = EmptyTable THEN 0 ELSE 1) <= writes

\* All entries are of writes so far; those in memory are of this life.
EntriesInv ==
    \A k \in Keys :
        /\ \A table \in {buffer, immutableBuf, last} :
              Has(table, k) => table[k].id \in base + 1 .. writes
        /\ \A i \in Slots : Has(bucket[i], k) => bucket[i][k].id \in 1..writes

\* Buffer, frozen buffer and blobs hold ever older writes.
LivesOrderInv ==
    \A j, k \in Keys, i \in Slots :
        /\ Has(buffer, j) => buffer[j].id > immutableBuf[k].id /\ buffer[j].id > bucket[i][k].id
        /\ Frozen /\ Has(immutableBuf, j) => immutableBuf[j].id > bucket[i][k].id

\* Above the blobs that this store has written, or failed to write, are those of
\* earlier stores.
OldInv ==
    \A i \in Slots, k \in Keys : i > OwnTop => bucket[i][k].id <= base

\* A Flush that has frozen the buffer owns the last number.
LivesFlushInv ==
    \A p \in Procs : Writing(p) =>
        /\ flushID > 0
        /\ flush[p].id = flushID
        /\ flush[p].map = immutableBuf
        /\ immutableBuf # EmptyTable
        /\ pc[p] = "written" => bucket[flushID] = immutableBuf

\* While no Flush of this store has failed, its blobs hold its own writes only
\* and no frozen buffer is left behind; its latest writes are in memory or there.
OwnInv ==
    failed = {} =>
        /\ \A i \in 1..OwnTop, k \in Keys : Has(bucket[i], k) => bucket[i][k].id > base
        /\ (\A p \in Procs : ~Writing(p)) => immutableBuf = EmptyTable
        /\ Overlay(buffer, Overlay(immutableBuf, OwnView)) = last

\* A Get in its loop is below the last number, and memory does not have its key.
LivesScanInv ==
    \A p \in Procs : pc[p] = "scanning" =>
        /\ scan[p].key \in Keys
        /\ scan[p].at <= flushID
        /\ scan[p].level = "memory" =>
              ~Has(buffer, scan[p].key) /\ ~Has(immutableBuf, scan[p].key)

LivesInv ==
    /\ TypeOK /\ base \in 0..MaxWrites
    /\ LockInv /\ LivesNumberInv /\ EntriesInv /\ LivesOrderInv /\ OldInv /\ LivesFlushInv /\ OwnInv /\ LivesScanInv
    /\ AnswersAreOwn
=============================================================================
