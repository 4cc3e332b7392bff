--------------------------- MODULE RustKVStoreInv ---------------------------
(***************************************************************************)
(* The inductive invariant of RustKVStore, with and without faults.  What a *)
(* task may rely on depends on how far the one flush under way has moved    *)
(* the writes: active buffer, frozen buffer, local of the flush, segment.   *)
(***************************************************************************)
EXTENDS RustKVStore

Reading == {"getImm", "listing"}

\* The owner of a lock is the task inside the section it guards.
LockInv ==
    \A p \in Procs :
        /\ flush_gate = p <=> pc[p] \in Flushing
        /\ bufWriter = p <=> pc[p] = "swapping"

\* The frozen writes are in immutable_buf or in the flush that puts them, and
\* in neither once they are put.
HandoverInv ==
    \A p \in Procs :
        /\ pc[p] # "putting" => flush[p].content = EmptyTable
        /\ pc[p] \in {"putting", "clearing"} => immutable_buf = EmptyTable

\* Active buffer, frozen buffer, local of a flush and segments hold ever older
\* writes, and every entry they hold is one of a write.
OrderInv ==
    /\ \A k \in Keys :
          /\ last[k].id <= writes
          /\ Has(buf, k) => buf[k] = last[k]
          /\ immutable_buf[k].id <= last[k].id
          /\ RemoteView[k].id <= last[k].id
          /\ Has(RemoteView, k) => RemoteView[k].id > 0
    /\ \A j, k \in Keys :
          /\ Has(buf, j) => buf[j].id > immutable_buf[k].id /\ buf[j].id > RemoteView[k].id
          /\ Has(immutable_buf, j) => immutable_buf[j].id > RemoteView[k].id
    /\ \A p \in Procs, j, k \in Keys :
          LET content == flush[p].content
          IN  /\ content[k].id <= last[k].id
              /\ Has(buf, j) => buf[j].id > content[k].id
              /\ Has(content, j) => content[j].id > RemoteView[k].id

\* Only faults lose a put, or leave a frozen buffer to nobody.
FaultInv ==
    ~faulty =>
        /\ failed = {}
        /\ (\A p \in Procs : pc[p] # "taking") => immutable_buf = EmptyTable

\* What the flush of p has frozen, on top of what is durable.
FrozenBy(p) == Overlay(immutable_buf, Overlay(flush[p].content, RemoteView))

\* What a flush owes its caller is where that flush will find it; a flush that
\* found a frozen buffer left behind may leave it in the active buffer.
DueInv ==
    \A p \in Procs, k \in Keys : pc[p] \in Flushing =>
        LET due == flush[p].due[k].id
        IN  \/ due <= FrozenBy(p)[k].id
            \/ /\ faulty \/ pc[p] \in {"freezing", "swapping"}
               /\ due <= Overlay(buf, FrozenBy(p))[k].id
            \/ due \in failed

\* The Get g has not passed the answer it must give.
OnCourse(g, at) ==
    /\ g.key \in Keys
    /\ g.floor.id <= RemoteView[g.key].id
    /\ ~g.raced => ~InFlight
    /\ g.level = "memory" /\ ~g.raced =>
          \/ g.start.id <= RemoteView[g.key].id
          \/ at = "getImm" /\ g.start.id <= immutable_buf[g.key].id
          \/ g.start.id \in failed

GetInv == \A p \in Procs : pc[p] \in Reading => OnCourse(get[p], pc[p])

IInv ==
    /\ TypeOK
    /\ LockInv
    /\ HandoverInv
    /\ OrderInv
    /\ FaultInv
    /\ LossConfinedToWrite
    /\ DueInv
    /\ GetInv
=============================================================================
