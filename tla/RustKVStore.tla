----------------------------- MODULE RustKVStore -----------------------------
(***************************************************************************)
(* The Rust store of embedded-kvstore/rust/src/kvstore.rs.  buf is behind a *)
(* RwLock, immutable_buf behind a Mutex, Flush calls are serialised by       *)
(* flush_gate, and a segment is written to an object store under a ULID.    *)
(*                                                                         *)
(* A step is what a task runs between two awaits at which it may have to    *)
(* wait.  No task awaits anything while it holds immutable_buf, so a        *)
(* section under that lock is part of a step; freeze_internal awaits        *)
(* immutable_buf while it holds buf for writing, so buf has an owner.       *)
(* Segments are immutable, are never deleted, and are listed in the order   *)
(* in which they were named (mr_ulid names increase), so a Get is decided   *)
(* by the list it obtains, and the reads that follow are part of that step. *)
(***************************************************************************)
EXTENDS Entries, Sequences

CONSTANTS
    Procs,        \* tasks that call the store
    None,         \* no task: the owner of a free lock
    MaxWrites,    \* bound on the number of Puts and Deletes without faults
    MaxFaultyWrites  \* and with them

ASSUME MaxWritesAssumption == MaxWrites \in Nat /\ MaxFaultyWrites \in 0..MaxWrites
ASSUME NoneAssumption == None \notin Procs

VARIABLES
    flush_gate,       \* the task inside flush, or None
    bufWriter,        \* the task that holds buf for writing across an await
    buf,              \* the active buffer
    immutable_buf,    \* the frozen buffer
    segments,         \* the object store: segments in the order of their names
    pc,               \* where each task is
    get,              \* the locals of a Get, with ghosts
    flush,            \* the locals of a Flush, with ghosts
    writes, last,     \* ghosts: number of writes, latest write of each key
    reply,            \* ghost: what the call that the last step ended returned
    faulty,           \* whether calls may fail and futures may be dropped
    failed            \* ghost: writes in segments whose put failed or was dropped

locks == <<flush_gate, bufWriter>>
memory == <<buf, immutable_buf>>
ghosts == <<writes, last, failed, faulty>>
vars == <<locks, memory, segments, pc, get, flush, reply, ghosts>>

Flushing == {"freezing", "swapping", "taking", "putting", "clearing"}

NoReply == [kind |-> "none"]
GetReply(level, entry, floor, start, raced) ==
    [kind |-> "get", level |-> level, entry |-> entry, floor |-> floor,
     start |-> start, raced |-> raced]
FlushReply(ok, due) == [kind |-> "flush", ok |-> ok, due |-> due]

\* floor and start: what was durable and what was written when the Get began;
\* raced: at some moment of the Get a flush had taken the frozen buffer and not
\* yet put it.
NoGet == [key |-> None, level |-> "remote", floor |-> NoEntry, start |-> NoEntry,
          raced |-> FALSE]
NoFlush == [content |-> EmptyTable, due |-> EmptyTable]

-----------------------------------------------------------------------------
(* What reads see *)

RemoteView == [k \in Keys |-> Newest(segments, k, Len(segments))]
MemoryView == Overlay(buf, Overlay(immutable_buf, RemoteView))

InFlight == \E p \in Procs : pc[p] = "putting"

-----------------------------------------------------------------------------
(* Decisions of the code, named; each Mutant is a mistake the properties      *)
(* below are known to catch in the decision that follows it.                *)

\* freeze_internal, did_freeze.
MutantFullDidFreeze == \A k \in Keys : Has(buf, k)
MutantOverwritingDidFreeze == buf # EmptyTable
DidFreeze == buf # EmptyTable /\ immutable_buf = EmptyTable

\* freeze_internal, what is frozen.
MutantFrozen(table) == [k \in Keys |-> IF table[k].dead THEN NoEntry ELSE table[k]]
Frozen(table) == table

\* freeze_internal, what mem::take leaves in the active buffer.
MutantAfterFreeze == buf
AfterFreeze == EmptyTable

\* write_internal, where a segment ends up among those already listed.
MutantAddSegment(segs, table) ==
    IF segs = << >> THEN <<table>> ELSE [segs EXCEPT ![Len(segs)] = table]
AddSegment(segs, table) == Append(segs, table)

-----------------------------------------------------------------------------
Init ==
    /\ flush_gate = None
    /\ bufWriter = None
    /\ buf = EmptyTable
    /\ immutable_buf = EmptyTable
    /\ segments = << >>
    /\ pc = [p \in Procs |-> "idle"]
    /\ get = [p \in Procs |-> NoGet]
    /\ flush = [p \in Procs |-> NoFlush]
    /\ writes = 0
    /\ last = EmptyTable
    /\ reply = NoReply
    /\ failed = {}
    /\ faulty \in BOOLEAN

\* put (Some) and delete (None): buf.write, insert.
Insert(p, k, dead) ==
    LET entry == [id |-> writes + 1, dead |-> dead]
    IN  /\ pc[p] = "idle"
        /\ bufWriter = None
        /\ writes < IF faulty THEN MaxFaultyWrites ELSE MaxWrites
        /\ writes' = writes + 1
        /\ last' = [last EXCEPT ![k] = entry]
        /\ buf' = [buf EXCEPT ![k] = entry]
        /\ reply' = NoReply
        /\ UNCHANGED <<locks, immutable_buf, segments, pc, get, flush, failed, faulty>>

Put(p, k) == Insert(p, k, FALSE)
Delete(p, k) == Insert(p, k, TRUE)

-----------------------------------------------------------------------------
(* get *)

StartGet(p, k, level, next) ==
    /\ pc' = [pc EXCEPT ![p] = next]
    /\ get' = [get EXCEPT ![p] = [key |-> k, level |-> level, floor |-> RemoteView[k],
                                  start |-> last[k], raced |-> InFlight]]
    /\ reply' = NoReply
    /\ UNCHANGED <<locks, memory, segments, flush, ghosts>>

ReturnGet(p, entry) ==
    /\ reply' = GetReply(get[p].level, entry, get[p].floor, get[p].start, get[p].raced)
    /\ pc' = [pc EXCEPT ![p] = "idle"]
    /\ get' = [get EXCEPT ![p] = NoGet]
    /\ UNCHANGED <<locks, memory, segments, flush, ghosts>>

\* DurabilityLevel::Memory: buf.read finds the key.
GetBufHit(p, k) ==
    /\ pc[p] = "idle"
    /\ bufWriter = None
    /\ Has(buf, k)
    /\ reply' = GetReply("memory", buf[k], RemoteView[k], last[k], InFlight)
    /\ UNCHANGED <<locks, memory, segments, pc, get, flush, ghosts>>

\* It does not: the read lock is dropped before immutable_buf is locked.
GetBufMiss(p, k) ==
    /\ pc[p] = "idle"
    /\ bufWriter = None
    /\ ~Has(buf, k)
    /\ StartGet(p, k, "memory", "getImm")

GetImmHit(p) ==
    /\ pc[p] = "getImm"
    /\ Has(immutable_buf, get[p].key)
    /\ ReturnGet(p, immutable_buf[get[p].key])

GetImmMiss(p) ==
    /\ pc[p] = "getImm"
    /\ ~Has(immutable_buf, get[p].key)
    /\ pc' = [pc EXCEPT ![p] = "listing"]
    /\ reply' = NoReply
    /\ UNCHANGED <<locks, memory, segments, get, flush, ghosts>>

\* DurabilityLevel::Remote goes to the object store at once.
GetRemote(p, k) ==
    /\ pc[p] = "idle"
    /\ StartGet(p, k, "remote", "listing")

\* list, and the segments from the newest name to the oldest.
GetListed(p) ==
    /\ pc[p] = "listing"
    /\ ReturnGet(p, RemoteView[get[p].key])

-----------------------------------------------------------------------------
(* flush *)

FlushGate(p) ==
    /\ pc[p] = "idle"
    /\ flush_gate = None
    /\ flush_gate' = p
    /\ pc' = [pc EXCEPT ![p] = "freezing"]
    /\ flush' = [flush EXCEPT ![p].due = last]
    /\ reply' = NoReply
    /\ UNCHANGED <<bufWriter, memory, segments, get, ghosts>>

\* freeze_internal: buf.write, then the wait for immutable_buf.
FreezeLock(p) ==
    /\ pc[p] = "freezing"
    /\ bufWriter = None
    /\ bufWriter' = p
    /\ pc' = [pc EXCEPT ![p] = "swapping"]
    /\ reply' = NoReply
    /\ UNCHANGED <<flush_gate, memory, segments, get, flush, ghosts>>

\* The swap, and both locks released.
FreezeSwap(p) ==
    /\ pc[p] = "swapping"
    /\ immutable_buf' = IF DidFreeze THEN Frozen(buf) ELSE immutable_buf
    /\ buf' = IF DidFreeze THEN AfterFreeze ELSE buf
    /\ bufWriter' = None
    /\ pc' = [pc EXCEPT ![p] = "taking"]
    /\ reply' = NoReply
    /\ UNCHANGED <<flush_gate, segments, get, flush, ghosts>>

\* write_internal: nothing frozen, return Ok.
TakeNothing(p) ==
    /\ pc[p] = "taking"
    /\ immutable_buf = EmptyTable
    /\ pc' = [pc EXCEPT ![p] = "clearing"]
    /\ reply' = NoReply
    /\ UNCHANGED <<locks, memory, segments, get, flush, ghosts>>

\* write_internal: mem::take moves the frozen buffer into a local, where no
\* reader finds it.
Take(p) ==
    /\ pc[p] = "taking"
    /\ immutable_buf # EmptyTable
    /\ flush' = [flush EXCEPT ![p].content = immutable_buf]
    /\ immutable_buf' = EmptyTable
    /\ get' = [q \in Procs |-> IF pc[q] \in {"getImm", "listing"}
                               THEN [get[q] EXCEPT !.raced = TRUE]
                               ELSE get[q]]
    /\ pc' = [pc EXCEPT ![p] = "putting"]
    /\ reply' = NoReply
    /\ UNCHANGED <<locks, buf, segments, ghosts>>

\* store.put succeeds: the segment appears as a whole, under the newest name.
StorePut(p) ==
    /\ pc[p] = "putting"
    /\ segments' = AddSegment(segments, flush[p].content)
    /\ pc' = [pc EXCEPT ![p] = "clearing"]
    /\ flush' = [flush EXCEPT ![p].content = EmptyTable]
    /\ reply' = NoReply
    /\ UNCHANGED <<locks, memory, get, ghosts>>

\* The guard of flush_gate is dropped.
ReturnFlush(p, ok) ==
    /\ reply' = FlushReply(ok, flush[p].due)
    /\ flush_gate' = None
    /\ pc' = [pc EXCEPT ![p] = "idle"]
    /\ flush' = [flush EXCEPT ![p] = NoFlush]

\* immutable_buf.clear and Ok.
FlushClear(p) ==
    /\ pc[p] = "clearing"
    /\ immutable_buf' = EmptyTable
    /\ ReturnFlush(p, TRUE)
    /\ UNCHANGED <<bufWriter, buf, segments, get, ghosts>>

-----------------------------------------------------------------------------
(* Faults of the object store and of the caller *)

\* store.put returns an error, or the caller drops the future of a flush that
\* waits for it; the segment may or may not be there.
PutFails(p, landed) ==
    /\ pc[p] = "putting"
    /\ segments' = IF landed THEN AddSegment(segments, flush[p].content) ELSE segments
    /\ failed' = failed \cup IdsIn(flush[p].content)
    /\ ReturnFlush(p, FALSE)
    /\ UNCHANGED <<bufWriter, memory, get, writes, last, faulty>>

\* The caller drops the future of a flush that waits for a lock.
DropFlush(p) ==
    /\ pc[p] \in Flushing \ {"putting"}
    /\ bufWriter' = IF bufWriter = p THEN None ELSE bufWriter
    /\ ReturnFlush(p, FALSE)
    /\ UNCHANGED <<memory, segments, get, ghosts>>

\* list or a read returns an error, or the caller drops the future of a get.
GetFails(p) ==
    /\ pc[p] \in {"getImm", "listing"}
    /\ pc' = [pc EXCEPT ![p] = "idle"]
    /\ get' = [get EXCEPT ![p] = NoGet]
    /\ reply' = NoReply
    /\ UNCHANGED <<locks, memory, segments, flush, ghosts>>

-----------------------------------------------------------------------------
Step(p) ==
    \/ \E k \in Keys : Put(p, k) \/ Delete(p, k)
    \/ \E k \in Keys : GetBufHit(p, k) \/ GetBufMiss(p, k) \/ GetRemote(p, k)
    \/ GetImmHit(p) \/ GetImmMiss(p) \/ GetListed(p)
    \/ FlushGate(p)
    \/ FreezeLock(p) \/ FreezeSwap(p)
    \/ TakeNothing(p) \/ Take(p) \/ StorePut(p)
    \/ FlushClear(p)

Fault(p) ==
    /\ faulty
    /\ \/ \E landed \in BOOLEAN : PutFails(p, landed)
       \/ DropFlush(p)
       \/ GetFails(p)

Next == \E p \in Procs : Step(p) \/ Fault(p)

Spec == Init /\ [][Next]_vars

\* The runtime polls every task that can run, and tokio's locks are fair: a
\* task that waits for one gets it.  Some caller that is again and again free to
\* call flush calls it, as the fair action Flush of embedded_kvstore.fizz does;
\* nobody has to put or get.
Fairness ==
    /\ SF_vars(\E p \in Procs : FlushGate(p))
    /\ \A p \in Procs :
          /\ WF_vars(GetImmHit(p)) /\ WF_vars(GetImmMiss(p)) /\ WF_vars(GetListed(p))
          /\ WF_vars(FreezeLock(p)) /\ WF_vars(FreezeSwap(p))
          /\ WF_vars(TakeNothing(p)) /\ WF_vars(Take(p))
          /\ WF_vars(StorePut(p)) /\ WF_vars(FlushClear(p))

FairSpec == Spec /\ Fairness

-----------------------------------------------------------------------------
(* Properties *)

\* Every variable has its type (kvstore.rs:29-40 and the locals of its methods).
TypeOK ==
    /\ flush_gate \in Procs \cup {None}
    /\ bufWriter \in Procs \cup {None}
    /\ buf \in Table
    /\ immutable_buf \in Table
    /\ segments \in Seq(Table)
    /\ pc \in [Procs -> {"idle", "getImm", "listing"} \cup Flushing]
    /\ get \in [Procs -> [key : Keys \cup {None}, level : {"memory", "remote"},
                          floor : Entry, start : Entry, raced : BOOLEAN]]
    /\ flush \in [Procs -> [content : Table, due : Table]]
    /\ writes \in 0..MaxWrites
    /\ last \in Table
    /\ failed \subseteq 1..MaxWrites
    /\ faulty \in BOOLEAN

\* embedded_kvstore.fizz:86-91, DirtyRead: at every instant a memory read of any
\* key sees its latest write.  kvstore.rs:80 breaks it: see below.
DirtyReadFresh == ~faulty => MemoryView = last

\* The only write a memory read can miss is one that a flush has taken and not
\* yet put (kvstore.rs:80-91), or that went with a put that failed.
LossConfinedToWrite ==
    \A k \in Keys : MemoryView[k] # last[k] =>
        \/ \E p \in Procs : pc[p] = "putting" /\ flush[p].content[k] = last[k]
        \/ last[k].id \in failed

\* A memory or remote Get runs in several steps and holds no lock between them,
\* yet it never answers with less than was durable when it began (132-161).
GetNotBehindDurable ==
    reply.kind = "get" => reply.entry.id >= reply.floor.id

\* A memory Get that no flush raced with never misses a write that preceded it,
\* although buf, immutable_buf and the store are read one after the other, except
\* one that went with a put that failed.
MemoryGetFresh ==
    (reply.kind = "get" /\ reply.level = "memory" /\ ~reply.raced) =>
        reply.entry.id >= reply.start.id \/ reply.start.id \in failed

\* A flush that returns Ok has made durable every write accepted before it, when
\* no call fails.  With failing puts and dropped futures it may return Ok without
\* having written the buffer (did_freeze is FALSE when a dropped flush left a
\* frozen buffer behind), but it loses nothing that was not lost before.
FlushDurable ==
    (reply.kind = "flush" /\ reply.ok) =>
        \A k \in Keys :
            \/ RemoteView[k].id >= reply.due[k].id
            \/ faulty /\ (\/ Overlay(buf, RemoteView)[k].id >= reply.due[k].id
                         \/ reply.due[k].id \in failed)

\* What is durable is never replaced by something older, whichever flushes fail
\* or are dropped half-way (52-94).
DurableNeverRegresses ==
    [][\A k \in Keys : RemoteView'[k].id >= RemoteView[k].id]_vars

\* What a remote reader, or a restart, finds keeps the promise of DurableStore:
\* it is always a whole past state of the store.  (When calls fail, only
\* DurableNeverRegresses is left of it.)  latest is the ghost last and
\* not the memory view, because of DirtyReadFresh.
Store == INSTANCE DurableStore WITH
            latest <- last,
            frozen <- IF InFlight
                      THEN LET p == CHOOSE q \in Procs : pc[q] = "putting"
                           IN  Overlay(flush[p].content, RemoteView)
                      ELSE Overlay(immutable_buf, RemoteView),
            durable <- RemoteView
ImplementsStore == Store!StoreInit /\ [][~faulty => Store!StoreNext]_(Store!storeVars)

\* embedded_kvstore.fizz:93-98, DurableRead: eventually, and from then on, a
\* remote read of any key sees its latest write, if no call fails.
DurableRead == faulty \/ <>[](RemoteView = last)
=============================================================================
