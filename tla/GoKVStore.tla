------------------------------ MODULE GoKVStore ------------------------------
(***************************************************************************)
(* The Go store of embedded-kvstore/go/kvstore/kvstore.go: a buffer and a   *)
(* frozen buffer guarded by the mutex mu, numbered blobs in a bucket, and a *)
(* Flush that writes its blob outside mu under a mutex of its own.          *)
(*                                                                         *)
(* A step is what runs between two points at which other goroutines can     *)
(* interfere.  Put, Delete and a Get that memory answers hold mu from start *)
(* to end and are one step.  A Get that searches the bucket keeps mu while  *)
(* it reads one blob after the other, but WriteAll runs without mu, so each *)
(* blob read is a step.                                                     *)
(***************************************************************************)
EXTENDS Entries

CONSTANTS
    Procs,        \* goroutines that call the store
    None,         \* no goroutine: the owner of a free mutex
    MaxWrites     \* bound on the number of Puts and Deletes

ASSUME MaxWritesAssumption == MaxWrites \in Nat
ASSUME NoneAssumption == None \notin Procs

VARIABLES
    mu, flushMutex,   \* the owner of each mutex, or None
    buffer,           \* KVStore.buffer
    immutableBuf,     \* KVStore.immutableBuf; EmptyTable stands for nil
    flushID,          \* KVStore.flushID
    bucket,           \* the blobs by number; EmptyTable is a missing blob
    bucketOpen,       \* FALSE once Close has been called
    pc,               \* where each goroutine is
    scan,             \* the locals of a Get in its blob loop
    flush,            \* the locals of a Flush
    writes, last,     \* ghosts: number of writes, latest write of each key
    reply,            \* ghost: what the call that the last step ended returned
    failed            \* ghost: the writes in snapshots whose Flush failed

locks == <<mu, flushMutex>>
memory == <<buffer, immutableBuf>>
blobs == <<bucket, bucketOpen>>
ghosts == <<writes, last, failed>>
vars == <<locks, memory, flushID, blobs, pc, scan, flush, reply, ghosts>>

Slots == 1..MaxWrites
Levels == {"memory", "remote"}

NoReply == [kind |-> "none"]
GetReply(k, level, value, floor, skipped) ==
    [kind |-> "get", key |-> k, level |-> level, value |-> value,
     floor |-> floor, skipped |-> skipped]
FlushReply(ok, due) == [kind |-> "flush", ok |-> ok, due |-> due]

\* The locals of a goroutine that is in no loop, and in no Flush.
NoScan == [key |-> None, level |-> "remote", at |-> 0, floor |-> NotFound,
           skipped |-> FALSE]
NoFlush == [id |-> 0, map |-> EmptyTable, due |-> EmptyTable]

-----------------------------------------------------------------------------
(* What reads see *)

\* What a Get at DurabilityRemote returns when nothing interferes.
RemoteView == [k \in Keys |-> Newest(bucket, k, flushID)]

\* What a Get at DurabilityMemory returns when nothing interferes.
MemoryView == Overlay(buffer, Overlay(immutableBuf, RemoteView))

-----------------------------------------------------------------------------
(* Decisions of the code, named; each Mutant is a mistake the properties      *)
(* below are known to catch in the decision that follows it.                *)

\* Get, the tables searched before the bucket.
MutantBufferedFor(level) == IF level = "memory" THEN buffer ELSE EmptyTable
BufferedFor(level) ==
    IF level = "memory" THEN Overlay(buffer, immutableBuf) ELSE EmptyTable

\* Get, the first blob of the loop.
MutantScanFrom == IF flushID = 0 THEN 0 ELSE flushID - 1
MutantScanAhead == IF flushID < MaxWrites THEN flushID + 1 ELSE flushID
ScanFrom == flushID

\* Flush, the early return.
MutantNothingToFlush == \E k \in Keys : ~Has(buffer, k)
NothingToFlush == buffer = EmptyTable

\* Flush, the snapshot: a nil value becomes a tombstone, the blob has every key.
MutantSnapshotOf(table) == [k \in Keys |-> IF table[k].dead THEN NoEntry ELSE table[k]]
SnapshotOf(table) == table

\* Flush, the number of the next blob.
MutantReusedFlushID(id) == IF id = 0 THEN 1 ELSE id
MutantSkippedFlushID(id) == id + 2
NextFlushID(id) == id + 1

\* Flush, what readers see of the snapshot while its blob is written.
MutantNoFrozen(snapshot) == EmptyTable
MutantKeptFrozen(snapshot) ==
    IF immutableBuf = EmptyTable THEN snapshot ELSE immutableBuf
FrozenFor(snapshot) == snapshot

-----------------------------------------------------------------------------
Init ==
    /\ mu = None
    /\ flushMutex = None
    /\ buffer = EmptyTable
    /\ immutableBuf = EmptyTable
    /\ flushID = 0
    /\ bucket = [i \in Slots |-> EmptyTable]
    /\ bucketOpen = TRUE
    /\ pc = [p \in Procs |-> "idle"]
    /\ scan = [p \in Procs |-> NoScan]
    /\ flush = [p \in Procs |-> NoFlush]
    /\ writes = 0
    /\ last = EmptyTable
    /\ reply = NoReply
    /\ failed = {}

\* buffer.Set under mu, for Put (a value) and Delete (nil).
Set(p, k, dead) ==
    LET entry == [id |-> writes + 1, dead |-> dead]
    IN  /\ pc[p] = "idle"
        /\ mu = None
        /\ writes < MaxWrites
        /\ writes' = writes + 1
        /\ last' = [last EXCEPT ![k] = entry]
        /\ buffer' = [buffer EXCEPT ![k] = entry]
        /\ reply' = NoReply
        /\ UNCHANGED <<locks, immutableBuf, flushID, blobs, pc, scan, flush, failed>>

Put(p, k) == Set(p, k, FALSE)
Delete(p, k) == Set(p, k, TRUE)

-----------------------------------------------------------------------------
(* Get *)

\* The buffer or the frozen buffer has the key.
GetFromMemory(p, k, level) ==
    /\ pc[p] = "idle"
    /\ mu = None
    /\ Has(BufferedFor(level), k)
    /\ reply' = GetReply(k, level, ValueOf(BufferedFor(level)[k]), NotFound, FALSE)
    /\ UNCHANGED <<locks, memory, flushID, blobs, pc, scan, flush, ghosts>>

\* Neither has it, or neither is asked: the loop over the blobs starts.
GetFromBucket(p, k, level) ==
    /\ pc[p] = "idle"
    /\ mu = None
    /\ ~Has(BufferedFor(level), k)
    /\ mu' = p
    /\ pc' = [pc EXCEPT ![p] = "scanning"]
    /\ scan' = [scan EXCEPT ![p] =
                   [key |-> k, level |-> level, at |-> ScanFrom,
                    floor |-> ValueOf(RemoteView[k]), skipped |-> FALSE]]
    /\ reply' = NoReply
    /\ UNCHANGED <<flushMutex, memory, flushID, blobs, flush, ghosts>>

\* Get returns value: the deferred mu.Unlock.
GetReturns(p, value) ==
    /\ reply' = GetReply(scan[p].key, scan[p].level, value, scan[p].floor,
                         scan[p].skipped)
    /\ mu' = None
    /\ pc' = [pc EXCEPT ![p] = "idle"]
    /\ scan' = [scan EXCEPT ![p] = NoScan]
    /\ UNCHANGED <<flushMutex, memory, flushID, blobs, flush, ghosts>>

\* The blob exists and has the key.
ScanHit(p) ==
    /\ pc[p] = "scanning"
    /\ scan[p].at > 0
    /\ bucketOpen
    /\ Has(bucket[scan[p].at], scan[p].key)
    /\ GetReturns(p, ValueOf(bucket[scan[p].at][scan[p].key]))

\* The blob lacks the key, or there is no such blob yet.
ScanMiss(p) ==
    /\ pc[p] = "scanning"
    /\ scan[p].at > 0
    /\ bucketOpen
    /\ ~Has(bucket[scan[p].at], scan[p].key)
    /\ scan' = [scan EXCEPT ![p].at = @ - 1]
    /\ reply' = NoReply
    /\ UNCHANGED <<locks, memory, flushID, blobs, pc, flush, ghosts>>

\* No blob is left.
ScanEnd(p) ==
    /\ pc[p] = "scanning"
    /\ scan[p].at = 0
    /\ GetReturns(p, NotFound)

-----------------------------------------------------------------------------
(* Flush *)

\* flushMutex.Lock; due is what the caller may expect to be durable after.
FlushBegin(p) ==
    /\ pc[p] = "idle"
    /\ flushMutex = None
    /\ flushMutex' = p
    /\ pc' = [pc EXCEPT ![p] = "flushing"]
    /\ flush' = [flush EXCEPT ![p].due = last]
    /\ reply' = NoReply
    /\ UNCHANGED <<mu, memory, flushID, blobs, scan, ghosts>>

\* Flush returns: the deferred flushMutex.Unlock.
FlushReturns(p, ok) ==
    /\ reply' = FlushReply(ok, flush[p].due)
    /\ flushMutex' = None
    /\ pc' = [pc EXCEPT ![p] = "idle"]
    /\ flush' = [flush EXCEPT ![p] = NoFlush]

FlushEmpty(p) ==
    /\ pc[p] = "flushing"
    /\ mu = None
    /\ NothingToFlush
    /\ FlushReturns(p, TRUE)
    /\ UNCHANGED <<mu, memory, flushID, blobs, scan, ghosts>>

\* Everything between mu.Lock and mu.Unlock: the buffer moves to immutableBuf.
FlushFreeze(p) ==
    /\ pc[p] = "flushing"
    /\ mu = None
    /\ ~NothingToFlush
    /\ flushID' = NextFlushID(flushID)
    /\ immutableBuf' = FrozenFor(SnapshotOf(buffer))
    /\ buffer' = EmptyTable
    /\ flush' = [flush EXCEPT ![p] = [id |-> NextFlushID(flushID),
                                      map |-> SnapshotOf(buffer), due |-> @.due]]
    /\ pc' = [pc EXCEPT ![p] = "frozen"]
    /\ reply' = NoReply
    /\ UNCHANGED <<locks, blobs, scan, ghosts>>

\* WriteAll, without mu: the blob appears as a whole.
FlushWrite(p) ==
    /\ pc[p] = "frozen"
    /\ bucketOpen
    /\ bucket' = [bucket EXCEPT ![flush[p].id] = flush[p].map]
    /\ pc' = [pc EXCEPT ![p] = "written"]
    /\ reply' = NoReply
    /\ UNCHANGED <<locks, memory, flushID, bucketOpen, scan, flush, ghosts>>

\* immutableBuf = nil under mu, and return.
FlushClear(p) ==
    /\ pc[p] = "written"
    /\ mu = None
    /\ immutableBuf' = EmptyTable
    /\ FlushReturns(p, TRUE)
    /\ UNCHANGED <<mu, buffer, flushID, blobs, scan, ghosts>>

-----------------------------------------------------------------------------
(* Faults of the bucket and of the caller *)

\* WriteAll reports an error (I/O, a cancelled ctx, a closed bucket); the blob
\* may nevertheless have been written.  Flush returns at once.
FlushWriteFails(p, landed) ==
    /\ pc[p] = "frozen"
    /\ landed => bucketOpen
    /\ bucket' = IF landed
                 THEN [bucket EXCEPT ![flush[p].id] = flush[p].map]
                 ELSE bucket
    /\ failed' = failed \cup IdsIn(flush[p].map)
    /\ FlushReturns(p, FALSE)
    /\ UNCHANGED <<mu, memory, flushID, bucketOpen, scan, writes, last>>

\* ReadAll reports an error other than a missing blob: the loop goes on.
ScanReadFails(p) ==
    /\ pc[p] = "scanning"
    /\ scan[p].at > 0
    /\ scan' = [scan EXCEPT ![p].at = @ - 1, ![p].skipped = TRUE]
    /\ reply' = NoReply
    /\ UNCHANGED <<locks, memory, flushID, blobs, pc, flush, ghosts>>

\* Close takes no lock and waits for nobody.
Close(p) ==
    /\ pc[p] = "idle"
    /\ bucketOpen
    /\ bucketOpen' = FALSE
    /\ reply' = NoReply
    /\ UNCHANGED <<locks, memory, flushID, bucket, pc, scan, flush, ghosts>>

-----------------------------------------------------------------------------
Step(p) ==
    \/ \E k \in Keys : Put(p, k) \/ Delete(p, k)
    \/ \E k \in Keys, level \in Levels :
          GetFromMemory(p, k, level) \/ GetFromBucket(p, k, level)
    \/ ScanHit(p) \/ ScanMiss(p) \/ ScanEnd(p)
    \/ FlushBegin(p)
    \/ FlushEmpty(p) \/ FlushFreeze(p)
    \/ FlushWrite(p) \/ FlushClear(p)

Fault(p) ==
    \/ \E landed \in BOOLEAN : FlushWriteFails(p, landed)
    \/ ScanReadFails(p)
    \/ Close(p)

Next == \E p \in Procs : Step(p)
FaultyNext == \E p \in Procs : Step(p) \/ Fault(p)

\* A bucket that serves every request, and one that may fail any of them.
Spec == Init /\ [][Next]_vars
FaultySpec == Init /\ [][FaultyNext]_vars

\* The scheduler runs every goroutine that can run, and a goroutine that waits
\* for mu gets it although others keep taking it (sync.Mutex hands over to a
\* waiter after one millisecond).  The callers keep calling Flush, as the fair
\* action Flush of embedded_kvstore.fizz does; nobody has to Put or Get.
Fairness ==
    /\ WF_vars(\E p \in Procs : FlushBegin(p))
    /\ \A p \in Procs :
          /\ WF_vars(ScanHit(p)) /\ WF_vars(ScanMiss(p)) /\ WF_vars(ScanEnd(p))
          /\ SF_vars(FlushEmpty(p)) /\ SF_vars(FlushFreeze(p))
          /\ WF_vars(FlushWrite(p)) /\ SF_vars(FlushClear(p))

FairSpec == Spec /\ Fairness

-----------------------------------------------------------------------------
(* Properties *)

\* Every variable has its type (kvstore.go:31-43 and the locals of Get, Flush).
TypeOK ==
    /\ mu \in Procs \cup {None}
    /\ flushMutex \in Procs \cup {None}
    /\ buffer \in Table
    /\ immutableBuf \in Table
    /\ flushID \in 0..MaxWrites
    /\ bucket \in [Slots -> Table]
    /\ bucketOpen \in BOOLEAN
    /\ pc \in [Procs -> {"idle", "scanning", "flushing", "frozen", "written"}]
    /\ scan \in [Procs -> [key : Keys \cup {None}, level : Levels, at : 0..MaxWrites,
                           floor : Nat, skipped : BOOLEAN]]
    /\ flush \in [Procs -> [id : 0..MaxWrites, map : Table, due : Table]]
    /\ writes \in 0..MaxWrites
    /\ last \in Table
    /\ failed \subseteq 1..MaxWrites

\* embedded_kvstore.fizz:86-91, DirtyRead: at every instant a memory read of any
\* key sees its latest write, also while that write is between the buffer, the
\* frozen buffer and a blob that has or has not landed (kvstore.go:85-132).
DirtyReadFresh == MemoryView = last

\* A Get of the given view: a memory read answers with what the view holds, a
\* remote read with what was durable when it started or when it answered.
AnswersFrom(view) ==
    reply.kind = "get" =>
        reply.value \in IF reply.level = "memory"
                        THEN {ValueOf(view[reply.key])}
                        ELSE {reply.floor, ValueOf(RemoteView[reply.key])}

\* Get takes several steps in which a Flush may land its blob behind or ahead
\* of the scan, and yet every Get answers as if it had run at one instant.
GetLinearizable == AnswersFrom(last)

\* With a bucket that fails reads and writes this still holds of the Gets that
\* skipped no blob they could not read, of whatever memory still holds.
GetLinearizableUnlessSkipped ==
    ~(reply.kind = "get" /\ reply.skipped) => AnswersFrom(MemoryView)

\* A Flush that returns nil has made durable every write that was accepted
\* before it was called, whatever was put meanwhile and whoever froze it.
FlushDurable ==
    (reply.kind = "flush" /\ reply.ok) =>
        \A k \in Keys : RemoteView[k].id >= reply.due[k].id

\* With failing writes: except for writes in a snapshot whose Flush failed.
FlushDurableUnlessFailed ==
    (reply.kind = "flush" /\ reply.ok) =>
        \A k \in Keys : \/ RemoteView[k].id >= reply.due[k].id
                        \/ reply.due[k].id \in failed

\* What is durable is never replaced by something older, also when a blob of a
\* failed Flush lands (the numbering of kvstore.go:165-166 and 179).
DurableNeverRegresses ==
    [][\A k \in Keys : RemoteView'[k].id >= RemoteView[k].id]_vars

\* A memory read is never behind a remote read of the same key, in spite of
\* failed writes and of frozen buffers that outlive their Flush (181-183).
MemoryNotBehindRemote ==
    \A k \in Keys : MemoryView[k].id >= RemoteView[k].id

\* A failed write may lose data, but only the data of that snapshot: a write
\* that no memory read can see any more was in it (181-183 and 164-171).
LossConfinedToFailedFlush ==
    \A k \in Keys : MemoryView[k] # last[k] => last[k].id \in failed

\* What is durable is a prefix of the history of writes: no write is durable
\* while an earlier one that still counts is not, whatever Flush is under way
\* (kvstore.go:154-180, one snapshot of the whole buffer per blob).
DurablePrefix ==
    \A j, k \in Keys : last[j].id <= RemoteView[k].id => RemoteView[j] = last[j]

\* The store keeps the promise of DurableStore: memory reads see latest, the
\* frozen buffer over the blobs is frozen, the blobs are durable.
Store == INSTANCE DurableStore WITH
            latest <- MemoryView,
            frozen <- Overlay(immutableBuf, RemoteView),
            durable <- RemoteView
ImplementsStore == Store!StoreSpec

\* embedded_kvstore.fizz:93-98, DurableRead: eventually, and from then on, a
\* remote read of any key sees its latest write.
DurableRead == <>[](RemoteView = last)
=============================================================================
