-------------------------- MODULE GoKVStoreReopen --------------------------
(***************************************************************************)
(* The lives of a Go store: it stops at any moment, and NewKVStore opens    *)
(* another one on the same bucket (kvstore.go:45-59).  The new store starts  *)
(* with flushID 0 and ignores the blobs it finds, but numbers its own blobs  *)
(* from 1 again: between the moment a Flush draws a number and the moment    *)
(* it overwrites the blob of that number, readers find the old blob.        *)
(*                                                                         *)
(* Numbers of writes go on from life to life; last, and due in a Flush,      *)
(* count the writes of the present life only.                               *)
(***************************************************************************)
EXTENDS GoKVStore

CONSTANT MaxLives   \* bound on the number of stores opened on the bucket

ASSUME MaxLivesAssumption == MaxLives \in Nat

VARIABLES
    life,       \* the number of stores opened so far
    base        \* ghost: the writes of earlier lives are 1..base

lifeVars == <<life, base>>

LivesInit == Init /\ life = 1 /\ base = 0

\* NewKVStoreFromBucket: a store without memory, on the blobs that have landed.
Reopen ==
    /\ life < MaxLives
    /\ life' = life + 1
    /\ base' = writes
    /\ mu' = None /\ flushMutex' = None
    /\ buffer' = EmptyTable /\ immutableBuf' = EmptyTable
    /\ flushID' = 0
    /\ bucketOpen' = TRUE
    /\ pc' = [p \in Procs |-> "idle"]
    /\ scan' = [p \in Procs |-> NoScan]
    /\ flush' = [p \in Procs |-> NoFlush]
    /\ last' = EmptyTable
    /\ failed' = {}
    /\ reply' = NoReply
    /\ UNCHANGED <<bucket, writes>>

LivesNext == (FaultyNext /\ UNCHANGED lifeVars) \/ Reopen

LivesSpec == LivesInit /\ [][LivesNext]_<<vars, lifeVars>>

-----------------------------------------------------------------------------
(* Properties *)

\* The blobs that this store has written: a Flush has drawn the last number
\* before it overwrites the blob of that number.
OwnTop == IF \E p \in Procs : pc[p] = "frozen" THEN flushID - 1 ELSE flushID
OwnView == [k \in Keys |-> Newest(bucket, k, OwnTop)]

\* Nothing of this store is lost while no Flush of it has failed, whatever blobs
\* it finds: where no Flush has drawn a number without having written its blob,
\* memory reads see the latest writes of this store and nothing older.
LatestIsOwn ==
    (failed = {} /\ OwnTop = flushID) => MemoryView = last

\* What an earlier store wrote comes back only through a number that a Flush of
\* this one has drawn and whose blob it has not written, because it has not come
\* to it yet or has failed (kvstore.go:115-131, 165-180).  It may hide from a
\* memory read what this store has written, but only what is in its older blobs.
AnswersAreOwn ==
    (reply.kind = "get" /\ reply.value \in 1..base) =>
        \/ failed # {}
        \/ /\ OwnTop < flushID
           /\ reply.level = "memory" => OwnView[reply.key] = last[reply.key]

\* The lives of a bucket are kept apart as far as its readers can tell.
LivesApart == LatestIsOwn /\ AnswersAreOwn

\* Within a life what this store has made durable is never replaced by something
\* older of its own, nor lost: only the step in which a Flush draws the next
\* number may put something in front of it, which an earlier store left there.
DurableWithinLife ==
    [][life' = life =>
          \A k \in Keys : RemoteView[k].id > base =>
              \/ RemoteView'[k].id >= RemoteView[k].id
              \/ flushID' = flushID + 1 /\ RemoteView'[k].id \in 1..base]_vars
=============================================================================
