---------------------------- MODULE DurableStore ----------------------------
(***************************************************************************)
(* What an embedded key-value store promises, without locks, buffers or     *)
(* blobs: the latest write of every key is visible to a memory read, and    *)
(* what a remote read sees is always one whole past state of the store,     *)
(* moved forward in two steps, Freeze and Persist, one Freeze at a time.    *)
(* It is the state machine of embedded_kvstore.fizz with its dictionaries    *)
(* replaced by what a read of them returns.                                 *)
(***************************************************************************)
EXTENDS Entries

CONSTANT MaxWrites    \* bound on the number of Puts and Deletes

VARIABLES
    latest,     \* what a memory read returns: the fizz ghost _last_put
    frozen,     \* the state the flush under way is making durable
    durable,    \* what a remote read returns
    writes      \* number of writes so far

storeVars == <<latest, frozen, durable, writes>>

StoreTypeOK ==
    /\ latest \in Table
    /\ frozen \in Table
    /\ durable \in Table
    /\ writes \in Nat

StoreInit ==
    /\ latest = EmptyTable
    /\ frozen = EmptyTable
    /\ durable = EmptyTable
    /\ writes = 0

-----------------------------------------------------------------------------
\* Put (dead = FALSE) and Delete (dead = TRUE).
Write(k, dead) ==
    /\ writes < MaxWrites
    /\ writes' = writes + 1
    /\ latest' = [latest EXCEPT ![k] = [id |-> writes + 1, dead |-> dead]]
    /\ UNCHANGED <<frozen, durable>>

\* freeze(): nothing is frozen while an earlier frozen state is not durable.
Freeze ==
    /\ frozen = durable
    /\ frozen' = latest
    /\ UNCHANGED <<latest, durable, writes>>

\* write(): the frozen state becomes durable as a whole.
Persist ==
    /\ durable' = frozen
    /\ UNCHANGED <<latest, frozen, writes>>

StoreNext ==
    \/ \E k \in Keys, dead \in BOOLEAN : Write(k, dead)
    \/ Freeze
    \/ Persist

StoreSpec == StoreInit /\ [][StoreNext]_storeVars

\* What is durable is the effect of a prefix of the writes: when some write is
\* durable, so is every write before it that has not been overwritten.
Prefix == \A j, k \in Keys : latest[j].id <= durable[k].id => durable[j] = latest[j]
=============================================================================
