------------------------------ MODULE Entries ------------------------------
(***************************************************************************)
(* The data of the embedded key-value stores.  A stored value is identified *)
(* with the write that stored it: the id of a write is its position in the *)
(* order in which writes were applied, and dead says that it was a Delete.  *)
(* The nil marker, the leading 0/1 byte of the Go blobs and the None of the *)
(* Rust segments are three encodings of dead.                               *)
(***************************************************************************)
EXTENDS Naturals, FiniteSetsExt

CONSTANT Keys

Entry == [id : Nat, dead : BOOLEAN]

\* What a table holds for a key that is not in it: no write has id 0.
NoEntry == [id |-> 0, dead |-> TRUE]

\* A buffer, a frozen buffer or a blob: at most one entry per key.
Table == [Keys -> Entry]
EmptyTable == [k \in Keys |-> NoEntry]

Has(table, k) == table[k] # NoEntry
IdsIn(table) == {table[k].id : k \in {j \in Keys : Has(table, j)}}

\* Lookup in table first and in base for the keys table lacks.
Overlay(table, base) == [k \in Keys |-> IF Has(table, k) THEN table[k] ELSE base[k]]

\* The result of the downward scan of blobs n, n-1 .. 1: the first blob that
\* has the key decides.
Holders(blobs, k, n) == {i \in 1..n : Has(blobs[i], k)}
Newest(blobs, k, n) == IF Holders(blobs, k, n) = {}
                       THEN NoEntry
                       ELSE blobs[Max(Holders(blobs, k, n))][k]

\* What a reader is told: the write whose value it gets, 0 for KEY_NOT_FOUND.
NotFound == 0
ValueOf(entry) == IF entry.dead THEN NotFound ELSE entry.id
=============================================================================
