# Formal models of the FizzBee model-based-testing examples

This directory holds TLA+ models of the programs in this repository, the TLC
configurations that check them and the TLAPS proofs about them. The repository is a
collection of small programs ("systems under test"), each with an executable
specification (`*.fizz`) and test adapters that map the actions of the specification to
calls of the program. The models are of the *programs*; the `.fizz` files appear as
abstract specifications that the programs are shown to implement, or as the statements
they are shown to violate.

Paths below are relative to `src/examples/`.

## 1. Inventory

### 1.1 Embedded key-value store, Go (`embedded-kvstore/go/kvstore/kvstore.go`)

* **State**: `buffer` and `immutableBuf` (skip lists), `flushID`, the bucket of blobs
  `data/NNNN.json`, the mutexes `mu` and `flushMutex`.
* **Operations**: `Put`, `Delete` (under `mu`); `Get` at two durability levels (buffer,
  frozen buffer, then the blobs from the newest down, all under `mu`); `Flush` (under
  `flushMutex`: freeze under `mu`, write the blob *without* `mu`, clear under `mu`);
  `Close` (no lock). A store may be opened on a bucket that an earlier one has left: it ignores
  the blobs it finds and numbers its own from 1 again.
* **Interaction**: goroutines share the store; the bucket may fail any request, and a
  failed write may have landed.
* **Hard**: a Flush lands its blob while a Get scans; data in transit between three
  places; what a failed write leaves behind; a Flush that finds nothing to do while
  another one is still writing; liveness through two mutexes.
* **Correct when**: memory reads see the latest write; Gets answer as of one instant; a
  Flush that returns nil has made everything before it durable; what is durable is a
  prefix of the writes and never goes back; everything becomes durable eventually.

### 1.2 Embedded key-value store, Rust (`embedded-kvstore/rust/src/kvstore.rs`)

* **State**: `buf` (`RwLock`), `immutable_buf` (`Mutex`), `flush_gate` (`Mutex`), an
  object store of segments named by increasing ULIDs.
* **Operations**: `put`, `delete`, `get` at two levels, `flush` = gate, `freeze_internal`,
  `write_internal`, clear.
* **Hard**: every `await` is a point at which other tasks run and at which the future may
  be dropped; `get` holds no lock from one place to the next; `write_internal` empties
  `immutable_buf` *before* it stores the segment; `freeze_internal` waits for one lock
  while it holds another.
* **Correct when**: as for Go, with what the `mem::take` costs stated exactly.

### 1.3 Key-value store specification (`embedded-kvstore/fizz/embedded_kvstore.fizz`)

`Put`, views at two levels, `freeze` and `write` as separate steps, a fair `Flush`, and the
assertions `DirtyRead` (always) and `DurableRead` (eventually always). The Go and Rust
adapters (`go/fizztests/embedded_kvstore_adapters.go`, `rust/src/fizztests/kvstore/adapters.rs`)
map `NOT_FOUND` to a delete and the two views to the two durability levels.

### 1.4 Counters (`fizzbee-mbt-quickstart/`)

* **Specification** `specs/simple-counter/counter.fizz`: `Inc` and `Dec` that do nothing at
  the bounds 0 and MAX; always `WithinRange`.
* **In memory**, Go (`mem_counter.go`, mutex), TypeScript (`mem_counter.ts`, no await
  inside a method), Java (`MemCounter.java`, `synchronized`): one step per call; what is
  left to get wrong is arithmetic at the ends of the integer range.
* **Rust** (`counter.rs`): `BadMemCounter` (check, then `fetch_add`) and
  `GoodMemCounter` (`fetch_update`, that is compare-exchange in a loop). Hard: overlap of
  two calls between two atomic operations, retries.
* **PostgreSQL**, Go (`pg_counter.go`), Java (`PgCounter.java`), TypeScript
  (`pg_counter.ts`): one row per counter, every method one SQL statement. Their test
  adapters create the counter in `init` and delete it in `cleanup`; Go and Java take a new
  name per run, the TypeScript adapter always `test-counter`, and so does the demonstration
  `main.ts`, with another limit. Hard: runs that crash between the two, statements of
  a crashed run that the server executes later, `ON CONFLICT DO NOTHING`, which keeps the limit of
  whoever came first.

### 1.5 Buffered writer (`buffered-writer/go/writer.go`)

* **State**: the slices `flushed` and `buffered`, each a pointer to an array and a length; `mu`.
* **Operations**: `Append`, `Flush` and `GetLength` under `mu`; `State` *without* it.
* **Hard**: a reader of `State` between the stores of a `Flush` or an `Append`, which may even combine an old
  array with a new length, so that reading the slice faults; `buffered[:0]` keeps
  the array that `State` handed out, and the next Appends write into it.
* **Correct when**: the methods that lock are the Append and Flush of `buffered_writer.fizz`; `State`
  forgets no item that was appended before it was called; a slice it returned reaches beyond its array only if
  that slice was moved to a larger array meanwhile, and otherwise its flushed items stay as they are.

### 1.6 Todo application adapters (`todo-app/typescript`, `todo-app/java`)

* **State**: the role and its browser page, the dialog handlers registered on the page; the
  database, which the adapter empties directly. The system under test, a web server and its page,
  is not in this repository.
* **Operations**: `init` (the first one empties the database and logs in, later ones open a page),
  `cleanup`, `cleanupAll`, and one action per action of `spec/todo.fizz`: look for the card and its button, read
  `#todoUpdateCounter`, click, wait for another counter; a pin first waits for the response.
* **Hard**: the wait is for *some* redraw; a redraw or a request may be on its way when an
  action begins, a run ends, or the next one starts; `safeRun` swallows a time-out; a
  dialog handler whose click failed stays registered; a role whose first `init` failed is kept, and later
  runs use it as it is, logged in or not; a `cleanup` that throws leaves its todos to the next run, or none and ids that
  go on (`clearTodos` has two statements).
* **Correct when**: an action that has returned has taken effect and is on the page, reads answer as
  the specification does, and no action waits for what does not come.

### 1.7 TodoMVC adapters (`todomvc/`)

* **State**: the page of a run; the browser context, whose `localStorage` outlives the page; the
  TodoMVC page itself is a public web site and not in this repository.
* **Operations**: `init` (a new page), `cleanup` (clear the storage, close the page), `cleanupAll`; one
  action per action of `spec/todomvc.fizz`, which names an item by its index in the filtered list; `getState`,
  which reads the view from the DOM; `afterAction`, which waits until the DOM has been quiet for a millisecond.
* **Hard**: the index means the list that is drawn, under the filter of the moment; the page draws
  after the action; pages fail to open or are lost, and the storage is then not cleared; an edit takes two
  steps, and neither of its waits is caught.
* **Correct when**: what is read after every action is the view of the specification, the page holds the todos of its
  model, hidden ones included, and every action comes to its end.

### 1.8 The rest

Scaffolds generated by the `fizzbee-mbt` generator (interfaces, test mains) and
demonstration programs (`App.java`, the in-memory part of `main.ts`) have no logic of their own and are not
modelled.

## 2. Modules

| Module | Models | State and actions |
|---|---|---|
| `Entries` | entries, buffers, blobs of both stores | operators only: `Overlay`, `Newest`, `ValueOf` |
| `DurableStore` | `embedded_kvstore.fizz` as an abstract store | `latest`, `frozen`, `durable`; `Write`, `Freeze`, `Persist` |
| `GoKVStore` | the Go store | the fields of `KVStore`, the owner of each mutex, the locals of a Get and a Flush; one action per stretch of code between two points of interference |
| `GoKVStoreReopen` | the lives of Go stores on one bucket | the state of `GoKVStore`, the number of lives; `Reopen`, and every action of `GoKVStore`, faults included |
| `GoKVStoreInv`, `GoKVStoreReopenInv`, `RustKVStoreInv`, `PgCounterInv`, `BufferedWriterInv`, `TodoAdapterInv`, `TodoMvcInv` | - | the inductive invariant of each, in named parts |
| `RustKVStore` | the Rust store | the fields of `EmbeddedKvStore`, the locals of get and flush; one action per stretch between two awaits. `faulty` chooses at the start whether calls may fail |
| `BoundedCounter` | `counter.fizz` | `value`, `limit`; `Inc`, `Dec` |
| `MemCounter` | Go, TypeScript, Java in-memory counters | `style` selects "compare, then step" or "step, then clamp"; integers up to `MaxInt` |
| `RustCounter` | what the two Rust counters share | the atomic `value`, the place of each thread |
| `RacyCounter` | `BadMemCounter` | check and add are separate steps |
| `CasCounter` | `GoodMemCounter` | load, compare-exchange, failed exchange, give up |
| `PgCounter` | PostgreSQL counters in the sessions of their adapters and of `main.ts` | the table, the statements a session's setup still waits for, a sent statement per caller; `fixedName` selects TypeScript, or Go and Java; `program` selects adapter or demonstration |
| `BufferedWriterSpec` | `buffered_writer.fizz` | `flushed`, `buffered`; `AppendItem`, `FlushItems` |
| `BufferedWriter` | the buffered writer | the arrays, the words of the two slices, the mutex; one action per word stored or read |
| `TodoMvcSpec` | `todomvc.fizz` | the todos and the view; one action per user action |
| `TodoMvc` | the TodoMVC adapters with an external page | the storage, the page, what it has drawn, the action under way, the state last read; `TodoMvcSpec`'s variables are ghosts: the runner's model |
| `TodoAdapter` | the todo adapters with an external page and server | the server's todos, the requests and redraws on their way, the page and its counter, the action under way; one action per wait |
| `MCGoKVStore`, `MCGoKVStoreReopen`, `MCRustKVStore`, `MCPgCounter`, `MCBufferedWriter` | - | symmetry for TLC |
| `EntriesProofs`, `GoKVStoreProofs`, `RustKVStoreProofs`, `CounterProofs`, `PgCounterProofs`, `BufferedWriterProofs`, `TodoAdapterProofs`, `TodoMvcProofs` | - | theorems; `GoKVStoreProofs` has also those of `GoKVStoreReopen` and `DurableStore`, `CounterProofs` those of `CasCounter`, `RacyCounter` and `MemCounter` |

```
Entries <- DurableStore          (refined by GoKVStore and RustKVStore)
        <- GoKVStore <- GoKVStoreInv <- MCGoKVStore
                     <- GoKVStoreReopen (with GoKVStoreInv) <- GoKVStoreReopenInv <- MCGoKVStoreReopen
                                                                                  <- GoKVStoreProofs  (with EntriesProofs)
        <- RustKVStore <- RustKVStoreInv <- MCRustKVStore
                                         <- RustKVStoreProofs  (with EntriesProofs)
BoundedCounter                   (refined by MemCounter and CasCounter; the yardstick of PgCounter)
RustCounter <- CasCounter  <- CounterProofs      (with an instance of MemCounter)
            <- RacyCounter <- CounterProofs
PgCounter <- PgCounterInv <- MCPgCounter
                          <- PgCounterProofs
BufferedWriterSpec               (refined by BufferedWriter)
BufferedWriter <- BufferedWriterInv <- MCBufferedWriter
                                    <- BufferedWriterProofs
TodoMvcSpec <- TodoMvc           (the runner steps through the one and calls the other)
               TodoMvc <- TodoMvcInv <- TodoMvcProofs
TodoAdapter <- TodoAdapterInv <- TodoAdapterProofs   (the ghost `model` is todo.fizz)
```

### How the stores are abstracted

A value is identified with the write that stored it: an entry is `[id, dead]`, where `id`
counts the accepted writes and `dead` marks a delete. Every question the properties ask
("is it the latest?", "is it older?", "was it accepted before the Flush began?") is a
comparison of ids. JSON, the leading 0/1 byte and file names are left out. A missing
blob and an empty map read alike, so both are `EmptyTable`; the code never writes an empty blob.

Atomicity in `GoKVStore`: a section under `mu` is one step; the blob loop of Get is one step
per blob, because `WriteAll` runs without `mu`. `WriteAll` makes the blob appear whole, which
is what the `blob` library documents. In `RustKVStore` a step runs from one await to the next one that
may have to wait. A segment is put whole. That ULIDs increase and that the store lists by name is assumed
(external to the code): `AddSegment` appends. A Get that has its list is decided by it, because
segments are immutable, so the reads are part of that step.

In `BufferedWriter` a slice is what it is in Go, a pointer to an array and a length, because what could go
wrong is that two slices share an array. Stores and loads happen in program order, as on x86: `append` of an
item is compiled to the store of a new array, then the length, then the item, so that `State` may show a slot
that is not written yet; for the append in `Flush` the two words may be stored in either order. `State` may therefore return a slice that
is longer than its array (`Torn`): what such a slice shows is not in the model, which speaks of the items of a slice only where it is not torn (`Shown`), or of
the items within its array (`Within`). The Go memory model
promises less (the program has a data race); other orders are outside the model.

In `TodoMvc` the page changes its todos and its storage with a click and draws them later, in one piece. `getState` is
one step: it reads a DOM that only a page that draws too late could change meanwhile, and such a run is excepted anyway.
The adapter's actions begin with a step of `TodoMvcSpec`, which the runner takes first; the runner goes on as long as the
state that was read agrees with the specification, by luck or not.

The *decisions* of the code (what is frozen, which number comes next, when there is
nothing to flush) are operators of their own. Before several of them stands a
`Mutant...` operator: a plausible mistake in the same place, which the named
run is known to catch.

### Ghost variables

`writes`, `last` (the history), `reply` (what the call ended by the last step returned),
`failed` (writes in snapshots whose write failed), in `PgCounter` `crashed`, `expected`,
`stray`, in `BufferedWriter` `seen`, `moved` (the slices that were being moved to a larger array during a State call), `appended`, `done`, in `GoKVStoreReopen` `base`. In `TodoAdapter` they are `model`, the todos as the specification has them after the actions that
returned, `disturbed` and `reply`; the runner, which is external, chooses its actions by `model`; in `TodoMvc` they are the variables of `TodoMvcSpec`, which the runner reads, and `disturbed`. No guard
of a program step reads a ghost, except `writes < MaxWrites`, the bound.

## 3. Runs

| Run | Configuration | What it shows |
|---|---|---|
| `go_store` | `GoKVStore.cfg`: 2 goroutines, 2 keys, 3 writes, a bucket that works, `FairSpec` | `DirtyReadFresh`, `GetLinearizable`, `FlushDurable`; the store implements `DurableStore`; `DurableRead` |
| `go_store_faults` | `GoKVStoreFaults.cfg`: 3 goroutines, 2 keys, 3 writes, writes and reads that fail, `Close` at any time | `IInv`, `DurableNeverRegresses`, and what is left of each property when the bucket fails |
| `go_store_reopen` | `GoKVStoreReopen.cfg`: 2 goroutines, 2 keys, 3 lives, 2 writes in each and 5 in all, faults | `LivesApart`: what an earlier store wrote comes into sight only through a number that a Flush has drawn and whose blob it has not overwritten; otherwise memory reads see the latest writes of the present store (`LatestIsOwn`) and Gets answer with its writes (`AnswersAreOwn`), unless a Flush has failed. `DurableWithinLife`: nothing it has made durable is lost, or replaced by something older of its own |
| `go_dirty_read_finding` | faults | after a failed Flush the next one discards the frozen buffer: `DirtyReadFresh` is violated |
| `rust_store` | `RustKVStore.cfg`: 2 tasks, 2 keys, 3 writes (2 with faults: failing puts and reads, dropped futures), `FairSpec` | `IInv`, `LossConfinedToWrite`, `GetNotBehindDurable`, `MemoryGetFresh`, `FlushDurable`, `DurableNeverRegresses`; without faults the refinement and `DurableRead` |
| `rust_dirty_read_finding` | no faults | during a put, memory reads miss the frozen data: `DirtyReadFresh` is violated |
| `racy_counter` | 4 threads, limit 3 | `BadMemCounter` leaves its range by less than the number of threads |
| `cas_counter` | 3 threads, limit 3, 6 calls | no lost update, no unjustified refusal, refinement, every call returns |
| `pg_counter` | 3 sessions of 2 callers, limits 2 and 1, crashes anywhere | `IInv`, `OwnCount`, `Cleaned` |
| `todo_adapter` | 3 runs, 4 actions, 2 todos, 2 values, `FairSpec` | `IInv`, `Conforms`, `AnswersConform`, `NoWaitInVain` |
| `todo_mvc` | 2 titles, 3 todos in a run, 1 lost page, any number of runs and actions, `FairSpec` | `IInv`, `Conforms`, `ActionsReturn` |
| `buffered_writer` | 2 goroutines, 4 Appends | `IInv`, `NothingForgotten`, `SnapshotSound` (when a slice that State returns is torn, `TornOnlyByMove`, and that its flushed items never change otherwise, `FlushedStable`), the writer implements `buffered_writer.fizz` |

`MemCounter` has no run: its refinement is proved (section 5).

### Bounds

`MaxWrites` bounds the number of Puts and Deletes and thereby the number of non-empty
Flushes. Three writes give an overwritten key, a deleted key, and three blobs, so that a scan
has a blob before it and one behind it; three goroutines (`go_store_faults`) give a Flush
that writes, a Get that scans and a Put at the same time. What the runs of the stores, the counters, the buffered writer and the adapters of both todo
applications check of safety is proved for every bound (section 5). Two Rust tasks suffice for a get or put against a flush, and for two
flushes at the gate. In `CasCounter`, `MaxCalls` bounds the calls: six calls let an exchange be tried with
a value that is several updates old. `RustKVStore` has two bounds: `MaxWrites` when no call fails,
and `MaxFaultyWrites` when calls may. Two writes are enough for a lost one and a later one that hides it; the third
would only add a third segment, at the price of a far longer run.
`GoKVStoreReopen`: each life may have two writes (`MaxWritesPerLife`, by the constraint `LifeBound`; five in all) and so two blobs. Two in each of two lives are
needed for an old blob 2 that hides a new blob 1 while the new blob 2 is being written; a third life finds blobs of two earlier ones. `LivesInv` is proved,
and was checked by TLC on 3 lives of 2 writes and on 2 lives of 3 writes; the run checks its last conjunct as a part of `LivesApart`. `PgCounter` needs three sessions for a crashed one, the one that inherits
its row, and a third after that; the two limits are the smallest that differ and leave room for an update.
`TodoAdapter` has four actions: a rejected pin takes a create, a pin that times out, an
unpin that finds no button and a second pin; three runs let a request outlive its run, and a run start after the run that a failed `cleanup` spoilt, or a first init fail and its role go on; `MaxTodos` is 2 where `todo.fizz` has 3, enough for a pinned todo beside another one.
`TodoMvc` has the specification's three items and two of its three titles: an edit needs another one. One lost page
gives the run that inherits its todos and the one after that. `BufferedWriter`: capacities double, so four
Appends grow an array twice and let a Flush fit into the room it has. A goroutine is one reader or writer at a time: two give every
race of `State` with one writer, and writers exclude each other. Procs, Keys and Callers are symmetric where no liveness is checked.

`CHECK_DEADLOCK FALSE` appears in five configurations: the calls of `CasCounter` and the writes and lives of `GoKVStoreReopen`
(whose bucket may be closed) are bounded, the sessions of `PgCounter` end, and `cleanupAll` ends `TodoAdapter` and `TodoMvc`; so all five really stop.

### Fairness

* **Go** (`FairSpec`): weak fairness for steps that only need the processor; strong
  fairness for steps that take `mu` in a Flush: `sync.Mutex` hands over to a waiter that has
  waited a millisecond, so it is not starved by goroutines that keep taking it. `FlushBegin` by some
  goroutine is weakly fair: `embedded_kvstore.fizz` declares Flush a fair action.
  Nothing forces a Put or a Get. `DurableRead` needs the writes to end, as
  `MaxWrites` makes them.
* **Rust**: weak fairness of each task's steps (the runtime polls what can run, tokio's locks are FIFO), and
  strong fairness of "some caller enters flush".
* **CasCounter**: a thread inside a call keeps running. `CallsReturn` holds because a retry
  needs another call's success, of which there are at most `MaxCalls`: with unboundedly many
  competing calls `fetch_update` is lock-free and not wait-free, and the property says no more than that.
* **TodoAdapter**: weak fairness of the adapter's next step, of the server (some request is handled) and of the
  page (a redraw that is due happens). Nothing is assumed of time-outs, runs or the runner.
* **TodoMvc**: weak fairness of the adapter's next step and of the page's drawing, again nothing else.

## 4. Disagreements between the code and what is said of it

1. **Go, a failed Flush loses data** (`go_dirty_read_finding`). `Flush` returns at
   `kvstore.go:182` and leaves the frozen data in `immutableBuf` only; the next Flush with
   a non-empty buffer replaces it (line 168). The specification's `freeze` refuses to do so
   (`embedded_kvstore.fizz:54`).
2. **Go, a Flush that persists nothing returns nil** (no run of its own; `FlushDurable` fails as soon as writes may fail,
   `FlushDurableUnlessFailed` in `go_store_faults` says what is left). After a failed Flush, with an empty
   buffer, lines 149-152 return nil while `immutableBuf` holds unwritten data. The adapter's comment
   says that Flush "should persist all in-memory data to disk".
3. **Rust, `mem::take` before `put`** (`rust_dirty_read_finding`), `kvstore.rs:80`. The
   commented line 81 (`clone`) is the version that satisfies `DirtyRead`. Without a fault
   the gap closes when the put returns, which is what `LossConfinedToWrite` states.

Noticed while reading and not given a run: the Go `Get` goes on to an older blob after *every* read error (`kvstore.go:117-120`),
where the comment speaks of missing blobs; `GetLinearizableUnlessSkipped` excepts such a Get. `writer.go:31` calls `Flush` atomic, which it is to callers that lock;
`State`, which the test adapter calls, sees it half done, misses an item when a Flush ends and an Append begins within one of its
calls (`NothingForgotten`), and may return a slice of an old array, of no items at first, with a new length, which faults when it is read (`TornOnlyByMove` says when). `todomvc/README.md:85` promises error catching, which only `getToggleAllStatus` and `getClearButtonShown` do. `pg_counter.ts:77` says
"commented out" of the code that is in use. `BadMemCounter` is racy, as its own comment says;
the Java in-memory counter wraps at `Integer.MAX_VALUE` (no adapter uses that limit); a Go store that was opened on a bucket with blobs answers remote Gets, and memory Gets of what is not in memory, with an
earlier store's write while a Flush has drawn number n and not written blob n, for ever if that write fails, even where it has itself made the key durable in a lower blob
(`kvstore.go:53-59`, 115-131, 165-180; the adapters open every store on a bucket of its own); the comment of `immutableBuf` in
`kvstore.go:37-39` describes an older design; `pg_counter.ts:36-41` explains a bug that the
statement below it no longer has; `todo-app` documents a limit of 4 where the specification has 3;
`todo_adapters.ts:221` says that the counter shows "changes after actions", but the first list of a page that
`open` (79-84) does not wait for changes it too, and `todo-app/typescript/README.md:76` promises a consistent starting state that a request
handled after `cleanup` can spoil, and so can a `cleanup` that throws (385), which no later `init` makes good. `Conforms` and `AnswersConform` except these cases and no others: a run in which a wait timed out, one in which an action began before the page had
drawn its first list, one in which a request of an earlier run was handled, and one after a `cleanup` that threw. The last is excepted because of the throw and whatever was left:
todos, or none and ids that go on, when the first statement of `clearTodos` (377) was executed and the second (380) failed.

## 5. Proofs

All theorems are checked by TLAPS for every value of the constants, under the named
assumptions of the modules: `MaxWrites \in Nat`, `None \notin Procs` (stores; also `MaxFaultyWrites \in Nat` for Rust and
`MaxLives \in Nat` for the lives of a bucket); `Limit \in Nat`, `MaxCalls \in Nat` (`CasCounter`); `NumSessions`, `Max`, `DemoMax \in Nat`
(`PgCounter`); `MaxItems \in Nat` and `None \notin Procs` (`BufferedWriter`); `MaxTodos`, `MaxActions`, `MaxRuns \in Nat` (`TodoAdapter`);
`MaxItems`, `MaxLosses \in Nat` and `"" \notin Titles` (`TodoMvc`). In the theorem about `MemCounter`, `MaxInt \in Nat` is a hypothesis,
and in the one about `RacyCounter`, `IsFiniteSet(Procs)`: counting the threads needs it. All other sets of goroutines, tasks, callers and
keys may be any sets. The bounds (`MaxWrites`, `MaxCalls`, `MaxItems`, ...) are arbitrary, so what is proved does not depend on them.

Hardly any property is inductive: what a reader may see depends on where everybody else is. Each component has therefore an
inductive invariant `IInv` (`LivesInv` for the lives of a bucket) in a module of its own, in named parts, which TLC checks before it is proved:
in the runs, and `LivesInv` on instances of the same size (section 3). Each proof has one lemma per action.

* **`GoKVStoreProofs`**. `IInv` is inductive *with faults*; the fault-free results are the case `failed = {}`.
  Its parts: who owns which mutex (`LockInv`); blobs are numbered by non-empty flushes (`NumberInv`);
  a Flush that has frozen owns the newest number and what it writes is what readers see
  (`FlushInv`); buffer, frozen buffer and blobs hold ever older writes (`OrderInv`); a frozen
  buffer that nobody writes is the rest of a failed Flush (`OrphanInv`); what a Flush owes its caller is
  where it will find it (`DueInv`); a scan has not passed its answer (`ScanInv`). From it:
  `TypeCorrect`, `LossConfined`, `MemoryNotBehind`, `GetsLinearizableUnlessSkipped`,
  `FlushesDurableUnlessFailed`, `NeverRegresses` with faults; `DirtyRead`, `GetsLinearizable`,
  `FlushesDurable`, `PrefixDurable` without; and `Refinement`: Put and Delete are `Write`, `FlushFreeze`
  is `Freeze`, `FlushWrite` is `Persist`, and every other step stutters. Its last section is about `DurableStore` itself, `DurableIsPrefix`: the strengthening says that both `frozen` and
  `durable` are past states of `latest`. By the two refinements it holds of both stores.
  The section in front of it is about the lives of a bucket (`LivesInv`, which shares `LockInv`): `LivesAreApart` and `DurableStaysInLife`, with faults, for any number of lives. The order of `GoKVStore`'s blobs is lost here, because a blob
  of an earlier life may have any number. What is left: the blobs up to the last one that this store has written (`OwnTop`) are its own as long as no Flush has
  failed (`OwnInv`), those above hold writes of earlier lives (`OldInv`), and the blob of the number that a Flush has drawn is of either kind. The proof refuted the first
  statement of both properties: with two blobs in a life, the old blob of a number that has been drawn hides what the *present* store has made durable in lower blobs, which
  no run with fewer than two blobs in each of two lives can reach (section 4).
* **`RustKVStoreProofs`**: all properties of `rust_store` but liveness, with failing puts and reads and dropped futures, and, without faults, the refinement of `DurableStore` for remote
  readers. The invariant is that of Go with one place more: the local of the flush that has taken `immutable_buf` (`HandoverInv`: the frozen writes are in one of the two, never
  in both). A Get holds no lock, so its part (`OnCourse`) says where the answer still lies for a Get that did not race with a take.
* **`EntriesProofs`** has what these proofs need of `Newest` and `Overlay`: what one more
  blob changes, and that it changes nothing for keys it lacks.
* **`CounterProofs`**. `GoodMemCounter`: `NothingLost`, `RefusedAtBoundOnly` and `Refinement`; the strengthening relates a stale `current` to
  the ghost `blocked`: a thread that saw a bound, or during whose call the value was at it, is recorded. The in-memory counters of Go, TypeScript and Java: `MemRefinement`, from
  `Room`: the value is in its range, and the limit leaves one more below the largest int, so that no sum wraps before it is clamped.
  `BadMemCounter`: `Overshoot`. The invariant adds to the value the number of additions decided and not yet made, which a check increases by one and an addition leaves unchanged.
* **`PgCounterProofs`**: `CountsItsOwn` and `CleansUp`, for any number of sessions and callers. `IInv` says which statements a session can still send in its phase, and what one that
  crashed can have left behind (`SentBy`); that TypeScript's sessions take turns (`TurnsInv`); and that the last INSERT of an init finds no row
  unless a late statement has put one there (`FreshFor`).
* **`BufferedWriterProofs`**: `StateMissesNothing`, `WhatWasSeenStays` and `Refinement`. `ItemsInv` says what the arrays hold at every store, by the lengths
  that the slices have when the call under way is done or not begun (`Settled`, `Stored`, `Landed`); `ApartInv` that the array that was flushed is never the one that Append
  writes; `ReaderOf` where each item that a State call owes is, as far as that call has read and can still read (`Covered`). These make up `CoreInv`;
  `WholeInv` adds that a call during which nobody moved a slice has read its one array and no length beyond it, from which follows when a slice can be torn.
  In the refinement an Append takes effect when its item is stored (`AppendStore`), a Flush when the buffer is cleared (`FlushClear`).
* **`TodoAdapterProofs`**: `RunsConform` and `AnswersAreRight`, for any number of runs, actions, todos and values. The adapter waits for *some* redraw; that it is the right one
  follows from what `IInv` says of each wait. Before its click an action of an undisturbed run finds nothing on its way, and server and page as the specification has them
  (`LookingInv`); afterwards its own request is the only one, and is either still there (`Sent`), or executed and to be drawn (`Executed`), or drawn (`Redrawn`), and the counter
  differs from the one that was read only in the last case. The server accepts what the specification permits (`PermittedIsAccepted`), so no pin is rejected; a control that is not there
  would change nothing (`SkipChangesNothing`). Across runs: a role that was kept without a login never has a list (`RoleInv`), and between runs, unless the last `cleanup` threw or left requests of a disturbed run behind, there are neither
  requests nor todos (`LeftInv`). `CountInv` bounds requests, redraws and the counter together by the number of actions. `CloseAll` refuted an earlier form of the model, in
  which a page drew once more after its browser had been closed: hence `PageOpen`.

* **`TodoMvcProofs`**: `ScreenConforms` and `TypeCorrect`, for any titles, todos, actions, runs and lost pages. An action names an item by its index in the list that is shown,
  and the model and the page give their todos different ids; so lists are compared by what they look like (`Looks`), and a sublist is described by the *indices* it takes
  (`ItemsAt`): the n-th of them is the one that n of them do not exceed, which exists and is another one for each n because counting up to an index is injective (`NthIs`). Two lists that look alike
  show the same indices (`ShownAlike`), so an index means the same place in both (`PageShows`), and every action keeps them alike (`ToggledAlike` and its neighbours). No two
  todos of a list have the same id (`Distinct`): the page finds an unused one because there are more numbers to choose from than todos (`NewIdIs`). `IInv` says how far page and model are apart: the page
  is one action behind from the step of the model to the click, whose control is shown (`ActingInv`); during an edit it is behind by the title that is going to be saved, in the box of the todo that was clicked
  or in none that is drawn yet (`EditingInv`); from there on they are in step, and drawn before they are read (`RunInv`). Between the runs nothing is left but the todos of a lost page (`PhaseInv`).
  The proof refuted an earlier form of `GetToggleAllStatus`, whose two cases overlapped for a page without todos.

Model-checked only: liveness (`DurableRead`, `CallsReturn`, `NoWaitInVain`, `ActionsReturn`), which under fairness is out of the prover's reach.

## 6. What the models leave out

* Stores that share a bucket at the same time.
* The slices that callers of the Go `Put` keep and may change; JSON errors (never for byte maps).
* Torn writes: the `blob` and `object_store` libraries make a write visible as a whole.
* PostgreSQL statements are atomic; connection pools are not modelled.
* The todo page and its server are assumptions: one request per click, one redraw per executed request of an open page, a second
  pin rejected, everything else that has a todo accepted. Left out are the order of cards on the page, which the adapter sorts away. A `clearTodos` that fails after its
  second statement, in closing the database, throws too; it is not told apart from one that fails earlier and is the milder case.
* The TodoMVC page is an assumption too: it stores its todos with every change and draws them as a whole. Orders of
  loads and stores that a weaker memory than x86 allows in `BufferedWriter`.
* Argument checks of the adapters, logging, the demonstration programs.

## 7. Plan

Done: every component with logic of its own is modelled and checked; every safety property, action property and refinement
that a run checks is proved for all values of the constants. What could follow:

1. Facts about the lists of both todo applications (sublists, lists that look alike) in a module that `TodoAdapterProofs` and `TodoMvcProofs` share.
2. The todo page and its server, should they become part of the repository, in place of the assumptions of section 6.
