# dbx4: models, model checks and proofs

TLA+ specifications of the state-keeping parts of dbx4, the TLC configurations that
check them on small instances, and TLAPS proofs of the results that matter most for
every instance. Every definition is taken from the source, and `PROJECT.json` maps it
to the lines it stands for.

    tlc -config MCTransactions.cfg MCTransactions
    tlapm TransactionCorrectness_proofs.tla

## 1. Inventory

dbx4 is a set of C++ translation units that each implement one subsystem and seldom
call one another: there is no single engine through which a statement passes lexer,
executor, transaction, log and storage. The components below are therefore specified
one by one, each with the callers' side left open.

| Component (source under `src/src/`) | State | Operations | What is hard |
|---|---|---|---|
| Transactional version store, `transaction_correctness.cpp`, `include/dbx4/transaction_state.h` | tables of version lists, write sets of the running transactions, next id | begin, insert, commit, rollback, count visible rows | versions are restamped one by one through the write set; several transactions write one row; early returns |
| Write-ahead log, `recovery_wal.cpp` | the file, a map of outcomes | write data, commit, abort; recover | a process that dies inside an append, appends behind a torn entry, several markers of one transaction |
| Transaction manager, `transaction_manager.cpp` | write buffer, undo log, read and write sets per transaction | begin, insert, update, delete, read, commit, rollback | calls in any order, also after the end; rows whose concatenated keys collide |
| MVCC coordinator, `mvcc_locks.cpp` | snapshots, versions, row locks and wait queues, a version clock | snapshots, versions, locks, read, write, delete | threads interleave between the lock check, the clock read and the store |
| Row cache, `query_executor.cpp` | cache and `lru_order` | put (with eviction), get, erase, clear, insert | stale and repeated entries in the eviction order; keys are seconds of the wall clock |
| SQL engine, `query_executor_engine.cpp` and its header | tables with schemas and rows | CREATE, DROP, INSERT, UPDATE, DELETE, SELECT | exceptions in the middle of a statement; types that mix; ORDER BY, LIMIT and OFFSET at their edges |
| Declared intent, events and graph, `advanced_features.cpp` | audit log and approvals; events, queue and handlers; nodes and edges | insert, approve; raise, register, process, detect cycles; traversals, cost | a handler that throws or raises an event; uninitialised and wrapping depths; cycles and parallel edges |
| Storage engine, `storage_engine_production.cpp` | pages, buffer pool, table ids, engine counters | page insert, update, delete; get, save, evict, flush; create table, insert, update, delete through the engine | locks released and retaken, statistics written under shared locks, an eviction that saves under its own lock |
| Page storage, `storage_complete.cpp` | slotted page with a checksum | insert, read, serialize, deserialize, verify | what the checksum can notice; a field cleared to recompute it |
| Log readers, `recovery_wal_hardened.cpp`, `transaction_integrity_e2e.cpp`, `query_executor_public_api.cpp` | none: a file is read once | parse, verify integrity, recover | three loops that must find the same entries; bad lengths, torn ends, a missing file |
| Index, `indexing.cpp` | one node with a sorted list of keys | insert, search | duplicates |
| Clause evaluation, lexer, parser, row encoding, public API, demonstrations | none, or text only | pure functions over text | |

How they interact: `RowCache` is a member of the `QueryExecutor` of
`query_executor.cpp`, whose `execute_insert` builds the row and the key; the MVCC
coordinator owns its three managers; the SQL engine owns its `Database`; the
`DatabaseEngine` owns a `BufferPool`, whose calls it makes under its own mutex; the write-ahead
log, the transaction manager and the version store are alternatives that share no
state. A shared mutex per class is held for whole calls except in the MVCC coordinator
(one mutex per manager and an atomic clock) and in the buffer pool. The version store
and the SQL engine take no lock at all: they are specified for the callers the code can
serve, which make one call at a time.

What makes each component correct is stated as properties; section 4 lists them by run,
and `hazards` in `PROJECT.json` says which line each of them watches.

## 2. Plan

1. `AtomicStore` and `TransactionCorrectness`: the promise and the version store, with
   refinement and proofs. *Done.*
2. `WAL`, byte by byte, with crashes. *Done, with proofs.*
3. `TransactionManager`, `MVCC`, `RowCache`. *Done, with proofs.*
4. `SqlValue`, `SqlExpr`, `SqlEngine`. *Done, with proofs of every property of the run.*
5. `EventSystem`, `EventCycles`, `GraphEngine`, `DeclaredIntentTable`. *Done, with proofs.*
6. `BufferPool` and `StorageEngine` with the threads inside them and a liveness
   property, `StoragePage`, `HardenedWAL`. *Done, with proofs.*
7. Pure modules for the index, the grouping of WHERE clauses and the row encoding, each
   against a reference definition. *Open.*

## 3. Modules

* **`AtomicStore`** is the abstract specification: a transaction collects rows nobody
  sees, and one step publishes all or none of them.
* **`TransactionCorrectness`** has the version lists (`tables`), the tables that exist
  (`created`), the keys of `active_transactions` (`active`), their write sets and
  `next_tx_id`. `begin_transaction`, `insert_in_tx`, `commit_transaction` and
  `rollback_transaction` are its actions. `Validated` is phase 1 of commit with its early
  return. The refinement mapping to `AtomicStore` derives published and pending rows from
  the stamps; `CallsMatch` says which abstract step each call must be.
* **`WAL`** keeps the file as a sequence of bytes with the entry layout of
  `encode_entry`, so that a crash (`CrashInAppend`) can leave any prefix of an entry and
  decoding meets exactly what the code would. `Restart` starts a new `WALManager` on the
  same file. `Decoded` is the first pass of recovery, `Outcomes` what it notes of the
  markers, `DataOf` the second pass. The variables `log`, `acked`, `recovered` and `tail`
  record history for the properties only.
* **`TransactionManager`** keeps one record per transaction. Table and row names are
  sequences of the parts between their colons, so that concatenation has the collisions
  it has in the code. The version a caller passes as the old one is the version it sees.
  The stored rows outside the transaction are the constant `Stored`: this file never
  writes them. `Undone` plays the undo log backwards, one round of the loop at a time.
* **`MVCC`** has one variable per member of the managers and `call`, which says where
  each transaction's thread stands inside `write_row` or `delete_row`. A transaction is
  driven by one thread that makes one call at a time; without that assumption (two
  threads acting for one transaction) `WriterHoldsRow` would not hold. `Found` is what a
  read returns: the newest visible version, unless `delete_version` has marked it.
  `CoordinatorSpec` restricts the steps to those the coordinator's own interface offers.
* **`RowCache`** has `cache` and `lru_order`, the wall clock as the external action
  `Tick`, and three history variables. `AfterEviction` is the eviction inside `put`,
  stale entries included. `Hit` is a `get` that finds its row: it changes no member, and
  the history `since` notes the use.
* **`SqlValue`, `SqlExpr`, `SqlEngine`**: typed values with exact numbers, conversion,
  printing and comparison; expressions and conditions, which may throw; and one action
  per statement. A statement that throws half-way leaves what it has done. INSERT keeps
  the rows before the failing one. UPDATE keeps the assignments made so far, the failing
  row's included. DELETE leaves what `std::remove_if` leaves when its predicate throws:
  rows already moved forward, and moved-from (empty) rows or old copies behind them.
  `std::sort` with a comparison that is not a strict weak order may return any
  permutation. ORDER BY takes one column. PRIMARY KEY and DISTINCT are stored by the code
  and never read.
* **`EventSystem`**: a root's `depth` is any value below the modulus, because the code
  does not initialise it. A handler returns, throws, or raises an event. One that throws
  ends `process_events` with its event off the queue and not marked. One that raises an
  event locks the mutex its thread already holds, which is undefined: it waits for ever
  (`stuck`) or throws. `lost` is history: the events that met such a handler. So are
  `level`, the true distance from the root, and `seed`, the depth the root happened to
  have. **`EventCycles`** adds `detect_cycle`, as a recursive function of an event and the
  events visited; it takes no lock and is evaluated between the calls of the others.
* **`GraphEngine`** has the nodes with their costs, the adjacency list in insertion
  order, and both traversals and the cost propagation as operators over them. A traversal
  takes one edge, or the end of a node, at a time. What it holds `open` are the nodes of
  the queue of `bfs_traversal`, or those of the calls of `dfs_recursive` in progress, each
  with the edge it is at: the first scans its front, the second its innermost call, and a
  new node joins at the end of either. `propagate_cost_recursive` walks like the second.
  `Rounds` is the number of edges and ends there are to scan: no walk takes longer.
  `calculate_cost_propagation` is an action because `nodes_[start]` creates a missing node.
* **`DeclaredIntentTable`** has the intents, the audit log and the approval states. The
  history `granted` has the levels approved since a row was last inserted.
* **`BufferPool`**: `objects` are the `Page` objects ever made, `pages_` the pool's map to
  them with the time of the last access, and `th` says where each thread stands. A step of
  a thread is what it does between two lock operations: `Lookup`, `CountHit`, `CountMiss`
  and `Load` are `get_page`; `SaveLookup` and `Save` are `save_page`; `Flush` is the loop of
  `flush_all`, which calls `save_page` with the lock released and its iterator on an entry
  of the map (`entry`); if that entry is gone when it goes on, the step is undefined. The
  statistics are `++` on
  plain integers under the *shared* lock, so each increment is split into its reading and
  its writing. The clock may tie and go back, and equal times are evicted in any order, as
  the hash table has them. `Evict` of a dirty page asks for the mutex its thread holds; the
  thread then stands at `undefined` and keeps the lock. `owner` says whether threads call
  the pool themselves or through the engine.
* **`StorageEngine`** adds `DatabaseEngine` and the table ids of `SchemaManager`. The engine
  keeps `db_mutex_` across its call of the pool (`InsertEnter` to `InsertFinish`). Its
  update and delete of a row only count. A table's id is the number of its one page. A row's
  length reaches the page in 16 bits (`RowLengths`), as the parameter narrows it.
* **`StoragePage`** is the page of `storage_complete.cpp` as an array of bytes; a 32-bit
  word is the set of its 1 bits. `Damage` changes one byte of a serialized image.
  `deserialize` is given the image, or more or fewer bytes than a page, which it refuses
  before it touches the page. `verify` is the comparison both make.
* **`HardenedWAL`** has the three loops that read a log with a commit flag, as recursive
  functions of the position, and files of whole entries, headers with a length beyond the
  limit, and a torn entry at the end. `exists` says whether there is a file to open: the
  integrity check returns a report of its own (`NotOpened`) when there is none.

`MC*` modules instantiate these. Parts that share no state share a module and a run: the four
implementations of transactions `MCTransactions`, the classes of `advanced_features.cpp`
`MCAdvanced`, the storage parts, the log readers and the row cache `MCStorage`. There each
behaviour exercises one of the parts, which `part` names. Each definition whose name ends in
an underscore and a word (`Restamp_WholeRow`) is a mutation of the definition after it: TLC
finds the property it is listed with in `PROJECT.json` violated when it takes that
definition's place.

## 4. Runs

| Run | Bounds | What it shows |
|---|---|---|
| `transactions` | version store: 2 tables, 2 rows, 2 transactions, 2 versions per row | `NoOrphanVersion`: every ACTIVE version is reachable from its creator's write set. `CommitNeverRefused`: phase 1 of commit never fails for a running transaction. `AllOrNothing`: all versions of a transaction have one outcome. `OutcomeIsFinal`: outcomes never change. `ReadCommitted`: what a reader sees changes only by its own inserts or the end of a transaction. `ImplementsAtomicStore`: refinement, in which each call is the abstract step of its own name. |
| | log: 2 transactions, 4 entries, a crash at any byte | `RecoverExact`: recovery returns exactly the committed data until something is appended behind a torn entry. `MemoryAgreesWithFile`: the outcome map agrees with the file after a recovery. `NothingLost`: until then, no step but an abort makes recoverable data unrecoverable; once something is appended behind a torn entry nothing is claimed, as the torn bytes may then decode as an abort. |
| | transaction manager: 1 transaction, 4 names of which two collide, undo log of 3 | `EveryWriteUndoable`: buffer, undo log and write set stay in step. `UndoRestoresStored`: the undo log played backwards restores the stored rows. |
| | MVCC: 3 threads, 1 row, clock to 2, 2 versions | `WriterHoldsRow`, `VersionsInOrder`, `ReadsNewest`: the row lock makes the unlocked reading of the clock harmless. `SettledReadsAreStable`: what a read returns at a settled clock value changes only by a `delete_version` of the very version it returned. |
| `wal_durability` (violation) | as the log above | A commit appended behind a torn entry is lost. |
| `txn_manager_commit` (violation) | undo log of 2 | Rollback after commit is accepted and takes the commit back. |
| `mvcc_own_writes` (violation) | the coordinator's interface only | A transaction cannot read its own write: nothing creates its snapshot. |
| `row_cache_lru` (violation) | as the cache below | A row that was just read is evicted before one nobody has used since. |
| `sql` | 1 table, 2 columns, 3 rows, 2 schemas and an empty one, 6 INSERTs, 5 UPDATEs, 3 DELETEs, 4 SELECTs | `ConstraintsUnlessRefused`: constraints survive every interrupted statement but a refused UPDATE. `RowsComplete`, `DeleteSparesTheRest`: what a half-way DELETE may leave. `PagesPartition`, `OrderedResult`: LIMIT, OFFSET and ORDER BY. `OrderByAnswered`: only after a DELETE that threw does ORDER BY fail on a column the table has. |
| `sql_constraints` (violation) | as `sql` | A refused UPDATE leaves the offending row in the table. |
| `advanced` | depth limit 1, depths below 3, 3 events of 2 types, 2 handlers; 3 nodes, 3 edges, 2 weights; 2 rows, 2 inserts, 2 approvals | `CascadeBounded`: how long a cascade may get, by what its root's depth happened to be. `QueuedUntilProcessed`: an event is queued once until it is processed, and lost only to a handler of its type that throws or blocks. `NeverCyclic`. `TraversalsAgree` and `CostCountedOnce` against reachability as the least closed set. `ApprovedByDirector`: level, approvers and mark are those of the approvals since the last insert. |
| `event_depth_cap` (violation) | as the events above, 1 type and 1 handler | A cascade gets one level longer than the documented limit. |
| `storage` | 2 threads, 2 pages, a pool of 1, clock {0, 1}, rows of 1 and 65536 bytes, 5 calls, 2 tables | `PoolAccounting`, `OnlyEvictionDetaches`: the second lookup of `get_page` and the size count are right under every interleaving. `StatisticsBounded`: lost increments never become extra ones, and behind the engine's lock none is lost. `EveryCallReturns`: liveness. |
| | page of 40 bytes with 2 slots and 8 bytes of rows, images of 0 to 41 bytes | `RowsReadBack`: rows survive inserts, serialize and deserialize, and a page read in is written out unchanged. `DamageNoticed`: an untouched image is accepted, and every change that is still in the sum is refused. |
| | 3 log entries, length limit 1, or no file | `HardenedRecoversAll`, `ReadersAgree`: the three readers of a log find the same entries, past bad headers and up to a torn end, and the integrity check reports them, or that there is no file. |
| | cache of 2, 2 tables, 2 seconds, 4 inserts | `EvictionReachesEveryRow`, `OverflowBounded` (by the repeated keys), `GetReturnsLastPut`. |
| `storage_first_insert` (violation) | 1 thread, 1 page, 2 calls | The first row of a new page is refused. |
| `storage_checksum` (violation) | the page above, without rows | A changed image is accepted. |

The type invariants of the version store, the log, the transaction manager, the MVCC
coordinator, the row cache, the SQL engine and the event system are proved for every
instance (section 6) and therefore not in the runs. `transactions` has 751,919 distinct
states, `storage` 367,387, `advanced` 953,703 and `sql` 3,418.

Why the bounds are enough for the cases that matter:

* **Version store.** Two transactions over two tables already interleave every pair of
  calls, and two versions let one of them write a row twice or both write the same row.
* **Log.** Four entries and a crash give torn data, torn markers and a torn entry with
  whole ones behind it, which is where recovery goes wrong; the proofs are for any number
  of crashes. One of the two ids takes two bytes of its
  32-bit field, so a tear may also cut a number.
* **MVCC.** Three threads are a holder, a waiter and a bystander, and two versions and
  three clock values order and disorder them.
* **Cache.** Four inserts fill a cache of two, repeat a key, and meet the stale entry.
* **SQL.** Three rows let a statement fail on the first, a middle and the last one.
* **Events.** The depth limit and modulus keep the code's relation (limit + 1 below the
  modulus), so a root depth of modulus - 1 wraps; three events reach the limit and the
  level beyond it. Two handlers may fail differently on one event, and the first decides.
* **Buffer pool.** A pool of one page with two page numbers evicts on every second load,
  so that a page is evicted while another thread is between its two lookups, between its
  lookup and its use, or holds the object; two threads miss the same page at once. With
  five calls one of them can make a whole call inside the other's.
* **Page.** The constants scale the areas, not the layout. With 40 bytes the sum shifts a
  byte of the header out (36 bytes are summed, 32 stay), and a row of eight bytes fills the
  payload, so that the next is refused. `BadBytes` change the lowest bit, the highest, and
  all that is set.
* **Log readers.** Three entries give a bad header in front of, between and behind whole
  ones, two entries of one id, and a piece of every length. The limit of 65536 is scaled
  to 1, so that data at the limit and a length just beyond it occur. One id takes two bytes.
* **Graph.** Three edges among three nodes give cycles, self-loops, parallel edges and
  shared descendants; two weights tell parallel edges apart.

Deadlock checking is off where a bound ends the behaviour. For the event system, it is
off also because a handler that raises an event really stops the system.

**Fairness.** `EveryCallReturns` assumes weak fairness of each thread's steps within a
call that has begun: the operating system runs a thread that can run, and a mutex that is
free is given to a thread that waits for it. Nothing is assumed about calls being made. As
the number of calls is bounded, every stream of readers ends and weak fairness is enough;
that a thread waiting for the exclusive lock may starve behind readers that never stop
arriving (a shared mutex may prefer readers) is outside this claim. No other component has
a thread or a loop that waits, and the wait queue of a row lock has no code that serves
it, so no liveness is claimed for them.

## 5. Findings

The eight violation runs are disagreements between the code and what the repository says
of it; `PROJECT.json` quotes the lines.

1. A commit appended behind a torn log entry does not survive the next recovery.
2. A rollback after a commit is accepted.
3. The coordinator's `read_row` does not return the transaction's own write.
4. A refused UPDATE leaves the row that violates the constraint.
5. The row cache evicts in the order of the puts: its `lru_order` does not know of gets.
6. A cascade can be one level longer than `MAX_EVENT_DEPTH`: the depth of a root is not
   initialised, and the greatest number wraps to 0 in its children. By `CascadesEnd` that
   is the only excess there is.
7. The constructor of `Page` sets `free_offset` to 512 + 1024 * 32 = 33280, behind the end
   of an 8192-byte page, so every insert is refused. By `NeverDirty` no page ever becomes
   dirty, and that alone keeps `evict_lru`, which runs under the pool's exclusive lock, from
   calling `save_page`, which takes the same lock, and `flush_all` from stepping off an
   entry that another thread evicted.
8. The checksum of `storage_complete.cpp` shifts a 32-bit word once per byte, so a change is
   noticed in the checksum field and in the bits of the last 32 bytes that are not yet
   shifted out (`DamageFound`), and nowhere else on a page of any size
   (`ShiftedOutAccepted`).

Three facts that the passing runs establish and a reader of the code may not expect:

* `HardenedRecoversAll`: a torn entry of fewer than four bytes counts as a normal end and
  not as a skipped entry.
* `ReadersAgree`: for a file that cannot be opened the integrity check sets `all_valid` to
  false and leaves `acid_properties_hold` true; only `all_valid` can be relied on there.
* `QueuedUntilProcessed`: an event whose handler throws is never processed, since it was
  taken off the queue before; the events behind it wait for the next `process_events`.

## 6. Proofs

Each proof module extends the modules it is about. All theorems hold for every value of
the constants that satisfies the named assumptions, and as the bounds are constants too,
for every bound. The assumptions:

* bounds, page numbers, times, row lengths and approval levels are naturals, and
  `max_size` is positive;
* no thread has the name of the empty lock;
* `MAX_EVENT_DEPTH + 1 < DepthModulus`;
* inputs of the row cache are pairs of sequences; an UPDATE has a list of assignments, an
  INSERT a list of columns, a SELECT an integer LIMIT, an OFFSET that is not negative and at
  most one column to order by; a schema is a list of columns;
* the graph has finitely many nodes;
* `Stored` gives each key of the transaction manager a row or none;
* ids and lengths in a log, and `MAX_ENTRY_SIZE`, are below 2^31 (what an `int` holds, and
  what TLC can count to): the numbers of the code, the limit of 65536 among them, are
  covered. Data are bytes. Data written whole keep to the limit, and bad lengths are
  beyond it;
* the header of a page has at least the 16 bytes of its fields, slots and payload are
  counted in 16 bits as in the code, and rows are bytes.

**`TransactionCorrectness_proofs`** proves `TypeCorrect`, `NoOrphans`,
`CommitAlwaysPossible`, `Atomicity`, `FinalOutcomes`, `ReadersSeeCommitted` and
`Refinement`. The inductive invariant is

    IInv == StoreTypeOK /\ IdsIssued /\ NoOrphanVersion /\ CommitNeverRefused

`IdsIssued` (running transactions and version stamps carry ids below `next_tx_id`) is
needed because a begin must not meet versions of its own id. `NoOrphanVersion` is needed
because commit and rollback only touch what the write set lists: `AllOrNothing` follows
since at the end of a transaction every ACTIVE version of it is restamped, and no version
of an ended transaction is ACTIVE. `ReadersSeeCommitted` (`ReadCommitted`) needs the
converse, `WriteSetBacked`: each row in a write set has an ACTIVE version of that
transaction, so that a step which changes what a reader sees is an insert of its own or
the end of a transaction. The refinement shows under the same invariant that begin,
insert, commit and rollback each map to the abstract step of their own name (`CallsMatch`),
so a rollback cannot pass for a commit.

**`WAL_proofs`** proves `RecoveryIsExact` (`RecoverExact`), `MemoryIsRight`
(`MemoryAgreesWithFile`), `NothingIsLost` (`NothingLost`) and `TypeCorrect`, for any number
of appends, and crashes at any byte. The inductive invariant is `Filed /\ Informed`.
`Filed` says what the bytes are: unless something was appended behind a torn entry, there
are offsets at which the entries of the history `log` stand one behind the other, and the
file ends at the last offset or with a proper prefix of one more entry (`Layout`).
`RecoverExact` alone says only what the decoder returns, which does not tell what it
returns once bytes are added; `Layout` does. `LayoutDecodes` shows that the decoder's loop
meets each of these offsets and stops at the torn one, hence `Decoded(wal) = log`.
`Informed` is the same for the map in memory. `CommittedSet` shows that the outcome
recovery takes from the markers is `CommittedIn`, and `DataOfExact` that the second pass
picks the data entries of the committed transactions, in order, and nothing else.

The same module proves `ParserFindsAll` (`HardenedRecoversAll`) and `ReadersFindTheSame`
(`ReadersAgree`) of the three readers of `HardenedWAL`, for any ids, data, bad lengths,
limit and number of entries. The three loops differ only in what they do at the end of the
file, at a bad length and with an entry, so each is shown to be an instance of one loop
(`ParseIsRun`, `ScanIsRun`, `CountIsRun`: `Run` with the record of these three choices).
Of that loop it is shown that it exists, and that what it does behind a prefix it has read
does not depend on the prefix (`LoopBehind`). The inductive invariant is

    LogInv == types /\ (torn = 0 => for every continuation g, Precedes(file, whole, bad, g))
                    /\ (torn # 0 => Find(file, whole, ...))

`Precedes` says what each reader returns for the file followed by g: the entries of the
file and then what it returns for g alone. What a reader returns for the file itself does
not say what it returns once bytes follow, so the property is not inductive, and the
continuation is what makes it so. A torn piece ends the file, so there the plain statement
is enough. `ReadersFindTheSame` has both cases of the integrity check: a file, and none, when
nothing was ever written and the report is the one of the early return.

**`TransactionManager_proofs`** proves `TypeCorrect`, `WritesUndoable`
(`EveryWriteUndoable`) and `UndoExact` (`UndoRestoresStored`). The inductive invariant says
of each transaction that its buffer holds exactly the keys its undo log names, that these
are in the write set, and `OldestIsStored`: the first undo entry of a key has the stored
version as its old one. The last part makes the undo exact: the loop goes backwards, so
what it leaves for a key is what the *first* entry of the key says. `AllRounds` shows that
of the loop, round by round. Keys that collide are one key throughout, so the theorems
cover them.

**`MVCC_proofs`** proves `TypeCorrect`, `WritersExclude`, `OrderedVersions`, `NewestRead`
(`ReadsNewest`) and `StableReads` (`SettledReadsAreStable`) with

    IInv == MvccTypeOK /\ Exclusive /\ WriterHoldsRow /\ Issued /\ VersionsInOrder

A row has at most one holder (`Exclusive`), so between a writer's clock reading and its
store nobody else stores into the row; and all stored readings and ids are below the
counters (`Issued`). Without the second conjunct of `VersionsInOrder`, about writers
in flight, the first is not inductive. As versions are in order, the first visible one
from the end is the newest (`NewestRead`), and what is stored later is newer than any
snapshot that is settled. `StableReads` is about what `read_row` returns, the deleted mark
included: so it has the one exception that `delete_version` marks the version found, and
shows that no other step, of any thread, changes a settled read.

**`RowCache_proofs`** proves `TypeCorrect`, `NoRowStuck`, `BoundedOverflow` and
`NoStaleRow` (`GetReturnsLastPut`) with

    IInv == CacheTypeOK /\ EvictionReachesEveryRow /\ Slack

`Slack` bounds the length of `lru_order` by the rows it lists plus `reputs`, and by
`max_size + reputs`; the bound on the cache then follows from `EvictionReachesEveryRow`
and cardinality. The last theorem needs `Dated`, which ties the cache to the history of
puts: each cached row is the one put last under its key.

**`SqlEngine_proofs`** proves `ConstraintsKept` (`ConstraintsUnlessRefused`), `DeleteExact`
(`DeleteSparesTheRest`), `RowsKeepColumns` (`RowsComplete`), `PagesAreWhole`
(`PagesPartition`), `SelectAnswers` (`OrderByAnswered`), `TypeCorrect` and `SelectOrders`
(`OrderedResult`), for any schemas and statements. What an expression or a condition returns,
or whether it throws, is a constant of `SqlEngine`, which `SqlExpr` implements in the run.
The first five theorems hold for any such constant. The last two have the hypothesis
`EvalTyped`: on a row of values, the expressions of an UPDATE throw or give a value. It is
needed because an assignment stores whatever its expression returns. `SqlExpr` throws or
gives a value in every case, and the run checks `OrderedResult` with it.

The invariant of the first theorem adds `Stored`, the shape of tables, to the property.
INSERT is an argument about the rows kept before the failing one. For UPDATE it is about the
loop over the assignments of a row. For DELETE, `Moved` relates each row left to the row it
was: no row is in two places unless it is an empty one, so moving rows breaks neither NOT
NULL nor UNIQUE. `PagesPartition` needs `Bounded`, that no statement makes a table longer
than `MaxRows`; by induction over the pages, the first k of them joined are the first k *
size rows. `SelectAnswers` rests on `RowsComplete`: every row has the column that `at()` asks
for, so the comparison never throws, and a page of a permutation is as long as the page of
the rows (`PageLength`). `TypeOK` follows from `RowsOK` (every row holds values under
declared columns, also the rows behind a DELETE or an UPDATE that ended in an exception) and
`ResultOK`. For `OrderedResult` the comparison of `execute_select` has to be transitive, and
so has its negation, on NULLs and values of one type: numbers are compared as fractions with
positive denominators, so each of the two is a fact about products (`FractionsLess`,
`FractionsNotLess`). Then `std::sort` is defined, whatever permutation it picks among equal
rows, and a page of its result is in order.

**`AdvancedFeatures_proofs`** proves of the events `TypeCorrect`, `CascadesEnd`,
`NoEventLost` and `CascadesAcyclic` (`NeverCyclic`), of the approval table
`DirectorsApprove` (`ApprovedByDirector`), and of the graph `TraversalsReachAll`
(`TraversalsAgree`) and `CostsCountedOnce` (`CostCountedOnce`).

    IInv == EventTypeOK /\ DepthTracksLevel

`DepthTracksLevel` relates the stored depth to the true level: below the root the depth
has passed the limit check, and it is the level counted from what the root's depth wraps
to, because only the step from the root can wrap. `CascadeBounded` follows; it is not
inductive, since it says nothing of `depth`. `QueuedUntilProcessed` is inductive with
`IInv`: `process_events` takes the events in front of the first failing handler off the
queue and marks them, and the one that meets that handler joins `lost`. `CascadesAcyclic` has
two halves. `ForwardLinks` (a child's id is larger than its parent's, and was issued) is
inductive and excludes cycles; and the search `detect_cycle`, whose recursion ends because
the visited set only grows along links that lead forward, returns true only if there is
one. `ApprovedByDirector` is inductive once the approval states and the approvals granted
since the last insert are typed (`TableInv`): an insert resets both, and an approval adds
the same level to both.

Of the graph, the invariant over calls is only `GraphOK` (edges lead to known nodes); the
argument is about the loop inside one call, and is the same for both traversals because it
does not depend on which open node scans. `WalkOK` is the invariant of that loop: what was
visited lies in every set that holds the start and is closed under the edges, and every
edge scanned leads to a visited node. `StepOK` shows that a step keeps it and scans exactly
one place more; so after `Rounds` steps nothing is open (`RoundsEnough`), and the visited
set is itself closed, hence the least closed set (`AllVisited`). `PathsOK` adds what is
reported: each visited node but the start once, from a node reported before it. The cost
propagation is shown to walk in step with `dfs_traversal` (`InStep`), its total being at
every moment the cost along the paths reported so far.

**`StorageEngine_proofs`** proves `PoolSizeRight`, `PagesStayUntilEvicted`, `NeverDirty` and
`StatisticsRight` (`StatisticsBounded`) for any number of threads, pages, tables and calls,
any size of the pool and any clock:

    IInv    == PoolInv /\ SchemasTyped
    PoolInv == Typed /\ HitStays /\ Sized /\ Distinct /\ OnlyEvictionDetaches

`Typed` says that every page object is still as the constructor left it, which is
inductive because such a page refuses every row (`FullFromTheStart`); so no victim of an
eviction is dirty and no thread reaches undefined behaviour. `HitStays`: a page found
under the shared lock is there when it is used, since a load waits for the readers.
`Sized` adds to `PoolAccounting` that at most `MaxPages` pages are in the pool, from which
`OneVictim` shows that the loop around `evict_lru` takes out one page when the pool was
full and none otherwise. `Distinct` (no object under two numbers) is needed for
`OnlyEvictionDetaches`: an evicted object must not stay behind under another number.
The statistics need more, because an increment may be lost and a counter may even fall:
`Counted` has numbers H and M of hits and misses completed, which bound the counters *and*
what threads have read and not yet written back, and which add up to the lookups made.
`Serial` is the stronger fact for calls through the engine, where only the holder of
`db_mutex_` is in the pool and nothing is lost.

The same module proves of `StoragePage` `RowsSurvive` (`RowsReadBack`), `DamageFound`
(`DamageNoticed`) and its converse `ShiftedOutAccepted`, for areas of any size, any rows and
any change of one byte, with

    PageInv == PageHolds /\ ImageHolds /\ PageFollows /\ VerdictRight

`Holding(d, rows)` says more than that the rows read back: each row also ends in front of
the free space, and there are no more rows than slots. Without that an insert could
overwrite what was stored (`InsertHolds` is where the areas are shown not to overlap).
`ImageHolds` is about the image with the damage undone, so that it survives the damage, and
`PageFollows` says that the page is its image but for the checksum field, or has taken rows
since. Both results on damage rest on `DifferingSums`: if two pages differ in byte i only, then
after each number of bytes their sums differ in exactly the bits of that byte, moved up by
the shifts behind i and cut off at 32. That the bytes in the field then differ too is
`WordBytesExact`: a word is determined by its four bytes. So the verdict is "bad" exactly
for a visible change (`VerdictIsVisible`).

**How loops are proved.** The induction theorems of the library take an operator as a
parameter, which the installed provers cannot instantiate. Where a theorem needs what a
recursive function computes (the decoder and the second pass of recovery, the undo loop,
the assignments of an UPDATE, the pages of a result, `detect_cycle`, the traversals of a
graph), the function is given as a function that
satisfies the recursive equation, its existence and its values are proved by taking the
*least* position at which they fail (a nonempty set of naturals has a least member), and
deriving a contradiction from the position before it. For the readers of a log this
argument is made once, with the set of positions where the claim holds as the parameter
(`Backward`: from the end of a file to its start), and so it is for the sum over a page,
the pages of a result and the steps of a traversal (`Forward`). 32-bit fields are read
back because of `Int32Bytes`: the four bytes of a number below 2^31 give the number.

**Only model-checked.**

* `EveryCallReturns`: liveness is out of the prover's reach.
* The values `SqlExpr` computes: expressions are trees, evaluated by RECURSIVE operators,
  with which the prover loses its SMT backend. The proofs take evaluation as a constant.
* The eight violation runs.

## 7. Not modelled

* Of `storage_engine_production.cpp`: `add_index` and `add_constraint`, which the engine
  does not offer; `read_row` and the CRC in a page's `serialize` and `deserialize`, since no
  row is ever stored and `save_page` writes to no file.
* `SchemaManager` in `recovery_wal.cpp`: a map and text files without control of interest.
* `RobustWALCodec` in `wal_codec_robust.cpp`: the entry layout without the flag and without
  a reader loop; nothing calls it.
* The index (`indexing.cpp`), clause evaluation (`sql_executor_enhanced.cpp`) and the row
  encoding (`unified_row.h`): pure functions, see the plan.
* Lexer and parsers: text processing without state; the parser is largely a stub.
* `execute(sql)` of the public API, a placeholder; the declarations of `query_executor.h`
  and `sql_engine.h` that no source file implements.
* Durable log, agent integration, tests and monitoring: stubs, file helpers and counters.
* Lengths near 2^32 in a damaged log header, floating-point rounding, wall-clock jumps
  outside the buffer pool, and call counters that nothing reads.
