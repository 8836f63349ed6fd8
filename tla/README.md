# A verification project for sabiDB

sabiDB is a small transactional database in Rust: SQL on top of an executor, a
storage engine with row versions (MVCC), a B+tree over 4 KB pages, and a
write-ahead log.  This directory holds TLA+ models of it, from the page file to
the SQL sessions and the network server, the TLC runs that check them, and TLAPS
proofs of most of their safety properties.  Source paths
below are relative to `src/sabi/crates/`.

## 1. Inventory

| component | source | state | operations |
|---|---|---|---|
| transaction manager | `sabi-storage/src/mvcc.rs`, `sabi-core/src/tx.rs` | counter, registry of ids by number, map of active transactions, number of the last commit | `begin`, `commit`, `abort` |
| row versions | `mvcc.rs` | chain of versions per row, newest first | insertion, tombstones, `is_visible` |
| storage engine | `sabi-storage/src/engine.rs` | rows in memory, index, page file, log | `begin`, `commit`, `abort`, `insert`, `get`, `delete`, `range_scan` |
| B+tree | `sabi-storage/src/btree.rs` | root page id, nodes on pages | `get`, `range`, `insert` with its splits |
| page file and pages | `page_file.rs`, `page.rs` | the file, a free list | `allocate_page`, `read_page`, `write_page`, `free_page` (never called) |
| write-ahead log | `sabi-storage/src/wal.rs` | the log file | `open`, `append`, `WalReader`, `replay_wal` |
| SQL executor | `sabi-sql/src/executor/mod.rs` | current transaction, auto-commit flag; shares the engine | one handler per plan, expressions, row codec |
| planner, catalog | `sabi-sql/src/planner/mod.rs` | the tables and schemas of one session | AST to plan |
| values | `sabi-sql/src/types.rs` | none | bytes, comparison |
| parser | `sabi-sql/src/parser/` | none | syntax tree of the `sqlparser` crate to AST |
| command line | `sabi-sql/src/bin/sabi-cli.rs` | none | read, execute, print |
| deterministic runtime | `sabi-runtime/src/` | a JavaScript context, virtual clock, limits | execute a script |
| server, protocol | `sabi-server/src/main.rs`, `sabi-core/src/protocol.rs` | a task and a buffer per connection | accept, read, answer |

How they interact.  The command line parses a statement, the planner turns it
into a plan, the executor runs it.  All executors share one
`Arc<Mutex<StorageEngine>>`, but take the lock once to begin a transaction and
again for the statement, so sessions interleave between the two; a panic with the
lock poisons it for all of them.  Each session has a catalog of its own.  The engine
writes a data page, then calls `BTree::insert`, which logs and then changes the
index; engine and tree hold clones of the page file (same file, separate free
lists) and of the log writer (same file and lock).  The server and the runtime
call nothing of the rest yet.

What is hard here.

* `TransactionManager::begin` is called through `&self` and takes its atomics
  and locks one after the other: interleavings inside `begin`.
* Isolation: visibility compares ids, and ids compare by the millisecond.
* Several writes per operation, each of which can fail and is not undone:
  memory, data page, log, leaf, right half, parents, root.
* Crashes between any two writes, and inside a log write; a restart behind old
  pages and behind a torn log.
* A statement is many engine operations in a transaction of its own or of the
  session, any of which may fail or panic.
* SQL values pass through a byte format written and read in different orders,
  and a WHERE clause through arithmetic that may overflow and NULLs.
* TCP gives the server bytes, not requests.
* Limits: page capacity, `MAX_KEYS`, equal keys, equal timestamps.

What correctness means, per component.  *Manager*: every transaction decided
once, none lost, snapshots that cover what committed before and nothing later.
*Engine*: answers that change only through transactions the snapshot covers;
pages, memory, index and log in step, also after errors and restarts.  *Tree*:
search order, no entry lost, no page used twice, no panic.  *Log*: an
acknowledged commit survives, and who reads a Commit record finds all of its
transaction before it.  *Sessions*: each works in its own transaction, an acknowledged statement
is there in full, nothing stays active that is not accounted for, the mutex is
given back.  *SELECT*: the answer SQL gives, where the executor supports the
query.  *Server*: responses that belong to the requests they name, and tasks that
end.  The full list of hazards, each with its line and its properties, is in
`PROJECT.json`.

## 2. Modules

| module | models | composes |
|---|---|---|
| `TxLifecycle` | what the manager promises: a number is opened once and decided once, the latest commit is known | |
| `TransactionManager` | the manager, `begin` in five steps per thread | implements `TxLifecycle` |
| `StorageEngine` | engine, versions, data pages, index entries, log records, restart | the manager's `begin`/`commit`/`abort` as single steps |
| `BTree` | index nodes on pages, splits write by write | the page file shared with the engine |
| `Wal` | the log file piece by piece, crashes, the reader | |
| `QueryExecutor` | SQL sessions, the schemas each of them knows, the mutex of the engine | instantiates `StorageEngine` |
| `SelectQuery` | from INSERT values to row bytes to the answer of SELECT; a three-valued reference | |
| `Server` | connections, the stream TCP makes of requests, responses | |
| `...Proofs` | the theorems about a module | extends the module; `QueryExecutorProofs` also instantiates `StorageEngineProofs` |
| `StatementProofs` | theorems on what whole statements leave behind | extends `QueryExecutorProofs` |
| `Induction` | lemmas: induction over numbers, and what recursive functions compute | extended by two of the proof modules |
| `MC...` | instances for TLC | |

### TransactionManager

`next_tx`, `tx_registry`, `active` and `latest_committed` are the fields of the
struct; `pc` and `call` hold where a thread is in `begin` and its locals.
`FetchNumber` (fetch_add), `NewTxId` (`Uuid::now_v7`), `Register` (write lock),
`LookUpSnapshot` (read lock) and `Activate` (mutex) are the steps between which
other threads can run.  `commit` and `abort` hold the mutex of `active`
throughout, hence one step; `Reject` is their error.  An id is its millisecond,
which is all `Ord` sees, and the rest, which `Eq` also sees.  The generator of
`Uuid::now_v7` is process-wide and never goes back; it may stay in a millisecond.
History variables (`handles`, `fate`, `committedBefore`, `rejected`) record what
callers were told.

### StorageEngine

The operations run one at a time (the mutex), but `insert` and `delete` are
split where a write can fail or a crash can come: `InsertPage` (allocate, version
into memory, page), `InsertLog`, `InsertIndex`; `DeletePage`, `DeleteLog`.  A
failed step ends the operation and undoes nothing, as `?` does; a page whose write
succeeded and whose sync failed is in the file although the operation failed.  `Restart` is a
crash at any point followed by `StorageEngine::new`: memory is lost, pages stay,
the part of the log that was not synced may be lost, and a new empty root is
allocated.  `Get` and `RangeScan` are operators: they change no state.  The
index is one leaf here; equal keys keep several entries, and `PageOf` is the
first, as in `BTree::get`.  A leaf splits above `MAX_KEYS` = 128 entries, and from
then on entries are lost (`BTree`, section 5); what this module and the theorems
about it say is limited to the time before: `IndexCap`, the entries that fit, is at
most 128, and an insert that finds the leaf full fails (as it does in the code when
the page is full).

### BTree

One operation at a time, one step per page access on the way down and one step
per node on the way up; the writes of a step happen in the code's order and any
of them may fail (`WriteAll`).  A page is what `deserialize_btree` would return
for it; `Stored` is `write_page`, which replaces a page or extends the file by
one, and may have done so when the sync behind it fails.  `get` and `range` change
nothing: `Get` is an operator, `range` is left out (section 5 says what it meets).
The one place where bytes matter is `write_parent`, which patches bytes
2 to 11 of a payload that may have been serialized without a parent:
`WriteParent` and `Garble` say what is read back afterwards: an error, or a node
whose keys, `next` and children are made of other bytes, the keys chosen from
`JunkKey`, the pointers from `Stray`, so that they may lead to any page, to the
node itself, or nowhere.  `Misread` says that there is such an internal node; it is
one with a parent, because a node that is written without a parent gets one from
`set_parent` only.  `entries` and `garbled` are history.

### Wal

The header is kept byte by byte, the rest of the file as the pieces (length, payload,
checksum) that `append` writes; a piece may be torn.  `Crash` keeps any prefix that
includes what was synced.  `Accepts`, `Whole`, `ReadAll` and `Replay` are the reader,
with its check of the version in the bytes the code takes it from, so that `Replay`
refuses every log (finding `wal_replay_refused`).  What can be asked of the log is
therefore asked of its contents: `CommitDurable` of acknowledged commits,
`CommitAtomic` of every Commit that is whole in the file.  Ids are 16 bytes, because
writing and reading them use different byte orders (`Decoded`).  Put and Delete
records are one type: the log treats them alike.
The callers are external, since the engine logs no Begin, Commit or Abort: a caller
begins, writes, commits or aborts, retries what failed, and aborts when its commit
failed.

### QueryExecutor

`session[s]` is the executor of a session (`current`, `auto`) and the statement it
is at (`tx`, `stmt`, the rows still to do); `lock` is the mutex.  BEGIN, COMMIT,
ROLLBACK and CREATE TABLE are one step: they lock once.  A statement on rows is
`Start` (`begin_transaction`, which locks, begins and unlocks), then `Acquire`, one
`InsertRow` or `DeleteRow` per row with the engine's own steps behind it
(`EngineStep`), and `Finish`, which commits if the statement is on its own;
`ExecuteScan` only reads and is one step.  The engine's steps are those of
`StorageEngine`, taken by the session that has the lock; `ReturnError` is `?`
anywhere under the lock, `Panic` a panic there, `LockPanics` what a poisoned mutex
does to everybody else ("dead").  `catalog[s]` has the schemas session `s` has
created, which differ in their key columns; a statement runs with a schema of its
session, and two sessions may know one table by different ones.  A row is good, bad
(an error when it is encoded) or short (a panic).  What a SELECT or DELETE makes of a
stored row is its verdict on the value, which stands for the reader's columns and
filter: take it, skip it, an error or a panic.  What is in a row is the subject of
`SelectQuery`, and so is LIMIT, which is applied after the lock is given back.
CREATE TABLE by a second session empties the version chains in memory and leaves pages and
index, so `PageMirrorsMemory` of the engine, as it stands, is no invariant of the
composition; `Engine!TypeOK` is, and so are `PagesNotShared` and `IndexIsLogged`
(section 4).  `EngineDriven` says that the composition otherwise refines the
engine's specification.

### SelectQuery

One table, one session; `CreateTable` and `Insert` are the actions, a SELECT is the
operator `Answer`, built from the planner's and the executor's functions under
their names.  Integers have `IntBits` bits and wrap or panic depending on
`overflow_checks`, which `Init` chooses; a row is its bytes.  `RefAnswer` is the
reference: the rows the INSERTs meant, Kleene logic, exact arithmetic.
`Supported` says where the two must agree, and so what the executor can be relied
on for: no key columns; a Boolean only as the last column; INSERTs in schema
order; no alias; only selected columns in WHERE; no NULL, or none where `=`, `<>`,
NOT or arithmetic meets it; no overflow.  The module uses recursion and is for
TLC only.

### Server

`stream[c]` holds the pieces of requests on their way; a read returns any number of
them up to the buffer's size, and every read is answered.  `Reset` is a lost
connection, `Finish` a client that shuts down its side, `AcceptFails` the `?` in
`main` that ends the process.  `WriteFails` differs for the two responses: the
failed write of an Ok ends the task, that of an Error is ignored.

## 3. Runs

Passing runs:

| run | bounds | shows |
|---|---|---|
| `tx_concurrent` | 2 threads, 3 transactions, 2 ms | registry, active map, rejections, the refinement of `TxLifecycle`, and that `begin` returns, under all interleavings of `begin` |
| `tx_serial` | 1 thread, 4 transactions, 3 ms | snapshots cover earlier commits, and do not reach ahead |
| `engine_crash` | 2 rows, 3 transactions, 2 ms, 4 pages, 3 log records, 1 fault, 1 restart | pages, memory, index and log agree; old pages are frozen; until a write fails, answers change only through transactions the snapshot covers |
| `btree_insert` | `MaxKeys` 2, 3 keys, 7 inserts, 1 fault; misread keys behind all others, misread pointers to the first leaf or the first root | node limits; no parent pointer leads to a leaf, so the `unreachable!()` of `insert_into_parent` is not met; data pages and nodes apart; a key is searched for where it is, as long as no internal node is misread, the separators are real keys and no node has one twice; without faults, entries are lost only to misaligned pages |
| `wal_recovery` | 2 transactions, 12 pieces (4 records) before the last append, 1 fault, 1 crash | durability of acknowledged commits; all or nothing for every Commit that can be read |
| `sql_sessions` | 2 sessions, 1 table, which each session may create with or without key columns, 4 statements (CREATE TABLE and BEGIN count), 3 transactions, 1 fault, pages of 2 units, 3 INSERTs and 2 verdicts | sessions keep their own transactions; what is active is held or accounted for; the index has exactly the acknowledged rows; SELECT finds what its snapshot covers; the engine is used as it expects (`EngineDriven`); without deletes, the rows a running transaction finds change only through inserts its snapshot covers (`SelectsUndisturbed`); the mutex is given back |
| `sql_select` | 6 schemas, 2 rows, 2-bit integers, about 100 queries asked in every state | keys identify rows; the decoders agree and are right up to the first Boolean; panics have one of four causes; inside `Supported` the answer is the reference's |
| `server_stream` | 2 clients, 2 requests each, 2 pieces per request, a buffer of 3 | Ok responses are right, single and in order; with a request per read every answer is at the place of its request; data is read and tasks end |

Why the bounds are enough for the cases that matter.  Three transactions are the
least with which one can overtake another while a third relies on both; two
milliseconds give equal and different timestamps.  In `engine_crash` these are a
writer before, a writer after and a reader.  Pages of two units overflow in two
steps; the same for the root.  With `MaxKeys` 2 and
seven inserts leaves and internal nodes split and the root grows twice; the code
has `MAX_KEYS` 128, and but for one thing the number only says how soon a node
splits: with two a node never has the same separator twice.  There `Routed` does not
apply (section 5); the theorems of section 4 hold for every `MaxKeys`.
Two log transactions interleave their records; a torn piece, a lost tail and a
failed sync are all reached.  In `btree_insert` one fault is enough to leave any
prefix of the writes of a cascade behind, and pages 1 and 6 are a leaf and an internal
node (the root before it splits).  Two sessions and four statements let one session
run between the two locks of another, in a transaction and outside, and panic
before or after it; four are two CREATE TABLEs, an INSERT and a SELECT.  Two bits are the least with a sign, an overflow and a number
that cannot be negated; `MCSelectQuery` lists schemas with a Boolean in every
place that matters.  A buffer of one and a half requests returns half of one, one,
and one and a half.  `CHECK_DEADLOCK FALSE` is set where the behaviours
end because a bound is used up or nobody has to call anything.

Symmetry is used for the row keys in `engine_crash`, whose properties are
invariants and action properties.  Its VIEW leaves out `fate`, a history variable
that no guard reads, and of these properties only `TypeOK`, for its type; that of
`sql_sessions` leaves out `fate` and the log, whose bound is out of reach there.

Fairness: `tx_concurrent` assumes weak fairness of the steps of `begin` after the
first.  They wait only for locks that other threads hold within one step, so a
thread that the scheduler runs makes progress.  No caller has to begin, commit
or abort.  `sql_sessions` assumes it of the steps of the session that holds the
mutex, which waits for nobody; a session that waits for the mutex is promised
nothing.  `server_stream` assumes it of each connection's task: tokio runs tasks
that can go on, and a client takes its answers.  No client has to send or leave,
and no connection has to be accepted.  The safety properties need none of this.

Runs that must find a violation state what a comment or a document says and the
code does not do; each is a finding in `PROJECT.json`:

| run | the text | what happens |
|---|---|---|
| `engine_dirty_read` | roadmap.md:80 | uncommitted and aborted rows are read |
| `btree_found` | btree.rs:545 | entries vanish at the first root split |
| `wal_replay_refused` | wal.rs:5 | nothing fails, and replay refuses the log with its committed transaction: the version is read from the wrong bytes (wal.rs:239) |
| `sql_full_scan` | executor/mod.rs:153 | SELECT on a table with a primary key finds no row |

## 4. Proofs

Eight modules hold theorems; all leaves are checked by `tlapm`.  They hold for all
sets of threads, sessions, keys, clients and so on, and for all values of the
bounds, under the `ASSUME` of each module, which TLC evaluates in the runs.  The
assumptions give the constants their types and say that `None` is not a value of
any other kind; `BTree` also needs `MAX_KEYS` to be at least two (with one, the
right half of a split internal node would have no key).  Three theorems have a
hypothesis of their own: `SnapshotCorrect` and `SnapshotBehind` one thread, and
`RoutedCorrect` that the keys of misread pages can be told from real ones; the runs
satisfy them.

| module | inductive invariant | proved, as `Spec => []P` or `Spec => P` |
|---|---|---|
| `TransactionManagerProofs` | `IInv`; for one thread also `SerialInv` | `TypeOK`, `HandlesMatchRegistry`, `ActiveUntilDecided`, `RejectedOnlyIfDecided`, the refinement `ImplementsLifecycle`; for one thread `SeesEarlierCommits`, `SnapshotNotAhead` |
| `StorageEngineProofs` | `IInv` | `TypeOK`, `PagesNotShared`, `PageMirrorsMemory`, `IndexIsLogged`; the action properties `OldPagesFrozen`, `LaterWritersInvisible` |
| `QueryExecutorProofs` | `SqlInv` | `TypeOK`, `SessionsOwnTransactions`, `ActiveAccounted`, `EngineDriven`; the engine's `PagesNotShared` and `IndexIsLogged` |
| `StatementProofs` | `SqlInv` with `Accounts`, `Registered` | `StatementsAtomic`, `AckedRowsSelected` |
| `WalProofs` | `WInv`; then `CInv` | `TypeOK`, `CommitDurable`, `CommitAtomic` |
| `BTreeProofs` | `BInv`, then `TInv`, then `CInv` and `OInv` | `TypeOK`, `NoPanic`, `DataPagesKept`, `EntriesKept`, `Routed` |
| `ServerProofs` | `IInv` | `TypeOK`, `OksInOrder`, `AlignedAnswered` |

**Transaction manager.**  That a slot stays owned needs that no other thread works
with the same number.  `IInv` adds `Numbered` (a number fetched is below the
counter and in the hands of one thread or one transaction), `Stamped` (an id
carries the number it was made for), `SlotsWritten` (what a slot
holds), and `HandlesNumbered`.  Each action preserves each conjunct; the
refinement follows from `IInv` and its primed copy.  For one thread
`SerialInv` adds that the registry is ordered by time and gapless below the call
in progress (with two threads `SeesEarlierCommits` is false: section 5).

**Storage engine.**  The properties speak of what is finished; a step of an insert
or a delete builds on what an earlier step of it left.  `Core` therefore says of
an insert in progress that its page has the chain as it is in memory and no index
entry names it yet (`PendingPage`), and that its log record is the last one when
the index is next (`PendingLogged`).  Beside it stand: the registry is in the order
of time and a snapshot is the slot before (`Ordered`); tombstones are on pages of
this run only, and by transactions of this run (`Tombstones`); indexed pages are
never empty (`Occupied`); and until a write fails, what memory has and the index
lacks is the row being inserted or came when the root was full (`Unindexed`).  The
last is why the snapshot theorem holds only until then.  `PageMirrorsMemory`, with
`PendingLonger` for the insert in progress, is kept apart from `Core`, because
CREATE TABLE breaks it; `Core` is what the SQL level reuses.  `SnapshotReads`
compares the answers of `get` before and after a step: a first page, or a new
tombstone, of a writer outside the snapshot leaves the newest visible version the
same.

**SQL sessions.**  `SqlInv` has the engine's `Core` as a conjunct and says who may
use the engine: exactly the session that has the lock is running a statement, and
without one the engine is idle (`Locking`); flag, current transaction and the
statement's transaction of an executor agree (`Sessions`); every active
transaction has one owner, a session or nobody any more (`Owned`).
From this follows `EngineDriven`: every step of a session is a step of `StorageEngine`,
or CREATE TABLE between two operations, or leaves the engine alone.  Then the
lemmas of `StorageEngineProofs` apply (`P == INSTANCE StorageEngineProofs`): each
engine step preserves `Core`, and CREATE TABLE, which only empties chains in
memory, does too.  So the engine's invariants are not proved again for the
composition.

**Statements.**  `StatementsAtomic` counts index entries against acknowledged rows
when nobody has the mutex; in the middle of a statement the two differ.  `Accounts`
keeps the balance of the statement that has it: entries in the index, the row that
has its page and not yet its entry, and the rows still to come add up to what was
acknowledged before and what the statement lists; after a failure there can only be
more.  For `AckedRowsSelected`, `Registered` says that the newest version on every
indexed page is by a transaction of the registry, in its place.  The scan then finds
at least one version per index entry of the empty key, and the entries are at least
as many as the rows acknowledged under it, whichever schema put them there.

**Log.**  The sync that acknowledges a Commit makes a promise about
records that earlier calls wrote and nobody synced.  `WInv` follows
every record from the call of `append` on: it was asked for in a state in which its
caller may ask for it (`PendingAllowed`), its pieces so far are the end of the file
(`PendingPieces`), acknowledged records of transactions that are still alive are
whole in the file at the place the history says (`InFile`), in order (`InOrder`),
after their Begin (`Begun`), and every other whole record is the Commit that waits
for its sync (`Accounted`).  A crash cuts the file and ends the transactions it
takes the caller from.

`CommitAtomic` speaks of every Commit record that is whole in the file, also of one
whose sync failed or whose caller a crash took away, when `WInv` no longer says
anything about its transaction.  `CInv` therefore catches it at the first piece: then
the transaction is still open, so by `WInv` all that was acknowledged for it is whole
in front (`Ahead`) and nothing else is (`Told`).  From then on its caller asks for
nothing but an Abort (`Over`, `Last`), and a crash that cuts the file cuts the Commit
before what stands in front of it.

**B+tree.**  A cascade of splits follows parent pointers that an earlier insert
wrote, perhaps just before a write that failed, or on a page that `set_parent`
misaligned.  Of `next`, and of the children of a node that was misread, nothing can
be said: they lead anywhere.  `BInv` says of the others where they lead (`Links`): a
parent is never a leaf, which is `NoPanic`; a child of a node without a parent, and
so of one that was not misread, is never a data page nor behind the end of the file.
The delicate case is a pointer to the page that a failed insert was going to write:
it points to the end of the file, which is allowed only between inserts (`LeadsTo`),
because the engine puts a data page there before the tree allocates anything.  On
the way up the two halves have the same parent (`Ascending`), which is why both get
the new root.

What the tree as a whole has in it rests on its shape, `TInv`, which holds until
`new_root` splits an internal root and misaligns its two halves so that they can
still be read (`Misread`, which stays true from then on: `MisreadStays`).  Until then
the root is a leaf, or an internal node over leaves and unreadable pages, or
unreadable itself.  With a misread node the children of the tree are whatever bytes
were read, and the theorems on its contents promise nothing.  `CInv` says where each
acknowledged entry is after every write: below the root, below the right half that
waits for its parent, or on a misaligned page.  `OInv` is the order: the keys of a
leaf lie between the separators to its left and right, the right one only as long as
all separators up to it are keys that were inserted and different (`Clean`,
`Bounded`).  Without this proviso it is not an invariant, and the attempt to prove it
showed why: `insert_into_parent` places a leaf by its separator, and when that is
there already, at the wrong end of the equal ones (section 5).  The
hypothesis of `RoutedCorrect` is needed because a misread key that equals an inserted
one would count as an entry where it is read.

**Server.**  What has to hold of a connection is stated of values (requests sent,
pieces in the stream, answers), so that a step is a lemma about sequences: the
stream is in the order of the requests (`StreamOrdered`), an Ok is later than the
Oks before it and earlier than everything still in the stream (`OksPlaced`), and
while reads return whole requests the stream holds exactly the requests behind
the last answer (`AnswersPlaced`, `StreamPlaced`).

**Induction.**  The library's induction theorems have an operator as parameter, which
the provers cannot instantiate.  `Induction` therefore states induction with sets of
numbers, from the well-foundedness of `<`, and derives what the recursive functions
of the models compute: concatenation (`FlattenSeq`) and iteration.  For `Below` and
`FindLeaf` the proof module shows that the function exists and what it is.

Only model-checked:

* liveness, which needs fairness and `ENABLED`: `BeginReturns`, `LockReleased`,
  `ConnectionsServed`;
* all of `SelectQuery`: its evaluators are RECURSIVE operators over expressions,
  which the provers cannot unfold.

## 5. Not modelled, and seen while modelling

Not modelled:

* The deterministic JavaScript runtime.  Its modules are private to the crate and
  nothing calls them; creating an environment runs the prelude `apis.js`, which
  calls `__logToWal`, a function nobody defines, so it fails and no further state is
  reachable.  The rest of its behaviour is that of the JavaScript engine.
* The parser beyond the expressions it can build: it translates the tree of the
  `sqlparser` crate field by field and keeps no state.  Two of its results matter to
  the models.  `if_not_exists` is always false (parser/mod.rs:128), so the other
  branch of CREATE TABLE is reached through the plan only.  And a DELETE written
  in SQL leaves the list of tables it looks at empty (parser/mod.rs:72-80), so it
  is a parse error; `execute_delete` too is reached through a plan.
* The command line, which is terminal I/O over one session; the error types; the
  byte layout and checksum of a page, hence torn page writes (a page is written as a
  whole or not at all); logging and printing.
* `execute_limit`, in `QueryExecutor`: it works on the rows after the lock is given
  back, and is in `SelectQuery`.
* Code nobody calls: `MvccTable::read` and `delete`, `free_page`,
  `get_table_entry`, methods of `WalWriter`, `Value::compare` and what uses it, LIKE
  in the evaluator, Project plans, `timestamp.rs`.

Facts of the code that the models contain, or leave out as said, and that need no
state exploration to see:

* `WalReader::open` reads the version from bytes 6 and 7 of the header instead
  of 7 and 8 (wal.rs:239), gets 332 and refuses every log (`Accepts`, and the run
  `wal_replay_refused`).  Behind this check wait four more, which no run can show as
  long as it refuses everything: a record that a crash has torn makes `read_next`
  fail, and the whole replay with it (wal.rs:263, 273, 277); `serialize_record` writes
  ids with `to_bytes_le`, `deserialize_record` reads them as they are (wal.rs:305,
  364), so that replayed ids are not the logged ones; `open` completes no header that
  a crash cut short (wal.rs:165); and `replay_wal` collects `aborted` and does not use
  it (wal.rs:442), so that an Abort logged after a Commit whose sync failed does not
  keep the transaction from being replayed, against wal.rs:36.
* `StorageEngine::commit` writes no Commit record and its `flush` syncs nothing
  (engine.rs:51); a restart replays nothing (engine.rs:31-41).
* The data page is written before the log record (engine.rs:89-93), and `delete`
  logs the row key without its table (engine.rs:156).
* A second insert of a key adds an index entry that `get` never reaches
  (btree.rs:805, 553).
* A snapshot is the transaction begun before, committed or not (mvcc.rs:150).
* `write_parent` also overwrites the `next` pointer of the left leaf at the first
  root split (btree.rs:511): a range scan stops there.  A leaf that is misread can
  have a `next` made of the bytes of a key (269-275); when it names an internal node,
  `range` meets its `unreachable!()` (583).  `NoPanic` speaks of the other one, in
  `insert_into_parent` (681), only.  Misread keys can become separators; `Routed` is
  stated for trees where none has, no internal node is misread, and no node has a
  separator twice.
* `insert_into_parent` places a new leaf by its separator (btree.rs:685).  When two
  leaves are split at the same key, the second new leaf comes to stand behind the
  first, which has the greater keys, and `find_leaf` for one of those ends in a leaf
  without it, against btree.rs:578 ("Find first leaf containing 'start'").  With
  three keys to a node, separators 2, 2, 4 over the leaves (1 1), (2 3), (2 2), ...
  take eight inserts: key 3 is looked for in (2 2).
* Since every split of an internal root misaligns its two halves, what the tree has
  below such a root is misread or not read at all.
* Two threads in `begin`: the predecessor's slot is looked up (mvcc.rs:150) before
  a slower thread has written it, and a snapshot can then miss a commit made
  earlier, against mvcc.rs:130.  Behind the executor's mutex this cannot happen.
* `range_scan` asks only for a version without a tombstone of its own
  (engine.rs:190), so a row deleted by a later transaction is gone from an older
  scan; roadmap.md:80 excludes non-repeatable reads.  It also takes the newest
  version it may see once per index entry (engine.rs:189-195): a later INSERT of the
  same key makes an earlier reader's SELECT return an old row once more.
  `SelectsUndisturbed` compares the rows found as sets, and is stated without deletes.
* Two sessions can create one table with and without key columns
  (planner/mod.rs:121-131).  Rows of the one with keys are not in the scan of the
  other, which is of the empty key.
* After a failed insert the version stays in memory, and the next insert of the
  key writes it to its page (engine.rs:89).
* Rows of a table without key columns all have the empty key, and every insert
  writes the whole chain to a new page: SELECT can return a row more than once, and
  `AckedRowsSelected` says "at least".  DELETE without WHERE, which "deletes all
  rows" (executor/mod.rs:263), marks the page of the first index entry only.
* A transaction sees its own writes only if its snapshot has its own millisecond.
* A failed statement of several rows leaves those before the failure, and outside a
  transaction its transaction stays active for good; so does that of every SELECT
  (executor/mod.rs:150).  A row shorter than the first panics with the mutex held
  (413).
* INSERT stores values in the order of its column list (executor/mod.rs:398),
  SELECT reads them in the order of the schema.  Columns behind a Boolean are
  misread (488).  `=`, `<>` and NOT do not propagate NULL, though 632 says so of
  comparisons.  An alias replaces the column's name before the row is looked up;
  WHERE sees the selected columns only.  A LIMIT that is no integer literal is
  taken for the largest usize, and overflows with an OFFSET (229).
* An error response has a fresh id, while protocol.md:233 has each error correspond
  to one request by its id.  A request larger than the buffer is never parsed.  One
  failing `accept` ends the server.

## 6. Plan

The components that keep state are modelled, and their safety properties are proved
but for `SelectQuery`.  What is left:

1. Proofs about `SelectQuery`, which would need its evaluators written as recursive
   functions over bounded expressions.
2. The byte format of a page with its checksum, and torn page writes with it.
3. The runtime and the database behind the server, once the code connects them.
