----------------------------- MODULE StorageEngine -----------------------------
(***************************************************************************)
(* sabi-storage/src/engine.rs: the versioned rows in memory, the data      *)
(* pages, the primary index and the write-ahead log, driven by any number  *)
(* of callers.  Every caller goes through one Mutex<StorageEngine>, so     *)
(* operations do not overlap; but an operation writes to the page file and *)
(* to the log in several steps, and any of these can fail (the `?' in the  *)
(* code returns at once and undoes nothing) or be the last one before the  *)
(* process dies.  An operation in progress is therefore state (`op').      *)
(*                                                                         *)
(* A page is written by one call and then synced: a write that fails       *)
(* leaves the page as it was, or, when only the sync failed, the new one.  *)
(*                                                                         *)
(* Abstractions.  The index is one leaf, the root written by BTree::new,   *)
(* with the entries of equal keys in the order in which insert_sorted puts *)
(* them.  A leaf is split when it has more than MAX_KEYS = 128 entries and *)
(* not before, so that the module speaks of keys long enough for IndexCap  *)
(* entries, at most 128, to fill the page: the next insert is then refused *)
(* (write_page).  What a split does is the subject of the module BTree.  A *)
(* page holds what deserialize_mvcc_data reads back from it.  A version    *)
(* takes one unit of a page and a tombstone another; page ids count from   *)
(* 1.  The log is its sequence of records; a record is not synced, so that *)
(* one that fails is not in it.  Transaction ids are those of              *)
(* TransactionManager, where begin is taken apart; here it is one step.    *)
(* commit and abort of a transaction that is not active, delete of a key   *)
(* that is not in the index, and delete when the tombstone no longer fits  *)
(* in the page return an error and change nothing, so they are no actions. *)
(***************************************************************************)
EXTENDS Integers, Sequences, SequencesExt, FiniteSetsExt

CONSTANTS
    Table, Key,     \* table names and row keys
    Value,          \* row values
    None,           \* Option::None
    PageCap,        \* units that fit in a data page
    IndexCap,       \* entries that fit in the root leaf page
    MaxTx,          \* bound: transactions begun
    MaxTime,        \* bound: milliseconds
    MaxPages,       \* bound: pages in the file
    MaxLog,         \* bound: log records
    MaxChain,       \* bound: versions of a row in memory
    MaxFaults,      \* bound: I/O errors
    MaxCrashes      \* bound: crashes

TxId == [ts : 0..MaxTime, n : 0..MaxTx]
Version == [created_by : TxId, deleted_by : TxId \cup {None}, value : Value]
Transaction == [tx_id : TxId, snapshot_tx : TxId, tx_number : Nat]

ASSUME EngineAssumption ==
    /\ {PageCap, IndexCap, MaxTx, MaxTime, MaxPages, MaxLog, MaxChain}
          \subseteq Nat \ {0}
    /\ {MaxFaults, MaxCrashes} \subseteq Nat
    /\ IndexCap =< 128      \* btree.rs MAX_KEYS
    /\ None \notin TxId \cup Value \cup Version

Nil == [ts |-> 0, n |-> 0]

\* create_composite_key: the key of the index is the table and the row key.
Row == Table \X Key

VARIABLES
    clock, registry, active,    \* tx_manager
    tables,                     \* tables[r]: version chain in memory, newest first
    pages,                      \* the page file
    root, index,                \* primary_index: page of the root leaf, its entries
    wal,                        \* records in the log file
    walSynced,                  \* how many of them are known to be on disk
    op,                         \* the operation in progress
    fate,                       \* history: what became of transaction id n
    minted,                     \* history: ids handed out
    faults, crashes             \* counters for the bounds

txVars == <<clock, registry, active, fate, minted>>
vars == <<txVars, tables, pages, root, index, wal, walSynced, op, faults, crashes>>

\* A page: the root leaf, whose entries are `index', or the versions of a row.
LeafPage == [kind |-> "leaf", versions |-> <<>>]
DataPage(vs) == [kind |-> "data", versions |-> vs]

NoOp == [kind |-> "none"]
Idle == op = NoOp

Put(r, p, id) == [kind |-> "put", key |-> r, page |-> p, tx |-> id]
Del(k, id) == [kind |-> "delete", key |-> k, tx |-> id]

EmptyRows == [r \in Row |-> <<>>]

------------------------------------------------------------------------------
(* Visibility, mvcc.rs is_visible                                          *)

\* Mutation: a tombstone hides the version from everyone.
IsVisible_AnyTombstone(v, tx) ==
    /\ v.created_by.ts =< tx.snapshot_tx.ts
    /\ v.deleted_by = None

\* Mutation: what was created later is visible.
IsVisible_AnyCreator(v, tx) ==
    v.deleted_by = None \/ v.deleted_by.ts > tx.snapshot_tx.ts

IsVisible(v, tx) ==
    /\ v.created_by.ts =< tx.snapshot_tx.ts
    /\ v.deleted_by = None \/ v.deleted_by.ts > tx.snapshot_tx.ts

\* The index of the first version the transaction sees, 0 if there is none.
FirstVisible(vs, tx) ==
    LET seen == {i \in DOMAIN vs : IsVisible(vs[i], tx)}
    IN  IF seen = {} THEN 0 ELSE Min(seen)

\* BTree::get finds the entry inserted first.
PageOf(r) == Head(index[r])

\* StorageEngine::get, with the version for its value.
Get(r, tx) ==
    LET vs == IF index[r] = <<>> THEN <<>> ELSE pages[PageOf(r)].versions
        i == FirstVisible(vs, tx)
    IN  IF i = 0 THEN None ELSE vs[i]

\* range_scan over one row: a result for every index entry of the row whose
\* page has a version that is visible and carries no tombstone.
ScanPage(p, tx) ==
    LET vs == pages[p].versions
        live == {i \in DOMAIN vs : IsVisible(vs[i], tx) /\ vs[i].deleted_by = None}
    IN  IF live = {} THEN <<>> ELSE <<vs[Min(live)]>>

\* Mutation: one result for a row key.
RangeScan_OnePerKey(r, tx) ==
    IF index[r] = <<>> THEN <<>> ELSE ScanPage(Last(index[r]), tx)

RangeScan(r, tx) == FlattenSeq([i \in DOMAIN index[r] |-> ScanPage(index[r][i], tx)])

\* serialize_versions and write_page: does the payload fit in a page?
Fits(vs) ==
    Len(vs) + Cardinality({i \in DOMAIN vs : vs[i].deleted_by # None}) =< PageCap

------------------------------------------------------------------------------
(* Transactions                                                            *)

\* StorageEngine::new on empty files.
Init ==
    /\ clock = 1 /\ registry = <<>> /\ active = {}
    /\ fate = [n \in 1..MaxTx |-> "open"] /\ minted = 0
    /\ tables = EmptyRows
    /\ pages = <<LeafPage>> /\ root = 1 /\ index = EmptyRows
    /\ wal = <<>> /\ walSynced = 0
    /\ op = NoOp
    /\ faults = 0 /\ crashes = 0

\* Mutation: no default for the first snapshot.
Begin_NoDefault ==
    /\ Idle /\ minted < MaxTx
    /\ \E ms \in clock..MaxTime :
          LET id == [ts |-> ms, n |-> minted + 1]
              tx == [tx_id |-> id,
                     snapshot_tx |-> IF registry = <<>> THEN None ELSE Last(registry),
                     tx_number |-> Len(registry) + 1]
          IN  /\ clock' = ms
              /\ registry' = Append(registry, id)
              /\ active' = active \cup {tx}
    /\ minted' = minted + 1
    /\ UNCHANGED <<fate, tables, pages, root, index, wal, walSynced, op,
                   faults, crashes>>

Begin ==
    /\ Idle /\ minted < MaxTx
    /\ \E ms \in clock..MaxTime :
          LET id == [ts |-> ms, n |-> minted + 1]
              tx == [tx_id |-> id,
                     snapshot_tx |-> IF registry = <<>> THEN Nil ELSE Last(registry),
                     tx_number |-> Len(registry) + 1]
          IN  /\ clock' = ms
              /\ registry' = Append(registry, id)
              /\ active' = active \cup {tx}
    /\ minted' = minted + 1
    /\ UNCHANGED <<fate, tables, pages, root, index, wal, walSynced, op,
                   faults, crashes>>

Decide(tx, outcome) ==
    /\ Idle
    /\ active' = active \ {tx}
    /\ fate' = [fate EXCEPT ![tx.tx_id.n] = outcome]
    /\ UNCHANGED <<clock, registry, minted, tables, pages, root, index, wal,
                   walSynced, op, faults, crashes>>

\* File::flush, all that WalWriter::flush calls, does nothing: commit neither
\* writes a record nor syncs the log.
Commit(tx) == Decide(tx, "committed")

\* abort takes nothing back.
Abort(tx) == Decide(tx, "aborted")

------------------------------------------------------------------------------
(* insert                                                                  *)

\* MvccTable::insert: the new version goes before the others.
WithVersion(chain, val, tx) ==
    <<[created_by |-> tx.tx_id, deleted_by |-> None, value |-> val]>> \o chain

\* Steps 1 to 3: the page id is the length of the file, the version goes to
\* the chain in memory, and the chain to the page.  If it does not fit, or the
\* write fails, insert returns and the version stays in memory, and possibly in
\* a page that no index entry names.
WriteRow(p, r, val, tx) ==
    LET chain == WithVersion(tables[r], val, tx)
        written == IF p > Len(pages) THEN Append(pages, DataPage(chain))
                   ELSE [pages EXCEPT ![p] = DataPage(chain)]
    IN  /\ Idle /\ Len(pages) < MaxPages /\ Len(tables[r]) < MaxChain
        /\ tables' = [tables EXCEPT ![r] = chain]
        /\ \/ /\ Fits(chain)
              /\ pages' = written
              /\ op' = [kind |-> "insert_log", row |-> r, tx |-> tx, page |-> p]
              /\ UNCHANGED faults
           \/ /\ ~Fits(chain)
              /\ UNCHANGED <<pages, op, faults>>
           \/ /\ Fits(chain) /\ faults < MaxFaults
              /\ pages' \in {pages, written}
              /\ faults' = faults + 1
              /\ UNCHANGED op
        /\ UNCHANGED <<txVars, root, index, wal, walSynced, crashes>>

\* Mutation: allocate_page is off by one.
InsertPage_LastPage(r, val, tx) == WriteRow(Len(pages), r, val, tx)

\* Mutation: what is before the root is taken for free.
InsertPage_Recycles(r, val, tx) ==
    WriteRow(IF root > 1 THEN root - 1 ELSE Len(pages) + 1, r, val, tx)

\* allocate_page: the length of the file.
InsertPage(r, val, tx) == WriteRow(Len(pages) + 1, r, val, tx)

\* Mutation: the log record is forgotten.
InsertLog_Forgotten ==
    /\ op.kind = "insert_log" /\ Len(wal) < MaxLog
    /\ op' = [op EXCEPT !.kind = "insert_index"]
    /\ UNCHANGED <<txVars, tables, pages, root, index, wal, walSynced, faults, crashes>>

\* BTree::insert logs first.
InsertLog ==
    /\ op.kind = "insert_log" /\ Len(wal) < MaxLog
    /\ \/ /\ wal' = Append(wal, Put(op.row, op.page, op.tx.tx_id))
          /\ op' = [op EXCEPT !.kind = "insert_index"]
          /\ UNCHANGED faults
       \/ /\ faults < MaxFaults
          /\ faults' = faults + 1
          /\ op' = NoOp
          /\ UNCHANGED wal
    /\ UNCHANGED <<txVars, tables, pages, root, index, walSynced, crashes>>

RootFull == SumFunctionOnSet([r \in Row |-> Len(index[r])], Row) >= IndexCap

\* The entry goes behind those of an equal key; a leaf that no longer fits in
\* its page is not written.  After an error the entry may be there all the same.
InsertIndex ==
    /\ op.kind = "insert_index"
    /\ \/ /\ ~RootFull
          /\ index' = [index EXCEPT ![op.row] = Append(@, op.page)]
          /\ UNCHANGED faults
       \/ /\ RootFull
          /\ UNCHANGED <<index, faults>>
       \/ /\ ~RootFull /\ faults < MaxFaults
          /\ index' \in {index, [index EXCEPT ![op.row] = Append(@, op.page)]}
          /\ faults' = faults + 1
    /\ op' = NoOp
    /\ UNCHANGED <<txVars, tables, pages, root, wal, walSynced, crashes>>

------------------------------------------------------------------------------
(* delete                                                                  *)

\* Mutation: the version is taken out of the chain.
Tombstoned_Removed(vs, tx) ==
    IF FirstVisible(vs, tx) = 0 THEN vs ELSE RemoveAt(vs, FirstVisible(vs, tx))

\* The versions with the first visible one marked, if there is one.
Tombstoned(vs, tx) ==
    [i \in DOMAIN vs |->
        IF i = FirstVisible(vs, tx) THEN [vs[i] EXCEPT !.deleted_by = tx.tx_id]
        ELSE vs[i]]

\* Steps 1 to 4: the page is rewritten, the chain in memory is not touched.
\* After an error the tombstone may be there all the same.
DeletePage(r, tx) ==
    /\ Idle /\ index[r] # <<>>
    /\ LET vs == Tombstoned(pages[PageOf(r)].versions, tx)
           written == [pages EXCEPT ![PageOf(r)] = DataPage(vs)]
       IN  /\ Fits(vs)
           /\ \/ /\ pages' = written
                 /\ op' = [kind |-> "delete_log", row |-> r, tx |-> tx]
                 /\ UNCHANGED faults
              \/ /\ faults < MaxFaults
                 /\ pages' \in {pages, written}
                 /\ faults' = faults + 1
                 /\ UNCHANGED op
    /\ UNCHANGED <<txVars, tables, root, index, wal, walSynced, crashes>>

\* Step 5 logs the row key, not the composite key.
DeleteLog ==
    /\ op.kind = "delete_log" /\ Len(wal) < MaxLog
    /\ \/ /\ wal' = Append(wal, Del(op.row[2], op.tx.tx_id))
          /\ UNCHANGED faults
       \/ /\ faults < MaxFaults
          /\ faults' = faults + 1
          /\ UNCHANGED wal
    /\ op' = NoOp
    /\ UNCHANGED <<txVars, tables, pages, root, index, walSynced, crashes>>

------------------------------------------------------------------------------
(* The process dies, at any point, and is started again: the files are     *)
(* opened and StorageEngine::new builds an empty index in a new page.      *)
(* Pages are synced when written; of the log, any part that was not synced *)
(* may be lost.                                                            *)

Restart ==
    /\ crashes < MaxCrashes /\ Len(pages) < MaxPages
    /\ crashes' = crashes + 1
    /\ \E k \in walSynced..Len(wal) : wal' = SubSeq(wal, 1, k) /\ walSynced' = k
    /\ pages' = Append(pages, LeafPage)
    /\ root' = Len(pages) + 1
    /\ index' = EmptyRows /\ tables' = EmptyRows
    /\ registry' = <<>> /\ active' = {}
    /\ op' = NoOp
    /\ UNCHANGED <<clock, fate, minted, faults>>

\* The engine does not check that a transaction it is given is active; the SQL
\* executor hands it only transactions it has not yet committed or rolled back.
Next ==
    \/ Begin
    \/ \E tx \in active :
          \/ Commit(tx)
          \/ Abort(tx)
          \/ \E r \in Row : DeletePage(r, tx) \/ \E val \in Value : InsertPage(r, val, tx)
    \/ InsertLog
    \/ InsertIndex
    \/ DeleteLog
    \/ Restart

Spec == Init /\ [][Next]_vars

------------------------------------------------------------------------------
(* Properties                                                              *)

OpType ==
    [kind : {"none"}]
      \cup [kind : {"insert_log", "insert_index"}, row : Row, tx : Transaction,
            page : 1..MaxPages]
      \cup [kind : {"delete_log"}, row : Row, tx : Transaction]

LogRecord ==
    [kind : {"put"}, key : Row, page : 1..MaxPages, tx : TxId]
      \cup [kind : {"delete"}, key : Key, tx : TxId]

\* Type invariant.  No page holds more than fits.
TypeOK ==
    /\ clock \in 1..MaxTime /\ minted \in 0..MaxTx
    /\ registry \in Seq(TxId) /\ active \subseteq Transaction
    /\ fate \in [1..MaxTx -> {"open", "committed", "aborted"}]
    /\ tables \in [Row -> Seq(Version)]
    /\ pages \in Seq([kind : {"leaf", "data"}, versions : Seq(Version)])
    /\ Len(pages) =< MaxPages /\ \A p \in DOMAIN pages : Fits(pages[p].versions)
    /\ root \in 1..Len(pages)
    /\ index \in [Row -> Seq(1..MaxPages)]
    /\ wal \in Seq(LogRecord) /\ walSynced \in 0..Len(wal) /\ Len(wal) =< MaxLog
    /\ op \in OpType
    /\ faults \in 0..MaxFaults /\ crashes \in 0..MaxCrashes

\* A page belongs to one index entry of one row, is a data page, and was
\* allocated after the root of this run: neither a failed insert nor a crash
\* makes two rows, or a row and the index itself, share a page.
PagesNotShared ==
    \A r, s \in Row : \A i \in DOMAIN index[r], j \in DOMAIN index[s] :
        /\ index[r][i] = index[s][j] => r = s /\ i = j
        /\ index[r][i] \in (root + 1)..Len(pages)
        /\ pages[index[r][i]].kind = "data"

\* vs is the older end of the chain, apart from the tombstones.
Mirrors(vs, chain) ==
    /\ Len(vs) \in 1..Len(chain)
    /\ \A i \in 1..Len(vs) :
          LET v == chain[Len(chain) - Len(vs) + i]
          IN  vs[i].created_by = v.created_by /\ vs[i].value = v.value

\* Whatever was deleted, and whichever inserts failed half-way, a page the
\* index points to holds the chain of its own row as it was in memory when the
\* page was written; pages of later entries hold longer chains.
PageMirrorsMemory ==
    \A r \in Row : \A i \in DOMAIN index[r] :
        /\ Mirrors(pages[index[r][i]].versions, tables[r])
        /\ \A j \in DOMAIN index[r] :
              i < j => Len(pages[index[r][i]].versions) < Len(pages[index[r][j]].versions)

\* wal[j] is the record of index entry i of row r.
LogsEntry(j, r, i) ==
    /\ wal[j].kind = "put" /\ wal[j].key = r /\ wal[j].page = index[r][i]
    /\ wal[j].tx = pages[index[r][i]].versions[1].created_by

\* Write-ahead for the index: every entry has its Put record in the log, naming
\* the transaction that wrote the page, and the records of a row are in the
\* order of its entries (btree.rs 605).
IndexIsLogged ==
    \A r \in Row : \A i, k \in DOMAIN index[r] : i =< k =>
        \E j, l \in DOMAIN wal :
            /\ LogsEntry(j, r, i) /\ LogsEntry(l, r, k)
            /\ i < k => j < l

\* What get finds: the version without its tombstone.
Seen(r, tx) ==
    LET v == Get(r, tx)
    IN  IF v = None THEN None ELSE [created_by |-> v.created_by, value |-> v.value]

\* The transaction whose insert or delete changes the answers in this step.
Writer == IF op.kind = "insert_index" THEN op.tx ELSE op'.tx

\* Snapshot reads: what get answers to a running transaction changes only by
\* the hand of a transaction its snapshot covers.  A transaction with a later
\* id neither shows it a row, nor hides one, nor revives one.  That is so until
\* a write fails: the version an insert then leaves in memory (engine 81) goes
\* to the page of the next insert of the key, whoever makes it.
LaterWritersInvisible ==
    [][\A tx \in active \cap active' : \A r \in Row :
          faults' = 0 /\ Seen(r, tx)' # Seen(r, tx) =>
              Writer.tx_id.ts =< tx.snapshot_tx.ts]_vars

\* The pages of an earlier run of the process are never written again.
OldPagesFrozen == [][\A p \in 1..(root - 1) : pages'[p] = pages[p]]_vars

------------------------------------------------------------------------------
(* What comments and documents say and the engine does not do              *)

\* roadmap.md:80 asks for "No dirty or non-repeatable reads": get answers with
\* committed data only (or with the reader's own).
NoDirtyRead ==
    \A tx \in active : \A r \in Row :
        Seen(r, tx) # None =>
            \/ Seen(r, tx).created_by = tx.tx_id
            \/ fate[Seen(r, tx).created_by.n] = "committed"

==============================================================================
