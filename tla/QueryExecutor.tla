---------------------------- MODULE QueryExecutor ----------------------------
(***************************************************************************)
(* sabi-sql/src/executor/mod.rs and the catalog of planner/mod.rs: SQL     *)
(* sessions, each with its own QueryPlanner and QueryExecutor, on one      *)
(* Arc<Mutex<StorageEngine>>.  The engine is the module StorageEngine; its *)
(* steps are taken here by the session that holds the mutex.               *)
(*                                                                         *)
(* A statement outside a transaction takes the mutex twice: begin_         *)
(* transaction locks, begins and unlocks, then the statement locks again   *)
(* and keeps the lock until it returns.  A thread that panics with the     *)
(* lock poisons it, and every later lock().unwrap() panics too: such a     *)
(* session is "dead".                                                      *)
(*                                                                         *)
(* Each session has the schemas of the tables it has created, and no other *)
(* session sees them: two sessions may know one table by different schemas *)
(* and then read each other's rows with the wrong columns.  primary_key is *)
(* always Some, the list of the key columns: if it is empty, so is the row *)
(* key, and all rows inserted by that schema have the same key.            *)
(*                                                                         *)
(* Abstractions.  What is in a row and in a WHERE clause is the subject of *)
(* SelectQuery.  A row to insert is "good", "bad" (its key or its bytes    *)
(* cannot be built: an error) or "short" (behind the first row the planner *)
(* does not count the values, and serialize_row indexes past their end: a  *)
(* panic).  What a SELECT or a DELETE makes of a stored row, with its own  *)
(* schema, columns and filter, is a verdict on the value: "take", "skip",  *)
(* "error" (the bytes cannot be decoded, or the filter cannot be evaluated *)
(* on them) or "panic" (a column asked for is missing, or arithmetic).     *)
(* range_scan is called with two empty bounds, which become the same       *)
(* composite key: it visits the entries of the empty row key and no other. *)
(* A statement that is refused before it locks (unknown table, table       *)
(* exists, BEGIN in a transaction, COMMIT or ROLLBACK outside one) changes *)
(* nothing and is no action.  LIMIT is applied after the lock is given     *)
(* back and changes nothing here.  The engine is not restarted.            *)
(***************************************************************************)
EXTENDS Integers, Sequences, SequencesExt, FiniteSetsExt

CONSTANTS
    Table, Key, Value, None, PageCap, IndexCap, MaxTx, MaxTime, MaxPages,
    MaxLog, MaxChain, MaxFaults, MaxCrashes,    \* of StorageEngine
    Session,
    EmptyKey,       \* the row key under a schema without key columns
    Batch,          \* what INSERT statements list: sequences of rows
    Verdict,        \* what SELECT and DELETE statements make of the values
    MaxStmts        \* bound: statements, COMMIT and ROLLBACK apart

\* TableSchema.
Schema == [name : Table, primary_key : {"no columns", "columns"}]

\* The key is the one the row has under a schema with key columns.
NewRow == [status : {"good", "bad", "short"}, key : Key \ {EmptyKey}, value : Value]

ASSUME ExecutorAssumption ==
    /\ EmptyKey \in Key /\ Batch \subseteq Seq(NewRow)
    /\ Verdict \subseteq [Value -> {"take", "skip", "error", "panic"}]
    /\ MaxStmts \in Nat
    /\ None \notin Session /\ {"free", "poisoned"} \cap Session = {}

VARIABLES
    clock, registry, active, fate, minted, tables, pages, root, index, wal,
    walSynced, op, faults, crashes,     \* of StorageEngine
    session,    \* the executor of each session, and the statement it is at
    catalog,    \* the schemas each session's planner knows
    lock,       \* the mutex: "free", "poisoned" or the session that holds it
    stmts,      \* statements so far
    acked,      \* history: rows whose INSERT returned Ok, by transaction
    failed,     \* history: transactions with a statement that did not
    left        \* history: transactions nobody can end any more

Engine == INSTANCE StorageEngine

\* The assumption of StorageEngine on its constants.
ASSUME ExecutorEngineAssumption ==
    /\ {PageCap, IndexCap, MaxTx, MaxTime, MaxPages, MaxLog, MaxChain}
          \subseteq Nat \ {0}
    /\ {MaxFaults, MaxCrashes} \subseteq Nat /\ IndexCap =< 128
    /\ None \notin Engine!TxId \cup Value \cup Engine!Version \cup Engine!Transaction

engineVars == <<clock, registry, active, fate, minted, tables, pages, root,
                index, wal, walSynced, op, faults, crashes>>
history == <<acked, failed, left>>
vars == <<engineVars, session, catalog, lock, stmts, history>>

Statement ==
    [kind : {"insert"}, schema : Schema, rows : Batch]
      \cup [kind : {"select", "delete"}, schema : Schema, verdict : Verdict]

NoStmt == [kind |-> "none"]

\* QueryExecutor::new.
NewSession ==
    [at |-> "idle", current |-> None, auto |-> TRUE, tx |-> None,
     stmt |-> NoStmt, todo |-> <<>>]

At(s, phase) == session[s].at = phase
InTransaction(s) == session[s].current # None

\* build_row_key.
RowOf(schema, row) ==
    <<schema.name, IF schema.primary_key = "columns" THEN row.key ELSE EmptyKey>>

\* range_scan(table, [], []).
Scanned(t) == <<t, EmptyKey>>

\* What the session's statement makes of a stored row.
Judged(s, row) == session[s].stmt.verdict[row.value]

\* The transaction begin has just returned.
Begun == CHOOSE tx \in active' : tx \notin active

Init ==
    /\ Engine!Init
    /\ session = [s \in Session |-> NewSession]
    /\ catalog = [s \in Session |-> {}]
    /\ lock = "free" /\ stmts = 0
    /\ acked = [n \in 1..MaxTx |-> [r \in Engine!Row |-> 0]]
    /\ failed = {} /\ left = {}

------------------------------------------------------------------------------
(* How a call ends                                                         *)

\* The session is back at its prompt.
Done(s) == [session[s] EXCEPT !.at = "idle", !.tx = None, !.stmt = NoStmt,
                              !.todo = <<>>]

\* The transactions that are lost with the statement, or with the session.
Orphans(s, txs) == left' = left \cup (txs \ {None})

\* Mutation: an error returns with the guard still alive.
ReturnError_KeepsLock(s) ==
    /\ session' = [session EXCEPT ![s] = Done(s)]
    /\ failed' = failed \cup {session[s].tx.tx_id.n}
    /\ Orphans(s, IF InTransaction(s) THEN {} ELSE {session[s].tx})
    /\ UNCHANGED <<lock, acked>>

\* `?' returns an error: the lock is released, nothing is undone.  Outside a
\* transaction, nobody has the handle of the statement's transaction any more.
ReturnError(s) ==
    /\ session' = [session EXCEPT ![s] = Done(s)]
    /\ lock' = "free"
    /\ failed' = failed \cup {session[s].tx.tx_id.n}
    /\ Orphans(s, IF InTransaction(s) THEN {} ELSE {session[s].tx})
    /\ UNCHANGED acked

\* A panic under the lock.
Panic(s) ==
    /\ session' = [session EXCEPT ![s].at = "dead"]
    /\ lock' = "poisoned"
    /\ failed' = failed \cup {session[s].tx.tx_id.n}
    /\ Orphans(s, {session[s].current, session[s].tx})
    /\ UNCHANGED acked

\* lock().unwrap() on a poisoned mutex.
LockPanics(s) ==
    /\ lock = "poisoned" /\ session[s].at \in {"idle", "begun"}
    /\ session' = [session EXCEPT ![s].at = "dead"]
    /\ Orphans(s, {session[s].current, session[s].tx})
    /\ failed' = failed \cup
          IF At(s, "begun") THEN {session[s].tx.tx_id.n} ELSE {}
    /\ UNCHANGED <<engineVars, catalog, lock, stmts, acked>>

------------------------------------------------------------------------------
(* BEGIN, COMMIT, ROLLBACK, CREATE TABLE                                   *)

ExecuteBegin(s) ==
    /\ At(s, "idle") /\ ~InTransaction(s) /\ lock = "free" /\ stmts < MaxStmts
    /\ Engine!Begin
    /\ session' = [session EXCEPT ![s].current = Begun, ![s].auto = FALSE]
    /\ stmts' = stmts + 1
    /\ UNCHANGED <<catalog, lock, history>>

\* Mutation: auto-commit is not switched on again.
ExecuteCommit_ManualStays(s) ==
    /\ At(s, "idle") /\ InTransaction(s) /\ lock = "free"
    /\ Engine!Commit(session[s].current)
    /\ session' = [session EXCEPT ![s].current = None]
    /\ UNCHANGED <<catalog, lock, stmts, history>>

\* The engine refuses only a transaction that is not active.
ExecuteCommit(s) ==
    /\ At(s, "idle") /\ InTransaction(s) /\ lock = "free"
    /\ Engine!Commit(session[s].current)
    /\ session' = [session EXCEPT ![s].current = None, ![s].auto = TRUE]
    /\ UNCHANGED <<catalog, lock, stmts, history>>

\* Mutation: the session forgets its transaction, the engine does not.
ExecuteRollback_Forgets(s) ==
    /\ At(s, "idle") /\ InTransaction(s) /\ lock = "free"
    /\ session' = [session EXCEPT ![s].current = None, ![s].auto = TRUE]
    /\ UNCHANGED <<engineVars, catalog, lock, stmts, history>>

ExecuteRollback(s) ==
    /\ At(s, "idle") /\ InTransaction(s) /\ lock = "free"
    /\ Engine!Abort(session[s].current)
    /\ session' = [session EXCEPT ![s].current = None, ![s].auto = TRUE]
    /\ UNCHANGED <<catalog, lock, stmts, history>>

\* Catalog::add_table and table_exists: one schema per name.
Added(known, schema) == {schema} \cup {c \in known : c.name # schema.name}
Exists(s, t) == \E c \in catalog[s] : c.name = t

\* storage.tables has an entry for every table some session has created.
InStorage(t) == \E s \in Session : Exists(s, t)

\* Mutation: the table is replaced without the lock.
ExecuteCreateTable_NoLock(s, schema, if_not_exists) ==
    /\ At(s, "idle") /\ stmts < MaxStmts
    /\ if_not_exists \/ ~Exists(s, schema.name)
    /\ catalog' = [catalog EXCEPT ![s] = Added(@, schema)]
    /\ tables' = IF if_not_exists /\ InStorage(schema.name) THEN tables
                 ELSE [r \in Engine!Row |-> IF r[1] = schema.name THEN <<>> ELSE tables[r]]
    /\ stmts' = stmts + 1
    /\ UNCHANGED <<clock, registry, active, fate, minted, pages, root, index,
                   wal, walSynced, op, faults, crashes, session, lock, history>>

\* plan_create_table puts the schema in the planner's catalog, which nobody else
\* sees, with IF NOT EXISTS in the place of one of the same name;
\* execute_create_table replaces what the engine has in memory under this name,
\* unless IF NOT EXISTS finds it there.
ExecuteCreateTable(s, schema, if_not_exists) ==
    /\ At(s, "idle") /\ lock = "free" /\ stmts < MaxStmts
    /\ if_not_exists \/ ~Exists(s, schema.name)
    /\ catalog' = [catalog EXCEPT ![s] = Added(@, schema)]
    /\ tables' = IF if_not_exists /\ InStorage(schema.name) THEN tables
                 ELSE [r \in Engine!Row |-> IF r[1] = schema.name THEN <<>> ELSE tables[r]]
    /\ stmts' = stmts + 1
    /\ UNCHANGED <<clock, registry, active, fate, minted, pages, root, index,
                   wal, walSynced, op, faults, crashes, session, lock, history>>

------------------------------------------------------------------------------
(* Statements on rows                                                      *)

\* begin_transaction: the current transaction, or one of the statement's own,
\* for which the mutex is taken and given back.
Start(s, stmt) ==
    /\ At(s, "idle") /\ stmts < MaxStmts /\ stmt.schema \in catalog[s]
    /\ IF InTransaction(s) THEN UNCHANGED engineVars
       ELSE lock = "free" /\ Engine!Begin
    /\ session' = [session EXCEPT ![s] =
          [@ EXCEPT !.at = "begun", !.stmt = stmt,
                    !.tx = IF InTransaction(s) THEN session[s].current ELSE Begun]]
    /\ stmts' = stmts + 1
    /\ UNCHANGED <<catalog, lock, history>>

\* execute_scan, as one step: it only reads, up to the first row it cannot go on
\* from.  If that is a panic (`row[idx]', arithmetic), it is under the lock; an
\* error leaves the same state as an answer.  Nobody commits the transaction of
\* a lone SELECT.
ExecuteScan(s) ==
    /\ At(s, "begun") /\ session[s].stmt.kind = "select" /\ lock = "free"
    /\ LET rows == Engine!RangeScan(Scanned(session[s].stmt.schema.name), session[s].tx)
           stops == {i \in DOMAIN rows : Judged(s, rows[i]) \in {"error", "panic"}}
       IN  IF stops # {} /\ Judged(s, rows[Min(stops)]) = "panic"
           THEN Panic(s)
           ELSE /\ session' = [session EXCEPT ![s] = Done(s)]
                /\ Orphans(s, IF InTransaction(s) THEN {} ELSE {session[s].tx})
                /\ UNCHANGED <<lock, acked, failed>>
    /\ UNCHANGED <<engineVars, catalog, stmts>>

\* The rows range_scan gives execute_delete that it deletes, or stops at.
Matching(rows, verdict) == SelectSeq(rows, LAMBDA v : verdict[v.value] # "skip")

\* The second lock().unwrap() of INSERT and DELETE; DELETE scans at once.
Acquire(s) ==
    /\ At(s, "begun") /\ session[s].stmt.kind \in {"insert", "delete"}
    /\ lock = "free"
    /\ lock' = s
    /\ LET stmt == session[s].stmt
           rows == IF stmt.kind = "insert" THEN stmt.rows
                   ELSE Matching(Engine!RangeScan(Scanned(stmt.schema.name), session[s].tx),
                                 stmt.verdict)
       IN  session' = [session EXCEPT ![s].at = "running", ![s].todo = rows]
    /\ UNCHANGED <<engineVars, catalog, stmts, history>>

Running(s, kind) ==
    At(s, "running") /\ session[s].stmt.kind = kind /\ op = Engine!NoOp

\* The statement goes on with its next row.
NextRow(s) ==
    /\ session' = [session EXCEPT ![s].todo = Tail(@)]
    /\ UNCHANGED <<lock, history>>

\* Mutation: a row that cannot be encoded is skipped.
InsertRow_SkipsBad(s) ==
    /\ Running(s, "insert") /\ session[s].todo # <<>>
    /\ LET row == Head(session[s].todo)
       IN  CASE row.status = "good" ->
                  /\ Engine!InsertPage(RowOf(session[s].stmt.schema, row), row.value,
                                       session[s].tx)
                  /\ IF op' = Engine!NoOp THEN ReturnError(s) ELSE NextRow(s)
             [] row.status = "bad" -> NextRow(s) /\ UNCHANGED engineVars
             [] row.status = "short" -> Panic(s) /\ UNCHANGED engineVars
    /\ UNCHANGED <<catalog, stmts>>

\* One turn of the loop of execute_insert, up to the data page.
InsertRow(s) ==
    /\ Running(s, "insert") /\ session[s].todo # <<>>
    /\ LET row == Head(session[s].todo)
       IN  CASE row.status = "good" ->
                  /\ Engine!InsertPage(RowOf(session[s].stmt.schema, row), row.value,
                                       session[s].tx)
                  /\ IF op' = Engine!NoOp THEN ReturnError(s) ELSE NextRow(s)
             [] row.status = "bad" -> ReturnError(s) /\ UNCHANGED engineVars
             [] row.status = "short" -> Panic(s) /\ UNCHANGED engineVars
    /\ UNCHANGED <<catalog, stmts>>

\* One turn of the loop of execute_delete, up to the page: delete(key) for every
\* row the verdict takes, all with the same key; it may also end the statement.
DeleteRow(s) ==
    /\ Running(s, "delete") /\ session[s].todo # <<>>
    /\ LET row == Head(session[s].todo)
           r == Scanned(session[s].stmt.schema.name)
           versions == Engine!Tombstoned(pages[Engine!PageOf(r)].versions, session[s].tx)
       IN  \/ /\ Judged(s, row) = "error"
              /\ ReturnError(s) /\ UNCHANGED engineVars
           \/ /\ Judged(s, row) = "panic"
              /\ Panic(s) /\ UNCHANGED engineVars
           \/ /\ Judged(s, row) = "take"
              /\ \/ /\ Engine!DeletePage(r, session[s].tx)
                    /\ IF op' = Engine!NoOp THEN ReturnError(s) ELSE NextRow(s)
                 \/ /\ ~Engine!Fits(versions)
                    /\ ReturnError(s) /\ UNCHANGED engineVars
    /\ UNCHANGED <<catalog, stmts>>

\* The rest of storage.insert or storage.delete.
EngineStep(s) ==
    /\ lock = s
    /\ \/ /\ Engine!InsertLog
          /\ IF op' = Engine!NoOp THEN ReturnError(s)
             ELSE UNCHANGED <<session, lock, history>>
       \/ /\ Engine!InsertIndex
          /\ IF index' = index \/ faults' # faults THEN ReturnError(s)
             ELSE UNCHANGED <<session, lock, history>>
       \/ /\ Engine!DeleteLog
          /\ IF wal' = wal THEN ReturnError(s)
             ELSE UNCHANGED <<session, lock, history>>
    /\ UNCHANGED <<catalog, stmts>>

\* How often the statement put the row r in.
Listed(stmt, r) ==
    IF stmt.kind # "insert" THEN 0
    ELSE Cardinality({i \in DOMAIN stmt.rows : RowOf(stmt.schema, stmt.rows[i]) = r})

\* The statement returns Ok with the lock its guard drops, having committed if
\* it is on its own; `wanted' is what the mutex must be for the commit.
FinishWith(s, wanted) ==
    /\ At(s, "running") /\ session[s].todo = <<>> /\ op = Engine!NoOp
    /\ IF session[s].auto THEN lock = wanted /\ Engine!Commit(session[s].tx)
       ELSE UNCHANGED engineVars
    /\ session' = [session EXCEPT ![s] =
          [Done(s) EXCEPT !.current = IF session[s].auto THEN None ELSE @]]
    /\ lock' = "free"
    /\ acked' = [acked EXCEPT ![session[s].tx.tx_id.n] =
          [r \in Engine!Row |-> @[r] + Listed(session[s].stmt, r)]]
    /\ UNCHANGED <<catalog, stmts, failed, left>>

\* Mutation: the statement commits through execute_commit, which locks again.
Finish_Relocks(s) == FinishWith(s, "free")

Finish(s) == FinishWith(s, s)

\* What the holder of the mutex does next.
LockedStep(s) == InsertRow(s) \/ DeleteRow(s) \/ EngineStep(s) \/ Finish(s)

Next ==
    \E s \in Session :
        \/ ExecuteBegin(s)
        \/ ExecuteCommit(s)
        \/ ExecuteRollback(s)
        \/ \E schema \in Schema, if_not_exists \in BOOLEAN :
              ExecuteCreateTable(s, schema, if_not_exists)
        \/ \E stmt \in Statement : Start(s, stmt)
        \/ ExecuteScan(s)
        \/ Acquire(s)
        \/ LockedStep(s)
        \/ LockPanics(s)

Spec == Init /\ [][Next]_vars

\* A session that holds the mutex waits for nobody, so the scheduler lets it run.
Fairness == \A s \in Session : WF_vars(LockedStep(s))

FairSpec == Spec /\ Fairness

------------------------------------------------------------------------------
(* Properties                                                              *)

\* Type invariant; the engine's own type holds under the sessions' steps, and
\* an operation of the engine is in progress only while somebody holds the lock.
TypeOK ==
    /\ Engine!TypeOK
    /\ \A s \in Session :
          /\ session[s].at \in {"idle", "begun", "running", "dead"}
          /\ session[s].current \in Engine!Transaction \cup {None}
          /\ session[s].tx \in Engine!Transaction \cup {None}
          /\ session[s].auto \in BOOLEAN
          /\ session[s].stmt \in Statement \cup {NoStmt}
          /\ At(s, "running") <=> lock = s
    /\ catalog \in [Session -> SUBSET Schema]
    /\ \A s \in Session : \A b, c \in catalog[s] : b.name = c.name => b = c
    /\ lock \in Session \cup {"free", "poisoned"}
    /\ stmts \in 0..MaxStmts
    /\ failed \subseteq 1..MaxTx /\ left \subseteq Engine!Transaction
    /\ lock \notin Session => op = Engine!NoOp

\* The transactions a session holds a handle of.
Handles(s) ==
    IF At(s, "dead") THEN {} ELSE {session[s].current, session[s].tx} \ {None}

\* Auto-commit is on exactly outside BEGIN ... COMMIT or ROLLBACK, a statement
\* inside runs in the session's transaction and in no other, and no two sessions
\* ever work in the same one (executor 276-331).
SessionsOwnTransactions ==
    \A s \in Session : ~At(s, "dead") =>
        /\ session[s].auto <=> session[s].current = None
        /\ session[s].tx # None /\ InTransaction(s) => session[s].tx = session[s].current
        /\ \A u \in Session \ {s} : Handles(s) \cap Handles(u) = {}

\* The engine's map of active transactions holds those of the sessions and those
\* lost by a lone SELECT, a failed statement or a panic; COMMIT, ROLLBACK and an
\* auto-commit statement that returns Ok lose none, and none in use is missing.
ActiveAccounted ==
    LET held == UNION {Handles(s) : s \in Session}
    IN  active = held \cup left /\ held \cap left = {}

\* The engine's part of CREATE TABLE, between two operations.
Emptied(t) ==
    /\ op = Engine!NoOp
    /\ tables' = [r \in Engine!Row |-> IF r[1] = t THEN <<>> ELSE tables[r]]
    /\ UNCHANGED <<clock, registry, active, fate, minted, pages, root, index, wal,
                   walSynced, op, faults, crashes>>

\* The sessions use the engine as StorageEngine assumes, which engine.rs does not
\* check: one operation at a time, insert, delete, commit and abort only with
\* transactions that are active, and nothing else but CREATE TABLE between
\* operations.  So what every step of the engine preserves holds under SQL.
EngineDriven == [][Engine!Next \/ \E t \in Table : Emptied(t)]_engineVars

\* The index entries of row r whose page was written by transaction number n.
EntriesBy(n, r) ==
    {i \in DOMAIN index[r] : pages[index[r][i]].versions[1].created_by.n = n}

\* While nobody has the lock, the index has exactly the rows whose INSERT
\* returned Ok: none is lost to another session's statement, and none is there
\* but for transactions in which a statement failed, whose rows nobody takes out.
StatementsAtomic ==
    lock \notin Session =>
        \A n \in (1..MaxTx) \ failed : \A r \in Engine!Row :
            Cardinality(EntriesBy(n, r)) = acked[n][r]

\* Did anybody delete from the row?
Deleted(r) ==
    \E i \in DOMAIN index[r] : \E j \in DOMAIN pages[index[r][i]].versions :
        pages[index[r][i]].versions[j].deleted_by # None

\* What range_scan finds for a SELECT on the table: every acknowledged row of a
\* transaction the snapshot covers that was inserted without key columns, until
\* somebody deletes, whatever other sessions have inserted, created or failed at
\* since, and whatever their schemas of the table are.  Rows that a session with
\* key columns inserted are not there: FullTableScan.
AckedRowsSelected ==
    \A u \in active : \A t \in Table :
        LET rows == Engine!RangeScan(Scanned(t), u)
            By(n) == {i \in DOMAIN rows : rows[i].created_by.n = n}
        IN  lock \notin Session /\ ~Deleted(Scanned(t)) =>
                \A n \in 1..MaxTx :
                    n =< Len(registry) /\ registry[n].ts =< u.snapshot_tx.ts =>
                        Cardinality(By(n)) >= acked[n][Scanned(t)]

\* The rows range_scan finds for a SELECT, apart from how often: the page of a
\* second insert shows a reader who does not see it the row below once more.
Answers(t, tx) ==
    LET entries == index[Scanned(t)]
    IN  {[created_by |-> v.created_by, value |-> v.value] :
            v \in UNION {ToSet(Engine!ScanPage(entries[i], tx)) : i \in DOMAIN entries}}

\* Repeatable reads as far as they go under SQL: a table nobody has deleted from
\* gives a running transaction the same rows until an INSERT changes its index,
\* and, until a write fails, one its snapshot covers; a CREATE TABLE that
\* empties the chains in memory changes nothing.  A DELETE takes rows from every
\* reader at once (engine 190, where get is more careful).
SelectsUndisturbed ==
    [][\A tx \in active \cap active' : \A t \in Table :
          Answers(t, tx)' # Answers(t, tx) /\ ~Deleted(Scanned(t))' =>
              /\ op.kind = "insert_index"
              /\ faults' = 0 => op.tx.tx_id.ts =< tx.snapshot_tx.ts]_<<pages, index>>

\* The mutex is given back: no statement stops with it or waits for itself.
LockReleased == \A s \in Session : lock = s ~> lock # s

------------------------------------------------------------------------------
(* What comments say and the executor does not do                          *)

\* executor 153, "For now, do full table scan": SELECT answers with the
\* acknowledged rows of the transactions its snapshot covers, keyed or not.
FullTableScan ==
    lock \notin Session =>
        \A u \in active : \A t \in Table : \A r \in {t} \X Key :
            ~Deleted(r) =>
                \A n \in DOMAIN registry :
                    registry[n].ts =< u.snapshot_tx.ts /\ acked[n][r] > 0 =>
                        \E i \in DOMAIN Engine!RangeScan(Scanned(t), u) :
                            Engine!RangeScan(Scanned(t), u)[i].created_by.n = n

==============================================================================
