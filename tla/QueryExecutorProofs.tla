------------------------- MODULE QueryExecutorProofs -------------------------
(***************************************************************************)
(* Proofs about QueryExecutor: its type invariant, which transactions the  *)
(* sessions own, what the engine's active transactions are, and that the   *)
(* sessions drive the engine as StorageEngine assumes; for any number of   *)
(* sessions, tables, rows and any bounds.  The lemmas about the engine are *)
(* those of StorageEngineProofs, which hold here because of the last.      *)
(***************************************************************************)
EXTENDS QueryExecutor, SequenceTheorems, TLAPS

P == INSTANCE StorageEngineProofs

------------------------------------------------------------------------------
(* The engine of the executor is the engine of the proofs                  *)

\* The steps of the one are the steps of the other ...
LEMMA SameSteps ==
  /\ P!Row = Engine!Row /\ P!NoOp = Engine!NoOp
  /\ (P!Init <=> Engine!Init) /\ (P!Begin <=> Engine!Begin) /\ (P!Next <=> Engine!Next)
  <1>1. P!Row = Engine!Row /\ P!NoOp = Engine!NoOp /\ (P!Idle <=> Engine!Idle)
    BY DEF P!Row, Engine!Row, P!NoOp, Engine!NoOp, P!Idle, Engine!Idle
  <1>2. P!Begin <=> Engine!Begin
    BY <1>1 DEF P!Begin, Engine!Begin, P!Nil, Engine!Nil, P!Last, Engine!Last
  <1>3. \A tx : (P!Commit(tx) <=> Engine!Commit(tx)) /\ (P!Abort(tx) <=> Engine!Abort(tx))
    BY <1>1 DEF P!Commit, Engine!Commit, P!Abort, Engine!Abort, P!Decide, Engine!Decide
  <1>4. \A vs : P!Fits(vs) <=> Engine!Fits(vs)
    BY DEF P!Fits, Engine!Fits, P!Cardinality, Engine!Cardinality
  <1>5. \A vs, tx : P!Tombstoned(vs, tx) = Engine!Tombstoned(vs, tx)
    BY DEF P!Tombstoned, Engine!Tombstoned, P!FirstVisible, Engine!FirstVisible,
           P!IsVisible, Engine!IsVisible, P!Min, Engine!Min
  <1>6. \A r, val, tx : P!InsertPage(r, val, tx) <=> Engine!InsertPage(r, val, tx)
    BY <1>1, <1>4 DEF P!InsertPage, Engine!InsertPage, P!WriteRow, Engine!WriteRow,
           P!WithVersion, Engine!WithVersion, P!DataPage, Engine!DataPage,
           P!txVars, Engine!txVars
  <1>7. \A r, tx : P!DeletePage(r, tx) <=> Engine!DeletePage(r, tx)
    BY <1>1, <1>4, <1>5 DEF P!DeletePage, Engine!DeletePage, P!DataPage, Engine!DataPage,
           P!PageOf, Engine!PageOf, P!txVars, Engine!txVars
  <1>8. P!InsertLog <=> Engine!InsertLog
    BY <1>1 DEF P!InsertLog, Engine!InsertLog, P!Put, Engine!Put, P!txVars, Engine!txVars
  <1>9. P!RootFull <=> Engine!RootFull
    BY <1>1 DEF P!RootFull, Engine!RootFull, P!SumFunctionOnSet, Engine!SumFunctionOnSet,
           P!FoldFunctionOnSet, Engine!FoldFunctionOnSet, P!MapThenFoldSet,
           Engine!MapThenFoldSet
  <1>10. P!InsertIndex <=> Engine!InsertIndex
    BY <1>1, <1>9 DEF P!InsertIndex, Engine!InsertIndex, P!txVars, Engine!txVars
  <1>11. P!DeleteLog <=> Engine!DeleteLog
    BY <1>1 DEF P!DeleteLog, Engine!DeleteLog, P!Del, Engine!Del, P!txVars, Engine!txVars
  <1>12. P!EmptyRows = Engine!EmptyRows /\ P!LeafPage = Engine!LeafPage
    BY <1>1 DEF P!EmptyRows, Engine!EmptyRows, P!LeafPage, Engine!LeafPage
  <1>13. P!Restart <=> Engine!Restart
    BY <1>1, <1>12 DEF P!Restart, Engine!Restart
  <1>14. P!Init <=> Engine!Init
    BY <1>1, <1>12 DEF P!Init, Engine!Init
  <1>15. P!Next <=> Engine!Next
    BY <1>1, <1>2, <1>3, <1>6, <1>7, <1>8, <1>10, <1>11, <1>13 DEF P!Next, Engine!Next
  <1> QED BY <1>1, <1>2, <1>14, <1>15

\* ... and so are its types and its invariants on pages and log.
LEMMA SameStates ==
  /\ P!Transaction = Engine!Transaction
  /\ (P!TypeOK <=> Engine!TypeOK) /\ (P!PagesNotShared <=> Engine!PagesNotShared)
  /\ (P!IndexIsLogged <=> Engine!IndexIsLogged)
  <1>1. P!Row = Engine!Row /\ P!TxId = Engine!TxId /\ P!Version = Engine!Version
    BY DEF P!Row, Engine!Row, P!TxId, Engine!TxId, P!Version, Engine!Version
  <1>2. P!Transaction = Engine!Transaction
    BY <1>1 DEF P!Transaction, Engine!Transaction
  <1>3. \A vs : P!Fits(vs) <=> Engine!Fits(vs)
    BY DEF P!Fits, Engine!Fits, P!Cardinality, Engine!Cardinality
  <1>4. P!TypeOK <=> Engine!TypeOK
    BY <1>1, <1>2, <1>3 DEF P!TypeOK, Engine!TypeOK, P!OpType, Engine!OpType,
           P!LogRecord, Engine!LogRecord
  <1>5. P!PagesNotShared <=> Engine!PagesNotShared
    BY <1>1 DEF P!PagesNotShared, Engine!PagesNotShared
  <1>6. P!IndexIsLogged <=> Engine!IndexIsLogged
    BY <1>1 DEF P!IndexIsLogged, Engine!IndexIsLogged, P!LogsEntry, Engine!LogsEntry
  <1> QED BY <1>2, <1>4, <1>5, <1>6

\* The constants satisfy what StorageEngine assumes of them.
LEMMA EngineConstants == P!EngineAssumption
  BY ExecutorEngineAssumption DEF P!EngineAssumption, P!TxId, P!Version, Engine!TxId,
     Engine!Version

------------------------------------------------------------------------------
(* The inductive invariant                                                 *)

\* The transactions an executor holds.
HandlesOf(x) == IF x.at = "dead" THEN {} ELSE {x.current, x.tx} \ {None}

Fields == {"at", "current", "auto", "tx", "stmt", "todo"}

\* One executor: its fields, and what they say of each other.
Sane(x) ==
    /\ x = [f \in Fields |-> x[f]]
    /\ x.at \in {"idle", "begun", "running", "dead"} /\ x.auto \in BOOLEAN
    /\ x.current \in Engine!Transaction \cup {None}
    /\ x.tx \in Engine!Transaction \cup {None}
    /\ x.stmt \in Statement \cup {NoStmt}
    /\ x.at = "idle" => x.tx = None
    /\ x.at \in {"begun", "running"} => x.tx # None /\ x.stmt \in Statement
    /\ x.at = "running" /\ x.stmt.kind = "insert" => x.todo \in Seq(NewRow)
    /\ x.at # "dead" =>
          /\ x.auto <=> x.current = None
          /\ x.tx # None /\ x.current # None => x.tx = x.current

Sessions ==
    /\ session = [s \in Session |-> session[s]]
    /\ \A s \in Session : Sane(session[s])

\* The mutex, who is in it, and the engine's operation.
Locking ==
    /\ \A s \in Session : session[s].at = "running" <=> lock = s
    /\ lock \in Session \cup {"free", "poisoned"}
    /\ lock \notin Session => op = Engine!NoOp

\* Every active transaction has one owner: a session, or nobody any more.
Owned ==
    /\ \A s, u \in Session : s # u => HandlesOf(session[s]) \cap HandlesOf(session[u]) = {}
    /\ \A s \in Session : HandlesOf(session[s]) \cap left = {}
    /\ \A tx : tx \in active <=>
          tx \in left \/ \E s \in Session : tx \in HandlesOf(session[s])

Numbered == \A tx \in active : tx.tx_id.n \in 1..MaxTx

Counted ==
    /\ catalog \in [Session -> SUBSET Schema] /\ stmts \in 0..MaxStmts
    /\ \A s \in Session : \A b, c \in catalog[s] : b.name = c.name => b = c
    /\ failed \subseteq 1..MaxTx /\ left \subseteq Engine!Transaction

SqlInv == P!Core /\ Sessions /\ Locking /\ Owned /\ Numbered /\ Counted

------------------------------------------------------------------------------
(* What a step makes of an executor                                        *)

\* Option::None is no transaction, and the states of the mutex are no sessions.
LEMMA Distinct ==
  /\ None \notin Engine!Transaction /\ "free" \notin Session /\ "poisoned" \notin Session
  BY ExecutorAssumption, ExecutorEngineAssumption

\* The statement is over.
LEMMA DoneSane ==
  ASSUME NEW x, Sane(x), x.at # "dead"
  PROVE  LET y == [x EXCEPT !.at = "idle", !.tx = None, !.stmt = NoStmt, !.todo = <<>>]
         IN  /\ Sane(y) /\ y.at = "idle" /\ y.current = x.current /\ y.tx = None
             /\ HandlesOf(y) = {x.current} \ {None}
  <1> DEFINE y == [x EXCEPT !.at = "idle", !.tx = None, !.stmt = NoStmt, !.todo = <<>>]
  <1>0. x = [f \in Fields |-> x[f]]
    BY DEF Sane
  <1>1. /\ y = [f \in Fields |-> y[f]]
        /\ y.at = "idle" /\ y.current = x.current /\ y.auto = x.auto
        /\ y.tx = None /\ y.stmt = NoStmt /\ y.todo = <<>>
    BY <1>0 DEF Fields
  <1> HIDE DEF y
  <1>2. Sane(y)
    BY <1>1 DEF Sane
  <1> QED BY <1>1, <1>2 DEF HandlesOf, y

\* The thread has panicked.
LEMMA DeadSane ==
  ASSUME NEW x, Sane(x)
  PROVE  LET y == [x EXCEPT !.at = "dead"]
         IN  Sane(y) /\ y.at = "dead" /\ HandlesOf(y) = {}
  <1> DEFINE y == [x EXCEPT !.at = "dead"]
  <1>0. x = [f \in Fields |-> x[f]]
    BY DEF Sane
  <1>1. /\ y = [f \in Fields |-> y[f]]
        /\ y.at = "dead" /\ y.current = x.current /\ y.auto = x.auto
        /\ y.tx = x.tx /\ y.stmt = x.stmt /\ y.todo = x.todo
    BY <1>0 DEF Fields
  <1> HIDE DEF y
  <1>2. Sane(y)
    BY <1>1 DEF Sane
  <1> QED BY <1>1, <1>2 DEF HandlesOf, y

\* BEGIN, COMMIT and ROLLBACK.
LEMMA CurrentSane ==
  ASSUME NEW x, Sane(x), x.at = "idle", NEW tx \in Engine!Transaction \cup {None},
         NEW auto \in BOOLEAN, auto <=> tx = None
  PROVE  LET y == [x EXCEPT !.current = tx, !.auto = auto]
         IN  Sane(y) /\ y.at = "idle" /\ HandlesOf(y) = {tx} \ {None}
  <1> DEFINE y == [x EXCEPT !.current = tx, !.auto = auto]
  <1>0. x = [f \in Fields |-> x[f]] /\ x.at = "idle" /\ x.tx = None
    BY DEF Sane
  <1>1. /\ y = [f \in Fields |-> y[f]]
        /\ y.at = "idle" /\ y.current = tx /\ y.auto = auto
        /\ y.tx = None /\ y.stmt = x.stmt /\ y.todo = x.todo
    BY <1>0 DEF Fields
  <1> HIDE DEF y
  <1>2. Sane(y)
    BY <1>1 DEF Sane
  <1> QED BY <1>1, <1>2 DEF HandlesOf, y

\* A statement has its transaction.
LEMMA BegunSane ==
  ASSUME NEW x, Sane(x), x.at = "idle", NEW stmt \in Statement, NEW tx \in Engine!Transaction,
         x.current # None => tx = x.current,
         NEW y, y = [f \in Fields |-> y[f]], y.at = "begun", y.current = x.current,
         y.auto = x.auto, y.tx = tx, y.stmt = stmt
  PROVE  Sane(y) /\ HandlesOf(y) = {tx}
  <1>1. tx # None
    BY Distinct
  <1>2. Sane(y)
    BY <1>1 DEF Sane
  <1>3. x.current = None \/ x.current = tx
    OBVIOUS
  <1> QED BY <1>1, <1>2, <1>3 DEF HandlesOf

\* A statement has the mutex, or goes on to its next row.
LEMMA RunningSane ==
  ASSUME NEW x, Sane(x), x.at \in {"begun", "running"}, NEW todo,
         x.stmt.kind = "insert" => todo \in Seq(NewRow)
  PROVE  LET y == [x EXCEPT !.at = "running", !.todo = todo]
         IN  Sane(y) /\ y.at = "running" /\ HandlesOf(y) = HandlesOf(x)
  <1> DEFINE y == [x EXCEPT !.at = "running", !.todo = todo]
  <1>0. x = [f \in Fields |-> x[f]]
    BY DEF Sane
  <1>1. /\ y = [f \in Fields |-> y[f]]
        /\ y.at = "running" /\ y.current = x.current /\ y.auto = x.auto
        /\ y.tx = x.tx /\ y.stmt = x.stmt /\ y.todo = todo
    BY <1>0 DEF Fields
  <1> HIDE DEF y
  <1>2. Sane(y)
    BY <1>1 DEF Sane
  <1> QED BY <1>1, <1>2 DEF HandlesOf, y

\* A statement that returns Ok outside a transaction.
LEMMA FinishSane ==
  ASSUME NEW x, Sane(x), x.at = "running"
  PROVE  LET done == [x EXCEPT !.at = "idle", !.tx = None, !.stmt = NoStmt, !.todo = <<>>]
             y == [done EXCEPT !.current = IF x.auto THEN None ELSE @]
         IN  /\ y = done
             /\ x.auto => HandlesOf(x) = {x.tx}
             /\ ~x.auto => HandlesOf(x) = {x.current} \ {None}
  <1> DEFINE done == [x EXCEPT !.at = "idle", !.tx = None, !.stmt = NoStmt, !.todo = <<>>]
  <1>0. x = [f \in Fields |-> x[f]]
    BY DEF Sane
  <1>1. /\ done = [f \in Fields |-> done[f]]
        /\ done.at = "idle" /\ done.current = x.current /\ done.auto = x.auto
        /\ done.tx = None /\ done.stmt = NoStmt /\ done.todo = <<>>
    BY <1>0 DEF Fields
  <1>2. /\ x.auto => x.current = None
        /\ ~x.auto => x.current # None /\ x.tx = x.current
        /\ x.tx # None
    BY DEF Sane
  <1>3. [done EXCEPT !.current = IF x.auto THEN None ELSE @] = done
    BY <1>1, <1>2
  <1> QED BY <1>2, <1>3 DEF HandlesOf

------------------------------------------------------------------------------
(* What a step makes of the parts of the invariant                         *)

\* One session moves.
LEMMA SessionsStep ==
  ASSUME Sessions, NEW s \in Session, NEW y, Sane(y), session' = [session EXCEPT ![s] = y]
  PROVE  Sessions' /\ session'[s] = y /\ \A u \in Session : u # s => session'[u] = session[u]
  <1>1. session'[s] = y /\ \A u \in Session : u # s => session'[u] = session[u]
    BY DEF Sessions
  <1>2. session' = [u \in Session |-> session'[u]]
    BY DEF Sessions
  <1> QED BY <1>1, <1>2 DEF Sessions

\* Transactions change hands: `new' begin, `done' are decided and `lost' are given
\* up, and the session keeps the others.
LEMMA OwnedStep ==
  ASSUME Owned, NEW s \in Session, NEW new, NEW done, NEW lost, new \cap active = {},
         \A u \in Session : u # s => session'[u] = session[u],
         HandlesOf(session[s]) \cup new = HandlesOf(session'[s]) \cup done \cup lost,
         HandlesOf(session'[s]) \cap (done \cup lost) = {}, done \cap lost = {},
         active' = (active \cup new) \ done, left' = left \cup lost
  PROVE  Owned'
  <1> DEFINE H(u) == HandlesOf(session[u])
             K(u) == HandlesOf(session'[u])
  <1>1. \A u \in Session : u # s => K(u) = H(u)
    OBVIOUS
  <1>2. /\ \A t, u \in Session : t # u => H(t) \cap H(u) = {}
        /\ \A u \in Session : H(u) \cap left = {}
        /\ \A tx : tx \in active <=> tx \in left \/ \E u \in Session : tx \in H(u)
    BY DEF Owned
  <1>3. H(s) \cup new = K(s) \cup done \cup lost /\ K(s) \cap (done \cup lost) = {}
    OBVIOUS
  <1> HIDE DEF H, K
  <1>4. \A t, u \in Session : t # u => K(t) \cap K(u) = {}
    BY <1>1, <1>2, <1>3
  <1>5. \A u \in Session : K(u) \cap left' = {}
    BY <1>1, <1>2, <1>3
  <1>6. \A tx : tx \in active' <=> tx \in left' \/ \E u \in Session : tx \in K(u)
    BY <1>1, <1>2, <1>3
  <1> QED BY <1>4, <1>5, <1>6 DEF Owned, K

\* The sessions drive the engine as it expects.
Drives == Engine!Next \/ (\E t \in Table : Emptied(t)) \/ UNCHANGED engineVars

\* What is left of the invariant.
Kept == Sessions /\ Locking /\ Owned /\ Numbered /\ Counted

\* Then what holds of the engine goes on to hold.
LEMMA CoreKept ==
  ASSUME P!Core, Drives
  PROVE  P!Core'
  <1>1. CASE Engine!Next
    BY <1>1, SameSteps, P!CoreNext, EngineConstants
  <1>2. CASE UNCHANGED engineVars
    <2>1. UNCHANGED P!vars
      BY <1>2 DEF engineVars, P!vars, P!txVars
    <2> QED BY <2>1, P!CoreNext, EngineConstants
  <1>3. ASSUME NEW t \in Table, Emptied(t)
        PROVE  P!Core'
    <2>1. /\ op = P!NoOp /\ tables' = [r \in P!Row |-> IF r[1] = t THEN <<>> ELSE tables[r]]
          /\ UNCHANGED <<P!txVars, pages, root, index, wal, walSynced, op, faults, crashes>>
      BY <1>3, SameSteps DEF Emptied, P!txVars
    <2> QED BY <2>1, P!CoreEmptied, EngineConstants
  <1> QED BY <1>1, <1>2, <1>3 DEF Drives

\* begin_transaction gives the session a transaction nobody had.
LEMMA BegunNew ==
  ASSUME P!Core, Engine!Begin
  PROVE  /\ Begun \in Engine!Transaction /\ Begun \notin active
         /\ active' = active \cup {Begun} /\ Begun.tx_id.n \in 1..MaxTx
         /\ op = Engine!NoOp /\ op' = op /\ Drives
  <1>1. P!TypeOK /\ P!Ordered
    BY DEF P!Core
  <1>2. PICK tx \in P!Transaction : /\ tx \notin active /\ active' = active \cup {tx}
                                    /\ tx.tx_id.n \in 1..MaxTx
    BY <1>1, SameSteps, P!BeginStep, EngineConstants
  <1>3. Begun = tx
    BY <1>2 DEF Begun
  <1>4. op = Engine!NoOp /\ op' = op
    BY DEF Engine!Begin, Engine!Idle
  <1>5. Drives
    BY DEF Drives, Engine!Next
  <1> QED BY <1>2, <1>3, <1>4, <1>5, SameStates

\* The transaction a session holds is active.
LEMMA HeldActive ==
  ASSUME SqlInv, NEW s \in Session, session[s].at # "dead"
  PROVE  /\ session[s].tx # None => session[s].tx \in active
         /\ session[s].current # None => session[s].current \in active
         /\ active \subseteq Engine!Transaction
  <1>1. \A tx \in HandlesOf(session[s]) : tx \in active
    BY DEF SqlInv, Owned
  <1>2. active \subseteq Engine!Transaction
    BY SameStates DEF SqlInv, P!Core, P!TypeOK
  <1> QED BY <1>1, <1>2 DEF HandlesOf

\* Who is running has the mutex, and in it nobody else is.
LEMMA Holder ==
  ASSUME Locking, NEW s \in Session
  PROVE  /\ session[s].at = "running" => lock = s
         /\ lock = "free" => op = Engine!NoOp /\ \A u \in Session : session[u].at # "running"
         /\ lock = s => \A u \in Session : u # s => session[u].at # "running"
  BY Distinct DEF Locking

\* One session moves and gives the transactions `lost' up; nothing begins or ends.
LEMMA MoveKept ==
  ASSUME SqlInv, NEW s \in Session, NEW y, NEW lost, Sane(y),
         session' = [session EXCEPT ![s] = y],
         active' = active, left' = left \cup lost,
         HandlesOf(session[s]) = HandlesOf(y) \cup lost, HandlesOf(y) \cap lost = {},
         (y.at = "running") <=> (lock' = s),
         lock' = lock \/ (lock \in {s, "free"} /\ lock' \in {s, "free", "poisoned"}),
         lock' \notin Session => op' = Engine!NoOp,
         failed' \subseteq 1..MaxTx, stmts' \in 0..MaxStmts, UNCHANGED catalog
  PROVE  Kept'
  <1>1. Sessions /\ Sane(session[s]) /\ Owned /\ Locking /\ Numbered /\ Counted
    BY DEF SqlInv, Sessions
  <1>2. /\ Sessions' /\ session'[s] = y
        /\ \A u \in Session : u # s => session'[u] = session[u]
    BY <1>1, SessionsStep
  <1>3. Owned'
    <2>1. active' = (active \cup {}) \ {} /\ {} \cap active = {} /\ {} \cap lost = {}
      OBVIOUS
    <2>2. HandlesOf(session[s]) \cup {} = HandlesOf(session'[s]) \cup {} \cup lost
      BY <1>2
    <2>3. HandlesOf(session'[s]) \cap ({} \cup lost) = {}
      BY <1>2
    <2> QED BY <1>1, <1>2, <2>1, <2>2, <2>3, OwnedStep
  <1>4. Locking'
    <2>1. lock' \in Session \cup {"free", "poisoned"}
      BY <1>1 DEF Locking
    <2>2. ASSUME NEW u \in Session, u # s
          PROVE  session'[u].at = "running" <=> lock' = u
      <3>1. session'[u] = session[u] /\ (session[u].at = "running" <=> lock = u)
        BY <1>1, <1>2, <2>2 DEF Locking
      <3> QED BY <2>2, <3>1, Distinct
    <2> QED BY <1>2, <2>1, <2>2 DEF Locking
  <1>5. Counted'
    <2>1. HandlesOf(session[s]) \subseteq Engine!Transaction
      BY <1>1 DEF HandlesOf, Sane
    <2>2. lost \subseteq Engine!Transaction
      BY <2>1
    <2> QED BY <1>1, <2>2 DEF Counted
  <1> QED BY <1>1, <1>2, <1>3, <1>4, <1>5 DEF Kept, Numbered

\* The number of the transaction a statement runs in.
LEMMA NumberOf ==
  ASSUME SqlInv, NEW s \in Session, session[s].at \in {"begun", "running"}
  PROVE  /\ session[s].tx.tx_id.n \in 1..MaxTx /\ session[s].tx \in active
         /\ session[s].tx # None /\ session[s].tx \in Engine!Transaction
         /\ session[s].stmt \in Statement
         /\ session[s].current # None => session[s].tx = session[s].current
         /\ session[s].auto <=> session[s].current = None
  <1>1. Sane(session[s]) /\ Numbered
    BY DEF SqlInv, Sessions
  <1> QED BY <1>1, HeldActive DEF Sane, Numbered

\* An error ends the statement of a session that has the mutex.
LEMMA ErrorKept ==
  ASSUME SqlInv, NEW s \in Session, session[s].at = "running", ReturnError(s),
         op' = Engine!NoOp, UNCHANGED <<active, catalog, stmts>>
  PROVE  Kept'
  <1> DEFINE x == session[s]
             y == [x EXCEPT !.at = "idle", !.tx = None, !.stmt = NoStmt, !.todo = <<>>]
             lost == IF InTransaction(s) THEN {} ELSE {x.tx}
  <1>1. Sane(x) /\ Locking /\ Counted
    BY DEF SqlInv, Sessions
  <1>2. Sane(y) /\ y.at = "idle" /\ HandlesOf(y) = {x.current} \ {None}
    BY <1>1, DoneSane
  <1>3. session' = [session EXCEPT ![s] = y] /\ lock' = "free" /\ failed' = failed \cup {x.tx.tx_id.n}
    BY DEF ReturnError, Done
  <1>4. x.tx # None /\ (x.current # None => x.tx = x.current) /\ x.tx.tx_id.n \in 1..MaxTx
    BY NumberOf
  <1>5. left' = left \cup lost
    BY <1>4 DEF ReturnError, Orphans
  <1>6. HandlesOf(x) = HandlesOf(y) \cup lost /\ HandlesOf(y) \cap lost = {}
    BY <1>2, <1>4 DEF HandlesOf, InTransaction
  <1> HIDE DEF y, lost
  <1>7. lock = s /\ "free" # s
    BY <1>1, Holder, Distinct
  <1> QED BY <1>1, <1>2, <1>3, <1>4, <1>5, <1>6, <1>7, MoveKept DEF Counted

\* A panic under the mutex.
LEMMA PanicKept ==
  ASSUME SqlInv, NEW s \in Session, session[s].at \in {"begun", "running"}, Panic(s),
         lock \in {s, "free"}, op' = Engine!NoOp, UNCHANGED <<active, catalog, stmts>>
  PROVE  Kept'
  <1> DEFINE x == session[s]
             y == [x EXCEPT !.at = "dead"]
             lost == {x.current, x.tx} \ {None}
  <1>1. Sane(x) /\ Sessions /\ Counted
    BY DEF SqlInv, Sessions
  <1>2. Sane(y) /\ y.at = "dead" /\ HandlesOf(y) = {}
    BY <1>1, DeadSane
  <1>3. /\ session' = [session EXCEPT ![s] = y] /\ lock' = "poisoned"
        /\ failed' = failed \cup {x.tx.tx_id.n} /\ left' = left \cup lost
    BY DEF Panic, Orphans
  <1>4. x.tx.tx_id.n \in 1..MaxTx
    BY NumberOf
  <1>5. HandlesOf(x) = HandlesOf(y) \cup lost /\ HandlesOf(y) \cap lost = {}
    BY <1>2 DEF HandlesOf
  <1> HIDE DEF y, lost
  <1>6. "poisoned" # s
    BY Distinct
  <1> QED BY <1>1, <1>2, <1>3, <1>4, <1>5, <1>6, MoveKept DEF Counted

\* A session finds the mutex poisoned.
LEMMA LockPanicsKept ==
  ASSUME SqlInv, NEW s \in Session, LockPanics(s)
  PROVE  Kept' /\ Drives
  <1> DEFINE x == session[s]
             y == [x EXCEPT !.at = "dead"]
             lost == {x.current, x.tx} \ {None}
  <1>1. Sane(x) /\ Sessions /\ Counted /\ Locking
    BY DEF SqlInv, Sessions
  <1>2. Sane(y) /\ y.at = "dead" /\ HandlesOf(y) = {}
    BY <1>1, DeadSane
  <1>3. /\ session' = [session EXCEPT ![s] = y] /\ lock' = lock /\ lock = "poisoned"
        /\ left' = left \cup lost /\ UNCHANGED <<engineVars, catalog, stmts>>
        /\ x.at \in {"idle", "begun"}
    BY DEF LockPanics, Orphans
  <1>4. failed' \subseteq 1..MaxTx
    BY <1>1, NumberOf DEF LockPanics, At, Counted
  <1>5. HandlesOf(x) = HandlesOf(y) \cup lost /\ HandlesOf(y) \cap lost = {}
    BY <1>2, <1>3 DEF HandlesOf
  <1>6. /\ active' = active /\ op' = op /\ op = Engine!NoOp /\ "poisoned" # s
        /\ stmts' \in 0..MaxStmts
    BY <1>1, <1>3, Distinct DEF engineVars, Locking, Counted
  <1>7. Drives
    BY <1>3 DEF Drives
  <1> HIDE DEF y, lost
  <1> QED BY <1>2, <1>3, <1>4, <1>5, <1>6, <1>7, MoveKept

\* The loop of INSERT or DELETE goes on.
LEMMA NextRowKept ==
  ASSUME SqlInv, NEW s \in Session, session[s].at = "running", NextRow(s),
         session[s].todo # <<>>, UNCHANGED <<active, catalog, stmts>>
  PROVE  Kept'
  <1> DEFINE x == session[s]
             y == [x EXCEPT !.at = "running", !.todo = Tail(x.todo)]
  <1>1. Sane(x) /\ Sessions /\ Counted /\ Locking
    BY DEF SqlInv, Sessions
  <1>2. x.stmt.kind = "insert" => Tail(x.todo) \in Seq(NewRow)
    BY <1>1 DEF Sane
  <1>3. Sane(y) /\ y.at = "running" /\ HandlesOf(y) = HandlesOf(x)
    BY <1>1, <1>2, RunningSane
  <1>4. [x EXCEPT !.todo = Tail(@)] = y
    <2>1. x = [f \in Fields |-> x[f]] /\ x.at = "running"
      BY <1>1 DEF Sane
    <2> QED BY <2>1 DEF Fields
  <1>5. session' = [session EXCEPT ![s] = y] /\ UNCHANGED <<lock, left, failed>>
    BY <1>4 DEF NextRow, history
  <1>6. lock = s /\ failed' \subseteq 1..MaxTx /\ stmts' \in 0..MaxStmts
    BY <1>1, <1>5, Holder DEF Counted
  <1> HIDE DEF y
  <1>7. left' = left \cup {} /\ HandlesOf(x) = HandlesOf(y) \cup {} /\ HandlesOf(y) \cap {} = {}
    BY <1>3, <1>5
  <1> QED BY <1>3, <1>5, <1>6, <1>7, MoveKept

------------------------------------------------------------------------------
(* The steps that begin and decide transactions                            *)

\* One session moves while a transaction begins or is decided.
LEMMA TurnKept ==
  ASSUME SqlInv, NEW s \in Session, NEW y, NEW new, NEW done, Sane(y),
         session' = [session EXCEPT ![s] = y],
         new \cap active = {}, \A tx \in new : tx.tx_id.n \in 1..MaxTx,
         active' = (active \cup new) \ done,
         HandlesOf(session[s]) \cup new = HandlesOf(y) \cup done,
         HandlesOf(y) \cap done = {},
         y.at # "running", lock' = "free", lock \in {s, "free"}, op' = Engine!NoOp,
         stmts' \in 0..MaxStmts, UNCHANGED <<catalog, failed, left>>
  PROVE  Kept'
  <1>1. Sessions /\ Sane(session[s]) /\ Owned /\ Locking /\ Numbered /\ Counted
    BY DEF SqlInv, Sessions
  <1>2. /\ Sessions' /\ session'[s] = y
        /\ \A u \in Session : u # s => session'[u] = session[u]
    BY <1>1, SessionsStep
  <1>3. Owned'
    <2>1. left' = left \cup {} /\ done \cap {} = {}
      OBVIOUS
    <2>2. HandlesOf(session[s]) \cup new = HandlesOf(session'[s]) \cup done \cup {}
      BY <1>2
    <2>3. HandlesOf(session'[s]) \cap (done \cup {}) = {}
      BY <1>2
    <2> QED BY <1>1, <1>2, <2>1, <2>2, <2>3, OwnedStep
  <1>4. Locking'
    <2>1. \A u \in Session : session'[u].at # "running"
      <3>1. \A u \in Session : u # s => session[u].at # "running"
        BY <1>1, Holder
      <3> QED BY <1>2, <3>1
    <2> QED BY <2>1, Distinct DEF Locking
  <1>5. Numbered'
    BY <1>1 DEF Numbered
  <1>6. Counted'
    BY <1>1 DEF Counted
  <1> QED BY <1>2, <1>3, <1>4, <1>5, <1>6 DEF Kept

\* BEGIN.
LEMMA BeginKept ==
  ASSUME SqlInv, NEW s \in Session, ExecuteBegin(s)
  PROVE  Kept' /\ Drives
  <1> DEFINE x == session[s]
             y == [x EXCEPT !.current = Begun, !.auto = FALSE]
  <1>1. Sane(x) /\ Sessions /\ Counted /\ P!Core
    BY DEF SqlInv, Sessions
  <1>2. /\ x.at = "idle" /\ x.current = None /\ lock = "free" /\ Engine!Begin
        /\ session' = [session EXCEPT ![s].current = Begun, ![s].auto = FALSE]
        /\ stmts < MaxStmts /\ stmts' = stmts + 1 /\ UNCHANGED <<catalog, lock, left, failed>>
    BY DEF ExecuteBegin, At, InTransaction, history
  <1>3. /\ Begun \in Engine!Transaction /\ Begun \notin active
        /\ active' = active \cup {Begun} /\ Begun.tx_id.n \in 1..MaxTx
        /\ op' = Engine!NoOp /\ Drives
    BY <1>1, <1>2, BegunNew
  <1>4. Begun # None
    BY <1>3, Distinct
  <1>5. Sane(y) /\ y.at = "idle" /\ HandlesOf(y) = {Begun} \ {None}
    BY <1>1, <1>2, <1>3, <1>4, CurrentSane
  <1>6. session' = [session EXCEPT ![s] = y]
    BY <1>1, <1>2 DEF Sessions
  <1>7. HandlesOf(x) = {}
    BY <1>1, <1>2 DEF HandlesOf, Sane
  <1>8. stmts' \in 0..MaxStmts
    BY <1>1, <1>2, ExecutorAssumption DEF Counted
  <1> HIDE DEF y
  <1>9. /\ {Begun} \cap active = {} /\ \A tx \in {Begun} : tx.tx_id.n \in 1..MaxTx
        /\ active' = (active \cup {Begun}) \ {}
        /\ HandlesOf(x) \cup {Begun} = HandlesOf(y) \cup {} /\ HandlesOf(y) \cap {} = {}
    BY <1>3, <1>4, <1>5, <1>7
  <1> QED BY <1>2, <1>3, <1>5, <1>6, <1>8, <1>9, TurnKept

\* COMMIT and ROLLBACK.
LEMMA DecideKept ==
  ASSUME SqlInv, NEW s \in Session, ExecuteCommit(s) \/ ExecuteRollback(s)
  PROVE  Kept' /\ Drives
  <1> DEFINE x == session[s]
             y == [x EXCEPT !.current = None, !.auto = TRUE]
  <1>1. Sane(x) /\ Sessions /\ Counted
    BY DEF SqlInv, Sessions
  <1>2. /\ x.at = "idle" /\ x.current # None /\ lock = "free"
        /\ Engine!Commit(x.current) \/ Engine!Abort(x.current)
        /\ session' = [session EXCEPT ![s].current = None, ![s].auto = TRUE]
        /\ UNCHANGED <<stmts, catalog, lock, left, failed>>
    BY DEF ExecuteCommit, ExecuteRollback, At, InTransaction, history
  <1>3. x.current \in active
    BY <1>2, HeldActive
  <1>4. Drives
    BY <1>2, <1>3 DEF Drives, Engine!Next
  <1>5. active' = active \ {x.current} /\ op' = Engine!NoOp
    BY <1>2 DEF Engine!Commit, Engine!Abort, Engine!Decide, Engine!Idle
  <1>6. Sane(y) /\ y.at = "idle" /\ HandlesOf(y) = {None} \ {None}
    BY <1>1, <1>2, CurrentSane
  <1>7. session' = [session EXCEPT ![s] = y]
    BY <1>1, <1>2 DEF Sessions
  <1>8. HandlesOf(x) = {x.current}
    BY <1>1, <1>2 DEF HandlesOf, Sane
  <1> HIDE DEF y
  <1>9. /\ {} \cap active = {} /\ \A tx \in {} : tx.tx_id.n \in 1..MaxTx
        /\ active' = (active \cup {}) \ {x.current}
        /\ HandlesOf(x) \cup {} = HandlesOf(y) \cup {x.current}
        /\ HandlesOf(y) \cap {x.current} = {}
    BY <1>5, <1>6, <1>8
  <1>10. stmts' \in 0..MaxStmts
    BY <1>1, <1>2 DEF Counted
  <1> QED BY <1>2, <1>4, <1>5, <1>6, <1>7, <1>9, <1>10, TurnKept

\* A statement returns Ok.
LEMMA FinishKept ==
  ASSUME SqlInv, NEW s \in Session, Finish(s)
  PROVE  Kept' /\ Drives
  <1> DEFINE x == session[s]
             y == [x EXCEPT !.at = "idle", !.tx = None, !.stmt = NoStmt, !.todo = <<>>]
             z == [y EXCEPT !.current = IF x.auto THEN None ELSE @]
  <1>1. Sane(x) /\ Sessions /\ Counted /\ Locking
    BY DEF SqlInv, Sessions
  <1>2. /\ x.at = "running" /\ op = Engine!NoOp /\ lock' = "free"
        /\ session' = [session EXCEPT ![s] = z]
        /\ IF x.auto THEN Engine!Commit(x.tx) ELSE UNCHANGED engineVars
        /\ UNCHANGED <<catalog, stmts, failed, left>>
    BY DEF Finish, FinishWith, At, Done
  <1>3. Sane(y) /\ y.at = "idle" /\ HandlesOf(y) = {x.current} \ {None}
    BY <1>1, <1>2, DoneSane
  <1>4. /\ z = y
        /\ x.auto => HandlesOf(x) = {x.tx}
        /\ ~x.auto => HandlesOf(x) = {x.current} \ {None}
    BY <1>1, <1>2, FinishSane
  <1>5. x.tx \in active /\ (x.auto <=> x.current = None)
    BY <1>2, NumberOf
  <1>6. Drives
    BY <1>2, <1>5 DEF Drives, Engine!Next
  <1>7. lock = s /\ stmts' \in 0..MaxStmts
    BY <1>1, <1>2, Holder DEF Counted
  <1>8. op' = Engine!NoOp /\ session' = [session EXCEPT ![s] = y]
    BY <1>2, <1>4 DEF Engine!Commit, Engine!Decide, Engine!Idle, engineVars
  <1> DEFINE done == IF x.auto THEN {x.tx} ELSE {}
  <1>9. /\ active' = (active \cup {}) \ done
        /\ {} \cap active = {} /\ \A tx \in {} : tx.tx_id.n \in 1..MaxTx
    BY <1>2 DEF Engine!Commit, Engine!Decide, engineVars
  <1>10. HandlesOf(x) \cup {} = HandlesOf(y) \cup done /\ HandlesOf(y) \cap done = {}
    BY <1>3, <1>4, <1>5
  <1> HIDE DEF y, z, done
  <1> QED BY <1>2, <1>3, <1>6, <1>7, <1>8, <1>9, <1>10, TurnKept

\* A statement takes the session's transaction, or one of its own.
LEMMA StartKept ==
  ASSUME SqlInv, NEW s \in Session, NEW stmt \in Statement, Start(s, stmt)
  PROVE  Kept' /\ Drives
  <1> DEFINE x == session[s]
             tx == IF InTransaction(s) THEN x.current ELSE Begun
             y == [x EXCEPT !.at = "begun", !.stmt = stmt, !.tx = tx]
  <1>1. Sane(x) /\ Sessions /\ Counted /\ Locking /\ P!Core
    BY DEF SqlInv, Sessions
  <1>2. /\ x.at = "idle" /\ session' = [session EXCEPT ![s] = y]
        /\ stmts < MaxStmts /\ stmts' = stmts + 1 /\ UNCHANGED <<catalog, lock, left, failed>>
    BY DEF Start, At, history
  <1>3. stmts' \in 0..MaxStmts
    BY <1>1, <1>2, ExecutorAssumption DEF Counted
  <1> HIDE DEF tx
  <1>4. /\ y = [f \in Fields |-> y[f]] /\ y.at = "begun" /\ y.current = x.current
        /\ y.auto = x.auto /\ y.tx = tx /\ y.stmt = stmt
    <2>1. x = [f \in Fields |-> x[f]]
      BY <1>1 DEF Sane
    <2> QED BY <2>1 DEF Fields
  <1> HIDE DEF y
  <1>5. CASE InTransaction(s)
    <2>1. UNCHANGED engineVars
      BY <1>5 DEF Start
    <2>2. Drives /\ active' = active /\ op' = op
      BY <2>1 DEF Drives, engineVars
    <2>3. x.current \in Engine!Transaction /\ x.current # None /\ tx = x.current
      BY <1>1, <1>5 DEF Sane, InTransaction, tx
    <2>4. Sane(y) /\ y.at = "begun" /\ HandlesOf(y) = {tx}
      <3>1. tx \in Engine!Transaction /\ (x.current # None => tx = x.current)
        BY <2>3
      <3> QED BY <1>1, <1>2, <1>4, <3>1, BegunSane
    <2>5. HandlesOf(x) = {tx}
      BY <1>1, <1>2, <2>3 DEF HandlesOf, Sane
    <2>6. lock # s /\ (lock \notin Session => op = Engine!NoOp)
      BY <1>1, <1>2 DEF Locking
    <2>7. left' = left \cup {} /\ HandlesOf(x) = HandlesOf(y) \cup {} /\ HandlesOf(y) \cap {} = {}
      BY <1>2, <2>4, <2>5
    <2>8. failed' \subseteq 1..MaxTx
      BY <1>1, <1>2 DEF Counted
    <2> QED BY <1>2, <1>3, <2>2, <2>4, <2>6, <2>7, <2>8, MoveKept
  <1>6. CASE ~InTransaction(s)
    <2>1. lock = "free" /\ Engine!Begin /\ x.current = None /\ tx = Begun
      BY <1>6 DEF Start, InTransaction, tx
    <2>2. /\ Begun \in Engine!Transaction /\ Begun \notin active
          /\ active' = active \cup {Begun} /\ Begun.tx_id.n \in 1..MaxTx
          /\ op' = Engine!NoOp /\ Drives
      BY <1>1, <2>1, BegunNew
    <2>3. Sane(y) /\ y.at = "begun" /\ HandlesOf(y) = {tx}
      <3>1. tx \in Engine!Transaction /\ (x.current # None => tx = x.current)
        BY <2>1, <2>2
      <3> QED BY <1>1, <1>2, <1>4, <3>1, BegunSane
    <2>4. HandlesOf(x) = {}
      BY <1>1, <1>2, <2>1 DEF HandlesOf, Sane
    <2>5. /\ {Begun} \cap active = {} /\ \A b \in {Begun} : b.tx_id.n \in 1..MaxTx
          /\ active' = (active \cup {Begun}) \ {}
          /\ HandlesOf(x) \cup {Begun} = HandlesOf(y) \cup {} /\ HandlesOf(y) \cap {} = {}
      BY <2>1, <2>2, <2>3, <2>4
    <2> QED BY <1>2, <1>3, <2>1, <2>2, <2>3, <2>5, TurnKept
  <1> QED BY <1>5, <1>6

------------------------------------------------------------------------------
(* The other steps                                                         *)

\* CREATE TABLE changes what the engine has in memory only between operations.
LEMMA CreateKept ==
  ASSUME SqlInv, NEW s \in Session, NEW schema \in Schema, NEW if_not_exists \in BOOLEAN,
         ExecuteCreateTable(s, schema, if_not_exists)
  PROVE  Kept' /\ Drives
  <1>1. Sessions /\ Locking /\ Owned /\ Numbered /\ Counted /\ lock = "free"
    BY DEF SqlInv, ExecuteCreateTable
  <1>2. op = Engine!NoOp
    BY <1>1, Holder
  <1>3. Drives
    <2>1. schema.name \in Table
      BY DEF Schema
    <2>2. CASE tables' = tables
      BY <2>2 DEF ExecuteCreateTable, Drives, engineVars
    <2>3. CASE tables' = [r \in Engine!Row |-> IF r[1] = schema.name THEN <<>> ELSE tables[r]]
      <3>1. Emptied(schema.name)
        BY <1>2, <2>3 DEF ExecuteCreateTable, Emptied
      <3> QED BY <2>1, <3>1 DEF Drives
    <2> QED BY <2>2, <2>3 DEF ExecuteCreateTable
  <1>4. /\ catalog' \in [Session -> SUBSET Schema]
        /\ \A u \in Session : \A b, c \in catalog'[u] : b.name = c.name => b = c
    <2>1. catalog' = [catalog EXCEPT ![s] = Added(catalog[s], schema)]
      BY DEF ExecuteCreateTable
    <2> QED BY <1>1, <2>1 DEF Counted, Added
  <1>5. UNCHANGED <<session, active, op, lock, failed, left>> /\ stmts' \in 0..MaxStmts
    BY <1>1, ExecutorAssumption DEF ExecuteCreateTable, history, Counted
  <1>6. Sessions' /\ Locking' /\ Owned' /\ Numbered'
    BY <1>1, <1>5 DEF Sessions, Locking, Owned, Numbered
  <1>7. Counted'
    BY <1>1, <1>4, <1>5 DEF Counted
  <1> QED BY <1>3, <1>6, <1>7 DEF Kept

\* SELECT ends in one step.
LEMMA ScanKept ==
  ASSUME SqlInv, NEW s \in Session, ExecuteScan(s)
  PROVE  Kept' /\ Drives
  <1> DEFINE x == session[s]
             y == [x EXCEPT !.at = "idle", !.tx = None, !.stmt = NoStmt, !.todo = <<>>]
             lost == IF InTransaction(s) THEN {} ELSE {x.tx}
  <1>1. Sane(x) /\ Sessions /\ Counted /\ Locking
    BY DEF SqlInv, Sessions
  <1>2. x.at = "begun" /\ lock = "free" /\ UNCHANGED <<engineVars, catalog, stmts>>
    BY DEF ExecuteScan, At
  <1>3. Drives /\ active' = active /\ op' = Engine!NoOp /\ UNCHANGED <<catalog, stmts>>
    BY <1>1, <1>2, Holder DEF Drives, engineVars
  <1>4. CASE Panic(s)
    BY <1>2, <1>3, <1>4, PanicKept
  <1>5. CASE /\ session' = [session EXCEPT ![s] = Done(s)]
             /\ Orphans(s, IF InTransaction(s) THEN {} ELSE {x.tx})
             /\ UNCHANGED <<lock, acked, failed>>
    <2>1. Sane(y) /\ y.at = "idle" /\ HandlesOf(y) = {x.current} \ {None}
      BY <1>1, <1>2, DoneSane
    <2>2. session' = [session EXCEPT ![s] = y]
      BY <1>5 DEF Done
    <2>3. x.tx # None /\ (x.current # None => x.tx = x.current)
      BY <1>2, NumberOf
    <2>4. left' = left \cup lost
      BY <1>5, <2>3 DEF Orphans
    <2>5. HandlesOf(x) = HandlesOf(y) \cup lost /\ HandlesOf(y) \cap lost = {}
      BY <1>2, <2>1, <2>3 DEF HandlesOf, InTransaction
    <2>6. lock' = lock /\ lock' # s /\ failed' \subseteq 1..MaxTx /\ stmts' \in 0..MaxStmts
      BY <1>1, <1>2, <1>3, <1>5, Distinct DEF Counted
    <2> HIDE DEF y, lost
    <2> QED BY <1>3, <2>1, <2>2, <2>4, <2>5, <2>6, MoveKept
  <1> QED BY <1>3, <1>4, <1>5 DEF ExecuteScan

\* INSERT and DELETE take the mutex.
LEMMA AcquireKept ==
  ASSUME SqlInv, NEW s \in Session, Acquire(s)
  PROVE  Kept' /\ Drives
  <1> DEFINE x == session[s]
             rows == IF x.stmt.kind = "insert" THEN x.stmt.rows
                     ELSE Matching(Engine!RangeScan(Scanned(x.stmt.schema.name), x.tx),
                                   x.stmt.verdict)
             y == [x EXCEPT !.at = "running", !.todo = rows]
  <1>1. Sane(x) /\ Sessions /\ Counted /\ Locking
    BY DEF SqlInv, Sessions
  <1>2. /\ x.at = "begun" /\ lock = "free" /\ lock' = s
        /\ session' = [session EXCEPT ![s].at = "running", ![s].todo = rows]
        /\ UNCHANGED <<engineVars, catalog, stmts, left, failed>>
    BY DEF Acquire, At, history
  <1>3. x.stmt.kind = "insert" => rows \in Seq(NewRow)
    <2>1. x.stmt \in Statement
      BY <1>1, <1>2 DEF Sane
    <2>2. x.stmt.kind = "insert" => x.stmt.rows \in Batch
      BY <2>1 DEF Statement
    <2> QED BY <2>2, ExecutorAssumption
  <1> HIDE DEF rows
  <1>4. Sane(y) /\ y.at = "running" /\ HandlesOf(y) = HandlesOf(x)
    BY <1>1, <1>2, <1>3, RunningSane
  <1>5. session' = [session EXCEPT ![s] = y]
    BY <1>1, <1>2 DEF Sessions
  <1>6. Drives /\ active' = active
    BY <1>2 DEF Drives, engineVars
  <1>7. failed' \subseteq 1..MaxTx /\ stmts' \in 0..MaxStmts
    BY <1>1, <1>2 DEF Counted
  <1> HIDE DEF y
  <1>8. left' = left \cup {} /\ HandlesOf(x) = HandlesOf(y) \cup {} /\ HandlesOf(y) \cap {} = {}
    BY <1>2, <1>4
  <1> QED BY <1>2, <1>4, <1>5, <1>6, <1>7, <1>8, MoveKept

\* The rows that statements name are rows of the engine.
LEMMA RowsNamed ==
  ASSUME NEW stmt \in Statement
  PROVE  /\ Scanned(stmt.schema.name) \in Engine!Row
         /\ \A row \in NewRow : RowOf(stmt.schema, row) \in Engine!Row /\ row.value \in Value
  <1>1. stmt.schema.name \in Table
    BY DEF Statement, Schema
  <1>2. EmptyKey \in Key
    BY ExecutorAssumption
  <1>3. \A row \in NewRow : row.key \in Key /\ row.value \in Value
    BY DEF NewRow
  <1> QED BY <1>1, <1>2, <1>3 DEF Scanned, RowOf, Engine!Row

\* A row of INSERT, up to its page.
LEMMA InsertKept ==
  ASSUME SqlInv, NEW s \in Session, InsertRow(s)
  PROVE  Kept' /\ Drives
  <1> DEFINE x == session[s]
             row == Head(x.todo)
             r == RowOf(x.stmt.schema, row)
  <1>1. Sane(x) /\ Locking
    BY DEF SqlInv, Sessions
  <1>2. /\ x.at = "running" /\ x.stmt.kind = "insert" /\ op = Engine!NoOp /\ x.todo # <<>>
        /\ UNCHANGED <<catalog, stmts>>
    BY DEF InsertRow, Running, At
  <1>3. lock = s /\ x.tx \in active /\ x.stmt \in Statement
    BY <1>1, <1>2, Holder, NumberOf
  <1>4. row \in NewRow
    BY <1>1, <1>2 DEF Sane
  <1>5. r \in Engine!Row /\ row.value \in Value
    BY <1>3, <1>4, RowsNamed
  <1>6. \/ /\ Engine!InsertPage(r, row.value, x.tx)
           /\ IF op' = Engine!NoOp THEN ReturnError(s) ELSE NextRow(s)
        \/ (ReturnError(s) \/ Panic(s)) /\ UNCHANGED engineVars
    <2>1. row.status \in {"good", "bad", "short"}
      BY <1>4 DEF NewRow
    <2> QED BY <2>1 DEF InsertRow
  <1> HIDE DEF row, r
  <1>7. CASE /\ Engine!InsertPage(r, row.value, x.tx)
             /\ IF op' = Engine!NoOp THEN ReturnError(s) ELSE NextRow(s)
    <2>1. Drives
      BY <1>3, <1>5, <1>7 DEF Drives, Engine!Next
    <2>2. active' = active
      BY <1>7 DEF Engine!InsertPage, Engine!WriteRow, Engine!txVars
    <2> QED BY <1>2, <1>7, <2>1, <2>2, ErrorKept, NextRowKept
  <1>8. CASE (ReturnError(s) \/ Panic(s)) /\ UNCHANGED engineVars
    <2>1. Drives /\ active' = active /\ op' = Engine!NoOp
      BY <1>2, <1>8 DEF Drives, engineVars
    <2> QED BY <1>2, <1>3, <1>8, <2>1, ErrorKept, PanicKept
  <1> QED BY <1>6, <1>7, <1>8

\* A row of DELETE, up to its page.
LEMMA DeleteKept ==
  ASSUME SqlInv, NEW s \in Session, DeleteRow(s)
  PROVE  Kept' /\ Drives
  <1> DEFINE x == session[s]
             r == Scanned(x.stmt.schema.name)
  <1>1. Sane(x) /\ Locking
    BY DEF SqlInv, Sessions
  <1>2. /\ x.at = "running" /\ op = Engine!NoOp /\ x.todo # <<>>
        /\ UNCHANGED <<catalog, stmts>>
    BY DEF DeleteRow, Running, At
  <1>3. lock = s /\ x.tx \in active /\ x.stmt \in Statement
    BY <1>1, <1>2, Holder, NumberOf
  <1>4. r \in Engine!Row
    BY <1>3, RowsNamed
  <1>5. \/ /\ Engine!DeletePage(r, x.tx)
           /\ IF op' = Engine!NoOp THEN ReturnError(s) ELSE NextRow(s)
        \/ (ReturnError(s) \/ Panic(s)) /\ UNCHANGED engineVars
    BY DEF DeleteRow
  <1> HIDE DEF r
  <1>6. CASE /\ Engine!DeletePage(r, x.tx)
             /\ IF op' = Engine!NoOp THEN ReturnError(s) ELSE NextRow(s)
    <2>1. Drives
      BY <1>3, <1>4, <1>6 DEF Drives, Engine!Next
    <2>2. active' = active
      BY <1>6 DEF Engine!DeletePage, Engine!txVars
    <2> QED BY <1>2, <1>6, <2>1, <2>2, ErrorKept, NextRowKept
  <1>7. CASE (ReturnError(s) \/ Panic(s)) /\ UNCHANGED engineVars
    <2>1. Drives /\ active' = active /\ op' = Engine!NoOp
      BY <1>2, <1>7 DEF Drives, engineVars
    <2> QED BY <1>2, <1>3, <1>7, <2>1, ErrorKept, PanicKept
  <1> QED BY <1>5, <1>6, <1>7

\* The rest of an operation of the engine.
LEMMA EngineStepKept ==
  ASSUME SqlInv, NEW s \in Session, EngineStep(s)
  PROVE  Kept' /\ Drives
  <1>1. Sessions /\ Locking /\ Owned /\ Numbered /\ Counted
    BY DEF SqlInv
  <1>2. /\ lock = s /\ UNCHANGED <<catalog, stmts>>
        /\ Engine!InsertLog \/ Engine!InsertIndex \/ Engine!DeleteLog
    BY DEF EngineStep
  <1>3. Drives
    BY <1>2 DEF Drives, Engine!Next
  <1>4. active' = active
    BY <1>2 DEF Engine!InsertLog, Engine!InsertIndex, Engine!DeleteLog, Engine!txVars
  <1>5. session[s].at = "running"
    BY <1>1, <1>2 DEF Locking
  <1>6. CASE ReturnError(s)
    <2>1. op' = Engine!NoOp
      <3>1. CASE Engine!InsertIndex \/ Engine!DeleteLog
        BY <3>1 DEF Engine!InsertIndex, Engine!DeleteLog
      <3>2. CASE Engine!InsertLog /\ ~Engine!InsertIndex /\ ~Engine!DeleteLog
        <4>1. op' = Engine!NoOp \/ UNCHANGED lock
          BY <3>2 DEF EngineStep
        <4>2. lock' = "free"
          BY <1>6 DEF ReturnError
        <4> QED BY <1>2, <4>1, <4>2, Distinct
      <3> QED BY <1>2, <3>1, <3>2
    <2> QED BY <1>2, <1>3, <1>4, <1>5, <1>6, <2>1, ErrorKept
  <1>7. CASE UNCHANGED <<session, lock, history>>
    <2>1. UNCHANGED <<session, lock, left, failed>>
      BY <1>7 DEF history
    <2>2. Sessions' /\ Owned' /\ Numbered' /\ Counted'
      BY <1>1, <1>2, <1>4, <2>1 DEF Sessions, Owned, Numbered, Counted
    <2>3. Locking'
      BY <1>1, <1>2, <2>1 DEF Locking
    <2> QED BY <1>3, <2>2, <2>3 DEF Kept
  <1> QED BY <1>6, <1>7 DEF EngineStep

------------------------------------------------------------------------------
(* The theorems                                                            *)

\* Every step of a session preserves the invariant, and drives the engine as it
\* expects.
LEMMA StepKept == SqlInv /\ Next => Kept' /\ Drives
  <1> SUFFICES ASSUME SqlInv, Next PROVE Kept' /\ Drives
    OBVIOUS
  <1> QED
    BY BeginKept, DecideKept, CreateKept, StartKept, ScanKept, AcquireKept, InsertKept,
       DeleteKept, EngineStepKept, FinishKept, LockPanicsKept DEF Next, LockedStep

\* Every step keeps the invariant and drives the engine as EngineDriven wants.
LEMMA SqlInvNext == SqlInv /\ [Next]_vars => SqlInv' /\ Drives
  <1> SUFFICES ASSUME SqlInv, [Next]_vars PROVE SqlInv' /\ Drives
    OBVIOUS
  <1>1. CASE Next
    <2>1. Kept' /\ Drives /\ P!Core
      BY <1>1, StepKept DEF SqlInv
    <2>2. P!Core'
      BY <2>1, CoreKept
    <2> QED BY <2>1, <2>2 DEF SqlInv, Kept
  <1>2. CASE UNCHANGED vars
    <2>1. /\ UNCHANGED engineVars /\ UNCHANGED <<session, catalog, lock, stmts, failed, left>>
          /\ UNCHANGED <<active, op>>
      BY <1>2 DEF vars, history, engineVars
    <2>2. Drives
      BY <2>1 DEF Drives
    <2>3. P!Core'
      BY <2>2, CoreKept DEF SqlInv
    <2>4. Kept'
      BY <2>1 DEF SqlInv, Kept, Sessions, Locking, Owned, Numbered, Counted
    <2> QED BY <2>2, <2>3, <2>4 DEF SqlInv, Kept
  <1> QED BY <1>1, <1>2

\* The executors and the engine start in it.
LEMMA SqlInvInit == Init => SqlInv
  <1> SUFFICES ASSUME Init PROVE SqlInv
    OBVIOUS
  <1>1. P!Core
    BY SameSteps, P!InvInit, EngineConstants DEF Init, P!IInv
  <1>2. /\ session = [s \in Session |-> NewSession] /\ lock = "free" /\ stmts = 0
        /\ catalog = [s \in Session |-> {}] /\ failed = {} /\ left = {}
        /\ active = {} /\ op = Engine!NoOp
    BY DEF Init, Engine!Init
  <1>3. Sane(NewSession) /\ HandlesOf(NewSession) = {} /\ NewSession.at = "idle"
    <2>1. /\ NewSession.at = "idle" /\ NewSession.current = None /\ NewSession.auto = TRUE
          /\ NewSession.tx = None /\ NewSession.stmt = NoStmt
          /\ NewSession = [f \in Fields |-> NewSession[f]]
      BY DEF NewSession, Fields
    <2> QED BY <2>1 DEF Sane, HandlesOf
  <1>4. Sessions
    BY <1>2, <1>3 DEF Sessions
  <1>5. Locking
    BY <1>2, <1>3, Distinct DEF Locking
  <1>6. Owned /\ Numbered
    BY <1>2, <1>3 DEF Owned, Numbered
  <1>7. Counted
    BY <1>2, ExecutorAssumption DEF Counted
  <1> QED BY <1>1, <1>4, <1>5, <1>6, <1>7 DEF SqlInv

\* The inductive invariant holds in every reachable state.
THEOREM Invariance == Spec => []SqlInv
  BY SqlInvInit, SqlInvNext, PTL DEF Spec

\* Every reachable state is well-typed, the engine's types included; who is in a
\* statement on rows has the mutex, and an operation of the engine is in progress
\* only while somebody has it (executor 276-331).
THEOREM TypeCorrect == Spec => []TypeOK
  <1>1. SqlInv => TypeOK
    <2> SUFFICES ASSUME SqlInv PROVE TypeOK
      OBVIOUS
    <2>1. Engine!TypeOK
      BY SameStates DEF SqlInv, P!Core
    <2>2. \A s \in Session : Sane(session[s])
      BY DEF SqlInv, Sessions
    <2> QED BY <2>1, <2>2 DEF SqlInv, Sane, Locking, Counted, TypeOK, At
  <1> QED BY <1>1, Invariance, PTL

\* A session works in one transaction at a time and no two in the same, through
\* errors, panics and a poisoned mutex.
THEOREM OwnershipCorrect == Spec => []SessionsOwnTransactions
  <1>1. SqlInv => SessionsOwnTransactions
    <2> SUFFICES ASSUME SqlInv PROVE SessionsOwnTransactions
      OBVIOUS
    <2>1. \A s \in Session : Sane(session[s]) /\ Handles(s) = HandlesOf(session[s])
      BY DEF SqlInv, Sessions, Handles, HandlesOf, At
    <2>2. \A s, u \in Session : s # u => Handles(s) \cap Handles(u) = {}
      BY <2>1 DEF SqlInv, Owned
    <2>3. \A s \in Session : ~At(s, "dead") =>
             /\ session[s].auto <=> session[s].current = None
             /\ session[s].tx # None /\ InTransaction(s) => session[s].tx = session[s].current
      BY <2>1 DEF Sane, At, InTransaction
    <2> QED BY <2>2, <2>3 DEF SessionsOwnTransactions
  <1> QED BY <1>1, Invariance, PTL

\* The active transactions are those of the sessions and those that were lost: no
\* COMMIT, ROLLBACK or auto-commit leaks one, and none in use is missing.
THEOREM AccountingCorrect == Spec => []ActiveAccounted
  <1>1. SqlInv => ActiveAccounted
    <2> SUFFICES ASSUME SqlInv PROVE ActiveAccounted
      OBVIOUS
    <2>1. \A s \in Session : Handles(s) = HandlesOf(session[s])
      BY DEF Handles, HandlesOf, At
    <2>2. \A tx : tx \in active <=> tx \in left \/ \E s \in Session : tx \in Handles(s)
      BY <2>1 DEF SqlInv, Owned
    <2>3. \A s \in Session : Handles(s) \cap left = {}
      BY <2>1 DEF SqlInv, Owned
    <2> HIDE DEF Handles
    <2> QED BY <2>2, <2>3 DEF ActiveAccounted
  <1> QED BY <1>1, Invariance, PTL

\* The sessions use the engine as StorageEngine assumes: one operation at a time,
\* with transactions that are active, and CREATE TABLE between operations.
THEOREM DrivenCorrect == Spec => EngineDriven
  <1>1. Drives => [Engine!Next \/ \E t \in Table : Emptied(t)]_engineVars
    BY DEF Drives
  <1> QED BY <1>1, SqlInvNext, Invariance, PTL DEF Spec, EngineDriven

\* Hence what StorageEngineProofs shows of the files without regard to memory
\* holds under SQL, CREATE TABLE of existing tables included: pages are not shared
\* and the index is logged.
THEOREM FilesCorrect == Spec => [](Engine!PagesNotShared /\ Engine!IndexIsLogged)
  <1>1. SqlInv => Engine!PagesNotShared /\ Engine!IndexIsLogged
    BY SameStates DEF SqlInv, P!Core
  <1> QED BY <1>1, Invariance, PTL

==============================================================================
