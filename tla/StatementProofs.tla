--------------------------- MODULE StatementProofs ---------------------------
(***************************************************************************)
(* Proofs about what statements leave behind, for QueryExecutor: the index *)
(* has exactly the rows whose INSERT returned Ok, for every transaction in *)
(* which no statement failed.  The invariant of QueryExecutorProofs is     *)
(* extended by an account of each statement that is under way: what it has *)
(* put into the index, the row it is at, and the rows it has yet to come   *)
(* to, add up to what it lists.                                            *)
(***************************************************************************)
EXTENDS QueryExecutorProofs, Induction

\* The steps of the executor's engine are those of the engine's proofs.
LEMMA SameActions ==
  /\ \A r, val, tx : P!InsertPage(r, val, tx) <=> Engine!InsertPage(r, val, tx)
  /\ \A r, tx : P!DeletePage(r, tx) <=> Engine!DeletePage(r, tx)
  /\ P!InsertIndex <=> Engine!InsertIndex
  <1>1. P!Row = Engine!Row /\ P!NoOp = Engine!NoOp /\ (P!Idle <=> Engine!Idle)
    BY DEF P!Row, Engine!Row, P!NoOp, Engine!NoOp, P!Idle, Engine!Idle
  <1>2. \A vs : P!Fits(vs) <=> Engine!Fits(vs)
    BY DEF P!Fits, Engine!Fits, P!Cardinality, Engine!Cardinality
  <1>3. \A vs, tx : P!Tombstoned(vs, tx) = Engine!Tombstoned(vs, tx)
    BY DEF P!Tombstoned, Engine!Tombstoned, P!FirstVisible, Engine!FirstVisible,
           P!IsVisible, Engine!IsVisible, P!Min, Engine!Min
  <1>4. \A r, val, tx : P!InsertPage(r, val, tx) <=> Engine!InsertPage(r, val, tx)
    BY <1>1, <1>2 DEF P!InsertPage, Engine!InsertPage, P!WriteRow, Engine!WriteRow,
           P!WithVersion, Engine!WithVersion, P!DataPage, Engine!DataPage,
           P!txVars, Engine!txVars
  <1>5. \A r, tx : P!DeletePage(r, tx) <=> Engine!DeletePage(r, tx)
    BY <1>1, <1>2, <1>3 DEF P!DeletePage, Engine!DeletePage, P!DataPage, Engine!DataPage,
           P!PageOf, Engine!PageOf, P!txVars, Engine!txVars
  <1>6. P!RootFull <=> Engine!RootFull
    BY <1>1 DEF P!RootFull, Engine!RootFull, P!SumFunctionOnSet, Engine!SumFunctionOnSet,
           P!FoldFunctionOnSet, Engine!FoldFunctionOnSet, P!MapThenFoldSet,
           Engine!MapThenFoldSet
  <1>7. P!InsertIndex <=> Engine!InsertIndex
    BY <1>1, <1>6 DEF P!InsertIndex, Engine!InsertIndex, P!txVars, Engine!txVars
  <1> QED BY <1>4, <1>5, <1>7

------------------------------------------------------------------------------
(* The account of a statement                                              *)

\* How often the rows name r.
Count(schema, rows, r) == Cardinality({i \in DOMAIN rows : RowOf(schema, rows[i]) = r})

\* Is r the row that has its page and not yet its index entry?
Unfinished(r) ==
    IF op.kind \in {"insert_log", "insert_index"} /\ op.row = r THEN 1 ELSE 0

\* The rows a statement has yet to come to.
Ahead(s, r) ==
    IF session[s].stmt.kind # "insert" THEN 0
    ELSE Count(session[s].stmt.schema, session[s].todo, r)

\* The engine's operation is one of the statement that has the mutex.
OperationOf(s) ==
    /\ session[s].stmt.kind \in {"insert", "delete"}
    /\ op # Engine!NoOp =>
          /\ op.tx = session[s].tx
          /\ op.kind \in IF session[s].stmt.kind = "insert"
                         THEN {"insert_log", "insert_index"} ELSE {"delete_log"}

\* What is in the index, under way and to come, of the statement's transaction n.
Have(n, s, r) == Cardinality(EntriesBy(n, r)) + Unfinished(r) + Ahead(s, r)

\* What was acknowledged before, and what the statement lists.
Want(n, s, r) == acked[n][r] + Listed(session[s].stmt, r)

\* There is as much as there should be, and if no statement has failed no more.
Balanced(s) ==
    LET n == session[s].tx.tx_id.n
    IN  \A r \in Engine!Row :
          /\ Have(n, s, r) >= Want(n, s, r)
          /\ n \notin failed => Have(n, s, r) = Want(n, s, r)

\* The index has what was acknowledged, and perhaps more ...
Covered(n) == \A r \in Engine!Row : Cardinality(EntriesBy(n, r)) >= acked[n][r]

\* ... or nothing else.
Settled(n) == \A r \in Engine!Row : Cardinality(EntriesBy(n, r)) = acked[n][r]

\* A transaction in which no statement failed is settled, but for the one of the
\* statement under way.
Accounts ==
    /\ acked \in [1..MaxTx -> [Engine!Row -> Nat]]
    /\ \A n \in 1..MaxTx : Covered(n)
    /\ \A n \in (1..MaxTx) \ failed :
          (\A s \in Session : session[s].at = "running" => session[s].tx.tx_id.n # n)
             => Settled(n)
    /\ \A s \in Session : session[s].at = "running" => OperationOf(s) /\ Balanced(s)

------------------------------------------------------------------------------
(* Counting                                                                *)

\* The rows behind the first one.
LEMMA CountTail ==
  ASSUME NEW t, NEW rows \in Seq(NewRow), rows # <<>>, NEW r
  PROVE  /\ Count(t, rows, r) \in Nat /\ Count(t, Tail(rows), r) \in Nat
         /\ Count(t, rows, r) = Count(t, Tail(rows), r)
               + (IF RowOf(t, Head(rows)) = r THEN 1 ELSE 0)
  <1> DEFINE tail == Tail(rows)
             A == {i \in 1..Len(rows) : RowOf(t, rows[i]) = r}
             B == {i \in 1..Len(tail) : RowOf(t, tail[i]) = r}
             C == A \ {1}
  <1>1. /\ Len(rows) \in Nat \ {0} /\ DOMAIN rows = 1..Len(rows)
        /\ tail \in Seq(NewRow) /\ Len(tail) = Len(rows) - 1 /\ DOMAIN tail = 1..Len(tail)
        /\ Head(rows) = rows[1] /\ \A i \in 1..Len(tail) : tail[i] = rows[i + 1]
    OBVIOUS
  <1>2. Count(t, rows, r) = Cardinality(A) /\ Count(t, tail, r) = Cardinality(B)
    BY <1>1 DEF Count
  <1> HIDE DEF tail
  <1>3. IsFiniteSet(A) /\ IsFiniteSet(B)
    <2>1. IsFiniteSet(1..Len(rows)) /\ IsFiniteSet(1..Len(tail))
      BY <1>1, FS_Interval
    <2>2. A \in SUBSET (1..Len(rows)) /\ B \in SUBSET (1..Len(tail))
      OBVIOUS
    <2> QED BY <2>1, <2>2, FS_Subset
  <1>4. Cardinality(A) \in Nat /\ Cardinality(B) \in Nat
    BY <1>3, FS_CardinalityType
  <1>5. /\ IsFiniteSet(C)
        /\ Cardinality(C) = IF 1 \in A THEN Cardinality(A) - 1 ELSE Cardinality(A)
    BY <1>3, FS_RemoveElement
  <1>6. ExistsBijection(B, C)
    <2> DEFINE f == [i \in B |-> i + 1]
    <2>1. \A i \in B : i + 1 \in C
      BY <1>1
    <2>2. \A j \in C : j - 1 \in B /\ j = (j - 1) + 1
      BY <1>1
    <2>3. f \in [B -> C]
      BY <2>1
    <2>4. \A i, j \in B : f[i] = f[j] => i = j
      BY <1>1
    <2>5. \A j \in C : \E i \in B : f[i] = j
      BY <2>2
    <2> HIDE DEF f, B, C
    <2>6. f \in Bijection(B, C)
      BY <2>3, <2>4, <2>5 DEF Bijection, Injection, Surjection, IsInjective
    <2> QED BY <2>6 DEF ExistsBijection
  <1>7. Cardinality(C) = Cardinality(B)
    BY <1>3, <1>6, FS_Bijection
  <1>8. (1 \in A) <=> RowOf(t, Head(rows)) = r
    BY <1>1
  <1> HIDE DEF A, B, C
  <1> QED BY <1>2, <1>4, <1>5, <1>7, <1>8 DEF tail

\* No rows, none of them r.
LEMMA CountNone == ASSUME NEW t, NEW r PROVE Count(t, <<>>, r) = 0
  <1>1. {i \in DOMAIN <<>> : RowOf(t, <<>>[i]) = r} = {}
    OBVIOUS
  <1> QED BY <1>1, FS_EmptySet DEF Count

\* What a statement lists is a number.
LEMMA ListedType ==
  ASSUME NEW stmt \in Statement, NEW r
  PROVE  /\ Listed(stmt, r) \in Nat
         /\ stmt.kind = "insert" => Listed(stmt, r) = Count(stmt.schema, stmt.rows, r)
  <1>1. CASE stmt.kind # "insert"
    BY <1>1 DEF Listed
  <1>2. CASE stmt.kind = "insert"
    <2>1. stmt.rows \in Seq(NewRow)
      <3>1. stmt.rows \in Batch
        BY <1>2 DEF Statement
      <3> QED BY <3>1, ExecutorAssumption
    <2>2. Listed(stmt, r) = Count(stmt.schema, stmt.rows, r)
      BY <1>2 DEF Listed, Count
    <2>3. Count(stmt.schema, stmt.rows, r) \in Nat
      <3>1. CASE stmt.rows = <<>>
        BY <3>1, CountNone
      <3>2. CASE stmt.rows # <<>>
        BY <2>1, <3>2, CountTail
      <3> QED BY <3>1, <3>2
    <2> QED BY <2>2, <2>3
  <1> QED BY <1>1, <1>2


------------------------------------------------------------------------------
(* What a step makes of the index entries                                  *)

\* A page the index points to has a version, and stays in the file.
LEMMA EntryPage ==
  ASSUME P!Core, NEW r \in Engine!Row, NEW i \in DOMAIN index[r]
  PROVE  /\ index[r][i] \in 1..Len(pages) /\ Len(pages) \in Nat
         /\ pages[index[r][i]].versions \in Seq(Engine!Version)
         /\ 1 \in DOMAIN pages[index[r][i]].versions
         /\ DOMAIN index[r] = 1..Len(index[r]) /\ Len(index[r]) \in Nat
  <1>1. P!TypeOK /\ P!PagesNotShared /\ P!Occupied /\ r \in P!Row
    BY SameSteps DEF P!Core
  <1>2. /\ index[r][i] \in (root + 1)..Len(pages) /\ root \in 1..Len(pages)
        /\ Len(pages) \in Nat /\ pages[index[r][i]].versions \in Seq(P!Version)
    BY <1>1, P!IndexedPage, EngineConstants
  <1>3. pages[index[r][i]].versions # <<>>
    BY <1>1 DEF P!Occupied
  <1>4. P!Version = Engine!Version
    BY DEF P!Version, Engine!Version, P!TxId, Engine!TxId
  <1>5. index[r] \in Seq(1..MaxPages)
    BY <1>1 DEF P!TypeOK
  <1> QED BY <1>2, <1>3, <1>4, <1>5

\* The entries of a row are finitely many.
LEMMA EntriesFinite ==
  ASSUME P!Core, NEW n, NEW r \in Engine!Row
  PROVE  IsFiniteSet(EntriesBy(n, r)) /\ Cardinality(EntriesBy(n, r)) \in Nat
  <1>1. index[r] \in Seq(1..MaxPages)
    BY SameSteps DEF P!Core, P!TypeOK
  <1>2. Len(index[r]) \in Nat /\ DOMAIN index[r] = 1..Len(index[r])
    BY <1>1
  <1>3. IsFiniteSet(1..Len(index[r]))
    BY <1>2, FS_Interval
  <1>4. EntriesBy(n, r) \in SUBSET (1..Len(index[r]))
    BY <1>2 DEF EntriesBy
  <1> QED BY <1>3, <1>4, FS_Subset, FS_CardinalityType

\* Steps that leave the index and the writers of its pages alone.
WritersSame ==
    /\ UNCHANGED index
    /\ \A r \in Engine!Row : \A i \in DOMAIN index[r] :
          pages'[index[r][i]].versions[1].created_by = pages[index[r][i]].versions[1].created_by

EntriesSame ==
    /\ WritersSame
    /\ \A n \in 1..MaxTx : \A r \in Engine!Row : EntriesBy(n, r)' = EntriesBy(n, r)

\* Most steps touch neither index nor pages.
LEMMA EntriesUntouched == ASSUME UNCHANGED <<index, pages>> PROVE EntriesSame
  BY DEF EntriesSame, WritersSame, EntriesBy

\* The writer of a page is the writer of its newest version.
LEMMA WritersKept ==
  ASSUME WritersSame
  PROVE  EntriesSame
  BY DEF EntriesSame, WritersSame, EntriesBy

\* insert writes a page no entry has.
LEMMA EntriesInsert ==
  ASSUME P!Core, NEW tx \in active, NEW r \in Engine!Row, NEW val \in Value,
         Engine!InsertPage(r, val, tx)
  PROVE  /\ EntriesSame /\ op = Engine!NoOp
         /\ op' = op \/ op' = [kind |-> "insert_log", row |-> r, tx |-> tx,
                               page |-> Len(pages) + 1]
  <1>1. P!TypeOK /\ r \in P!Row /\ P!InsertPage(r, val, tx)
    BY SameSteps, SameActions DEF P!Core
  <1>2. /\ op = P!NoOp /\ UNCHANGED index /\ P!PagesKept
        /\ op' = op \/ op' = [kind |-> "insert_log", row |-> r, tx |-> tx,
                              page |-> Len(pages) + 1]
    BY <1>1, P!InsertPageStep, EngineConstants
  <1>3. EntriesSame
    BY <1>2, EntryPage, WritersKept DEF P!PagesKept, WritersSame
  <1> QED BY <1>2, <1>3, SameSteps

\* delete keeps who created what.
LEMMA EntriesDelete ==
  ASSUME P!Core, NEW tx \in active, NEW r \in Engine!Row, Engine!DeletePage(r, tx)
  PROVE  /\ EntriesSame /\ op = Engine!NoOp
         /\ op' = op \/ op' = [kind |-> "delete_log", row |-> r, tx |-> tx]
  <1>1. P!TypeOK /\ P!PagesNotShared /\ r \in P!Row /\ P!DeletePage(r, tx)
    BY SameSteps, SameActions DEF P!Core
  <1> DEFINE p == P!PageOf(r)
             vs == P!Tombstoned(pages[p].versions, tx)
  <1>2. /\ op = P!NoOp /\ UNCHANGED index /\ pages[p].versions \in Seq(P!Version)
        /\ p = index[r][1] /\ 1 \in DOMAIN index[r]
        /\ op' = op \/ op' = [kind |-> "delete_log", row |-> r, tx |-> tx]
        /\ \/ /\ pages'[p] = P!DataPage(vs)
              /\ \A q \in 1..Len(pages) : q # p => pages'[q] = pages[q]
           \/ UNCHANGED pages
    BY <1>1, P!DeletePageStep, EngineConstants
  <1>3. vs[1].created_by = pages[p].versions[1].created_by
    <2>1. tx \in P!Transaction
      BY <1>1 DEF P!TypeOK
    <2>2. 1 \in 1..Len(pages[p].versions)
      BY <1>2, EntryPage
    <2> QED BY <1>2, <2>1, <2>2, P!TombstonedFacts, EngineConstants
  <1>4. P!DataPage(vs).versions = vs
    BY DEF P!DataPage
  <1> HIDE DEF p, vs
  <1>5. EntriesSame
    BY <1>2, <1>3, <1>4, EntryPage, WritersKept DEF WritersSame
  <1> QED BY <1>2, <1>5, SameSteps

\* The end of insert: one entry more, of the transaction that inserts, or none.
LEMMA EntriesAppend ==
  ASSUME P!Core, Engine!InsertIndex, index' # index, NEW n, NEW r \in Engine!Row
  PROVE  Cardinality(EntriesBy(n, r)') = Cardinality(EntriesBy(n, r))
            + (IF n = op.tx.tx_id.n /\ r = op.row THEN 1 ELSE 0)
  <1>1. P!TypeOK /\ P!PendingPage /\ r \in P!Row /\ P!InsertIndex
    BY SameSteps, SameActions DEF P!Core
  <1> DEFINE k == Len(index[op.row]) + 1
  <1>2. /\ P!Inserting /\ op.row \in P!Row /\ UNCHANGED pages
        /\ r # op.row => index'[r] = index[r]
        /\ DOMAIN index'[op.row] = 1..k
        /\ \A i \in DOMAIN index[op.row] : index'[op.row][i] = index[op.row][i]
        /\ index'[op.row][k] = op.page
        /\ Len(index[op.row]) \in Nat /\ DOMAIN index[op.row] = 1..Len(index[op.row])
    BY <1>1, P!InsertIndexStep, EngineConstants
  <1>3. pages[op.page].versions[1].created_by = op.tx.tx_id
    BY <1>1, <1>2 DEF P!PendingPage, P!DataPage
  <1>4. IsFiniteSet(EntriesBy(n, r)) /\ Cardinality(EntriesBy(n, r)) \in Nat
    BY EntriesFinite
  <1>5. CASE r # op.row
    <2>1. EntriesBy(n, r)' = EntriesBy(n, r)
      BY <1>2, <1>5 DEF EntriesBy
    <2> QED BY <1>4, <1>5, <2>1
  <1>6. CASE r = op.row
    <2>1. EntriesBy(n, r)' = {i \in 1..k : pages[index'[op.row][i]].versions[1].created_by.n = n}
      BY <1>2, <1>6 DEF EntriesBy
    <2>2. EntriesBy(n, r) =
             {i \in 1..Len(index[op.row]) : pages[index[op.row][i]].versions[1].created_by.n = n}
      BY <1>2, <1>6 DEF EntriesBy
    <2>3. 1..k = (1..Len(index[op.row])) \cup {k} /\ k \notin 1..Len(index[op.row])
      BY <1>2
    <2> HIDE DEF k
    <2>4. CASE n = op.tx.tx_id.n
      <3>1. EntriesBy(n, r)' = EntriesBy(n, r) \cup {k} /\ k \notin EntriesBy(n, r)
        BY <1>2, <1>3, <2>1, <2>2, <2>3, <2>4
      <3> QED BY <1>4, <1>6, <2>4, <3>1, FS_AddElement
    <2>5. CASE n # op.tx.tx_id.n
      <3>1. k \notin EntriesBy(n, r)'
        BY <1>2, <1>3, <2>1, <2>5
      <3>2. \A i \in 1..Len(index[op.row]) : i \in EntriesBy(n, r)' <=> i \in EntriesBy(n, r)
        BY <1>2, <2>1, <2>2, <2>3
      <3>3. EntriesBy(n, r)' = EntriesBy(n, r)
        BY <2>1, <2>2, <2>3, <3>1, <3>2
      <3> QED BY <1>4, <2>5, <3>3
    <2> QED BY <2>4, <2>5
  <1> QED BY <1>5, <1>6

------------------------------------------------------------------------------
(* What a step makes of the accounts                                       *)

\* What was settled stays so if neither side of the account changes.
LEMMA SettledKept ==
  ASSUME UNCHANGED acked, NEW n,
         \A r \in Engine!Row : Cardinality(EntriesBy(n, r)') = Cardinality(EntriesBy(n, r))
  PROVE  (Settled(n) => Settled(n)') /\ (Covered(n) => Covered(n)')
  BY DEF Settled, Covered

\* The statement under way has its account in balance while the sum of its parts,
\* and what it should be, stay the same.
LEMMA BalancedKept ==
  ASSUME NEW s \in Session, Balanced(s), NEW n, n = session[s].tx.tx_id.n, UNCHANGED failed,
         session'[s].tx = session[s].tx, session'[s].stmt = session[s].stmt, UNCHANGED acked,
         \A r \in Engine!Row : Have(n, s, r)' = Have(n, s, r)
  PROVE  Balanced(s)'
  <1>1. \A r \in Engine!Row : Want(n, s, r)' = Want(n, s, r)
    BY DEF Want
  <1> QED BY <1>1 DEF Balanced

\* Nothing acknowledged is lost, and who has not failed has nothing more.
StaysSettled ==
    /\ \A n \in 1..MaxTx : Covered(n) => Covered(n)'
    /\ \A n \in (1..MaxTx) \ failed' : Settled(n) => Settled(n)'

\* Nobody is left in a statement, and whoever was has failed.
LEMMA AccountsClosed ==
  ASSUME Accounts, StaysSettled, UNCHANGED acked, failed \subseteq failed',
         \A s \in Session : session'[s].at # "running",
         \A s \in Session : session[s].at = "running" => session[s].tx.tx_id.n \in failed'
  PROVE  Accounts'
  <1>1. acked' \in [1..MaxTx -> [Engine!Row -> Nat]]
    BY DEF Accounts
  <1>2. ASSUME NEW n \in (1..MaxTx) \ failed'
        PROVE  Settled(n)'
    <2>1. n \in (1..MaxTx) \ failed
      OBVIOUS
    <2>2. Settled(n)
      BY <2>1 DEF Accounts
    <2> QED BY <2>2 DEF StaysSettled
  <1>3. \A n \in 1..MaxTx : Covered(n)'
    BY DEF StaysSettled, Accounts
  <1> QED BY <1>1, <1>2, <1>3 DEF Accounts

\* A session does something beside the statement under way.
LEMMA AccountsAside ==
  ASSUME Accounts, EntriesSame, UNCHANGED <<acked, failed, op>>,
         \A s \in Session : /\ session'[s].at = "running" <=> session[s].at = "running"
                            /\ session[s].at = "running" => session'[s] = session[s],
         \A s \in Session : session[s].at = "running" => session[s].tx.tx_id.n \in 1..MaxTx
  PROVE  Accounts'
  <1>1. acked' \in [1..MaxTx -> [Engine!Row -> Nat]]
    BY DEF Accounts
  <1>2. ASSUME NEW n \in (1..MaxTx) \ failed,
               \A s \in Session : session'[s].at = "running" => session'[s].tx.tx_id.n # n
        PROVE  Settled(n)'
    <2>1. Settled(n)
      BY <1>2 DEF Accounts
    <2> QED BY <2>1, SettledKept DEF EntriesSame
  <1>3. ASSUME NEW s \in Session, session'[s].at = "running"
        PROVE  OperationOf(s)' /\ Balanced(s)'
    <2>1. /\ OperationOf(s) /\ Balanced(s) /\ session'[s] = session[s]
          /\ session[s].tx.tx_id.n \in 1..MaxTx
      BY <1>3 DEF Accounts
    <2>2. OperationOf(s)'
      BY <2>1 DEF OperationOf
    <2>3. PICK n : n = session[s].tx.tx_id.n
      OBVIOUS
    <2>4. \A r \in Engine!Row : Have(n, s, r)' = Have(n, s, r)
      BY <2>1, <2>3 DEF Have, EntriesSame, Unfinished, Ahead
    <2>5. Balanced(s)'
      BY <2>1, <2>3, <2>4, BalancedKept
    <2> QED BY <2>2, <2>5
  <1>4. \A n \in 1..MaxTx : Covered(n)'
    BY SettledKept DEF EntriesSame, Accounts
  <1> QED BY <1>1, <1>2, <1>3, <1>4 DEF Accounts

\* The statement under way takes a step of its own.
LEMMA AccountsOn ==
  ASSUME SqlInv, Accounts, NEW s \in Session, session[s].at = "running",
         \A u \in Session : u # s => session'[u] = session[u],
         session'[s].tx = session[s].tx, UNCHANGED <<acked, failed>>,
         \A n \in 1..MaxTx : n # session[s].tx.tx_id.n =>
            \A r \in Engine!Row : Cardinality(EntriesBy(n, r)') = Cardinality(EntriesBy(n, r)),
         Covered(session[s].tx.tx_id.n)',
         session'[s].at = "running", OperationOf(s)', Balanced(s)'
  PROVE  Accounts'
  <1>0. lock = s /\ \A u \in Session : u # s => session[u].at # "running"
    BY Holder DEF SqlInv
  <1>1. acked' \in [1..MaxTx -> [Engine!Row -> Nat]]
    BY DEF Accounts
  <1>2. ASSUME NEW n \in (1..MaxTx) \ failed,
               \A u \in Session : session'[u].at = "running" => session'[u].tx.tx_id.n # n
        PROVE  Settled(n)'
    <2>1. n # session[s].tx.tx_id.n
      BY <1>2
    <2>2. Settled(n)
      BY <1>0, <2>1 DEF Accounts
    <2> QED BY <2>1, <2>2, SettledKept
  <1>3. \A u \in Session : session'[u].at = "running" => u = s
    BY <1>0
  <1>4. ASSUME NEW n \in 1..MaxTx PROVE Covered(n)'
    <2>1. CASE n = session[s].tx.tx_id.n
      BY <2>1
    <2>2. CASE n # session[s].tx.tx_id.n
      <3>1. Covered(n)
        BY DEF Accounts
      <3> QED BY <2>2, <3>1, SettledKept
    <2> QED BY <2>1, <2>2
  <1> QED BY <1>1, <1>2, <1>3, <1>4 DEF Accounts

\* A statement that ends in an error or in a panic; the index entry of its row may
\* be there all the same.
LEMMA AccountsFailed ==
  ASSUME SqlInv, Accounts, NEW s \in Session,
         \/ EntriesSame
         \/ session[s].at = "running" /\ Engine!InsertIndex /\ index' # index,
         session[s].at = "running" \/ lock = "free", ReturnError(s) \/ Panic(s)
  PROVE  Accounts'
  <1>1. /\ acked' = acked /\ failed' = failed \cup {session[s].tx.tx_id.n}
        /\ \E y : session' = [session EXCEPT ![s] = y] /\ y.at # "running"
    <2>1. CASE ReturnError(s)
      <3>1. Done(s).at = "idle"
        <4>1. Sane(session[s])
          BY DEF SqlInv, Sessions
        <4>2. session[s] = [f \in Fields |-> session[s][f]]
          BY <4>1 DEF Sane
        <4> QED BY <4>2 DEF Done, Fields
      <3> QED BY <2>1, <3>1 DEF ReturnError
    <2>2. CASE Panic(s)
      <3> DEFINE y == [session[s] EXCEPT !.at = "dead"]
      <3>1. y.at = "dead"
        <4>1. Sane(session[s])
          BY DEF SqlInv, Sessions
        <4> QED BY <4>1, DeadSane
      <3>2. session' = [session EXCEPT ![s] = y]
        BY <2>2 DEF Panic
      <3> QED BY <2>2, <3>1, <3>2 DEF Panic
    <2> QED BY <2>1, <2>2
  <1>2. PICK y : session' = [session EXCEPT ![s] = y] /\ y.at # "running"
    BY <1>1
  <1>3. session'[s] = y /\ \A u \in Session : u # s => session'[u] = session[u]
    BY <1>2 DEF SqlInv, Sessions
  <1>4. \A u \in Session : u # s => session[u].at # "running"
    BY Holder DEF SqlInv
  <1>5. \A u \in Session : session'[u].at # "running"
    BY <1>2, <1>3, <1>4
  <1>6. \A u \in Session : session[u].at = "running" => session[u].tx.tx_id.n \in failed'
    BY <1>1, <1>4
  <1>7. StaysSettled
    <2>1. CASE EntriesSame
      BY <1>1, <2>1, SettledKept DEF StaysSettled, EntriesSame
    <2>2. CASE session[s].at = "running" /\ Engine!InsertIndex /\ index' # index
      <3>1. op.tx = session[s].tx
        <4>1. op.kind = "insert_index"
          BY <2>2 DEF Engine!InsertIndex
        <4> QED BY <2>2, <4>1 DEF Accounts, OperationOf, Engine!NoOp
      <3>2. ASSUME NEW n \in 1..MaxTx, NEW r \in Engine!Row
            PROVE  /\ Cardinality(EntriesBy(n, r)) \in Nat
                   /\ Cardinality(EntriesBy(n, r)') \in Nat
                   /\ Cardinality(EntriesBy(n, r)') >= Cardinality(EntriesBy(n, r))
                   /\ n \notin failed' => Cardinality(EntriesBy(n, r)') = Cardinality(EntriesBy(n, r))
        BY <1>1, <2>2, <3>1, EntriesAppend, EntriesFinite DEF SqlInv
      <3>3. \A n \in 1..MaxTx : \A r \in Engine!Row : acked[n][r] \in Nat
        BY DEF Accounts
      <3>4. ASSUME NEW n \in 1..MaxTx, Covered(n)
            PROVE  Covered(n)'
        BY <1>1, <3>2, <3>3, <3>4 DEF Covered
      <3>5. ASSUME NEW n \in (1..MaxTx) \ failed', Settled(n)
            PROVE  Settled(n)'
        BY <1>1, <3>2, <3>5 DEF Settled
      <3> QED BY <3>4, <3>5 DEF StaysSettled
    <2> QED BY <2>1, <2>2
  <1> QED BY <1>1, <1>5, <1>6, <1>7, AccountsClosed

\* The statement goes on to its next row.
LEMMA NextRowSession ==
  ASSUME SqlInv, NEW s \in Session, NextRow(s)
  PROVE  /\ session'[s].todo = Tail(session[s].todo)
         /\ session'[s].tx = session[s].tx /\ session'[s].stmt = session[s].stmt
         /\ session'[s].at = session[s].at
         /\ \A u \in Session : u # s => session'[u] = session[u]
         /\ UNCHANGED <<acked, failed>>
  <1>1. /\ session[s] = [f \in Fields |-> session[s][f]]
        /\ session = [u \in Session |-> session[u]]
    BY DEF SqlInv, Sessions, Sane
  <1>2. session' = [session EXCEPT ![s].todo = Tail(session[s].todo)] /\ UNCHANGED <<acked, failed>>
    BY DEF NextRow, history
  <1>3. /\ session'[s] = [session[s] EXCEPT !.todo = Tail(session[s].todo)]
        /\ \A u \in Session : u # s => session'[u] = session[u]
    BY <1>1, <1>2
  <1> QED BY <1>1, <1>2, <1>3 DEF Fields

------------------------------------------------------------------------------
(* The steps                                                               *)

\* The number of the statement's transaction, and its rows.
LEMMA RunnerFacts ==
  ASSUME SqlInv, Accounts, NEW s \in Session, session[s].at = "running"
  PROVE  /\ session[s].tx.tx_id.n \in 1..MaxTx /\ session[s].tx \in active
         /\ session[s].stmt \in Statement /\ OperationOf(s) /\ Balanced(s)
         /\ session[s].stmt.kind = "insert" => session[s].todo \in Seq(NewRow)
         /\ session[s].stmt.kind \in {"insert", "delete"}
         /\ \A r \in Engine!Row : acked[session[s].tx.tx_id.n][r] \in Nat
         /\ Covered(session[s].tx.tx_id.n)
  <1>1. Sane(session[s])
    BY DEF SqlInv, Sessions
  <1>2. session[s].tx.tx_id.n \in 1..MaxTx
    BY NumberOf
  <1>3. \A r \in Engine!Row : acked[session[s].tx.tx_id.n][r] \in Nat
    BY <1>2 DEF Accounts
  <1> QED BY <1>1, <1>2, <1>3, NumberOf DEF Accounts, OperationOf, Sane

\* BEGIN, COMMIT, ROLLBACK and a statement that takes its transaction.
LEMMA BeginAccounts ==
  ASSUME SqlInv, Accounts, NEW s \in Session,
         \/ ExecuteBegin(s) \/ ExecuteCommit(s) \/ ExecuteRollback(s)
         \/ \E stmt \in Statement : Start(s, stmt)
  PROVE  Accounts'
  <1>1. /\ session[s] = [f \in Fields |-> session[s][f]]
        /\ session = [u \in Session |-> session[u]]
    BY DEF SqlInv, Sessions, Sane
  <1>2. session[s].at = "idle" /\ UNCHANGED <<acked, failed>>
    BY DEF ExecuteBegin, ExecuteCommit, ExecuteRollback, Start, At, history
  <1>3. \E y : session' = [session EXCEPT ![s] = y] /\ y.at # "running"
    <2>1. CASE ExecuteBegin(s)
      <3>1. session' = [session EXCEPT ![s] = [session[s] EXCEPT !.current = Begun, !.auto = FALSE]]
        BY <1>1, <2>1 DEF ExecuteBegin
      <3>2. [session[s] EXCEPT !.current = Begun, !.auto = FALSE].at = "idle"
        BY <1>1, <1>2 DEF Fields
      <3> QED BY <3>1, <3>2
    <2>2. CASE ExecuteCommit(s) \/ ExecuteRollback(s)
      <3>1. session' = [session EXCEPT ![s] = [session[s] EXCEPT !.current = None, !.auto = TRUE]]
        BY <1>1, <2>2 DEF ExecuteCommit, ExecuteRollback
      <3>2. [session[s] EXCEPT !.current = None, !.auto = TRUE].at = "idle"
        BY <1>1, <1>2 DEF Fields
      <3> QED BY <3>1, <3>2
    <2>3. ASSUME NEW stmt \in Statement, Start(s, stmt)
          PROVE  \E y : session' = [session EXCEPT ![s] = y] /\ y.at # "running"
      <3> DEFINE tx == IF InTransaction(s) THEN session[s].current ELSE Begun
                 y == [session[s] EXCEPT !.at = "begun", !.stmt = stmt, !.tx = tx]
      <3>1. session' = [session EXCEPT ![s] = y]
        BY <2>3 DEF Start
      <3> HIDE DEF tx
      <3>2. y.at = "begun"
        BY <1>1 DEF Fields
      <3> QED BY <3>1, <3>2
    <2> QED BY <2>1, <2>2, <2>3
  <1>4. PICK y : session' = [session EXCEPT ![s] = y] /\ y.at # "running"
    BY <1>3
  <1>5. session'[s] = y /\ \A u \in Session : u # s => session'[u] = session[u]
    BY <1>1, <1>4
  <1>6. UNCHANGED <<index, pages, op>>
    BY DEF ExecuteBegin, ExecuteCommit, ExecuteRollback, Start, Engine!Begin, Engine!Commit,
           Engine!Abort, Engine!Decide, engineVars
  <1>7. \A u \in Session : session[u].at = "running" => session[u].tx.tx_id.n \in 1..MaxTx
    BY RunnerFacts
  <1>8. \A u \in Session : /\ session'[u].at = "running" <=> session[u].at = "running"
                           /\ session[u].at = "running" => session'[u] = session[u]
    BY <1>2, <1>4, <1>5
  <1> QED BY <1>2, <1>6, <1>7, <1>8, EntriesUntouched, AccountsAside

\* CREATE TABLE, which looks at neither index nor pages.
LEMMA CreateAccounts ==
  ASSUME SqlInv, Accounts, NEW s \in Session, NEW schema \in Schema,
         NEW if_not_exists \in BOOLEAN, ExecuteCreateTable(s, schema, if_not_exists)
  PROVE  Accounts'
  <1>1. UNCHANGED <<session, index, pages, op, acked, failed>>
    BY DEF ExecuteCreateTable, history
  <1>2. \A u \in Session : session[u].at = "running" => session[u].tx.tx_id.n \in 1..MaxTx
    BY RunnerFacts
  <1> QED BY <1>1, <1>2, EntriesUntouched, AccountsAside

\* SELECT, and a session that finds the mutex poisoned.
LEMMA ScanAccounts ==
  ASSUME SqlInv, Accounts, NEW s \in Session, ExecuteScan(s) \/ LockPanics(s)
  PROVE  Accounts'
  <1>1. Locking /\ Sane(session[s]) /\ session = [u \in Session |-> session[u]]
    BY DEF SqlInv, Sessions
  <1>2. lock \in {"free", "poisoned"} /\ EntriesSame
    BY EntriesUntouched DEF ExecuteScan, LockPanics, engineVars
  <1>3. \A u \in Session : session[u].at # "running"
    BY <1>1, <1>2, Distinct DEF Locking
  <1>4. CASE Panic(s) /\ ExecuteScan(s)
    <2>1. lock = "free"
      BY <1>4 DEF ExecuteScan
    <2> QED BY <1>2, <1>4, <2>1, AccountsFailed
  <1>5. CASE \E y : /\ session' = [session EXCEPT ![s] = y] /\ y.at # "running"
                    /\ acked' = acked /\ failed \subseteq failed'
    <2>1. PICK y : /\ session' = [session EXCEPT ![s] = y] /\ y.at # "running"
                   /\ acked' = acked /\ failed \subseteq failed'
      BY <1>5
    <2>2. \A u \in Session : session'[u].at # "running"
      BY <1>1, <1>3, <2>1
    <2>3. StaysSettled
      BY <1>2, <2>1, SettledKept DEF StaysSettled, EntriesSame
    <2> QED BY <1>3, <2>1, <2>2, <2>3, AccountsClosed
  <1>6. CASE LockPanics(s)
    <2> DEFINE y == [session[s] EXCEPT !.at = "dead"]
    <2>1. y.at = "dead"
      BY <1>1, DeadSane
    <2>2. session' = [session EXCEPT ![s] = y] /\ acked' = acked /\ failed \subseteq failed'
      BY <1>6 DEF LockPanics
    <2> HIDE DEF y
    <2> QED BY <1>5, <2>1, <2>2
  <1>7. CASE ExecuteScan(s) /\ ~Panic(s)
    <2>1. session' = [session EXCEPT ![s] = Done(s)] /\ UNCHANGED <<acked, failed>>
      BY <1>7 DEF ExecuteScan
    <2>2. Done(s).at = "idle"
      BY <1>1 DEF Done, Sane, Fields
    <2> QED BY <1>5, <2>1, <2>2
  <1> QED BY <1>4, <1>6, <1>7

\* INSERT takes the mutex with all its rows before it, DELETE with none.
LEMMA AcquireAccounts ==
  ASSUME SqlInv, Accounts, NEW s \in Session, Acquire(s)
  PROVE  Accounts'
  <1> DEFINE x == session[s]
             rows == IF x.stmt.kind = "insert" THEN x.stmt.rows
                     ELSE Matching(Engine!RangeScan(Scanned(x.stmt.schema.name), x.tx),
                                   x.stmt.verdict)
  <1>0. PICK n : n = x.tx.tx_id.n
    OBVIOUS
  <1>1. Locking /\ Sane(x) /\ session = [u \in Session |-> session[u]] /\ P!Core
    BY DEF SqlInv, Sessions
  <1>2. /\ x.at = "begun" /\ x.stmt.kind \in {"insert", "delete"} /\ lock = "free"
        /\ session' = [session EXCEPT ![s].at = "running", ![s].todo = rows]
        /\ UNCHANGED <<index, pages, op, acked, failed>>
    BY DEF Acquire, At, history, engineVars
  <1>3. x.stmt \in Statement /\ n \in 1..MaxTx
    BY <1>0, <1>2, NumberOf
  <1>4. op = Engine!NoOp /\ \A u \in Session : session[u].at # "running"
    BY <1>1, <1>2, Holder
  <1> HIDE DEF rows
  <1>5. /\ session'[s].at = "running" /\ session'[s].todo = rows /\ session'[s].tx = x.tx
        /\ session'[s].stmt = x.stmt
        /\ \A u \in Session : u # s => session'[u] = session[u]
    <2>1. x = [f \in Fields |-> x[f]]
      BY <1>1 DEF Sane
    <2>2. /\ session'[s] = [x EXCEPT !.at = "running", !.todo = rows]
          /\ \A u \in Session : u # s => session'[u] = session[u]
      BY <1>1, <1>2
    <2> QED BY <2>1, <2>2 DEF Fields
  <1>6. EntriesSame
    BY <1>2, EntriesUntouched
  <1>7. acked' \in [1..MaxTx -> [Engine!Row -> Nat]]
    BY <1>2 DEF Accounts
  <1>8. ASSUME NEW m \in (1..MaxTx) \ failed PROVE Settled(m)'
    <2>1. Settled(m)
      BY <1>4 DEF Accounts
    <2> QED BY <1>2, <1>6, <2>1, SettledKept DEF EntriesSame
  <1>12. \A m \in 1..MaxTx : Covered(m)'
    BY <1>2, <1>6, SettledKept DEF EntriesSame, Accounts
  <1>9. OperationOf(s)'
    BY <1>2, <1>4, <1>5 DEF OperationOf
  <1>10. Balanced(s)'
    <2> SUFFICES ASSUME NEW r \in Engine!Row
                 PROVE  /\ Have(n, s, r)' >= Want(n, s, r)'
                        /\ n \notin failed => Have(n, s, r)' = Want(n, s, r)'
      BY <1>0, <1>2, <1>5 DEF Balanced
    <2>1. /\ Cardinality(EntriesBy(n, r)') \in Nat /\ acked[n][r] \in Nat
          /\ Cardinality(EntriesBy(n, r)') >= acked[n][r]
          /\ n \notin failed => Cardinality(EntriesBy(n, r)') = acked[n][r]
      <3>1. /\ Covered(n)' /\ acked[n][r] \in Nat
            /\ n \notin failed => Settled(n)'
        BY <1>3, <1>8, <1>12 DEF Accounts
      <3>2. EntriesBy(n, r)' = EntriesBy(n, r) /\ Cardinality(EntriesBy(n, r)) \in Nat
        BY <1>1, <1>3, <1>6, EntriesFinite DEF EntriesSame
      <3> QED BY <1>2, <3>1, <3>2 DEF Settled, Covered
    <2>2. Unfinished(r)' = 0
      BY <1>2, <1>4 DEF Unfinished, Engine!NoOp
    <2>3. Ahead(s, r)' = Listed(x.stmt, r) /\ Listed(x.stmt, r) \in Nat
      <3>1. CASE x.stmt.kind = "insert"
        BY <1>3, <1>5, <3>1, ListedType DEF Ahead, rows
      <3>2. CASE x.stmt.kind # "insert"
        BY <1>5, <3>2 DEF Ahead, Listed
      <3> QED BY <3>1, <3>2
    <2>4. Want(n, s, r)' = acked[n][r] + Listed(x.stmt, r)
      BY <1>2, <1>5 DEF Want
    <2>5. Have(n, s, r)' = Cardinality(EntriesBy(n, r)') + 0 + Listed(x.stmt, r)
      BY <2>2, <2>3 DEF Have
    <2> QED BY <2>1, <2>3, <2>4, <2>5
  <1>11. \A u \in Session : session'[u].at = "running" => u = s
    BY <1>4, <1>5
  <1> QED BY <1>2, <1>7, <1>8, <1>9, <1>10, <1>11, <1>12 DEF Accounts

\* A row of INSERT gets its page: it is no longer to come, but under way.
LEMMA InsertAccounts ==
  ASSUME SqlInv, Accounts, NEW s \in Session, InsertRow(s)
  PROVE  Accounts'
  <1> DEFINE x == session[s]
             row == Head(x.todo)
  <1>0. PICK n, r : n = x.tx.tx_id.n /\ r = RowOf(x.stmt.schema, row)
    OBVIOUS
  <1>1. x.at = "running" /\ x.stmt.kind = "insert" /\ op = Engine!NoOp /\ x.todo # <<>> /\ P!Core
    BY DEF InsertRow, Running, At, SqlInv
  <1>2. /\ n \in 1..MaxTx /\ x.tx \in active /\ x.stmt \in Statement /\ Balanced(s) /\ Covered(n)
        /\ x.todo \in Seq(NewRow) /\ \A q \in Engine!Row : acked[n][q] \in Nat
    BY <1>0, <1>1, RunnerFacts
  <1>3. row \in NewRow
    BY <1>1, <1>2
  <1>4. r \in Engine!Row /\ row.value \in Value
    BY <1>0, <1>2, <1>3, RowsNamed
  <1>5. \/ /\ Engine!InsertPage(r, row.value, x.tx)
           /\ IF op' = Engine!NoOp THEN ReturnError(s) ELSE NextRow(s)
        \/ (ReturnError(s) \/ Panic(s)) /\ UNCHANGED engineVars
    <2>1. row.status \in {"good", "bad", "short"}
      BY <1>3 DEF NewRow
    <2> QED BY <1>0, <2>1 DEF InsertRow
  <1>6. CASE (ReturnError(s) \/ Panic(s)) /\ UNCHANGED engineVars
    <2>1. EntriesSame
      BY <1>6, EntriesUntouched DEF engineVars
    <2> QED BY <1>1, <1>6, <2>1, AccountsFailed
  <1> HIDE DEF row
  <1>7. CASE Engine!InsertPage(r, row.value, x.tx) /\ op' = Engine!NoOp /\ ReturnError(s)
    <2>1. EntriesSame
      BY <1>1, <1>2, <1>4, <1>7, EntriesInsert
    <2> QED BY <1>1, <1>7, <2>1, AccountsFailed
  <1>8. CASE Engine!InsertPage(r, row.value, x.tx) /\ op' # Engine!NoOp /\ NextRow(s)
    <2>1. /\ EntriesSame
          /\ op' = [kind |-> "insert_log", row |-> r, tx |-> x.tx, page |-> Len(pages) + 1]
      BY <1>1, <1>2, <1>4, <1>8, EntriesInsert
    <2>2. /\ session'[s].todo = Tail(x.todo) /\ session'[s].tx = x.tx
          /\ session'[s].stmt = x.stmt /\ session'[s].at = "running"
          /\ \A u \in Session : u # s => session'[u] = session[u]
          /\ UNCHANGED <<acked, failed>>
      BY <1>1, <1>8, NextRowSession
    <2>3. OperationOf(s)'
      BY <1>1, <2>1, <2>2 DEF OperationOf
    <2>4. ASSUME NEW q \in Engine!Row
          PROVE  Have(n, s, q)' = Have(n, s, q)
      <3>2. Cardinality(EntriesBy(n, q)') = Cardinality(EntriesBy(n, q))
        BY <1>2, <2>1 DEF EntriesSame
      <3>3. Cardinality(EntriesBy(n, q)) \in Nat
        BY <1>1, EntriesFinite
      <3>4. Unfinished(q) = 0 /\ Unfinished(q)' = IF r = q THEN 1 ELSE 0
        BY <1>1, <2>1 DEF Unfinished, Engine!NoOp
      <3>5. Ahead(s, q) = Count(x.stmt.schema, x.todo, q)
        BY <1>1 DEF Ahead
      <3>6. Ahead(s, q)' = Count(x.stmt.schema, Tail(x.todo), q)
        BY <1>1, <2>2 DEF Ahead
      <3>7. /\ Count(x.stmt.schema, x.todo, q) \in Nat /\ Count(x.stmt.schema, Tail(x.todo), q) \in Nat
            /\ Count(x.stmt.schema, x.todo, q) = Count(x.stmt.schema, Tail(x.todo), q)
                  + (IF r = q THEN 1 ELSE 0)
        BY <1>0, <1>1, <1>2, CountTail DEF row
      <3> QED BY <3>2, <3>3, <3>4, <3>5, <3>6, <3>7 DEF Have
    <2>5. Balanced(s)' /\ Covered(n)'
      BY <1>0, <1>2, <2>1, <2>2, <2>4, BalancedKept, SettledKept DEF EntriesSame
    <2>6. \A m \in 1..MaxTx : \A q \in Engine!Row :
             Cardinality(EntriesBy(m, q)') = Cardinality(EntriesBy(m, q))
      BY <2>1 DEF EntriesSame
    <2> QED BY <1>0, <1>1, <2>2, <2>3, <2>5, <2>6, AccountsOn
  <1> QED BY <1>5, <1>6, <1>7, <1>8

\* A row of DELETE: the entries stay, whoever's page is rewritten.
LEMMA DeleteAccounts ==
  ASSUME SqlInv, Accounts, NEW s \in Session, DeleteRow(s)
  PROVE  Accounts'
  <1> DEFINE x == session[s]
  <1>0. PICK n, r : n = x.tx.tx_id.n /\ r = Scanned(x.stmt.schema.name)
    OBVIOUS
  <1>1. x.at = "running" /\ x.stmt.kind = "delete" /\ op = Engine!NoOp /\ x.todo # <<>> /\ P!Core
    BY DEF DeleteRow, Running, At, SqlInv
  <1>2. n \in 1..MaxTx /\ x.tx \in active /\ x.stmt \in Statement /\ Balanced(s) /\ Covered(n)
    BY <1>0, <1>1, RunnerFacts
  <1>3. r \in Engine!Row
    BY <1>0, <1>2, RowsNamed
  <1>4. \/ /\ Engine!DeletePage(r, x.tx)
           /\ IF op' = Engine!NoOp THEN ReturnError(s) ELSE NextRow(s)
        \/ (ReturnError(s) \/ Panic(s)) /\ UNCHANGED engineVars
    BY <1>0 DEF DeleteRow
  <1>5. CASE (ReturnError(s) \/ Panic(s)) /\ UNCHANGED engineVars
    <2>1. EntriesSame
      BY <1>5, EntriesUntouched DEF engineVars
    <2> QED BY <1>1, <1>5, <2>1, AccountsFailed
  <1>6. CASE Engine!DeletePage(r, x.tx) /\ op' = Engine!NoOp /\ ReturnError(s)
    <2>1. EntriesSame
      BY <1>1, <1>2, <1>3, <1>6, EntriesDelete
    <2> QED BY <1>1, <1>6, <2>1, AccountsFailed
  <1>7. CASE Engine!DeletePage(r, x.tx) /\ op' # Engine!NoOp /\ NextRow(s)
    <2>1. EntriesSame /\ op' = [kind |-> "delete_log", row |-> r, tx |-> x.tx]
      BY <1>1, <1>2, <1>3, <1>7, EntriesDelete
    <2>2. /\ session'[s].tx = x.tx /\ session'[s].stmt = x.stmt /\ session'[s].at = "running"
          /\ \A u \in Session : u # s => session'[u] = session[u]
          /\ UNCHANGED <<acked, failed>>
      BY <1>1, <1>7, NextRowSession
    <2>3. OperationOf(s)'
      BY <1>1, <2>1, <2>2 DEF OperationOf
    <2>4. ASSUME NEW q \in Engine!Row
          PROVE  Have(n, s, q)' = Have(n, s, q)
      <3>2. Cardinality(EntriesBy(n, q)') = Cardinality(EntriesBy(n, q))
        BY <1>2, <2>1 DEF EntriesSame
      <3>3. Unfinished(q) = 0 /\ Unfinished(q)' = 0
        BY <1>1, <2>1 DEF Unfinished, Engine!NoOp
      <3>4. Ahead(s, q) = 0 /\ Ahead(s, q)' = 0
        BY <1>1, <2>2 DEF Ahead
      <3> QED BY <3>2, <3>3, <3>4 DEF Have
    <2>5. Balanced(s)' /\ Covered(n)'
      BY <1>0, <1>2, <2>1, <2>2, <2>4, BalancedKept, SettledKept DEF EntriesSame
    <2>6. \A m \in 1..MaxTx : \A q \in Engine!Row :
             Cardinality(EntriesBy(m, q)') = Cardinality(EntriesBy(m, q))
      BY <2>1 DEF EntriesSame
    <2> QED BY <1>0, <1>1, <2>2, <2>3, <2>5, <2>6, AccountsOn
  <1> QED BY <1>4, <1>5, <1>6, <1>7

\* The rest of an operation of the engine: the row under way gets its entry.
LEMMA EngineAccounts ==
  ASSUME SqlInv, Accounts, NEW s \in Session, EngineStep(s)
  PROVE  Accounts'
  <1> DEFINE x == session[s]
  <1>0. PICK n : n = x.tx.tx_id.n
    OBVIOUS
  <1>1. lock = s /\ x.at = "running" /\ P!Core
    BY DEF EngineStep, SqlInv, Locking
  <1>2. /\ n \in 1..MaxTx /\ OperationOf(s) /\ Balanced(s) /\ Covered(n)
        /\ \A q \in Engine!Row : acked[n][q] \in Nat
    BY <1>0, <1>1, RunnerFacts
  <1>3. op.kind \in {"insert_log", "insert_index", "delete_log"}
    BY DEF EngineStep, Engine!InsertLog, Engine!InsertIndex, Engine!DeleteLog
  <1>4. op.tx = x.tx
    BY <1>2, <1>3 DEF OperationOf, Engine!NoOp
  \* In the other cases the index is as it was.
  <1>5. EntriesSame \/ (Engine!InsertIndex /\ index' # index)
    BY EntriesUntouched DEF EngineStep, Engine!InsertLog, Engine!InsertIndex, Engine!DeleteLog
  <1>6. CASE ReturnError(s)
    BY <1>1, <1>5, <1>6, AccountsFailed
  <1>7. CASE ~ReturnError(s)
    <2>1. /\ UNCHANGED <<session, acked, failed>>
          /\ \/ Engine!InsertLog /\ op' # Engine!NoOp
             \/ Engine!InsertIndex /\ index' # index
             \/ Engine!DeleteLog
      BY <1>7 DEF EngineStep, history
    <2>2. \/ /\ EntriesSame /\ op.kind = "insert_log" /\ op' = [op EXCEPT !.kind = "insert_index"]
          \/ Engine!InsertIndex /\ index' # index
          \/ EntriesSame /\ op.kind = "delete_log" /\ op' = Engine!NoOp
      BY <2>1, EntriesUntouched DEF Engine!InsertLog, Engine!DeleteLog
    <2>3. ASSUME NEW m \in 1..MaxTx, NEW q \in Engine!Row
          PROVE  /\ Cardinality(EntriesBy(m, q)') + Unfinished(q)'
                       = Cardinality(EntriesBy(m, q)) + (IF m = n THEN Unfinished(q) ELSE Unfinished(q)')
                 /\ Cardinality(EntriesBy(m, q)) \in Nat /\ Cardinality(EntriesBy(m, q)') \in Nat
                 /\ Unfinished(q) \in Nat /\ Unfinished(q)' \in Nat
                 /\ OperationOf(s)'
      <3>1. Cardinality(EntriesBy(m, q)) \in Nat
        BY <1>1, EntriesFinite
      <3>2. Unfinished(q) \in {0, 1} /\ Unfinished(q)' \in {0, 1}
        BY DEF Unfinished
      <3>3. CASE /\ EntriesSame /\ op.kind = "insert_log"
                 /\ op' = [op EXCEPT !.kind = "insert_index"]
        <4>1. op'.kind = "insert_index" /\ op'.row = op.row /\ op'.tx = op.tx
          <5>1. op \in P!OpType
            BY <1>1 DEF P!Core, P!TypeOK
          <5>2. op \in [kind : {"insert_log", "insert_index"}, row : P!Row,
                        tx : P!Transaction, page : 1..MaxPages]
            BY <3>3, <5>1 DEF P!OpType
          <5> QED BY <3>3, <5>2
        <4>2. Unfinished(q)' = Unfinished(q)
          BY <3>3, <4>1 DEF Unfinished
        <4>3. OperationOf(s)'
          BY <1>2, <1>3, <2>1, <3>3, <4>1 DEF OperationOf, Engine!NoOp
        <4> QED BY <3>1, <3>2, <3>3, <4>2, <4>3 DEF EntriesSame
      <3>4. CASE Engine!InsertIndex /\ index' # index
        <4>1. op.kind = "insert_index" /\ op' = Engine!NoOp
          BY <3>4 DEF Engine!InsertIndex
        <4>2. Cardinality(EntriesBy(m, q)') = Cardinality(EntriesBy(m, q))
                 + (IF m = n /\ q = op.row THEN 1 ELSE 0)
          BY <1>0, <1>1, <1>4, <3>4, EntriesAppend
        <4>3. Unfinished(q)' = 0 /\ Unfinished(q) = IF q = op.row THEN 1 ELSE 0
          BY <4>1 DEF Unfinished, Engine!NoOp
        <4>4. OperationOf(s)'
          BY <1>2, <2>1, <4>1 DEF OperationOf
        <4> QED BY <3>1, <4>2, <4>3, <4>4
      <3>5. CASE EntriesSame /\ op.kind = "delete_log" /\ op' = Engine!NoOp
        <4>1. Unfinished(q)' = 0 /\ Unfinished(q) = 0
          BY <3>5 DEF Unfinished, Engine!NoOp
        <4>2. OperationOf(s)'
          BY <1>2, <2>1, <3>5 DEF OperationOf
        <4> QED BY <3>1, <3>5, <4>1, <4>2 DEF EntriesSame
      <3> QED BY <2>2, <3>3, <3>4, <3>5
    <2>4. \A m \in 1..MaxTx : m # n =>
             \A q \in Engine!Row : Cardinality(EntriesBy(m, q)') = Cardinality(EntriesBy(m, q))
      BY <2>3
    <2>5. Balanced(s)'
      <3> SUFFICES ASSUME NEW q \in Engine!Row
                   PROVE  Have(n, s, q)' = Have(n, s, q)
        BY <1>0, <1>2, <2>1, BalancedKept
      <3>2. Ahead(s, q)' = Ahead(s, q)
        BY <2>1 DEF Ahead
      <3>3. Cardinality(EntriesBy(n, q)') + Unfinished(q)' = Cardinality(EntriesBy(n, q)) + Unfinished(q)
        BY <1>2, <2>3
      <3> QED BY <3>2, <3>3 DEF Have
    <2>7. Covered(n)'
      <3> SUFFICES ASSUME NEW q \in Engine!Row
                   PROVE  Cardinality(EntriesBy(n, q)') >= acked[n][q]
        BY <2>1 DEF Covered
      <3>1. Cardinality(EntriesBy(n, q)) >= acked[n][q] /\ acked[n][q] \in Nat
        BY <1>2 DEF Covered
      <3>2. /\ Cardinality(EntriesBy(n, q)') \in Nat /\ Cardinality(EntriesBy(n, q)) \in Nat
            /\ Cardinality(EntriesBy(n, q)') >= Cardinality(EntriesBy(n, q))
        <4>1. CASE EntriesSame
          BY <1>1, <1>2, <4>1, EntriesFinite DEF EntriesSame
        <4>2. CASE Engine!InsertIndex /\ index' # index
          BY <1>1, <4>2, EntriesAppend, EntriesFinite
        <4> QED BY <1>5, <4>1, <4>2
      <3> QED BY <3>1, <3>2
    <2>6. OperationOf(s)'
      <3>1. op.row \in Engine!Row
        BY <1>1, <1>3, SameSteps DEF P!Core, P!TypeOK, P!OpType
      <3> QED BY <1>2, <2>3, <3>1
    <2> QED BY <1>0, <1>1, <2>1, <2>4, <2>5, <2>6, <2>7, AccountsOn
  <1> QED BY <1>6, <1>7

\* The statement returns Ok: its rows are all in the index, and are acknowledged.
LEMMA FinishAccounts ==
  ASSUME SqlInv, Accounts, NEW s \in Session, Finish(s)
  PROVE  Accounts'
  <1> DEFINE x == session[s]
  <1>0. PICK n : n = x.tx.tx_id.n
    OBVIOUS
  <1>1. /\ x.at = "running" /\ x.todo = <<>> /\ op = Engine!NoOp
        /\ session' = [session EXCEPT ![s] =
              [Done(s) EXCEPT !.current = IF x.auto THEN None ELSE @]]
        /\ acked' = [acked EXCEPT ![n] = [r \in Engine!Row |-> @[r] + Listed(x.stmt, r)]]
        /\ UNCHANGED failed
    BY <1>0 DEF Finish, FinishWith, At
  <1>2. /\ n \in 1..MaxTx /\ x.stmt \in Statement /\ Balanced(s)
        /\ \A r \in Engine!Row : acked[n][r] \in Nat
    BY <1>0, <1>1, RunnerFacts
  <1>3. UNCHANGED <<index, pages>>
    BY DEF Finish, FinishWith, Engine!Commit, Engine!Decide, engineVars
  <1>4. EntriesSame
    BY <1>3, EntriesUntouched
  <1>5. \A u \in Session : session'[u].at # "running"
    <2>1. Sane(x) /\ session = [u \in Session |-> session[u]]
      BY DEF SqlInv, Sessions
    <2>2. [Done(s) EXCEPT !.current = IF x.auto THEN None ELSE @].at = "idle"
      <3>1. Done(s) = [x EXCEPT !.at = "idle", !.tx = None, !.stmt = NoStmt, !.todo = <<>>]
        BY DEF Done
      <3>2. Sane(Done(s)) /\ Done(s).at = "idle"
        BY <1>1, <2>1, <3>1, DoneSane
      <3>3. [Done(s) EXCEPT !.current = IF x.auto THEN None ELSE @] = Done(s)
        BY <1>1, <2>1, <3>1, FinishSane
      <3> QED BY <3>2, <3>3
    <2>3. \A u \in Session : u # s => session[u].at # "running"
      BY <1>1, Holder DEF SqlInv
    <2> QED BY <1>1, <2>1, <2>2, <2>3
  <1>6. acked' \in [1..MaxTx -> [Engine!Row -> Nat]]
    <2>1. \A r \in Engine!Row : acked[n][r] + Listed(x.stmt, r) \in Nat
      BY <1>2, ListedType
    <2>2. [r \in Engine!Row |-> acked[n][r] + Listed(x.stmt, r)] \in [Engine!Row -> Nat]
      BY <2>1
    <2> QED BY <1>1, <1>2, <2>2 DEF Accounts
  <1>7. ASSUME NEW m \in 1..MaxTx
        PROVE  Covered(m)' /\ (m \notin failed => Settled(m)')
    <2>1. CASE m # n
      <3>1. acked'[m] = acked[m]
        BY <1>1, <2>1 DEF Accounts
      <3>2. \A u \in Session : session[u].at = "running" => u = s
        BY <1>1, Holder DEF SqlInv
      <3>3. Covered(m) /\ (m \notin failed => Settled(m))
        BY <1>0, <2>1, <3>2 DEF Accounts
      <3> QED BY <1>4, <3>1, <3>3 DEF Covered, Settled, EntriesSame
    <2>2. CASE m = n
      <3> SUFFICES ASSUME NEW r \in Engine!Row
                   PROVE  /\ Cardinality(EntriesBy(n, r)') >= acked'[n][r]
                          /\ n \notin failed => Cardinality(EntriesBy(n, r)') = acked'[n][r]
        BY <2>2 DEF Covered, Settled
      <3>1. acked'[n][r] = acked[n][r] + Listed(x.stmt, r)
        BY <1>1, <1>2 DEF Accounts
      <3>2. /\ Have(n, s, r) >= Want(n, s, r)
            /\ n \notin failed => Have(n, s, r) = Want(n, s, r)
        BY <1>0, <1>2 DEF Balanced
      <3>3. Unfinished(r) = 0
        BY <1>1 DEF Unfinished, Engine!NoOp
      <3>4. Ahead(s, r) = 0
        BY <1>1, CountNone DEF Ahead
      <3>5. Cardinality(EntriesBy(n, r)) \in Nat
        BY EntriesFinite DEF SqlInv
      <3>6. EntriesBy(n, r)' = EntriesBy(n, r)
        BY <1>2, <1>4 DEF EntriesSame
      <3>7. Have(n, s, r) = Cardinality(EntriesBy(n, r)) /\ Want(n, s, r) = acked'[n][r]
        BY <3>1, <3>3, <3>4, <3>5 DEF Have, Want
      <3> QED BY <3>2, <3>6, <3>7
    <2> QED BY <2>1, <2>2
  <1> QED BY <1>1, <1>5, <1>6, <1>7 DEF Accounts

------------------------------------------------------------------------------
(* Who wrote the pages of the index                                        *)

\* Transactions are numbered in the order in which they begin, and whoever wrote
\* the newest version of a page in the index is one of them.
Registered ==
    /\ minted = Len(registry)
    /\ \A k \in DOMAIN registry : registry[k].n = k
    /\ \A r \in Engine!Row : \A i \in DOMAIN index[r] : \E k \in DOMAIN registry :
          pages[index[r][i]].versions[1].created_by = registry[k]

\* A row of INSERT is written, or refused.
LEMMA InsertRowCases ==
  ASSUME SqlInv, Accounts, NEW s \in Session, InsertRow(s)
  PROVE  \/ /\ \E r, val : Engine!InsertPage(r, val, session[s].tx)
            /\ ReturnError(s) \/ NextRow(s)
         \/ (ReturnError(s) \/ Panic(s)) /\ UNCHANGED engineVars
  <1> DEFINE row == Head(session[s].todo)
  <1>1. /\ session[s].at = "running" /\ session[s].stmt.kind = "insert"
        /\ session[s].todo # <<>>
    BY DEF InsertRow, Running, At
  <1>2. row \in NewRow
    BY <1>1, RunnerFacts
  <1>3. row.status \in {"good", "bad", "short"}
    BY <1>2 DEF NewRow
  <1> QED BY <1>3 DEF InsertRow

\* The sessions do not restart the engine, and only a statement that returns Ok
\* acknowledges rows.
LEMMA OnlyBegin ==
  ASSUME SqlInv, Accounts, [Next]_vars
  PROVE  /\ Engine!Begin \/ UNCHANGED <<registry, minted>>
         /\ UNCHANGED acked \/ \E s \in Session : Finish(s)
  <1>1. \A r, val, tx : Engine!InsertPage(r, val, tx) => UNCHANGED <<registry, minted>>
    BY DEF Engine!InsertPage, Engine!WriteRow, Engine!txVars
  <1>2. ASSUME NEW s \in Session, InsertRow(s)
        PROVE  UNCHANGED <<registry, minted, acked>>
    BY <1>1, <1>2, InsertRowCases DEF ReturnError, Panic, NextRow, engineVars, history
  <1>3. ASSUME NEW s \in Session, DeleteRow(s)
        PROVE  UNCHANGED <<registry, minted, acked>>
    BY <1>3 DEF DeleteRow, ReturnError, Panic, NextRow, engineVars, history, Engine!DeletePage,
                Engine!txVars
  <1>4. ASSUME NEW s \in Session, EngineStep(s)
        PROVE  UNCHANGED <<registry, minted, acked>>
    BY <1>4 DEF EngineStep, ReturnError, history, Engine!InsertLog, Engine!InsertIndex,
                Engine!DeleteLog, Engine!txVars
  <1>5. ASSUME NEW s \in Session,
               \/ ExecuteCommit(s) \/ ExecuteRollback(s) \/ ExecuteScan(s) \/ Acquire(s)
               \/ LockPanics(s)
               \/ \E schema \in Schema, if_not_exists \in BOOLEAN :
                     ExecuteCreateTable(s, schema, if_not_exists)
        PROVE  UNCHANGED <<registry, minted, acked>>
    BY <1>5 DEF ExecuteCommit, ExecuteRollback, ExecuteScan, Acquire, LockPanics,
                ExecuteCreateTable, Panic, engineVars, history, Engine!Commit, Engine!Abort,
                Engine!Decide
  <1>6. ASSUME NEW s \in Session, ExecuteBegin(s) \/ \E stmt \in Statement : Start(s, stmt)
        PROVE  /\ Engine!Begin \/ UNCHANGED <<registry, minted>>
               /\ UNCHANGED acked
    BY <1>6 DEF ExecuteBegin, Start, engineVars, history
  <1>7. ASSUME NEW s \in Session, Finish(s)
        PROVE  UNCHANGED <<registry, minted>>
    BY <1>7 DEF Finish, FinishWith, engineVars, Engine!Commit, Engine!Decide
  <1>8. CASE UNCHANGED vars
    BY <1>8 DEF vars, engineVars, history
  <1> QED BY <1>2, <1>3, <1>4, <1>5, <1>6, <1>7, <1>8 DEF Next, LockedStep

\* What the engine may do to the entries.
LEMMA EntriesDriven ==
  ASSUME P!Core, Drives
  PROVE  \/ EntriesSame
         \/ Engine!InsertIndex /\ index' # index
         \/ \A r \in Engine!Row : index'[r] = <<>>
  <1>1. CASE UNCHANGED <<index, pages>>
    BY <1>1, EntriesUntouched
  <1>2. ASSUME NEW tx \in active, NEW r \in Engine!Row, NEW val \in Value,
               Engine!InsertPage(r, val, tx)
        PROVE  EntriesSame
    BY <1>2, EntriesInsert
  <1>3. ASSUME NEW tx \in active, NEW r \in Engine!Row, Engine!DeletePage(r, tx)
        PROVE  EntriesSame
    BY <1>3, EntriesDelete
  <1>4. CASE Engine!Restart
    BY <1>4 DEF Engine!Restart, Engine!EmptyRows
  <1>5. Engine!Begin \/ Engine!InsertLog \/ Engine!DeleteLog => UNCHANGED <<index, pages>>
    BY DEF Engine!Begin, Engine!InsertLog, Engine!DeleteLog
  <1>6. \A tx : Engine!Commit(tx) \/ Engine!Abort(tx) => UNCHANGED <<index, pages>>
    BY DEF Engine!Commit, Engine!Abort, Engine!Decide
  <1>7. Engine!InsertIndex => UNCHANGED pages
    BY DEF Engine!InsertIndex
  <1>8. (\E t \in Table : Emptied(t)) \/ UNCHANGED engineVars => UNCHANGED <<index, pages>>
    BY DEF Emptied, engineVars
  <1> QED BY <1>1, <1>2, <1>3, <1>4, <1>5, <1>6, <1>7, <1>8 DEF Drives, Engine!Next

\* begin writes its transaction into the registry, behind the others.
LEMMA RegistryGrows ==
  ASSUME P!Core, minted = Len(registry), \A k \in DOMAIN registry : registry[k].n = k,
         Engine!Begin \/ UNCHANGED <<registry, minted>>
  PROVE  /\ minted' = Len(registry') /\ \A k \in DOMAIN registry' : registry'[k].n = k
         /\ \A k \in DOMAIN registry : k \in DOMAIN registry' /\ registry'[k] = registry[k]
  <1>1. registry \in Seq(P!TxId)
    BY DEF P!Core, P!TypeOK
  <1>2. CASE Engine!Begin
    <2>1. PICK ms \in clock..MaxTime : registry' = Append(registry, [ts |-> ms, n |-> minted + 1])
      BY <1>2 DEF Engine!Begin
    <2>2. PICK id : id = [ts |-> ms, n |-> minted + 1] /\ registry' = Append(registry, id)
      BY <2>1
    <2>3. minted' = minted + 1 /\ id.n = minted + 1
      BY <1>2, <2>2 DEF Engine!Begin
    <2>4. registry \in Seq(P!TxId \cup {id}) /\ id \in P!TxId \cup {id}
      BY <1>1
    <2>5. /\ Len(registry) \in Nat /\ DOMAIN registry = 1..Len(registry)
          /\ Len(registry') = Len(registry) + 1 /\ DOMAIN registry' = 1..(Len(registry) + 1)
          /\ \A k \in 1..Len(registry) : registry'[k] = registry[k]
          /\ registry'[Len(registry) + 1] = id
      BY <2>2, <2>4, AppendProperties
    <2> QED BY <2>3, <2>5
  <1>3. CASE UNCHANGED <<registry, minted>>
    BY <1>3
  <1> QED BY <1>2, <1>3

\* Every step keeps the numbers and the writers.
LEMMA RegisteredNext == SqlInv /\ Accounts /\ Registered /\ [Next]_vars => Registered'
  <1> SUFFICES ASSUME SqlInv, Accounts, Registered, [Next]_vars PROVE Registered'
    OBVIOUS
  <1>1. P!Core /\ Drives
    BY SqlInvNext DEF SqlInv
  <1>2. /\ minted' = Len(registry') /\ \A k \in DOMAIN registry' : registry'[k].n = k
        /\ \A k \in DOMAIN registry : k \in DOMAIN registry' /\ registry'[k] = registry[k]
    BY <1>1, OnlyBegin, RegistryGrows DEF Registered
  <1>3. CASE EntriesSame
    BY <1>2, <1>3 DEF Registered, EntriesSame, WritersSame
  <1>4. CASE Engine!InsertIndex /\ index' # index
    <2>1. P!TypeOK /\ P!PendingPage /\ P!Ordered /\ P!InsertIndex
      BY <1>1, <1>4, SameActions DEF P!Core
    <2> DEFINE k == Len(index[op.row]) + 1
    <2>2. /\ P!Inserting /\ op.row \in P!Row /\ UNCHANGED pages
          /\ \A r \in P!Row : r # op.row => index'[r] = index[r]
          /\ DOMAIN index'[op.row] = 1..k
          /\ \A i \in DOMAIN index[op.row] : index'[op.row][i] = index[op.row][i]
          /\ index'[op.row][k] = op.page
          /\ Len(index[op.row]) \in Nat /\ DOMAIN index[op.row] = 1..Len(index[op.row])
      BY <1>4, <2>1, P!InsertIndexStep, EngineConstants
    <2>3. pages[op.page].versions[1].created_by = op.tx.tx_id
      BY <2>1, <2>2 DEF P!PendingPage, P!DataPage
    <2>4. op.tx \in active
      <3>1. op # Engine!NoOp
        BY <1>4 DEF Engine!InsertIndex, Engine!NoOp
      <3>2. PICK s \in Session : session[s].at = "running"
        BY <3>1 DEF SqlInv, Locking
      <3> QED BY <3>1, <3>2, RunnerFacts DEF OperationOf
    <2>5. op.tx.tx_number \in DOMAIN registry /\ op.tx.tx_id = registry[op.tx.tx_number]
      BY <2>1, <2>4 DEF P!Ordered
    <2>6. \A i \in 1..k : i = k \/ i \in DOMAIN index[op.row]
      BY <2>2
    <2> HIDE DEF k
    <2>7. ASSUME NEW r \in Engine!Row, NEW i \in DOMAIN index'[r]
          PROVE  \E j \in DOMAIN registry :
                    pages[index'[r][i]].versions[1].created_by = registry[j]
      <3>1. CASE r = op.row /\ i = k
        BY <2>2, <2>3, <2>5, <3>1
      <3>2. CASE i \in DOMAIN index[r] /\ index'[r][i] = index[r][i]
        BY <3>2 DEF Registered
      <3> QED BY <2>2, <2>6, <3>1, <3>2, SameSteps
    <2> QED BY <1>2, <2>2, <2>7 DEF Registered
  <1>5. CASE \A r \in Engine!Row : index'[r] = <<>>
    BY <1>2, <1>5 DEF Registered
  <1> QED BY <1>1, <1>3, <1>4, <1>5, EntriesDriven

------------------------------------------------------------------------------
(* What SELECT finds                                                       *)

\* A page nobody deleted from gives its newest version, if the snapshot covers it.
LEMMA PageSelected ==
  ASSUME NEW p, NEW u, pages[p].versions \in Seq(Engine!Version),
         1 \in DOMAIN pages[p].versions, pages[p].versions[1].deleted_by = None,
         pages[p].versions[1].created_by.ts =< u.snapshot_tx.ts
  PROVE  Engine!ScanPage(p, u) = <<pages[p].versions[1]>>
  <1> DEFINE vs == pages[p].versions
             live == {i \in DOMAIN vs : Engine!IsVisible(vs[i], u) /\ vs[i].deleted_by = None}
  <1>1. 1 \in live /\ live \in SUBSET Nat /\ \A i \in live : 1 =< i
    <2>1. Engine!IsVisible(vs[1], u)
      BY DEF Engine!IsVisible
    <2>2. DOMAIN vs = 1..Len(vs)
      OBVIOUS
    <2> QED BY <2>1, <2>2
  <1>2. Engine!Min(live) = 1
    <2> HIDE DEF live
    <2>1. \E x \in live : \A y \in live : x =< y
      BY <1>1
    <2>2. Engine!Min(live) \in live /\ \A y \in live : Engine!Min(live) =< y
      BY <2>1 DEF Engine!Min
    <2>3. Engine!Min(live) \in Nat /\ Engine!Min(live) =< 1 /\ 1 =< Engine!Min(live)
      BY <1>1, <2>2
    <2> QED BY <2>3
  <1> QED BY <1>1, <1>2 DEF Engine!ScanPage

\* A page gives one version, or none.
LEMMA PageScanned ==
  ASSUME NEW p, NEW u, pages[p].versions \in Seq(Engine!Version)
  PROVE  Engine!ScanPage(p, u) \in Seq(Engine!Version)
  <1> DEFINE vs == pages[p].versions
             live == {i \in DOMAIN vs : Engine!IsVisible(vs[i], u) /\ vs[i].deleted_by = None}
  <1>1. CASE live = {}
    BY <1>1 DEF Engine!ScanPage
  <1>2. CASE live # {}
    <2>1. live \subseteq Nat /\ live \subseteq DOMAIN vs /\ \A i \in DOMAIN vs : vs[i] \in Engine!Version
      OBVIOUS
    <2> HIDE DEF live
    <2>2. \E x \in live : \A y \in live : x =< y
      BY <1>2, <2>1, LeastNumber
    <2>3. Engine!Min(live) \in live
      BY <2>2 DEF Engine!Min
    <2>4. vs[Engine!Min(live)] \in Engine!Version
      BY <2>1, <2>3
    <2>5. Engine!ScanPage(p, u) = <<vs[Engine!Min(live)]>>
      BY <1>2 DEF Engine!ScanPage, live
    <2> QED BY <2>4, <2>5
  <1> QED BY <1>1, <1>2

\* FlattenSeq is the concatenation of all its sequences.
LEMMA Flattened ==
  ASSUME NEW seqs, Len(seqs) \in Nat \ {0}
  PROVE  \E g : Concatenates(g, seqs, Len(seqs)) /\ Engine!FlattenSeq(seqs) = g[Len(seqs)]
  <1> DEFINE Is(g) == g = [i \in 1..Len(seqs) |->
                              IF i = 1 THEN seqs[i] ELSE g[i - 1] \o seqs[i]]
  <1>1. Engine!FlattenSeq(seqs) = (CHOOSE g : Is(g))[Len(seqs)]
    BY DEF Engine!FlattenSeq
  <1>2. \A g : Is(g) <=> Concatenates(g, seqs, Len(seqs))
    BY DEF Concatenates
  <1> HIDE DEF Is
  <1>3. \E g : Is(g)
    BY <1>2, ConcatenationExists
  <1>4. Is(CHOOSE g : Is(g))
    BY <1>3
  <1> QED BY <1>1, <1>2, <1>4

\* The versions of a sequence that transaction n wrote.
Of(rows, n) == {i \in DOMAIN rows : rows[i].created_by.n = n}

\* SELECT answers with a row for every index entry of transaction n, if nobody
\* deleted from the row and the snapshot covers n.
LEMMA EntriesSelected ==
  ASSUME SqlInv, Registered, NEW u \in active, NEW r \in Engine!Row, ~Deleted(r),
         NEW n \in DOMAIN registry, registry[n].ts =< u.snapshot_tx.ts
  PROVE  /\ IsFiniteSet(Of(Engine!RangeScan(r, u), n))
         /\ Cardinality(EntriesBy(n, r)) =< Cardinality(Of(Engine!RangeScan(r, u), n))
  <1> DEFINE seqs == [i \in DOMAIN index[r] |-> Engine!ScanPage(index[r][i], u)]
  <1>1. P!Core
    BY DEF SqlInv
  <1>2. PICK m : m = Len(index[r])
    OBVIOUS
  <1>3. m \in Nat /\ DOMAIN index[r] = 1..m
    <2>1. index[r] \in Seq(1..MaxPages)
      BY <1>1, SameSteps DEF P!Core, P!TypeOK
    <2> QED BY <1>2, <2>1
  <1>4. /\ Engine!RangeScan(r, u) = Engine!FlattenSeq(seqs) /\ Len(seqs) = m
        /\ DOMAIN seqs = 1..m /\ \A i \in 1..m : seqs[i] = Engine!ScanPage(index[r][i], u)
    BY <1>3 DEF Engine!RangeScan
  <1>5. SequencesOver(Engine!Version, seqs, m)
    BY <1>1, <1>3, <1>4, EntryPage, PageScanned DEF SequencesOver
  <1>6. ASSUME NEW i \in EntriesBy(n, r)
        PROVE  i \in 1..m /\ Len(seqs[i]) = 1 /\ seqs[i][1].created_by.n = n
    <2>1. i \in DOMAIN index[r] /\ pages[index[r][i]].versions[1].created_by.n = n
      BY DEF EntriesBy
    <2>2. /\ pages[index[r][i]].versions \in Seq(Engine!Version)
          /\ 1 \in DOMAIN pages[index[r][i]].versions
      BY <1>1, <2>1, EntryPage
    <2>3. PICK k \in DOMAIN registry : pages[index[r][i]].versions[1].created_by = registry[k]
      BY <2>1 DEF Registered
    <2>4. k = n
      BY <2>1, <2>3 DEF Registered
    <2>5. pages[index[r][i]].versions[1].deleted_by = None
      BY <2>1, <2>2 DEF Deleted
    <2>6. Engine!ScanPage(index[r][i], u) = <<pages[index[r][i]].versions[1]>>
      BY <2>2, <2>3, <2>4, <2>5, PageSelected
    <2>7. i \in 1..m /\ seqs[i] = <<pages[index[r][i]].versions[1]>>
      BY <1>3, <1>4, <2>1, <2>6
    <2> HIDE DEF seqs
    <2> QED BY <2>1, <2>7
  <1> HIDE DEF seqs
  <1>7. CASE m = 0
    <2>1. EntriesBy(n, r) = {}
      BY <1>3, <1>7 DEF EntriesBy
    <2>2. Engine!RangeScan(r, u) = seqs
      BY <1>4, <1>7 DEF Engine!FlattenSeq
    <2>3. Of(Engine!RangeScan(r, u), n) = {}
      BY <1>4, <1>7, <2>2 DEF Of
    <2> QED BY <2>1, <2>3, FS_EmptySet
  <1>8. CASE m # 0
    <2>1. PICK g : Concatenates(g, seqs, m) /\ Engine!RangeScan(r, u) = g[m]
      BY <1>3, <1>4, <1>8, Flattened
    <2> DEFINE B == Of(g[m], n)
               f == [i \in EntriesBy(n, r) |-> Len(g[i])]
    <2>2. Grows(Engine!Version, g, seqs, m)
      BY <1>3, <1>5, <2>1, ConcatenationStep
    <2>a. m \in 1..m
      BY <1>3, <1>8
    <2>3. g[m] \in Seq(Engine!Version)
      BY <2>2, <2>a, Zenon DEF Grows
    <2>4. Joined(g, seqs, m)
      BY <1>3, <1>5, <2>1, ConcatenationPlaces
    <2>5. IsFiniteSet(B)
      <3>1. PICK l \in Nat : l = Len(g[m]) /\ DOMAIN g[m] = 1..l
        BY <2>3
      <3>2. IsFiniteSet(1..l)
        BY FS_Interval
      <3>3. B \in SUBSET (1..l)
        BY <3>1 DEF Of
      <3> QED BY <3>2, <3>3, FS_Subset
    <2>6. ASSUME NEW i \in EntriesBy(n, r)
          PROVE  f[i] \in B
      <3>1. i \in 1..m /\ m \in i..m /\ Len(seqs[i]) = 1 /\ seqs[i][1].created_by.n = n
        BY <1>3, <1>6
      <3>2. /\ Len(g[i]) \in Nat /\ Len(g[m]) \in Nat /\ Len(g[i]) =< Len(g[m])
            /\ Len(g[i]) # 0 /\ g[i][Len(g[i])] = seqs[i][1]
            /\ \A k \in 1..Len(g[i]) : g[m][k] = g[i][k]
        BY <2>4, <3>1, Zenon DEF Joined
      <3>3. Len(g[i]) \in 1..Len(g[i]) /\ Len(g[i]) \in 1..Len(g[m])
        BY <3>2
      <3>4. g[m][Len(g[i])].created_by.n = n
        BY <3>1, <3>2, <3>3, Zenon
      <3>5. DOMAIN g[m] = 1..Len(g[m])
        BY <2>3
      <3>6. Len(g[i]) \in B
        BY <3>3, <3>4, <3>5, Zenon DEF Of
      <3> HIDE DEF B
      <3> QED BY <3>6
    <2>7. ASSUME NEW i \in EntriesBy(n, r), NEW j \in EntriesBy(n, r), i < j
          PROVE  f[i] # f[j]
      <3>1. i \in 1..m /\ j \in i..m /\ i # j /\ Len(seqs[j]) = 1
        BY <1>3, <1>6, <2>7
      <3>2. Len(g[i]) \in Nat /\ Len(g[j]) \in Nat /\ Len(g[i]) < Len(g[j])
        BY <2>4, <3>1, Zenon DEF Joined
      <3>3. Len(g[i]) # Len(g[j])
        BY <3>2
      <3> QED BY <3>3
    <2>8. \A i \in EntriesBy(n, r) : i \in Nat
      BY <1>3, <1>6
    <2>9. f = [i \in EntriesBy(n, r) |-> f[i]]
      OBVIOUS
    <2> HIDE DEF B, f
    <2>10. \A i, j \in EntriesBy(n, r) : f[i] = f[j] => i = j
      BY <2>7, <2>8
    <2>11. f \in Injection(EntriesBy(n, r), B)
      BY <2>6, <2>9, <2>10 DEF Injection, IsInjective
    <2>12. Cardinality(EntriesBy(n, r)) =< Cardinality(B)
      BY <2>5, <2>11, FS_Injection
    <2> QED BY <2>1, <2>5, <2>12 DEF B
  <1> QED BY <1>7, <1>8

------------------------------------------------------------------------------
(* The theorems                                                            *)

\* Every step keeps the accounts.
LEMMA AccountsNext == SqlInv /\ Accounts /\ [Next]_vars => Accounts'
  <1> SUFFICES ASSUME SqlInv, Accounts, [Next]_vars PROVE Accounts'
    OBVIOUS
  <1>1. CASE UNCHANGED vars
    <2>1. UNCHANGED <<session, index, pages, op, acked, failed>>
      BY <1>1 DEF vars, engineVars, history
    <2>2. \A u \in Session : session[u].at = "running" => session[u].tx.tx_id.n \in 1..MaxTx
      BY RunnerFacts
    <2> QED BY <2>1, <2>2, EntriesUntouched, AccountsAside
  <1>2. CASE Next
    BY <1>2, BeginAccounts, CreateAccounts, ScanAccounts, AcquireAccounts, InsertAccounts,
       DeleteAccounts, EngineAccounts, FinishAccounts DEF Next, LockedStep
  <1> QED BY <1>1, <1>2

\* Nothing is acknowledged and the index is empty.
LEMMA AccountsInit == Init => Accounts
  <1> SUFFICES ASSUME Init PROVE Accounts
    OBVIOUS
  <1>1. /\ session = [s \in Session |-> NewSession] /\ index = Engine!EmptyRows
        /\ acked = [n \in 1..MaxTx |-> [r \in Engine!Row |-> 0]]
    BY DEF Init, Engine!Init
  <1>2. \A s \in Session : session[s].at # "running"
    BY <1>1 DEF NewSession
  <1>3. \A n \in 1..MaxTx : \A r \in Engine!Row : EntriesBy(n, r) = {} /\ acked[n][r] = 0
    BY <1>1 DEF EntriesBy, Engine!EmptyRows
  <1>4. \A n \in 1..MaxTx : Settled(n) /\ Covered(n)
    BY <1>3, FS_EmptySet DEF Settled, Covered
  <1> QED BY <1>1, <1>2, <1>4 DEF Accounts

\* While nobody has the mutex, the index has exactly the rows whose INSERT returned
\* Ok, for every transaction in which no statement failed, whatever other sessions
\* insert, delete, create, fail at or panic in between (execute_insert 102-141,
\* execute_delete 239-280).
THEOREM StatementsCorrect == Spec => []StatementsAtomic
  <1>1. SqlInv /\ Accounts => StatementsAtomic
    <2> SUFFICES ASSUME SqlInv, Accounts, lock \notin Session PROVE
                 \A n \in (1..MaxTx) \ failed : Settled(n)
      BY DEF StatementsAtomic, Settled
    <2>1. \A s \in Session : session[s].at # "running"
      BY DEF SqlInv, Locking
    <2> QED BY <2>1 DEF Accounts
  <1>2. Spec => []Accounts
    BY AccountsInit, AccountsNext, Invariance, PTL DEF Spec
  <1> QED BY <1>1, <1>2, Invariance, PTL

\* The registry and the index are empty.
LEMMA RegisteredInit == Init => Registered
  <1> SUFFICES ASSUME Init PROVE Registered
    OBVIOUS
  <1>1. index = Engine!EmptyRows /\ registry = <<>> /\ minted = 0
    BY DEF Init, Engine!Init
  <1>2. \A r \in Engine!Row : index[r] = <<>>
    BY <1>1 DEF Engine!EmptyRows
  <1> QED BY <1>1, <1>2 DEF Registered

\* SELECT on a table that nobody has deleted from answers with every acknowledged
\* row of the transactions its snapshot covers that was inserted without key
\* columns, whatever other sessions insert, create under the same name with another
\* schema, fail at or panic in: for any keys, tables, sessions, rows and bounds, the
\* index a leaf of at most IndexCap entries (execute_scan 143-190, engine.rs
\* range_scan 162-199).
THEOREM AckedSelected == Spec => []AckedRowsSelected
  <1>1. ASSUME SqlInv, Accounts, Registered PROVE AckedRowsSelected
    <2> SUFFICES ASSUME NEW u \in active, NEW t \in Table, lock \notin Session,
                        ~Deleted(Scanned(t)), NEW n \in 1..MaxTx, n =< Len(registry),
                        registry[n].ts =< u.snapshot_tx.ts
                 PROVE  Cardinality(Of(Engine!RangeScan(Scanned(t), u), n)) >=
                           acked[n][Scanned(t)]
      BY DEF AckedRowsSelected, Of
    <2>1. Scanned(t) \in Engine!Row
      BY ExecutorAssumption DEF Scanned, Engine!Row
    <2>2. n \in DOMAIN registry
      <3>1. registry \in Seq(P!TxId)
        BY <1>1 DEF SqlInv, P!Core, P!TypeOK
      <3> QED BY <3>1
    <2>3. /\ IsFiniteSet(Of(Engine!RangeScan(Scanned(t), u), n))
          /\ Cardinality(EntriesBy(n, Scanned(t)))
                =< Cardinality(Of(Engine!RangeScan(Scanned(t), u), n))
      BY <1>1, <2>1, <2>2, EntriesSelected
    <2>4. /\ Cardinality(Of(Engine!RangeScan(Scanned(t), u), n)) \in Nat
          /\ Cardinality(EntriesBy(n, Scanned(t))) \in Nat
      BY <1>1, <2>1, <2>3, EntriesFinite, FS_CardinalityType DEF SqlInv
    <2>5. acked[n][Scanned(t)] \in Nat /\ Cardinality(EntriesBy(n, Scanned(t))) >= acked[n][Scanned(t)]
      BY <1>1, <2>1 DEF Accounts, Covered
    <2> QED BY <2>3, <2>4, <2>5
  <1>2. Spec => []Accounts
    BY AccountsInit, AccountsNext, Invariance, PTL DEF Spec
  <1>3. Spec => []Registered
    BY <1>2, RegisteredInit, RegisteredNext, Invariance, PTL DEF Spec
  <1> QED BY <1>1, <1>2, <1>3, Invariance, PTL

==============================================================================
