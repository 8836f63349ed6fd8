------------------------- MODULE StorageEngineProofs -------------------------
(***************************************************************************)
(* Proofs about StorageEngine: all its invariants and both its action      *)
(* properties, for any tables, keys, values and bounds.  They rest on one  *)
(* inductive invariant, IInv, preserved conjunct by conjunct.              *)
(***************************************************************************)
EXTENDS StorageEngine, SequenceTheorems, FiniteSetTheorems, WellFoundedInduction, TLAPS

\* The assumption on the constants, one constant at a time.
LEMMA Bounds ==
  /\ PageCap \in Nat \ {0} /\ IndexCap \in Nat \ {0} /\ MaxTx \in Nat \ {0}
  /\ MaxTime \in Nat \ {0} /\ MaxPages \in Nat \ {0} /\ MaxLog \in Nat \ {0}
  /\ MaxChain \in Nat \ {0} /\ MaxFaults \in Nat /\ MaxCrashes \in Nat
  /\ None \notin TxId /\ None \notin Value
  BY EngineAssumption

\* Option::None is no version, so get's None means that nothing was found.
LEMMA NoneIsNoVersion == None \notin Version
  BY EngineAssumption

\* Min picks the least element of a set of naturals.
LEMMA MinOfSet ==
  ASSUME NEW S \in SUBSET Nat, S # {}
  PROVE  Min(S) \in S /\ \A y \in S : Min(S) =< y
  <1>1. PICK x \in S : \A y \in S : ~ (<<y, x>> \in OpToRel(<, Nat))
    BY NatLessThanWellFounded, WFMin
  <1>2. \A a, b \in Nat : a < b => <<a, b>> \in OpToRel(<, Nat)
    BY Zenon DEF OpToRel
  <1>3. \A y \in S : ~ (y < x)
    BY <1>1, <1>2
  <1>4. \A y \in S : x =< y
    BY <1>3
  <1> QED BY <1>4 DEF Min

\* The scan for the first visible version (engine.rs get and delete) ends at a
\* position that is visible, or at none.
LEMMA FirstVisibleFacts ==
  ASSUME NEW vs \in Seq(Version), NEW tx
  PROVE  /\ FirstVisible(vs, tx) \in 0..Len(vs)
         /\ FirstVisible(vs, tx) # 0 => IsVisible(vs[FirstVisible(vs, tx)], tx)
  <1> DEFINE seen == {i \in DOMAIN vs : IsVisible(vs[i], tx)}
  <1>1. CASE seen = {}
    BY <1>1 DEF FirstVisible
  <1>2. CASE seen # {}
    <2>1. seen \in SUBSET Nat
      OBVIOUS
    <2>2. Min(seen) \in seen
      BY <1>2, <2>1, MinOfSet
    <2>3. FirstVisible(vs, tx) = Min(seen)
      BY <1>2 DEF FirstVisible
    <2> QED BY <2>2, <2>3
  <1> QED BY <1>1, <1>2

\* delete marks the first visible version and changes nothing else of the chain.
LEMMA TombstonedFacts ==
  ASSUME NEW vs \in Seq(Version), NEW tx \in Transaction
  PROVE  /\ Tombstoned(vs, tx) \in Seq(Version)
         /\ Len(Tombstoned(vs, tx)) = Len(vs)
         /\ \A i \in 1..Len(vs) :
               /\ Tombstoned(vs, tx)[i].created_by = vs[i].created_by
               /\ Tombstoned(vs, tx)[i].value = vs[i].value
               /\ Tombstoned(vs, tx)[i].deleted_by =
                     IF i = FirstVisible(vs, tx) THEN tx.tx_id ELSE vs[i].deleted_by
  <1> DEFINE ts == Tombstoned(vs, tx)
  <1>1. DOMAIN ts = 1..Len(vs) /\ Len(vs) \in Nat
    BY DEF Tombstoned
  <1>2. ASSUME NEW i \in 1..Len(vs)
        PROVE  /\ ts[i] \in Version /\ ts[i].created_by = vs[i].created_by
               /\ ts[i].value = vs[i].value
               /\ ts[i].deleted_by =
                     IF i = FirstVisible(vs, tx) THEN tx.tx_id ELSE vs[i].deleted_by
    <2>1. vs[i] \in Version /\ tx.tx_id \in TxId
      BY DEF Transaction
    <2>2. ts[i] = IF i = FirstVisible(vs, tx) THEN [vs[i] EXCEPT !.deleted_by = tx.tx_id]
                  ELSE vs[i]
      BY DEF Tombstoned
    <2> QED BY <2>1, <2>2 DEF Version
  <1>3. ts \in Seq(Version) /\ Len(ts) = Len(vs)
    <2>1. ts \in [1..Len(vs) -> Version]
      BY <1>1, <1>2 DEF Tombstoned
    <2> HIDE DEF ts
    <2> QED BY <2>1, <1>1, SeqDef, LenProperties
  <1> QED BY <1>2, <1>3

\* MvccTable::insert puts one version, without tombstone, before the chain.
LEMMA WithVersionFacts ==
  ASSUME NEW chain \in Seq(Version), NEW val \in Value, NEW tx \in Transaction
  PROVE  /\ WithVersion(chain, val, tx) \in Seq(Version)
         /\ Len(WithVersion(chain, val, tx)) = Len(chain) + 1
         /\ WithVersion(chain, val, tx)[1] =
               [created_by |-> tx.tx_id, deleted_by |-> None, value |-> val]
         /\ \A i \in 1..Len(chain) : WithVersion(chain, val, tx)[i + 1] = chain[i]
  <1>1. [created_by |-> tx.tx_id, deleted_by |-> None, value |-> val] \in Version
    BY DEF Version, Transaction
  <1> QED BY <1>1 DEF WithVersion

\* An empty page fits.
LEMMA NothingFits == Fits(<<>>)
  <1>1. {i \in DOMAIN <<>> : <<>>[i].deleted_by # None} = {}
    OBVIOUS
  <1> QED BY <1>1, FS_EmptySet, EngineAssumption DEF Fits

\* A page that mirrors a chain is not empty, and no longer than the chain.
LEMMA MirrorLen ==
  ASSUME NEW vs, NEW chain \in Seq(Version), Mirrors(vs, chain)
  PROVE  Len(vs) \in Nat \ {0} /\ Len(vs) =< Len(chain)
  <1>1. Len(vs) \in 1..Len(chain) /\ Len(chain) \in Nat
    BY DEF Mirrors
  <1> QED BY <1>1

------------------------------------------------------------------------------
(* The inductive invariant                                                 *)

Inserting == op.kind \in {"insert_log", "insert_index"}

\* The page of an insert in progress: written with the chain as it is in memory,
\* whose newest version is the insert's own, and in no index entry yet.
PendingPage ==
    Inserting =>
        /\ op.page \in (root + 1)..Len(pages)
        /\ pages[op.page] = DataPage(tables[op.row])
        /\ tables[op.row] # <<>> /\ tables[op.row][1].created_by = op.tx.tx_id
        /\ \A r \in Row : \A i \in DOMAIN index[r] : index[r][i] # op.page

\* It holds a longer chain than the pages the index has of the row.
PendingLonger ==
    Inserting =>
        \A i \in DOMAIN index[op.row] :
            Len(pages[index[op.row][i]].versions) < Len(tables[op.row])

\* Between the log and the index, the record of the insert is the last one.
PendingLogged ==
    op.kind = "insert_index" =>
        wal # <<>> /\ wal[Len(wal)] = Put(op.row, op.page, op.tx.tx_id)

\* The registry is in the order of time, and a transaction's snapshot is the one
\* before it.
Ordered ==
    /\ \A i, j \in DOMAIN registry : i =< j => registry[i].ts =< registry[j].ts
    /\ \A i \in DOMAIN registry : registry[i].ts =< clock
    /\ \A tx \in active :
          /\ tx.tx_number \in DOMAIN registry /\ tx.tx_id = registry[tx.tx_number]
          /\ tx.snapshot_tx = IF tx.tx_number = 1 THEN Nil ELSE registry[tx.tx_number - 1]

\* Tombstones: none in memory, and on the pages of this run only those of
\* transactions of this run.
Tombstones ==
    /\ \A r \in Row : \A i \in DOMAIN tables[r] : tables[r][i].deleted_by = None
    /\ \A p \in (root + 1)..Len(pages) : \A i \in DOMAIN pages[p].versions :
          LET d == pages[p].versions[i].deleted_by
          IN  d # None => \E k \in DOMAIN registry : d = registry[k]

\* Until a write has failed, the only rows in memory that the index lacks are the
\* one being inserted, which is new, and those that came when the root was full.
Unindexed ==
    faults = 0 =>
        \A r \in Row : index[r] = <<>> /\ tables[r] # <<>> =>
            RootFull \/ (Inserting /\ op.row = r /\ Len(tables[r]) = 1)

\* The pages the index points to are not empty: delete takes no version away.
Occupied == \A r \in Row : \A i \in DOMAIN index[r] : pages[index[r][i]].versions # <<>>

\* All that does not depend on what memory still holds of the pages; CREATE TABLE
\* preserves it too.
Core ==
    /\ TypeOK /\ PagesNotShared /\ IndexIsLogged /\ Occupied
    /\ PendingPage /\ PendingLogged /\ Ordered /\ Tombstones /\ Unindexed

IInv == Core /\ PageMirrorsMemory /\ PendingLonger

------------------------------------------------------------------------------
(* Type correctness                                                        *)

\* The maps of a new engine.
LEMMA EmptyRowsType == ASSUME NEW S PROVE EmptyRows \in [Row -> Seq(S)]
  BY DEF EmptyRows

PageType == [kind : {"leaf", "data"}, versions : Seq(Version)]

\* The page of BTree::new is a page.
LEMMA LeafPageType == LeafPage \in PageType
  BY DEF LeafPage, PageType

\* What write_page writes is a page.
LEMMA DataPageType == ASSUME NEW vs \in Seq(Version) PROVE DataPage(vs) \in PageType
  BY DEF DataPage, PageType

\* StorageEngine::new on empty files starts well-typed.
LEMMA TypeInit == Init => TypeOK
  <1> SUFFICES ASSUME Init PROVE TypeOK
    OBVIOUS
  <1>1. pages \in Seq(PageType) /\ Len(pages) = 1 /\ pages[1].versions = <<>>
    BY LeafPageType DEF Init, LeafPage
  <1>2. \A p \in DOMAIN pages : Fits(pages[p].versions)
    BY <1>1, NothingFits DEF Init
  <1>3. tables \in [Row -> Seq(Version)] /\ index \in [Row -> Seq(1..MaxPages)]
    BY EmptyRowsType DEF Init
  <1>4. op \in OpType
    BY DEF Init, OpType, NoOp
  <1>5. wal \in Seq(LogRecord) /\ Len(wal) = 0
    BY DEF Init
  <1>6. registry \in Seq(TxId) /\ active \subseteq Transaction
    BY DEF Init
  <1>7. fate \in [1..MaxTx -> {"open", "committed", "aborted"}]
    BY DEF Init
  <1> QED
    BY <1>1, <1>2, <1>3, <1>4, <1>5, <1>6, <1>7, Bounds DEF Init, TypeOK, PageType

\* A page the index names is in the file.
LEMMA IndexedPage ==
  ASSUME TypeOK, PagesNotShared, NEW r \in Row, NEW i \in DOMAIN index[r]
  PROVE  /\ index[r][i] \in (root + 1)..Len(pages) /\ index[r][i] \in DOMAIN pages
         /\ pages[index[r][i]] \in PageType
         /\ pages[index[r][i]].versions \in Seq(Version)
         /\ Len(pages) \in Nat /\ root \in 1..Len(pages)
  <1>1. index[r][i] \in (root + 1)..Len(pages) /\ root \in 1..Len(pages)
    BY DEF PagesNotShared, TypeOK
  <1>2. pages \in Seq(PageType)
    BY DEF TypeOK, PageType
  <1>3. index[r][i] \in DOMAIN pages /\ Len(pages) \in Nat
    BY <1>1, <1>2
  <1>4. pages[index[r][i]] \in PageType
    BY <1>2, <1>3
  <1> QED BY <1>1, <1>3, <1>4 DEF PageType

\* get finds the first entry of the row.
LEMMA HeadIndex ==
  ASSUME TypeOK, NEW r \in Row, index[r] # <<>>
  PROVE  1 \in DOMAIN index[r] /\ PageOf(r) = index[r][1]
  BY DEF TypeOK, PageOf

\* The snapshot begin hands out is an id, also for the first transaction.
LEMMA SnapshotType ==
  ASSUME registry \in Seq(TxId)
  PROVE  (IF registry = <<>> THEN Nil ELSE Last(registry)) \in TxId
  <1>1. Nil \in TxId
    BY Bounds DEF Nil, TxId
  <1>2. registry # <<>> => Last(registry) \in TxId
    BY DEF Last
  <1> QED BY <1>1, <1>2

\* No step leaves the types; delete needs that the index names pages of the file.
LEMMA TypeNext == TypeOK /\ PagesNotShared /\ [Next]_vars => TypeOK'
  <1> SUFFICES ASSUME TypeOK, PagesNotShared, [Next]_vars PROVE TypeOK'
    OBVIOUS
  <1> USE Bounds
  <1>a. faults \in 0..MaxFaults /\ crashes \in 0..MaxCrashes
    BY DEF TypeOK
  <1>b. wal \in Seq(LogRecord) /\ walSynced \in 0..Len(wal) /\ Len(wal) =< MaxLog
    BY DEF TypeOK
  <1>c. /\ pages \in Seq(PageType) /\ \A q \in DOMAIN pages : Fits(pages[q].versions)
        /\ root \in 1..Len(pages) /\ Len(pages) =< MaxPages
    BY DEF TypeOK, PageType
  <1>d. index \in [Row -> Seq(1..MaxPages)] /\ tables \in [Row -> Seq(Version)]
    BY DEF TypeOK
  <1>e. op \in OpType
    BY DEF TypeOK
  <1>1. CASE Begin
    <2>1. PICK ms \in clock..MaxTime :
             LET id == [ts |-> ms, n |-> minted + 1]
                 tx == [tx_id |-> id,
                        snapshot_tx |-> IF registry = <<>> THEN Nil ELSE Last(registry),
                        tx_number |-> Len(registry) + 1]
             IN  /\ clock' = ms
                 /\ registry' = Append(registry, id)
                 /\ active' = active \cup {tx}
      BY <1>1 DEF Begin
    <2> DEFINE id == [ts |-> ms, n |-> minted + 1]
               snap == IF registry = <<>> THEN Nil ELSE Last(registry)
               tx == [tx_id |-> id, snapshot_tx |-> snap, tx_number |-> Len(registry) + 1]
    <2>2. registry \in Seq(TxId) /\ clock \in 1..MaxTime /\ minted \in 0..MaxTx
          /\ minted < MaxTx /\ active \subseteq Transaction
      BY <1>1 DEF TypeOK, Begin
    <2>3. id \in TxId
      BY <2>2 DEF TxId
    <2>4. snap \in TxId
      BY <2>2, SnapshotType
    <2>5. tx \in Transaction
      BY <2>2, <2>3, <2>4 DEF Transaction
    <2>6. registry' \in Seq(TxId) /\ active' \subseteq Transaction
      BY <2>1, <2>2, <2>3, <2>5
    <2>7. clock' \in 1..MaxTime /\ minted' \in 0..MaxTx
      BY <1>1, <2>1, <2>2 DEF Begin
    <2> QED BY <1>1, <2>6, <2>7 DEF TypeOK, Begin, Fits
  <1>2. ASSUME NEW tx \in active, NEW outcome \in {"committed", "aborted"}, Decide(tx, outcome)
        PROVE  TypeOK'
    <2>1. fate' \in [1..MaxTx -> {"open", "committed", "aborted"}]
      BY <1>2 DEF TypeOK, Decide
    <2> QED BY <1>2, <2>1 DEF TypeOK, Decide, Fits
  <1>3. ASSUME NEW tx \in active, NEW r \in Row, NEW val \in Value, InsertPage(r, val, tx)
        PROVE  TypeOK'
    <2> DEFINE p == Len(pages) + 1
               chain == WithVersion(tables[r], val, tx)
    <2>1. tx \in Transaction /\ tables[r] \in Seq(Version)
      BY DEF TypeOK
    <2>2. chain \in Seq(Version)
      BY <2>1, WithVersionFacts
    <2> HIDE DEF chain
    <2>3. tables' \in [Row -> Seq(Version)]
      BY <1>3, <2>2 DEF InsertPage, WriteRow, TypeOK, chain
    <2>4. pages \in Seq(PageType) /\ Len(pages) < MaxPages /\ Len(pages) \in Nat
      BY <1>3 DEF InsertPage, WriteRow, TypeOK, PageType
    <2>8. UNCHANGED <<txVars, root, index, wal, walSynced, crashes>>
      BY <1>3 DEF InsertPage, WriteRow
    <2>5. CASE /\ Fits(chain) /\ pages' = Append(pages, DataPage(chain))
               /\ \/ op' = [kind |-> "insert_log", row |-> r, tx |-> tx, page |-> p]
                  \/ op' = op
               /\ faults' \in 0..MaxFaults
      <3>1. pages' \in Seq(PageType) /\ Len(pages') = Len(pages) + 1
        BY <2>2, <2>4, <2>5, DataPageType
      <3>2. \A q \in DOMAIN pages' : Fits(pages'[q].versions)
        BY <1>c, <2>5, <3>1 DEF DataPage
      <3>3. op' \in OpType
        BY <1>e, <2>1, <2>4, <2>5 DEF OpType
      <3>4. root \in 1..Len(pages')
        BY <2>4, <3>1 DEF TypeOK
      <3>5. (pages \in Seq([kind : {"leaf", "data"}, versions : Seq(Version)]))'
        BY <3>1 DEF PageType
      <3>6. (Len(pages) =< MaxPages /\ \A q \in DOMAIN pages : Fits(pages[q].versions))'
        BY <2>4, <3>1, <3>2
      <3> QED
        BY <2>3, <2>5, <2>8, <3>3, <3>4, <3>5, <3>6 DEF TypeOK, txVars
    <2>6. CASE UNCHANGED <<pages, op>> /\ faults' \in 0..MaxFaults
      BY <1>3, <2>3, <2>6 DEF InsertPage, WriteRow, TypeOK, txVars, Fits
    <2>7. faults \in 0..MaxFaults
      BY DEF TypeOK
    <2>9. /\ p > Len(pages)
          /\ faults < MaxFaults /\ faults' = faults + 1 => faults' \in 0..MaxFaults
      BY <2>4, <2>7
    <2>10. \/ /\ Fits(chain) /\ pages' = Append(pages, DataPage(chain))
              /\ op' = [kind |-> "insert_log", row |-> r, tx |-> tx, page |-> p]
              /\ faults' = faults
           \/ UNCHANGED <<pages, op, faults>>
           \/ /\ Fits(chain) /\ pages' \in {pages, Append(pages, DataPage(chain))}
              /\ faults < MaxFaults /\ faults' = faults + 1 /\ UNCHANGED op
      BY <1>3, <2>9 DEF InsertPage, WriteRow, chain
    <2> QED BY <2>5, <2>6, <2>7, <2>9, <2>10
  <1>4. ASSUME NEW tx \in active, NEW r \in Row, DeletePage(r, tx) PROVE TypeOK'
    <2> DEFINE p == PageOf(r)
               vs == Tombstoned(pages[p].versions, tx)
    <2>1. tx \in Transaction /\ pages \in Seq(PageType)
      BY DEF TypeOK, PageType
    <2>2. p \in DOMAIN pages /\ pages[p].versions \in Seq(Version)
      BY <1>4, HeadIndex, IndexedPage DEF DeletePage
    <2>3. vs \in Seq(Version)
      BY <2>1, <2>2, TombstonedFacts
    <2> HIDE DEF p, vs
    <2>4. CASE /\ Fits(vs) /\ pages' = [pages EXCEPT ![p] = DataPage(vs)]
               /\ \/ op' = [kind |-> "delete_log", row |-> r, tx |-> tx]
                  \/ op' = op
               /\ faults' \in 0..MaxFaults
      <3>1. pages' \in Seq(PageType) /\ Len(pages') = Len(pages)
        BY <2>1, <2>2, <2>3, <2>4, DataPageType
      <3>2. \A q \in DOMAIN pages' : Fits(pages'[q].versions)
        BY <1>c, <2>2, <2>4, <3>1 DEF DataPage
      <3>3. op' \in OpType
        BY <1>e, <2>1, <2>4 DEF OpType
      <3> QED
        BY <1>4, <2>4, <3>1, <3>2, <3>3
           DEF DeletePage, TypeOK, txVars, PageType, Fits
    <2>5. CASE UNCHANGED <<pages, op>> /\ faults' \in 0..MaxFaults
      BY <1>4, <2>5 DEF DeletePage, TypeOK, txVars, Fits
    <2>6. faults \in 0..MaxFaults
      BY DEF TypeOK
    <2>7. faults < MaxFaults /\ faults' = faults + 1 => faults' \in 0..MaxFaults
      BY <2>6
    <2>8. \/ /\ Fits(vs) /\ pages' = [pages EXCEPT ![p] = DataPage(vs)]
             /\ op' = [kind |-> "delete_log", row |-> r, tx |-> tx] /\ faults' = faults
          \/ /\ Fits(vs) /\ pages' \in {pages, [pages EXCEPT ![p] = DataPage(vs)]}
             /\ faults < MaxFaults /\ faults' = faults + 1 /\ UNCHANGED op
      BY <1>4 DEF DeletePage, p, vs
    <2> QED BY <2>4, <2>5, <2>6, <2>7, <2>8
  <1>5. CASE InsertLog
    <2>1. op \in [kind : {"insert_log", "insert_index"}, row : Row, tx : Transaction,
                  page : 1..MaxPages]
      BY <1>5 DEF InsertLog, TypeOK, OpType
    <2>2. Put(op.row, op.page, op.tx.tx_id) \in LogRecord
      BY <2>1 DEF Put, LogRecord, Transaction
    <2>3. op' \in OpType
      BY <1>5, <2>1 DEF InsertLog, OpType, NoOp
    <2>4. wal' \in Seq(LogRecord) /\ Len(wal') =< MaxLog /\ Len(wal) =< Len(wal')
      <3>1. CASE wal' = Append(wal, Put(op.row, op.page, op.tx.tx_id)) /\ Len(wal) < MaxLog
        BY <1>b, <2>2, <3>1, AppendProperties
      <3>2. CASE wal' = wal
        BY <1>b, <3>2
      <3> QED BY <1>5, <3>1, <3>2 DEF InsertLog
    <2>5. faults' \in 0..MaxFaults
      BY <1>5, <1>a DEF InsertLog
    <2>6. walSynced \in 0..Len(wal')
      BY <1>b, <2>4
    <2> QED BY <1>5, <2>3, <2>4, <2>5, <2>6 DEF InsertLog, TypeOK, txVars, Fits
  <1>6. CASE InsertIndex
    <2>1. op.row \in Row /\ op.page \in 1..MaxPages
      BY <1>6 DEF InsertIndex, TypeOK, OpType
    <2>2. index' \in [Row -> Seq(1..MaxPages)]
      <3>1. Append(index[op.row], op.page) \in Seq(1..MaxPages)
        BY <1>d, <2>1
      <3>2. [index EXCEPT ![op.row] = Append(@, op.page)] \in [Row -> Seq(1..MaxPages)]
        BY <1>d, <2>1, <3>1
      <3> QED BY <1>6, <1>d, <3>2 DEF InsertIndex
    <2>3. faults' \in 0..MaxFaults /\ op' \in OpType
      BY <1>6, <1>a DEF InsertIndex, OpType, NoOp
    <2> QED BY <1>6, <2>2, <2>3 DEF InsertIndex, TypeOK, txVars, Fits
  <1>7. CASE DeleteLog
    <2>1. op \in [kind : {"delete_log"}, row : Row, tx : Transaction]
      BY <1>7 DEF DeleteLog, TypeOK, OpType
    <2>2. Del(op.row[2], op.tx.tx_id) \in LogRecord
      BY <2>1 DEF Del, LogRecord, Transaction, Row
    <2>3. wal' \in Seq(LogRecord) /\ Len(wal') =< MaxLog /\ Len(wal) =< Len(wal')
      BY <1>7, <1>b, <2>2 DEF DeleteLog
    <2>4. faults' \in 0..MaxFaults /\ op' \in OpType
      BY <1>7, <1>a DEF DeleteLog, OpType, NoOp
    <2>5. walSynced \in 0..Len(wal')
      BY <2>3 DEF TypeOK
    <2> QED BY <1>7, <2>3, <2>4, <2>5 DEF DeleteLog, TypeOK, txVars, Fits
  <1>8. CASE Restart
    <2>1. pages \in Seq(PageType) /\ Len(pages) < MaxPages /\ Len(pages) \in Nat
      BY <1>8 DEF Restart, TypeOK, PageType
    <2>2. pages' \in Seq(PageType) /\ Len(pages') = Len(pages) + 1
      BY <1>8, <2>1, LeafPageType DEF Restart
    <2>3. \A q \in DOMAIN pages' : Fits(pages'[q].versions)
      BY <1>8, <1>c, <2>2, NothingFits DEF Restart, LeafPage
    <2>4. tables' \in [Row -> Seq(Version)] /\ index' \in [Row -> Seq(1..MaxPages)]
      BY <1>8, EmptyRowsType DEF Restart
    <2>5. PICK k \in walSynced..Len(wal) : wal' = SubSeq(wal, 1, k) /\ walSynced' = k
      BY <1>8 DEF Restart
    <2>6. wal' \in Seq(LogRecord) /\ Len(wal') =< MaxLog /\ walSynced' \in 0..Len(wal')
      BY <1>b, <2>5
    <2>7. op' \in OpType /\ registry' \in Seq(TxId) /\ active' \subseteq Transaction
      BY <1>8 DEF Restart, OpType, NoOp
    <2>8. root' \in 1..Len(pages') /\ crashes' \in 0..MaxCrashes
      BY <1>8, <1>a, <2>1, <2>2 DEF Restart
    <2>9. UNCHANGED <<clock, fate, minted, faults>>
      BY <1>8 DEF Restart
    <2>10. (clock \in 1..MaxTime /\ minted \in 0..MaxTx)'
      BY <2>9 DEF TypeOK
    <2>11. (fate \in [1..MaxTx -> {"open", "committed", "aborted"}])'
      BY <2>9 DEF TypeOK
    <2>12. (pages \in Seq([kind : {"leaf", "data"}, versions : Seq(Version)]))'
      BY <2>2 DEF PageType
    <2>13. (Len(pages) =< MaxPages /\ \A p \in DOMAIN pages : Fits(pages[p].versions))'
      BY <2>1, <2>2, <2>3
    <2>14. (faults \in 0..MaxFaults)'
      BY <1>a, <2>9
    <2> QED
      BY <2>10, <2>11, <2>12, <2>13, <2>14, <2>4, <2>6, <2>7, <2>8 DEF TypeOK
  <1>9. CASE UNCHANGED vars
    BY <1>9 DEF vars, txVars, TypeOK, Fits
  <1> QED
    BY <1>1, <1>2, <1>3, <1>4, <1>5, <1>6, <1>7, <1>8, <1>9 DEF Next, Commit, Abort

------------------------------------------------------------------------------
(* What a step does to pages, index and memory                             *)

\* The pages of the index after a step that writes no page it names.
PagesKept ==
    /\ Len(pages') \in Nat /\ Len(pages) =< Len(pages')
    /\ \A q \in 1..Len(pages) : pages'[q] = pages[q]

\* The steps that leave index, memory and pages alone.
LEMMA QuietStep ==
  ASSUME TypeOK,
         \/ Begin
         \/ \E tx \in active : \E outcome \in {"committed", "aborted"} : Decide(tx, outcome)
         \/ InsertLog \/ DeleteLog \/ UNCHANGED vars
  PROVE  UNCHANGED <<pages, root, index, tables>>
  BY DEF Begin, Decide, InsertLog, DeleteLog, vars

\* insert, up to its page.
LEMMA InsertPageStep ==
  ASSUME TypeOK, NEW tx \in active, NEW r \in Row, NEW val \in Value,
         InsertPage(r, val, tx)
  PROVE  LET chain == WithVersion(tables[r], val, tx)
         IN  /\ op = NoOp /\ UNCHANGED <<root, index, wal, registry, active, clock>>
             /\ tables' = [tables EXCEPT ![r] = chain]
             /\ chain \in Seq(Version)
             /\ PagesKept
             /\ pages' # pages =>
                   /\ Len(pages') = Len(pages) + 1
                   /\ pages'[Len(pages) + 1] = DataPage(chain)
             /\ \/ /\ pages' # pages /\ faults' = faults
                   /\ op' = [kind |-> "insert_log", row |-> r, tx |-> tx,
                             page |-> Len(pages) + 1]
                \/ ~Fits(chain) /\ UNCHANGED <<pages, op, faults>>
                \/ UNCHANGED op /\ faults' = faults + 1
  <1> DEFINE chain == WithVersion(tables[r], val, tx)
  <1>1. tx \in Transaction /\ tables[r] \in Seq(Version) /\ pages \in Seq(PageType)
    BY DEF TypeOK, PageType
  <1>2. chain \in Seq(Version)
    BY <1>1, WithVersionFacts
  <1>3. DataPage(chain) \in PageType
    BY <1>2, DataPageType
  <1>5. Len(pages) \in Nat /\ Len(pages) + 1 > Len(pages)
    BY <1>1
  <1> HIDE DEF chain
  <1>4. LET p == Len(pages) + 1
        IN  /\ op = NoOp /\ UNCHANGED <<root, index, wal, registry, active, clock>>
            /\ tables' = [tables EXCEPT ![r] = chain]
            /\ \/ /\ pages' = Append(pages, DataPage(chain))
                  /\ op' = [kind |-> "insert_log", row |-> r, tx |-> tx, page |-> p]
                  /\ UNCHANGED faults
               \/ ~Fits(chain) /\ UNCHANGED <<pages, op, faults>>
               \/ /\ faults' = faults + 1 /\ UNCHANGED op
                  /\ pages' \in {pages, Append(pages, DataPage(chain))}
    BY <1>5 DEF InsertPage, WriteRow, txVars, Idle, chain
  <1>8. Append(pages, DataPage(chain)) # pages
    <2>1. Len(Append(pages, DataPage(chain))) = Len(pages) + 1
      BY <1>1, <1>3, AppendProperties
    <2> QED BY <1>5, <2>1
  <1>6. CASE pages' = pages
    BY <1>2, <1>4, <1>5, <1>6, <1>8 DEF PagesKept, chain
  <1>7. CASE pages' = Append(pages, DataPage(chain))
    <2>1. /\ Len(pages') = Len(pages) + 1 /\ pages'[Len(pages) + 1] = DataPage(chain)
          /\ \A q \in 1..Len(pages) : pages'[q] = pages[q]
      BY <1>1, <1>3, <1>7, AppendProperties
    <2>2. PagesKept
      BY <1>5, <2>1 DEF PagesKept
    <2> QED BY <1>2, <1>4, <1>7, <1>8, <2>1, <2>2 DEF chain
  <1> QED BY <1>4, <1>6, <1>7

\* delete, up to its page.
LEMMA DeletePageStep ==
  ASSUME TypeOK, PagesNotShared, NEW tx \in active, NEW r \in Row, DeletePage(r, tx)
  PROVE  LET p == PageOf(r)
             vs == Tombstoned(pages[p].versions, tx)
         IN  /\ op = NoOp /\ index[r] # <<>>
             /\ UNCHANGED <<root, index, tables, wal, registry, active, clock>>
             /\ p \in (root + 1)..Len(pages) /\ pages[p].versions \in Seq(Version)
             /\ p = index[r][1] /\ 1 \in DOMAIN index[r]
             /\ \/ /\ Len(pages') = Len(pages)
                   /\ pages'[p] = DataPage(vs)
                   /\ \A q \in 1..Len(pages) : q # p => pages'[q] = pages[q]
                \/ pages' = pages
             /\ \/ faults' = faults /\ op' = [kind |-> "delete_log", row |-> r, tx |-> tx]
                \/ UNCHANGED op /\ faults' = faults + 1
  <1> DEFINE p == PageOf(r)
             vs == Tombstoned(pages[p].versions, tx)
  <1>1. tx \in Transaction /\ pages \in Seq(PageType)
    BY DEF TypeOK, PageType
  <1>2. index[r] # <<>>
    BY DEF DeletePage
  <1>3. 1 \in DOMAIN index[r] /\ p = index[r][1]
    BY <1>2, HeadIndex
  <1>4. /\ p \in (root + 1)..Len(pages) /\ pages[p].versions \in Seq(Version)
        /\ p \in 1..Len(pages)
    BY <1>3, IndexedPage
  <1>5. vs \in Seq(Version)
    BY <1>1, <1>4, TombstonedFacts
  <1>6. DataPage(vs) \in PageType
    BY <1>5, DataPageType
  <1> HIDE DEF p, vs
  <1>7. /\ op = NoOp /\ UNCHANGED <<root, index, tables, wal, registry, active, clock>>
        /\ \/ /\ pages' = [pages EXCEPT ![p] = DataPage(vs)]
              /\ op' = [kind |-> "delete_log", row |-> r, tx |-> tx]
              /\ UNCHANGED faults
           \/ /\ faults' = faults + 1 /\ UNCHANGED op
              /\ pages' \in {pages, [pages EXCEPT ![p] = DataPage(vs)]}
    BY DEF DeletePage, txVars, Idle, p, vs
  <1>8. ASSUME pages' = [pages EXCEPT ![p] = DataPage(vs)]
        PROVE  /\ Len(pages') = Len(pages) /\ pages'[p] = DataPage(vs)
               /\ \A q \in 1..Len(pages) : q # p => pages'[q] = pages[q]
    BY <1>1, <1>4, <1>6, <1>8, ExceptSeq
  <1> QED BY <1>2, <1>3, <1>4, <1>7, <1>8 DEF p, vs

\* The end of insert.
LEMMA InsertIndexStep ==
  ASSUME TypeOK, InsertIndex
  PROVE  /\ Inserting /\ op.row \in Row /\ op.page \in 1..MaxPages
         /\ op' = NoOp /\ UNCHANGED <<pages, root, tables, wal, registry, active, clock>>
         /\ \/ /\ ~RootFull /\ faults' \in {faults, faults + 1}
               /\ index' = [index EXCEPT ![op.row] = Append(@, op.page)]
               /\ \A s \in Row : s # op.row => index'[s] = index[s]
               /\ DOMAIN index'[op.row] = 1..(Len(index[op.row]) + 1)
               /\ \A i \in DOMAIN index[op.row] : index'[op.row][i] = index[op.row][i]
               /\ index'[op.row][Len(index[op.row]) + 1] = op.page
               /\ Len(index[op.row]) \in Nat /\ DOMAIN index[op.row] = 1..Len(index[op.row])
            \/ RootFull /\ UNCHANGED <<index, faults>>
            \/ UNCHANGED index /\ faults' = faults + 1
  <1>1. op.row \in Row /\ op.page \in 1..MaxPages
    BY DEF InsertIndex, TypeOK, OpType
  <1>2. index \in [Row -> Seq(1..MaxPages)]
    BY DEF TypeOK
  <1>3. /\ Inserting /\ op' = NoOp
        /\ UNCHANGED <<pages, root, tables, wal, registry, active, clock>>
        /\ \/ /\ ~RootFull /\ faults' \in {faults, faults + 1}
              /\ index' = [index EXCEPT ![op.row] = Append(@, op.page)]
           \/ RootFull /\ UNCHANGED <<index, faults>>
           \/ UNCHANGED index /\ faults' = faults + 1
    BY DEF InsertIndex, Inserting, txVars
  <1>4. ASSUME index' = [index EXCEPT ![op.row] = Append(@, op.page)]
        PROVE  /\ \A s \in Row : s # op.row => index'[s] = index[s]
               /\ index'[op.row] = Append(index[op.row], op.page)
    BY <1>1, <1>2, <1>4
  <1>5. /\ DOMAIN Append(index[op.row], op.page) = 1..(Len(index[op.row]) + 1)
        /\ \A i \in DOMAIN index[op.row] :
              Append(index[op.row], op.page)[i] = index[op.row][i]
        /\ Append(index[op.row], op.page)[Len(index[op.row]) + 1] = op.page
        /\ Len(index[op.row]) \in Nat /\ DOMAIN index[op.row] = 1..Len(index[op.row])
    BY <1>1, <1>2, AppendProperties
  <1> QED BY <1>1, <1>3, <1>4, <1>5

\* The start after a crash.
LEMMA RestartStep ==
  ASSUME TypeOK, Restart
  PROVE  /\ op' = NoOp /\ registry' = <<>> /\ active' = {} /\ root' = Len(pages) + 1
         /\ \A r \in Row : index'[r] = <<>> /\ tables'[r] = <<>>
         /\ Len(pages') = Len(pages) + 1 /\ PagesKept
         /\ UNCHANGED <<clock, faults>>
  <1>1. pages \in Seq(PageType) /\ LeafPage \in PageType
    BY LeafPageType DEF TypeOK, PageType
  <1>2. pages' = Append(pages, LeafPage)
    BY DEF Restart
  <1>3. PagesKept /\ Len(pages') = Len(pages) + 1
    BY <1>1, <1>2, AppendProperties DEF PagesKept
  <1> QED BY <1>3 DEF Restart, EmptyRows

------------------------------------------------------------------------------
(* Pages are not shared                                                    *)

\* Steps that keep the index and the kind of its pages.
LEMMA SharedKept ==
  ASSUME TypeOK, PagesNotShared, UNCHANGED <<index, root>>, Len(pages') \in Nat,
         Len(pages) =< Len(pages'),
         \A r \in Row : \A i \in DOMAIN index[r] :
            pages[index[r][i]].kind = "data" => pages'[index[r][i]].kind = "data"
  PROVE  PagesNotShared'
  <1> SUFFICES ASSUME NEW r \in Row, NEW s \in Row,
                      NEW i \in DOMAIN index[r], NEW j \in DOMAIN index[s]
               PROVE  /\ index[r][i] = index[s][j] => r = s /\ i = j
                      /\ index[r][i] \in (root + 1)..Len(pages')
                      /\ pages'[index[r][i]].kind = "data"
    BY DEF PagesNotShared
  <1>1. /\ index[r][i] = index[s][j] => r = s /\ i = j
        /\ index[r][i] \in (root + 1)..Len(pages)
        /\ pages[index[r][i]].kind = "data"
    BY DEF PagesNotShared
  <1>2. Len(pages) \in Nat /\ root \in 1..Len(pages)
    BY IndexedPage
  <1> QED BY <1>1, <1>2

\* No step makes two entries share a page.
LEMMA SharedNext ==
  TypeOK /\ PagesNotShared /\ PendingPage /\ [Next]_vars => PagesNotShared'
  <1> SUFFICES ASSUME TypeOK, PagesNotShared, PendingPage, [Next]_vars
               PROVE  PagesNotShared'
    OBVIOUS
  <1>1. CASE \/ Begin
             \/ \E tx \in active : \E outcome \in {"committed", "aborted"} : Decide(tx, outcome)
             \/ InsertLog \/ DeleteLog \/ UNCHANGED vars
    BY <1>1, QuietStep DEF PagesNotShared
  <1>2. ASSUME NEW tx \in active, NEW r \in Row, NEW val \in Value, InsertPage(r, val, tx)
        PROVE  PagesNotShared'
    <2>1. PagesKept /\ UNCHANGED <<root, index>>
      BY <1>2, InsertPageStep
    <2>2. \A s \in Row : \A i \in DOMAIN index[s] : pages'[index[s][i]] = pages[index[s][i]]
      BY <2>1, IndexedPage DEF PagesKept
    <2> QED BY <2>1, <2>2, SharedKept DEF PagesKept
  <1>3. ASSUME NEW tx \in active, NEW r \in Row, DeletePage(r, tx)
        PROVE  PagesNotShared'
    <2> DEFINE p == PageOf(r)
               vs == Tombstoned(pages[p].versions, tx)
    <2>1. UNCHANGED <<root, index>> /\ p \in 1..Len(pages)
      BY <1>3, DeletePageStep, HeadIndex, IndexedPage
    <2>2. CASE pages' = pages
      BY <2>1, <2>2 DEF PagesNotShared
    <2>3. CASE /\ Len(pages') = Len(pages) /\ pages'[p] = DataPage(vs)
               /\ \A q \in 1..Len(pages) : q # p => pages'[q] = pages[q]
      <3>1. \A s \in Row : \A i \in DOMAIN index[s] :
               pages[index[s][i]].kind = "data" => pages'[index[s][i]].kind = "data"
        BY <2>3, IndexedPage DEF DataPage
      <3>2. Len(pages) \in Nat
        BY DEF TypeOK
      <3> QED BY <2>1, <2>3, <3>1, <3>2, SharedKept
    <2> QED BY <1>3, <2>2, <2>3, DeletePageStep
  <1>4. CASE InsertIndex
    <2>1. /\ Inserting /\ op.row \in Row /\ UNCHANGED <<pages, root>>
      BY <1>4, InsertIndexStep
    <2>2. /\ op.page \in (root + 1)..Len(pages) /\ pages[op.page].kind = "data"
          /\ \A r \in Row : \A i \in DOMAIN index[r] : index[r][i] # op.page
      BY <2>1 DEF PendingPage, DataPage
    <2>3. CASE index' = index
      BY <2>1, <2>3 DEF PagesNotShared
    <2>4. CASE /\ \A s \in Row : s # op.row => index'[s] = index[s]
               /\ DOMAIN index'[op.row] = 1..(Len(index[op.row]) + 1)
               /\ \A i \in DOMAIN index[op.row] : index'[op.row][i] = index[op.row][i]
               /\ index'[op.row][Len(index[op.row]) + 1] = op.page
               /\ Len(index[op.row]) \in Nat /\ DOMAIN index[op.row] = 1..Len(index[op.row])
      <3> DEFINE last == Len(index[op.row]) + 1
      <3>1. ASSUME NEW r \in Row, NEW i \in DOMAIN index'[r]
            PROVE  \/ r = op.row /\ i = last /\ index'[r][i] = op.page
                   \/ /\ i \in DOMAIN index[r] /\ index'[r][i] = index[r][i]
                      /\ index'[r][i] # op.page
        BY <2>2, <2>4
      <3> HIDE DEF last
      <3>2. ASSUME NEW r \in Row, NEW s \in Row,
                   NEW i \in DOMAIN index'[r], NEW j \in DOMAIN index'[s]
            PROVE  /\ index'[r][i] = index'[s][j] => r = s /\ i = j
                   /\ index'[r][i] \in (root + 1)..Len(pages)
                   /\ pages[index'[r][i]].kind = "data"
        BY <2>2, <3>1 DEF PagesNotShared
      <3> QED BY <2>1, <3>2 DEF PagesNotShared
    <2> QED BY <1>4, <2>3, <2>4, InsertIndexStep
  <1>5. CASE Restart
    BY <1>5, RestartStep DEF PagesNotShared
  <1> QED BY <1>1, <1>2, <1>3, <1>4, <1>5 DEF Next, Commit, Abort

\* No step empties a page the index points to.
LEMMA OccupiedNext ==
  ASSUME TypeOK, PagesNotShared, Occupied, PendingPage, [Next]_vars
  PROVE  Occupied'
  <1>1. CASE \/ Begin
             \/ \E tx \in active : \E outcome \in {"committed", "aborted"} : Decide(tx, outcome)
             \/ InsertLog \/ DeleteLog \/ UNCHANGED vars
    BY <1>1, QuietStep DEF Occupied
  <1>2. ASSUME NEW tx \in active, NEW r \in Row, NEW val \in Value, InsertPage(r, val, tx)
        PROVE  Occupied'
    <2>1. PagesKept /\ UNCHANGED index
      BY <1>2, InsertPageStep
    <2>2. \A s \in Row : \A i \in DOMAIN index[s] : pages'[index[s][i]] = pages[index[s][i]]
      BY <2>1, IndexedPage DEF PagesKept
    <2> QED BY <2>1, <2>2 DEF Occupied
  <1>3. ASSUME NEW tx \in active, NEW r \in Row, DeletePage(r, tx)
        PROVE  Occupied'
    <2> DEFINE p == PageOf(r)
               vs == Tombstoned(pages[p].versions, tx)
    <2>1. /\ UNCHANGED index /\ p = index[r][1] /\ 1 \in DOMAIN index[r]
          /\ pages[p].versions \in Seq(Version) /\ tx \in Transaction
      BY <1>3, DeletePageStep DEF TypeOK
    <2>2. vs # <<>>
      <3>1. pages[p].versions # <<>>
        BY <2>1 DEF Occupied
      <3>2. vs \in Seq(Version) /\ Len(vs) = Len(pages[p].versions)
        BY <2>1, TombstonedFacts
      <3> QED BY <2>1, <3>1, <3>2, EmptySeq
    <2>3. CASE pages' = pages
      BY <2>1, <2>3 DEF Occupied
    <2>4. CASE /\ pages'[p] = DataPage(vs)
               /\ \A q \in 1..Len(pages) : q # p => pages'[q] = pages[q]
      BY <2>1, <2>2, <2>4, IndexedPage DEF Occupied, DataPage
    <2> QED BY <1>3, <2>3, <2>4, DeletePageStep
  <1>4. CASE InsertIndex
    <2>1. Inserting /\ op.row \in Row /\ UNCHANGED pages
      BY <1>4, InsertIndexStep
    <2>2. pages[op.page].versions # <<>>
      BY <2>1 DEF PendingPage, DataPage
    <2>3. CASE index' = index
      BY <2>1, <2>3 DEF Occupied
    <2>4. CASE /\ \A s \in Row : s # op.row => index'[s] = index[s]
               /\ DOMAIN index'[op.row] = 1..(Len(index[op.row]) + 1)
               /\ \A i \in DOMAIN index[op.row] : index'[op.row][i] = index[op.row][i]
               /\ index'[op.row][Len(index[op.row]) + 1] = op.page
               /\ Len(index[op.row]) \in Nat /\ DOMAIN index[op.row] = 1..Len(index[op.row])
      <3>1. ASSUME NEW r \in Row, NEW i \in DOMAIN index'[r]
            PROVE  \/ index'[r][i] = op.page
                   \/ i \in DOMAIN index[r] /\ index'[r][i] = index[r][i]
        BY <2>4
      <3> QED BY <2>1, <2>2, <3>1 DEF Occupied
    <2> QED BY <1>4, <2>3, <2>4, InsertIndexStep
  <1>5. CASE Restart
    BY <1>5, RestartStep DEF Occupied
  <1> QED BY <1>1, <1>2, <1>3, <1>4, <1>5 DEF Next, Commit, Abort

------------------------------------------------------------------------------
(* The page of an insert in progress                                       *)

\* An insert in progress after a step was in progress before, or wrote its page in
\* this step.
LEMMA PendingStep ==
  ASSUME TypeOK, PagesNotShared, [Next]_vars, Inserting'
  PROVE  \/ /\ Inserting /\ UNCHANGED <<pages, root, index, tables>>
            /\ op'.page = op.page /\ op'.row = op.row /\ op'.tx = op.tx
         \/ \E tx \in active, r \in Row, val \in Value :
               /\ InsertPage(r, val, tx)
               /\ Len(pages') = Len(pages) + 1
               /\ pages'[Len(pages) + 1] = DataPage(WithVersion(tables[r], val, tx))
               /\ op' = [kind |-> "insert_log", row |-> r, tx |-> tx, page |-> Len(pages) + 1]
  <1>1. op' # NoOp
    BY DEF NoOp, Inserting
  <1>2. CASE Begin \/ UNCHANGED vars
        \/ \E tx \in active : \E outcome \in {"committed", "aborted"} : Decide(tx, outcome)
    <2>1. UNCHANGED <<pages, root, index, tables>>
      BY <1>2, QuietStep
    <2>2. UNCHANGED op
      BY <1>2 DEF Begin, Decide, vars
    <2> QED BY <2>1, <2>2 DEF Inserting
  <1>3. CASE InsertLog
    <2>1. UNCHANGED <<pages, root, index, tables>>
      BY <1>3, QuietStep
    <2>2. op \in [kind : {"insert_log", "insert_index"}, row : Row, tx : Transaction,
                  page : 1..MaxPages]
      BY <1>3 DEF InsertLog, TypeOK, OpType
    <2>3. op' = [op EXCEPT !.kind = "insert_index"]
      BY <1>1, <1>3 DEF InsertLog
    <2> QED BY <2>1, <2>2, <2>3 DEF Inserting
  <1>4. ASSUME NEW tx \in active, NEW r \in Row, NEW val \in Value, InsertPage(r, val, tx)
        PROVE  /\ Len(pages') = Len(pages) + 1
               /\ pages'[Len(pages) + 1] = DataPage(WithVersion(tables[r], val, tx))
               /\ op' = [kind |-> "insert_log", row |-> r, tx |-> tx, page |-> Len(pages) + 1]
    BY <1>1, <1>4, InsertPageStep
  <1>5. ASSUME NEW tx \in active, NEW r \in Row, DeletePage(r, tx) PROVE FALSE
    <2>1. op' = NoOp \/ op'.kind = "delete_log"
      BY <1>5, DeletePageStep
    <2> QED BY <1>1, <2>1 DEF Inserting
  <1> QED BY <1>1, <1>2, <1>3, <1>4, <1>5, InsertIndexStep, RestartStep
          DEF Next, Commit, Abort, DeleteLog

\* The page of an insert stays out of the index, as written, until InsertIndex.
LEMMA PendingNext ==
  TypeOK /\ PagesNotShared /\ PendingPage /\ [Next]_vars => PendingPage'
  <1> SUFFICES ASSUME TypeOK, PagesNotShared, PendingPage, [Next]_vars, Inserting'
               PROVE  PendingPage'
    BY DEF PendingPage
  <1>1. CASE /\ Inserting /\ UNCHANGED <<pages, root, index, tables>>
             /\ op'.page = op.page /\ op'.row = op.row /\ op'.tx = op.tx
    BY <1>1 DEF PendingPage
  <1>2. ASSUME NEW tx \in active, NEW r \in Row, NEW val \in Value, InsertPage(r, val, tx),
               Len(pages') = Len(pages) + 1,
               pages'[Len(pages) + 1] = DataPage(WithVersion(tables[r], val, tx)),
               op' = [kind |-> "insert_log", row |-> r, tx |-> tx, page |-> Len(pages) + 1]
        PROVE  PendingPage'
    <2> DEFINE chain == WithVersion(tables[r], val, tx)
               p == Len(pages) + 1
    <2>1. tx \in Transaction /\ tables[r] \in Seq(Version) /\ Len(tables[r]) \in Nat
      BY DEF TypeOK
    <2>2. /\ Len(chain) = Len(tables[r]) + 1 /\ chain \in Seq(Version)
          /\ chain[1] = [created_by |-> tx.tx_id, deleted_by |-> None, value |-> val]
      BY <2>1, WithVersionFacts
    <2>3. UNCHANGED <<root, index>> /\ tables' = [tables EXCEPT ![r] = chain]
      BY <1>2, InsertPageStep
    <2>4. pages'[p] = DataPage(chain)
      BY <1>2
    <2> HIDE DEF chain
    <2>5. chain # <<>> /\ chain[1].created_by = tx.tx_id
      BY <2>1, <2>2
    <2>6. tables'[r] = chain
      BY <2>3 DEF TypeOK
    <2>7. op'.page = p /\ op'.row = r /\ op'.tx = tx
      BY <1>2
    <2>8. p \in (root + 1)..Len(pages')
      BY <1>2 DEF TypeOK
    <2>9. \A s \in Row : \A i \in DOMAIN index[s] : index[s][i] # p
      BY IndexedPage
    <2> QED BY <2>3, <2>4, <2>5, <2>6, <2>7, <2>8, <2>9 DEF PendingPage
  <1> QED BY <1>1, <1>2, PendingStep

\* The chain it holds grows longer than those on the pages of the row.
LEMMA LongerNext ==
  TypeOK /\ PagesNotShared /\ PageMirrorsMemory /\ PendingLonger /\ [Next]_vars
    => PendingLonger'
  <1> SUFFICES ASSUME TypeOK, PagesNotShared, PageMirrorsMemory, PendingLonger, [Next]_vars,
                      Inserting'
               PROVE  PendingLonger'
    BY DEF PendingLonger
  <1>1. CASE /\ Inserting /\ UNCHANGED <<pages, root, index, tables>>
             /\ op'.page = op.page /\ op'.row = op.row /\ op'.tx = op.tx
    BY <1>1 DEF PendingLonger
  <1>2. ASSUME NEW tx \in active, NEW r \in Row, NEW val \in Value, InsertPage(r, val, tx),
               op' = [kind |-> "insert_log", row |-> r, tx |-> tx, page |-> Len(pages) + 1]
        PROVE  PendingLonger'
    <2> DEFINE chain == WithVersion(tables[r], val, tx)
    <2>1. tx \in Transaction /\ tables[r] \in Seq(Version) /\ Len(tables[r]) \in Nat
      BY DEF TypeOK
    <2>2. /\ Len(chain) = Len(tables[r]) + 1 /\ chain \in Seq(Version)
          /\ chain[1] = [created_by |-> tx.tx_id, deleted_by |-> None, value |-> val]
      BY <2>1, WithVersionFacts
    <2>3. PagesKept /\ UNCHANGED index /\ tables' = [tables EXCEPT ![r] = chain]
      BY <1>2, InsertPageStep
    <2> HIDE DEF chain
    <2>4. tables'[r] = chain /\ op'.row = r
      BY <1>2, <2>3 DEF TypeOK
    <2>5. \A i \in DOMAIN index[r] : Len(pages[index[r][i]].versions) \in Nat
             /\ Len(pages[index[r][i]].versions) =< Len(tables[r])
      <3>1. \A i \in DOMAIN index[r] : Mirrors(pages[index[r][i]].versions, tables[r])
        BY DEF PageMirrorsMemory
      <3> QED BY <2>1, <3>1, MirrorLen
    <2>6. \A i \in DOMAIN index[r] : Len(pages'[index[r][i]].versions) < Len(chain)
      BY <2>1, <2>2, <2>3, <2>5, IndexedPage DEF PagesKept
    <2> QED BY <2>3, <2>4, <2>6 DEF PendingLonger
  <1> QED BY <1>1, <1>2, PendingStep

------------------------------------------------------------------------------
(* Pages mirror the memory                                                 *)

\* An insert pushes the older end of the chain one place back.
LEMMA MirrorGrows ==
  ASSUME NEW vs \in Seq(Version), NEW chain \in Seq(Version), NEW val \in Value,
         NEW tx \in Transaction, Mirrors(vs, chain)
  PROVE  Mirrors(vs, WithVersion(chain, val, tx))
  <1> DEFINE longer == WithVersion(chain, val, tx)
  <1>1. /\ Len(longer) = Len(chain) + 1
        /\ \A i \in 1..Len(chain) : longer[i + 1] = chain[i]
    BY WithVersionFacts
  <1>2. Len(vs) \in 1..Len(chain) /\ Len(chain) \in Nat
    BY DEF Mirrors
  <1> HIDE DEF longer
  <1>3. ASSUME NEW i \in 1..Len(vs)
        PROVE  longer[Len(longer) - Len(vs) + i] = chain[Len(chain) - Len(vs) + i]
    <2> DEFINE k == Len(chain) - Len(vs) + i
    <2>1. k \in 1..Len(chain) /\ Len(longer) - Len(vs) + i = k + 1
      BY <1>1, <1>2
    <2> QED BY <1>1, <2>1
  <1>4. \A i \in 1..Len(vs) : LET v == longer[Len(longer) - Len(vs) + i]
                              IN  vs[i].created_by = v.created_by /\ vs[i].value = v.value
    BY <1>3 DEF Mirrors
  <1>5. Len(vs) \in 1..Len(longer)
    BY <1>1, <1>2
  <1> QED BY <1>4, <1>5 DEF Mirrors, longer

\* A tombstone leaves created_by and value alone.
LEMMA MirrorTombstoned ==
  ASSUME NEW vs \in Seq(Version), NEW chain \in Seq(Version),
         NEW tx \in Transaction, Mirrors(vs, chain)
  PROVE  Mirrors(Tombstoned(vs, tx), chain)
  <1> DEFINE ts == Tombstoned(vs, tx)
  <1>1. /\ Len(ts) = Len(vs)
        /\ \A i \in 1..Len(vs) : ts[i].created_by = vs[i].created_by /\ ts[i].value = vs[i].value
    BY TombstonedFacts
  <1> HIDE DEF ts
  <1> QED BY <1>1 DEF Mirrors, ts

\* A page just written mirrors the chain.
LEMMA MirrorSelf ==
  ASSUME NEW chain \in Seq(Version), chain # <<>>
  PROVE  Mirrors(chain, chain)
  <1>1. Len(chain) \in Nat \ {0}
    OBVIOUS
  <1> QED BY <1>1 DEF Mirrors

\* No step separates a page from the older end of its row's chain.
LEMMA MirrorNext ==
  TypeOK /\ PagesNotShared /\ PageMirrorsMemory /\ PendingPage /\ PendingLonger /\ [Next]_vars
    => PageMirrorsMemory'
  <1> SUFFICES ASSUME TypeOK, PagesNotShared, PageMirrorsMemory, PendingPage, PendingLonger,
                      [Next]_vars
               PROVE  PageMirrorsMemory'
    OBVIOUS
  <1>a. tables \in [Row -> Seq(Version)] /\ active \subseteq Transaction
    BY DEF TypeOK
  <1>1. CASE \/ Begin
             \/ \E tx \in active : \E outcome \in {"committed", "aborted"} : Decide(tx, outcome)
             \/ InsertLog \/ DeleteLog \/ UNCHANGED vars
    BY <1>1, QuietStep DEF PageMirrorsMemory
  <1>2. ASSUME NEW tx \in active, NEW r \in Row, NEW val \in Value, InsertPage(r, val, tx)
        PROVE  PageMirrorsMemory'
    <2> DEFINE chain == WithVersion(tables[r], val, tx)
    <2>1. PagesKept /\ UNCHANGED <<root, index>> /\ tables' = [tables EXCEPT ![r] = chain]
      BY <1>2, InsertPageStep
    <2>2. \A s \in Row : \A i \in DOMAIN index[s] : pages'[index[s][i]] = pages[index[s][i]]
      BY <2>1, IndexedPage DEF PagesKept
    <2>3. ASSUME NEW s \in Row, NEW i \in DOMAIN index[s]
          PROVE  Mirrors(pages[index[s][i]].versions, tables'[s])
      <3>1. Mirrors(pages[index[s][i]].versions, tables[s])
        BY DEF PageMirrorsMemory
      <3>2. pages[index[s][i]].versions \in Seq(Version)
        BY IndexedPage
      <3>3. CASE s = r
        <4>1. tables'[s] = chain
          BY <1>a, <2>1, <3>3
        <4> QED BY <1>a, <3>1, <3>2, <3>3, <4>1, MirrorGrows
      <3>4. CASE s # r
        BY <1>a, <2>1, <3>1, <3>4
      <3> QED BY <3>3, <3>4
    <2> QED BY <2>1, <2>2, <2>3 DEF PageMirrorsMemory
  <1>3. ASSUME NEW tx \in active, NEW r \in Row, DeletePage(r, tx)
        PROVE  PageMirrorsMemory'
    <2> DEFINE p == PageOf(r)
               vs == Tombstoned(pages[p].versions, tx)
    <2>1. UNCHANGED <<index, tables>> /\ p = index[r][1] /\ 1 \in DOMAIN index[r]
          /\ pages[p].versions \in Seq(Version)
      BY <1>3, DeletePageStep
    <2>2. CASE pages' = pages
      BY <2>1, <2>2 DEF PageMirrorsMemory
    <2>3. CASE /\ pages'[p] = DataPage(vs)
               /\ \A q \in 1..Len(pages) : q # p => pages'[q] = pages[q]
      <3>1. vs \in Seq(Version) /\ Len(vs) = Len(pages[p].versions)
        BY <1>a, <2>1, TombstonedFacts
      <3>2. pages'[p].versions = vs
        BY <2>3 DEF DataPage
      <3>3. Mirrors(pages[p].versions, tables[r])
        BY <2>1 DEF PageMirrorsMemory
      <3>4. Mirrors(vs, tables[r])
        BY <1>a, <2>1, <3>3, MirrorTombstoned
      <3> HIDE DEF vs, p
      <3>5. ASSUME NEW s \in Row, NEW i \in DOMAIN index[s]
            PROVE  /\ Mirrors(pages'[index[s][i]].versions, tables[s])
                   /\ Len(pages'[index[s][i]].versions) = Len(pages[index[s][i]].versions)
        <4>1. CASE index[s][i] = p
          <5>1. s = r
            BY <2>1, <4>1 DEF PagesNotShared
          <5> QED BY <3>1, <3>2, <3>4, <4>1, <5>1
        <4>2. CASE index[s][i] # p
          <5>1. pages'[index[s][i]] = pages[index[s][i]]
            BY <2>3, <4>2, IndexedPage
          <5> QED BY <5>1 DEF PageMirrorsMemory
        <4> QED BY <4>1, <4>2
      <3>6. \A s \in Row : \A i, j \in DOMAIN index[s] :
               i < j => Len(pages'[index[s][i]].versions) < Len(pages'[index[s][j]].versions)
        BY <3>5 DEF PageMirrorsMemory
      <3> QED BY <2>1, <3>5, <3>6 DEF PageMirrorsMemory
    <2> QED BY <1>3, <2>2, <2>3, DeletePageStep
  <1>4. CASE InsertIndex
    <2>1. /\ Inserting /\ op.row \in Row /\ UNCHANGED <<pages, tables>>
      BY <1>4, InsertIndexStep
    <2>2. /\ pages[op.page].versions = tables[op.row] /\ tables[op.row] # <<>>
          /\ \A i \in DOMAIN index[op.row] :
                Len(pages[index[op.row][i]].versions) < Len(pages[op.page].versions)
      BY <2>1 DEF PendingPage, PendingLonger, DataPage
    <2>3. Mirrors(pages[op.page].versions, tables[op.row])
      BY <1>a, <2>1, <2>2, MirrorSelf
    <2>4. CASE index' = index
      BY <2>1, <2>4 DEF PageMirrorsMemory
    <2>5. CASE /\ \A s \in Row : s # op.row => index'[s] = index[s]
               /\ DOMAIN index'[op.row] = 1..(Len(index[op.row]) + 1)
               /\ \A i \in DOMAIN index[op.row] : index'[op.row][i] = index[op.row][i]
               /\ index'[op.row][Len(index[op.row]) + 1] = op.page
               /\ Len(index[op.row]) \in Nat /\ DOMAIN index[op.row] = 1..Len(index[op.row])
      <3>1. ASSUME NEW r \in Row, NEW i \in DOMAIN index'[r]
            PROVE  Mirrors(pages[index'[r][i]].versions, tables[r])
        <4>1. CASE i \in DOMAIN index[r]
          BY <2>5, <4>1 DEF PageMirrorsMemory
        <4>2. CASE i \notin DOMAIN index[r]
          BY <2>3, <2>5, <4>2
        <4> QED BY <4>1, <4>2
      <3>2. ASSUME NEW r \in Row, NEW i \in DOMAIN index'[r], NEW j \in DOMAIN index'[r], i < j
            PROVE  Len(pages[index'[r][i]].versions) < Len(pages[index'[r][j]].versions)
        <4>1. CASE r # op.row
          BY <2>5, <3>2, <4>1 DEF PageMirrorsMemory
        <4>2. CASE r = op.row /\ j \in DOMAIN index[r]
          <5>1. i \in DOMAIN index[r]
            BY <2>5, <3>2, <4>2
          <5> QED BY <2>5, <3>2, <4>2, <5>1 DEF PageMirrorsMemory
        <4>3. CASE r = op.row /\ j \notin DOMAIN index[r]
          <5>1. i \in DOMAIN index[r] /\ index'[r][j] = op.page
            BY <2>5, <3>2, <4>3
          <5> QED BY <2>2, <2>5, <4>3, <5>1
        <4> QED BY <4>1, <4>2, <4>3
      <3> QED BY <2>1, <3>1, <3>2 DEF PageMirrorsMemory
    <2> QED BY <1>4, <2>4, <2>5, InsertIndexStep
  <1>5. CASE Restart
    BY <1>5, RestartStep DEF PageMirrorsMemory
  <1> QED BY <1>1, <1>2, <1>3, <1>4, <1>5 DEF Next, Commit, Abort

------------------------------------------------------------------------------
(* The index is logged                                                     *)

\* The log after a step that is not a restart.
LogKept ==
    Len(wal) =< Len(wal') /\ \A j \in DOMAIN wal : j \in DOMAIN wal' /\ wal'[j] = wal[j]

\* A record appended to the log moves no other record.
LEMMA LogAppended ==
  ASSUME TypeOK, TypeOK', NEW e, wal' = Append(wal, e)
  PROVE  /\ LogKept /\ Len(wal') = Len(wal) + 1 /\ wal'[Len(wal')] = e
         /\ wal' # <<>>
  <1>1. wal \in Seq(LogRecord) /\ wal' \in Seq(LogRecord)
    BY DEF TypeOK
  <1>2. wal \in Seq(LogRecord \cup {e}) /\ e \in LogRecord \cup {e}
    BY <1>1
  <1>3. /\ Len(wal') = Len(wal) + 1 /\ wal'[Len(wal) + 1] = e
        /\ \A j \in 1..Len(wal) : wal'[j] = wal[j]
    BY <1>2, AppendProperties
  <1>4. Len(wal) \in Nat /\ DOMAIN wal = 1..Len(wal) /\ DOMAIN wal' = 1..Len(wal')
    BY <1>1
  <1> QED BY <1>1, <1>3, <1>4 DEF LogKept

\* Only a crash takes records from the log.
LEMMA LogStep ==
  ASSUME TypeOK, TypeOK', PagesNotShared, [Next]_vars, ~Restart
  PROVE  LogKept
  <1>1. CASE wal' = wal
    <2>1. Len(wal) \in Nat
      BY DEF TypeOK
    <2> QED BY <1>1, <2>1 DEF LogKept
  <1>2. CASE InsertLog \/ DeleteLog
    BY <1>1, <1>2, LogAppended DEF InsertLog, DeleteLog
  <1>3. CASE Begin \/ InsertIndex \/ UNCHANGED vars
        \/ \E tx \in active : \E outcome \in {"committed", "aborted"} : Decide(tx, outcome)
    BY <1>1, <1>3 DEF Begin, InsertIndex, Decide, vars
  <1>4. CASE \E tx \in active, r \in Row : DeletePage(r, tx) \/ \E val \in Value : InsertPage(r, val, tx)
    BY <1>1, <1>4 DEF DeletePage, InsertPage, WriteRow
  <1> QED BY <1>2, <1>3, <1>4 DEF Next, Commit, Abort

\* Nobody writes to the log between the record of an insert and its index entry.
LEMMA PendingLoggedNext ==
  ASSUME TypeOK, TypeOK', PagesNotShared, PendingLogged, [Next]_vars
  PROVE  PendingLogged'
  <1> SUFFICES ASSUME op'.kind = "insert_index" PROVE PendingLogged'
    BY DEF PendingLogged
  <1>1. CASE op' = NoOp
    BY <1>1 DEF NoOp
  <1>2. CASE UNCHANGED <<op, wal>>
    BY <1>2 DEF PendingLogged
  <1>3. CASE Begin \/ UNCHANGED vars
        \/ \E tx \in active : \E outcome \in {"committed", "aborted"} : Decide(tx, outcome)
    BY <1>2, <1>3 DEF Begin, Decide, vars
  <1>4. CASE InsertLog
    <2>1. op \in [kind : {"insert_log", "insert_index"}, row : Row, tx : Transaction,
                  page : 1..MaxPages]
      BY <1>4 DEF InsertLog, TypeOK, OpType
    <2>2. CASE /\ wal' = Append(wal, Put(op.row, op.page, op.tx.tx_id))
               /\ op' = [op EXCEPT !.kind = "insert_index"]
      <3>1. op'.page = op.page /\ op'.row = op.row /\ op'.tx = op.tx
        BY <2>1, <2>2
      <3>2. wal' # <<>> /\ wal'[Len(wal')] = Put(op.row, op.page, op.tx.tx_id)
        BY <2>2, LogAppended
      <3> QED BY <3>1, <3>2 DEF PendingLogged
    <2> QED BY <1>1, <1>4, <2>2 DEF InsertLog
  <1>5. ASSUME NEW tx \in active, NEW r \in Row, NEW val \in Value, InsertPage(r, val, tx)
        PROVE  PendingLogged'
    BY <1>1, <1>5, InsertPageStep
  <1>6. ASSUME NEW tx \in active, NEW r \in Row, DeletePage(r, tx)
        PROVE  PendingLogged'
    BY <1>1, <1>6, DeletePageStep
  <1> QED BY <1>1, <1>3, <1>4, <1>5, <1>6 DEF Next, Commit, Abort, DeleteLog, InsertIndex, Restart

\* Steps that keep the index and who wrote each of its pages.
LEMMA LoggedKept ==
  ASSUME TypeOK, PagesNotShared, IndexIsLogged, LogKept, UNCHANGED index,
         \A r \in Row : \A i \in DOMAIN index[r] :
            pages'[index[r][i]].versions[1].created_by = pages[index[r][i]].versions[1].created_by
  PROVE  IndexIsLogged'
  <1> SUFFICES ASSUME NEW r \in Row, NEW i \in DOMAIN index[r], NEW k \in DOMAIN index[r], i =< k
               PROVE  (\E j, l \in DOMAIN wal :
                          /\ LogsEntry(j, r, i) /\ LogsEntry(l, r, k)
                          /\ i < k => j < l)'
    BY DEF IndexIsLogged
  <1>1. PICK j \in DOMAIN wal, l \in DOMAIN wal :
           /\ LogsEntry(j, r, i) /\ LogsEntry(l, r, k)
           /\ i < k => j < l
    BY DEF IndexIsLogged
  <1>2. LogsEntry(j, r, i)' /\ LogsEntry(l, r, k)' /\ j \in DOMAIN wal' /\ l \in DOMAIN wal'
    BY <1>1 DEF LogsEntry, LogKept
  <1> QED BY <1>1, <1>2

\* No step gives the index an entry that is not logged, or loses the record of one.
LEMMA LoggedNext ==
  ASSUME TypeOK, TypeOK', PagesNotShared, Occupied, IndexIsLogged, PendingPage,
         PendingLogged, [Next]_vars
  PROVE  IndexIsLogged'
  <1>1. CASE \/ Begin
             \/ \E tx \in active : \E outcome \in {"committed", "aborted"} : Decide(tx, outcome)
             \/ InsertLog \/ DeleteLog \/ UNCHANGED vars
    <2>1. UNCHANGED <<pages, index>>
      BY <1>1, QuietStep
    <2>2. CASE Restart
      BY <2>2, RestartStep DEF IndexIsLogged
    <2> QED BY <2>1, <2>2, LogStep, LoggedKept
  <1>2. ASSUME NEW tx \in active, NEW r \in Row, NEW val \in Value, InsertPage(r, val, tx)
        PROVE  IndexIsLogged'
    <2>1. PagesKept /\ UNCHANGED <<wal, index>>
      BY <1>2, InsertPageStep
    <2>2. \A s \in Row : \A i \in DOMAIN index[s] : pages'[index[s][i]] = pages[index[s][i]]
      BY <2>1, IndexedPage DEF PagesKept
    <2>3. LogKept
      BY <2>1 DEF LogKept, TypeOK
    <2> QED BY <2>1, <2>2, <2>3, LoggedKept
  <1>3. ASSUME NEW tx \in active, NEW r \in Row, DeletePage(r, tx)
        PROVE  IndexIsLogged'
    <2> DEFINE p == PageOf(r)
               vs == Tombstoned(pages[p].versions, tx)
    <2>1. /\ UNCHANGED <<wal, index>> /\ p = index[r][1] /\ 1 \in DOMAIN index[r]
          /\ pages[p].versions \in Seq(Version)
      BY <1>3, DeletePageStep
    <2>2. LogKept
      BY <2>1 DEF LogKept, TypeOK
    <2>3. CASE pages' = pages
      BY <2>1, <2>2, <2>3, LoggedKept
    <2>4. CASE /\ pages'[p] = DataPage(vs)
               /\ \A q \in 1..Len(pages) : q # p => pages'[q] = pages[q]
      <3>1. pages'[p].versions = vs
        BY <2>4 DEF DataPage
      <3>2. pages[p].versions # <<>>
        BY <2>1 DEF Occupied
      <3>3. Len(pages[p].versions) \in Nat \ {0}
        BY <2>1, <3>2, EmptySeq
      <3>4. vs[1].created_by = pages[p].versions[1].created_by
        <4>1. 1 \in 1..Len(pages[p].versions)
          BY <3>3
        <4>2. tx \in Transaction
          BY DEF TypeOK
        <4> QED BY <2>1, <4>1, <4>2, TombstonedFacts
      <3> HIDE DEF vs, p
      <3>5. \A s \in Row : \A i \in DOMAIN index[s] :
            pages'[index[s][i]].versions[1].created_by = pages[index[s][i]].versions[1].created_by
        BY <2>4, <3>1, <3>4, IndexedPage
      <3> QED BY <2>1, <2>2, <3>5, LoggedKept
    <2> QED BY <1>3, <2>3, <2>4, DeletePageStep
  <1>4. CASE InsertIndex
    <2>1. /\ Inserting /\ op.row \in Row /\ UNCHANGED <<pages, wal>> /\ op.kind = "insert_index"
      BY <1>4, InsertIndexStep DEF InsertIndex
    <2>2. /\ \A r \in Row : \A i \in DOMAIN index[r] : index[r][i] # op.page
          /\ pages[op.page].versions[1].created_by = op.tx.tx_id
      BY <2>1 DEF PendingPage, DataPage
    <2>3. CASE index' = index
      BY <2>1, <2>3 DEF IndexIsLogged, LogsEntry
    <2>4. CASE /\ \A s \in Row : s # op.row => index'[s] = index[s]
               /\ DOMAIN index'[op.row] = 1..(Len(index[op.row]) + 1)
               /\ \A i \in DOMAIN index[op.row] : index'[op.row][i] = index[op.row][i]
               /\ index'[op.row][Len(index[op.row]) + 1] = op.page
               /\ Len(index[op.row]) \in Nat /\ DOMAIN index[op.row] = 1..Len(index[op.row])
      <3>c. wal \in Seq(LogRecord)
        BY DEF TypeOK
      <3>d. op.page \in 1..MaxPages
        BY <1>4, InsertIndexStep
      <3>1. PICK row \in Row, page \in 1..MaxPages, end \in Nat, last \in Nat :
               /\ row = op.row /\ page = op.page /\ end = Len(wal)
               /\ last = Len(index[op.row]) + 1
        BY <2>1, <2>4, <3>c, <3>d
      <3>a. wal # <<>> /\ wal[Len(wal)] = Put(op.row, op.page, op.tx.tx_id)
        BY <2>1 DEF PendingLogged
      <3>b. DOMAIN wal = 1..end /\ end \in DOMAIN wal
        BY <3>1, <3>a, <3>c
      <3>2. LogsEntry(end, row, last)'
        BY <2>1, <2>2, <2>4, <3>1, <3>a DEF LogsEntry, Put
      <3>3. ASSUME NEW r \in Row, NEW i \in DOMAIN index[r], NEW j \in DOMAIN wal,
                   LogsEntry(j, r, i)
            PROVE  LogsEntry(j, r, i)' /\ j < end
        <4>1. index'[r][i] = index[r][i]
          BY <2>4
        <4>2. wal[j].page = index[r][i] /\ wal[end].page = op.page
          BY <3>1, <3>3, <3>a DEF LogsEntry, Put
        <4>3. j # end
          BY <2>2, <4>2
        <4>4. j < end
          BY <3>b, <4>3
        <4> QED BY <2>1, <3>3, <4>1, <4>4 DEF LogsEntry
      <3>4. ASSUME NEW r \in Row, NEW i \in DOMAIN index'[r], NEW k \in DOMAIN index'[r], i =< k
            PROVE  (\E j, l \in DOMAIN wal :
                       /\ LogsEntry(j, r, i) /\ LogsEntry(l, r, k)
                       /\ i < k => j < l)'
        <4>1. CASE k \in DOMAIN index[r]
          <5>1. i \in DOMAIN index[r]
            BY <2>4, <3>4, <4>1
          <5>2. PICK j \in DOMAIN wal, l \in DOMAIN wal :
                   /\ LogsEntry(j, r, i) /\ LogsEntry(l, r, k)
                   /\ i < k => j < l
            BY <3>4, <4>1, <5>1 DEF IndexIsLogged
          <5> QED BY <2>1, <3>3, <4>1, <5>1, <5>2
        <4>2. CASE r = row /\ k = last /\ i = last
          BY <2>1, <3>b, <3>2, <4>2
        <4>3. CASE r = row /\ k = last /\ i \in DOMAIN index[r]
          <5>1. i =< i
            BY <2>4, <3>1, <4>3
          <5>2. PICK j \in DOMAIN wal : LogsEntry(j, r, i)
            BY <4>3, <5>1 DEF IndexIsLogged
          <5>3. LogsEntry(j, r, i)' /\ j < end
            BY <3>3, <4>3, <5>2
          <5> QED BY <2>1, <3>b, <3>2, <4>3, <5>2, <5>3
        <4>4. r # op.row => DOMAIN index'[r] = DOMAIN index[r]
          BY <2>4
        <4>5. r = op.row => \A m \in DOMAIN index'[r] : m \in DOMAIN index[r] \/ m = last
          BY <2>4, <3>1
        <4> QED BY <3>1, <4>1, <4>2, <4>3, <4>4, <4>5
      <3> QED BY <3>4 DEF IndexIsLogged
    <2> QED BY <1>4, <2>3, <2>4, InsertIndexStep
  <1>5. CASE Restart
    BY <1>5, RestartStep DEF IndexIsLogged
  <1> QED BY <1>1, <1>2, <1>3, <1>4, <1>5 DEF Next, Commit, Abort

------------------------------------------------------------------------------
(* Transactions in order                                                   *)

\* begin hands out ids in the order of time, with the previous one as snapshot.
LEMMA OrderedNext ==
  ASSUME TypeOK, PagesNotShared, Ordered, [Next]_vars
  PROVE  Ordered'
  <1>a. /\ registry \in Seq(TxId) /\ active \subseteq Transaction /\ clock \in 1..MaxTime
    BY DEF TypeOK
  <1>b. Len(registry) \in Nat /\ DOMAIN registry = 1..Len(registry)
    BY <1>a
  <1>1. CASE UNCHANGED <<registry, active, clock>>
    BY <1>1 DEF Ordered
  <1>2. CASE Begin
    <2>1. PICK ms \in clock..MaxTime :
             LET id == [ts |-> ms, n |-> minted + 1]
                 tx == [tx_id |-> id,
                        snapshot_tx |-> IF registry = <<>> THEN Nil ELSE Last(registry),
                        tx_number |-> Len(registry) + 1]
             IN  /\ clock' = ms
                 /\ registry' = Append(registry, id)
                 /\ active' = active \cup {tx}
      BY <1>2 DEF Begin
    <2> DEFINE id == [ts |-> ms, n |-> minted + 1]
               snap == IF registry = <<>> THEN Nil ELSE Last(registry)
               num == Len(registry) + 1
               tx == [tx_id |-> id, snapshot_tx |-> snap, tx_number |-> num]
    <2>2. ms \in Nat /\ clock =< ms /\ clock' = ms /\ clock \in Nat
      BY <1>a, <2>1, Bounds
    <2>3. id \in TxId
      <3>1. minted \in 0..MaxTx /\ minted < MaxTx
        BY <1>2 DEF Begin, TypeOK
      <3> QED BY <1>a, <3>1, Bounds DEF TxId
    <2>4. registry' = Append(registry, id) /\ active' = active \cup {tx}
      BY <2>1
    <2>c. id.ts = ms
      OBVIOUS
    <2> HIDE DEF id
    <2>5. /\ DOMAIN registry' = 1..num /\ registry'[num] = id
          /\ \A i \in 1..Len(registry) : registry'[i] = registry[i]
      BY <1>a, <2>3, <2>4, AppendProperties
    <2>6. \A i \in DOMAIN registry : registry[i] \in TxId /\ registry[i].ts \in Nat
             /\ registry[i].ts =< clock
      <3>1. \A i \in DOMAIN registry : registry[i] \in TxId
        BY <1>a
      <3>2. \A u \in TxId : u.ts \in Nat
        BY Bounds DEF TxId
      <3> QED BY <3>1, <3>2 DEF Ordered
    <2>7. \A i \in DOMAIN registry' : registry'[i].ts =< clock'
      BY <1>b, <2>2, <2>c, <2>5, <2>6
    <2>8. ASSUME NEW i \in DOMAIN registry', NEW j \in DOMAIN registry', i =< j
          PROVE  registry'[i].ts =< registry'[j].ts
      <3>1. CASE j = num
        BY <2>2, <2>5, <2>7, <2>c, <3>1
      <3>2. CASE j # num
        BY <1>b, <2>5, <2>8, <3>2 DEF Ordered
      <3> QED BY <3>1, <3>2
    <2>9. ASSUME NEW u \in active'
          PROVE  /\ u.tx_number \in DOMAIN registry' /\ u.tx_id = registry'[u.tx_number]
                 /\ u.snapshot_tx = IF u.tx_number = 1 THEN Nil ELSE registry'[u.tx_number - 1]
      <3>1. CASE u \in active
        <4>1. /\ u.tx_number \in DOMAIN registry /\ u.tx_id = registry[u.tx_number]
              /\ u.snapshot_tx = IF u.tx_number = 1 THEN Nil ELSE registry[u.tx_number - 1]
          BY <3>1 DEF Ordered
        <4>2. u.tx_number # 1 => u.tx_number - 1 \in DOMAIN registry
          BY <1>b, <4>1
        <4> QED BY <1>b, <2>5, <4>1, <4>2
      <3>2. CASE u = tx
        <4>1. u.tx_number = num /\ u.tx_id = id /\ u.snapshot_tx = snap
          BY <3>2
        <4>2. num = 1 <=> registry = <<>>
          BY <1>a, <1>b
        <4>3. num # 1 => snap = registry[num - 1] /\ num - 1 \in 1..Len(registry)
          BY <1>a, <1>b, <4>2 DEF Last
        <4>4. num = 1 => snap = Nil
          BY <4>2
        <4>5. num # 1 => snap = registry'[num - 1]
          BY <2>5, <4>3
        <4> HIDE DEF snap
        <4> QED BY <1>b, <2>5, <4>1, <4>4, <4>5
      <3> QED BY <2>4, <3>1, <3>2
    <2> QED BY <2>7, <2>8, <2>9 DEF Ordered
  <1>3. ASSUME NEW tx \in active, NEW outcome \in {"committed", "aborted"}, Decide(tx, outcome)
        PROVE  Ordered'
    <2>1. UNCHANGED <<registry, clock>> /\ active' \subseteq active
      BY <1>3 DEF Decide
    <2> QED BY <2>1 DEF Ordered
  <1>4. CASE InsertLog \/ InsertIndex \/ DeleteLog \/ UNCHANGED vars
    BY <1>1, <1>4 DEF InsertLog, InsertIndex, DeleteLog, vars, txVars
  <1>5. CASE \E tx \in active, r \in Row : DeletePage(r, tx) \/ \E val \in Value : InsertPage(r, val, tx)
    BY <1>1, <1>5 DEF DeletePage, InsertPage, WriteRow, txVars
  <1>6. CASE Restart
    BY <1>6, RestartStep DEF Ordered
  <1> QED BY <1>2, <1>3, <1>4, <1>5, <1>6 DEF Next, Commit, Abort

------------------------------------------------------------------------------
(* Tombstones                                                              *)

\* A chain in memory, with a new version, has no tombstone.
LEMMA ChainClean ==
  ASSUME NEW chain \in Seq(Version), NEW val \in Value, NEW tx \in Transaction,
         \A i \in DOMAIN chain : chain[i].deleted_by = None
  PROVE  \A i \in DOMAIN WithVersion(chain, val, tx) :
            WithVersion(chain, val, tx)[i].deleted_by = None
  <1> DEFINE longer == WithVersion(chain, val, tx)
  <1>1. /\ Len(longer) = Len(chain) + 1 /\ longer \in Seq(Version)
        /\ longer[1] = [created_by |-> tx.tx_id, deleted_by |-> None, value |-> val]
        /\ \A i \in 1..Len(chain) : longer[i + 1] = chain[i]
    BY WithVersionFacts
  <1> HIDE DEF longer
  <1>2. ASSUME NEW i \in DOMAIN longer PROVE longer[i].deleted_by = None
    <2>1. CASE i = 1
      BY <1>1, <2>1
    <2>2. CASE i # 1
      <3> DEFINE k == i - 1
      <3>1. k \in 1..Len(chain) /\ i = k + 1
        BY <1>1, <2>2
      <3>2. longer[i] = chain[k]
        BY <1>1, <3>1
      <3> QED BY <3>1, <3>2
    <2> QED BY <2>1, <2>2
  <1> QED BY <1>2 DEF longer

\* Only delete writes tombstones, with the id of a transaction of this run.
LEMMA TombstonesNext ==
  ASSUME TypeOK, PagesNotShared, Ordered, Tombstones, [Next]_vars
  PROVE  Tombstones'
  <1>a. /\ tables \in [Row -> Seq(Version)] /\ active \subseteq Transaction
        /\ pages \in Seq(PageType) /\ Len(pages) \in Nat
        /\ root \in 1..Len(pages)
    BY DEF TypeOK, PageType
  <1>b. \A p \in (root + 1)..Len(pages) : pages[p] \in PageType
    BY <1>a
  <1>1. CASE UNCHANGED <<pages, tables, root, registry>>
    BY <1>1 DEF Tombstones
  <1>2. CASE Begin
    <2>1. UNCHANGED <<pages, tables, root>>
      BY <1>2 DEF Begin
    <2>2. \A k \in DOMAIN registry : k \in DOMAIN registry' /\ registry'[k] = registry[k]
      <3>1. registry \in Seq(TxId)
        BY DEF TypeOK
      <3>2. PICK id : registry' = Append(registry, id)
        BY <1>2 DEF Begin
      <3>3. registry \in Seq(TxId \cup {id})
        BY <3>1
      <3> QED BY <3>2, <3>3, AppendProperties
    <2> QED BY <2>1, <2>2 DEF Tombstones
  <1>3. CASE InsertLog \/ InsertIndex \/ DeleteLog \/ UNCHANGED vars
        \/ \E tx \in active : \E outcome \in {"committed", "aborted"} : Decide(tx, outcome)
    BY <1>1, <1>3 DEF InsertLog, InsertIndex, DeleteLog, Decide, vars, txVars
  <1>4. ASSUME NEW tx \in active, NEW r \in Row, NEW val \in Value, InsertPage(r, val, tx)
        PROVE  Tombstones'
    <2> DEFINE chain == WithVersion(tables[r], val, tx)
    <2>1. /\ UNCHANGED <<root, registry>> /\ tables' = [tables EXCEPT ![r] = chain]
          /\ PagesKept
      BY <1>4, InsertPageStep
    <2>2. \A i \in DOMAIN chain : chain[i].deleted_by = None
      BY <1>a, ChainClean DEF Tombstones
    <2> HIDE DEF chain
    <2>3. \A s \in Row : \A i \in DOMAIN tables'[s] : tables'[s][i].deleted_by = None
      BY <1>a, <2>1, <2>2 DEF Tombstones
    <2>4. CASE pages' = pages
      BY <2>1, <2>3, <2>4 DEF Tombstones
    <2>5. CASE /\ Len(pages') = Len(pages) + 1 /\ pages'[Len(pages) + 1] = DataPage(chain)
      <3>1. ASSUME NEW p \in (root + 1)..Len(pages'), NEW i \in DOMAIN pages'[p].versions,
                   pages'[p].versions[i].deleted_by # None
            PROVE  \E k \in DOMAIN registry : pages'[p].versions[i].deleted_by = registry[k]
        <4>1. CASE p = Len(pages) + 1
          BY <2>2, <2>5, <3>1, <4>1 DEF DataPage
        <4>2. CASE p # Len(pages) + 1
          <5>1. p \in (root + 1)..Len(pages) /\ pages'[p] = pages[p]
            BY <1>a, <2>1, <2>5, <4>2 DEF PagesKept
          <5> QED BY <3>1, <5>1 DEF Tombstones
        <4> QED BY <4>1, <4>2
      <3> QED BY <2>1, <2>3, <3>1 DEF Tombstones
    <2> QED BY <1>4, <2>4, <2>5, InsertPageStep DEF chain
  <1>5. ASSUME NEW tx \in active, NEW r \in Row, DeletePage(r, tx)
        PROVE  Tombstones'
    <2> DEFINE p == PageOf(r)
               vs == Tombstoned(pages[p].versions, tx)
    <2>1. /\ UNCHANGED <<root, registry, tables>> /\ p \in (root + 1)..Len(pages)
          /\ pages[p].versions \in Seq(Version)
      BY <1>5, DeletePageStep
    <2>2. CASE pages' = pages
      BY <2>1, <2>2 DEF Tombstones
    <2>3. CASE /\ Len(pages') = Len(pages) /\ pages'[p] = DataPage(vs)
               /\ \A q \in 1..Len(pages) : q # p => pages'[q] = pages[q]
      <3>1. /\ vs \in Seq(Version) /\ Len(vs) = Len(pages[p].versions)
            /\ \A i \in 1..Len(pages[p].versions) :
                  vs[i].deleted_by \in {tx.tx_id, pages[p].versions[i].deleted_by}
        BY <1>a, <2>1, TombstonedFacts
      <3>2. tx.tx_number \in DOMAIN registry /\ tx.tx_id = registry[tx.tx_number]
        BY DEF Ordered
      <3> HIDE DEF p, vs
      <3>3. ASSUME NEW i \in DOMAIN vs, vs[i].deleted_by # None
            PROVE  \E k \in DOMAIN registry : vs[i].deleted_by = registry[k]
        <4>1. i \in DOMAIN pages[p].versions /\ i \in 1..Len(pages[p].versions)
          BY <2>1, <3>1
        <4> QED BY <2>1, <3>1, <3>2, <3>3, <4>1 DEF Tombstones
      <3>4. ASSUME NEW q \in (root + 1)..Len(pages'), NEW i \in DOMAIN pages'[q].versions,
                   pages'[q].versions[i].deleted_by # None
            PROVE  \E k \in DOMAIN registry : pages'[q].versions[i].deleted_by = registry[k]
        <4>1. CASE q = p
          BY <2>3, <3>3, <3>4, <4>1 DEF DataPage
        <4>2. CASE q # p
          <5>1. q \in (root + 1)..Len(pages) /\ pages'[q] = pages[q]
            BY <1>a, <2>1, <2>3, <4>2
          <5> QED BY <3>4, <5>1 DEF Tombstones
        <4> QED BY <4>1, <4>2
      <3> QED BY <2>1, <3>4 DEF Tombstones
    <2> QED BY <1>5, <2>2, <2>3, DeletePageStep
  <1>6. CASE Restart
    <2>1. \A r \in Row : tables'[r] = <<>>
      BY <1>6, RestartStep
    <2>2. \A p \in (root' + 1)..Len(pages') : FALSE
      BY <1>a, <1>6, RestartStep
    <2> QED BY <2>1, <2>2 DEF Tombstones
  <1> QED BY <1>2, <1>3, <1>4, <1>5, <1>6 DEF Next, Commit, Abort

------------------------------------------------------------------------------
(* Rows the index lacks                                                    *)

\* One version without a tombstone fits in any page.
LEMMA OneFits ==
  ASSUME NEW old \in Seq(Version), Len(old) = 0, NEW val \in Value, NEW tx \in Transaction
  PROVE  Fits(WithVersion(old, val, tx)) /\ Len(WithVersion(old, val, tx)) = 1
  <1> DEFINE chain == WithVersion(old, val, tx)
  <1>1. Len(chain) = Len(old) + 1
    BY WithVersionFacts
  <1>2. \A i \in DOMAIN old : old[i].deleted_by = None
    OBVIOUS
  <1>3. \A i \in DOMAIN chain : chain[i].deleted_by = None
    BY <1>2, ChainClean
  <1> HIDE DEF chain
  <1>4. {i \in DOMAIN chain : chain[i].deleted_by # None} = {}
    BY <1>3
  <1>5. Cardinality({i \in DOMAIN chain : chain[i].deleted_by # None}) = 0
    BY <1>4, FS_EmptySet
  <1> QED BY <1>1, <1>5, Bounds DEF Fits, chain

\* Without failed writes, a row misses in the index only while it is inserted or
\* when the root is full.
LEMMA UnindexedNext ==
  ASSUME TypeOK, PagesNotShared, Unindexed, [Next]_vars
  PROVE  Unindexed'
  <1>a. faults \in Nat /\ faults + 1 # 0
    BY Bounds DEF TypeOK
  <1>b. tables \in [Row -> Seq(Version)] /\ active \subseteq Transaction
    BY DEF TypeOK
  <1>c. index' = index => RootFull' = RootFull
    BY DEF RootFull
  <1>d. op = NoOp => ~Inserting
    BY DEF NoOp, Inserting
  <1> SUFFICES ASSUME faults' = 0, NEW s \in Row, index'[s] = <<>>, tables'[s] # <<>>
               PROVE  RootFull' \/ (Inserting' /\ op'.row = s /\ Len(tables'[s]) = 1)
    BY DEF Unindexed
  <1>1. CASE UNCHANGED <<index, tables, op, faults>>
    BY <1>1, <1>c DEF Unindexed, Inserting
  <1>2. CASE Begin \/ UNCHANGED vars
        \/ \E tx \in active : \E outcome \in {"committed", "aborted"} : Decide(tx, outcome)
    BY <1>1, <1>2 DEF Begin, Decide, vars
  <1>3. ASSUME NEW tx \in active, NEW r \in Row, NEW val \in Value, InsertPage(r, val, tx)
        PROVE  RootFull' \/ (Inserting' /\ op'.row = s /\ Len(tables'[s]) = 1)
    <2> DEFINE chain == WithVersion(tables[r], val, tx)
    <2>1. /\ op = NoOp /\ UNCHANGED index /\ tables' = [tables EXCEPT ![r] = chain]
          /\ \/ /\ faults' = faults
                /\ op' = [kind |-> "insert_log", row |-> r, tx |-> tx, page |-> Len(pages) + 1]
             \/ ~Fits(chain) /\ UNCHANGED <<op, faults>>
             \/ faults' = faults + 1
      BY <1>3, InsertPageStep
    <2>2. faults = 0
      BY <1>a, <2>1
    <2>3. CASE tables[s] # <<>>
      <3>1. RootFull
        BY <1>d, <2>1, <2>2, <2>3 DEF Unindexed
      <3> QED BY <1>c, <2>1, <3>1
    <2>4. CASE tables[s] = <<>>
      <3>1. s = r
        BY <1>b, <2>1, <2>4
      <3>2. tables'[s] = chain /\ Len(tables[r]) = 0
        BY <1>b, <2>1, <2>4, <3>1
      <3>3. Fits(chain) /\ Len(chain) = 1
        BY <1>b, <3>2, OneFits
      <3> HIDE DEF chain
      <3>4. Inserting' /\ op'.row = r
        BY <1>a, <2>1, <2>2, <3>3 DEF Inserting
      <3> QED BY <3>1, <3>2, <3>3, <3>4
    <2> QED BY <2>3, <2>4
  <1>4. ASSUME NEW tx \in active, NEW r \in Row, DeletePage(r, tx)
        PROVE  RootFull' \/ (Inserting' /\ op'.row = s /\ Len(tables'[s]) = 1)
    <2>1. op = NoOp /\ UNCHANGED <<index, tables>> /\ faults' \in {faults, faults + 1}
      BY <1>4, DeletePageStep
    <2> QED BY <1>a, <1>c, <1>d, <2>1 DEF Unindexed
  <1>5. CASE InsertLog
    <2>1. UNCHANGED <<index, tables>>
      BY <1>5, QuietStep
    <2>2. op \in [kind : {"insert_log", "insert_index"}, row : Row, tx : Transaction,
                  page : 1..MaxPages]
      BY <1>5 DEF InsertLog, TypeOK, OpType
    <2>3. faults' = faults /\ op' = [op EXCEPT !.kind = "insert_index"]
      BY <1>5, <1>a DEF InsertLog
    <2>4. Inserting' /\ op'.row = op.row
      BY <2>2, <2>3 DEF Inserting
    <2> QED BY <1>c, <2>1, <2>3, <2>4 DEF Unindexed
  <1>6. CASE InsertIndex
    <2>1. /\ op.row \in Row /\ UNCHANGED tables
          /\ \/ /\ ~RootFull /\ faults' \in {faults, faults + 1}
                /\ \A t \in Row : t # op.row => index'[t] = index[t]
                /\ DOMAIN index'[op.row] = 1..(Len(index[op.row]) + 1)
                /\ Len(index[op.row]) \in Nat
             \/ RootFull /\ UNCHANGED <<index, faults>>
             \/ faults' = faults + 1
      BY <1>6, InsertIndexStep
    <2>2. CASE RootFull /\ UNCHANGED index
      BY <1>c, <2>2
    <2>3. CASE /\ ~RootFull /\ faults' = faults
               /\ \A t \in Row : t # op.row => index'[t] = index[t]
               /\ DOMAIN index'[op.row] = 1..(Len(index[op.row]) + 1)
               /\ Len(index[op.row]) \in Nat
      <3>1. index'[op.row] # <<>>
        <4>1. 1 \in DOMAIN index'[op.row]
          BY <2>3
        <4>2. DOMAIN <<>> = {}
          OBVIOUS
        <4> QED BY <4>1, <4>2
      <3>2. s # op.row
        BY <3>1
      <3> QED BY <2>1, <2>3, <3>2 DEF Unindexed
    <2> QED BY <1>a, <2>1, <2>2, <2>3
  <1>7. CASE DeleteLog
    <2>1. UNCHANGED <<index, tables>>
      BY <1>7, QuietStep
    <2>2. faults' \in {faults, faults + 1} /\ ~Inserting
      BY <1>7 DEF DeleteLog, Inserting
    <2> QED BY <1>a, <1>c, <2>1, <2>2 DEF Unindexed
  <1>8. CASE Restart
    BY <1>8, RestartStep
  <1> QED BY <1>2, <1>3, <1>4, <1>5, <1>6, <1>7, <1>8 DEF Next, Commit, Abort

------------------------------------------------------------------------------
(* Theorems                                                                *)

\* The inductive invariant holds at the start ...
LEMMA InvInit == Init => IInv
  <1> SUFFICES ASSUME Init PROVE IInv
    OBVIOUS
  <1>1. TypeOK
    BY TypeInit
  <1>2. \A r \in Row : index[r] = <<>> /\ tables[r] = <<>>
    BY DEF Init, EmptyRows
  <1>3. op = NoOp /\ root = 1 /\ Len(pages) = 1 /\ registry = <<>> /\ active = {}
    BY DEF Init
  <1>4. PagesNotShared /\ PageMirrorsMemory /\ IndexIsLogged /\ Occupied
    BY <1>2 DEF PagesNotShared, PageMirrorsMemory, IndexIsLogged, Occupied
  <1>5. PendingPage /\ PendingLonger /\ PendingLogged
    BY <1>3 DEF PendingPage, PendingLonger, PendingLogged, Inserting, NoOp
  <1>6. Ordered
    BY <1>3 DEF Ordered
  <1>7. Tombstones
    BY <1>2, <1>3 DEF Tombstones
  <1>8. Unindexed
    BY <1>2 DEF Unindexed
  <1> QED BY <1>1, <1>4, <1>5, <1>6, <1>7, <1>8 DEF IInv, Core

\* ... and every step preserves it: its core, which needs nothing else, ...
LEMMA CoreNext == Core /\ [Next]_vars => Core'
  <1> SUFFICES ASSUME Core, [Next]_vars PROVE Core'
    OBVIOUS
  <1> USE DEF Core
  <1>1. TypeOK'
    BY TypeNext
  <1>2. PagesNotShared'
    BY SharedNext
  <1>3. Occupied'
    BY OccupiedNext
  <1>4. PendingPage'
    BY PendingNext
  <1>5. PendingLogged'
    BY <1>1, PendingLoggedNext
  <1>6. IndexIsLogged'
    BY <1>1, LoggedNext
  <1>7. Ordered'
    BY OrderedNext
  <1>8. Tombstones'
    BY TombstonesNext
  <1>9. Unindexed'
    BY UnindexedNext
  <1> QED BY <1>1, <1>2, <1>3, <1>4, <1>5, <1>6, <1>7, <1>8, <1>9

\* CREATE TABLE, which the SQL executor does behind the engine's back, preserves
\* the core too: the pages and the index keep what the table had.
LEMMA CoreEmptied ==
  ASSUME Core, NEW t, op = NoOp,
         tables' = [r \in Row |-> IF r[1] = t THEN <<>> ELSE tables[r]],
         UNCHANGED <<txVars, pages, root, index, wal, walSynced, op, faults, crashes>>
  PROVE  Core'
  <1> USE DEF Core
  <1>1. tables' \in [Row -> Seq(Version)]
    BY DEF TypeOK
  <1>2. TypeOK'
    BY <1>1 DEF TypeOK, txVars, Fits
  <1>3. PagesNotShared' /\ Occupied'
    BY DEF PagesNotShared, Occupied
  <1>4. IndexIsLogged'
    BY DEF IndexIsLogged, LogsEntry
  <1>5. PendingPage' /\ PendingLogged'
    BY DEF PendingPage, PendingLogged, Inserting, NoOp
  <1>6. Ordered'
    BY DEF Ordered, txVars
  <1>7. Tombstones'
    <2>1. \A r \in Row : \A i \in DOMAIN tables'[r] : tables'[r][i].deleted_by = None
      BY DEF Tombstones
    <2> QED BY <2>1 DEF Tombstones, txVars
  <1>8. Unindexed'
    <2>1. RootFull' <=> RootFull
      BY DEF RootFull
    <2>2. \A r \in Row : tables'[r] # <<>> => tables'[r] = tables[r]
      OBVIOUS
    <2> QED BY <2>1, <2>2 DEF Unindexed, Inserting
  <1> QED BY <1>2, <1>3, <1>4, <1>5, <1>6, <1>7, <1>8

\* begin adds one transaction, which was not active before.
LEMMA BeginStep ==
  ASSUME TypeOK, Ordered, Begin
  PROVE  \E tx \in Transaction : /\ tx \notin active /\ active' = active \cup {tx}
                                 /\ tx.tx_id.n \in 1..MaxTx
  <1>1. PICK ms \in clock..MaxTime :
           active' = active \cup
              {[tx_id |-> [ts |-> ms, n |-> minted + 1],
                snapshot_tx |-> IF registry = <<>> THEN Nil ELSE Last(registry),
                tx_number |-> Len(registry) + 1]}
    BY DEF Begin
  <1> DEFINE id == [ts |-> ms, n |-> minted + 1]
             snap == IF registry = <<>> THEN Nil ELSE Last(registry)
             tx == [tx_id |-> id, snapshot_tx |-> snap, tx_number |-> Len(registry) + 1]
  <1>2. /\ registry \in Seq(TxId) /\ clock \in 1..MaxTime /\ minted \in 0..MaxTx
        /\ minted < MaxTx /\ MaxTx \in Nat
    BY Bounds DEF TypeOK, Begin
  <1>3. id \in TxId
    BY <1>2 DEF TxId
  <1>4. snap \in TxId
    BY <1>2, SnapshotType
  <1>5. tx \in Transaction /\ tx.tx_id.n \in 1..MaxTx
    BY <1>2, <1>3, <1>4 DEF Transaction
  <1>6. tx \notin active
    <2>1. tx.tx_number \notin DOMAIN registry
      BY <1>2
    <2> QED BY <2>1 DEF Ordered
  <1> QED BY <1>1, <1>5, <1>6

\* ... and what memory has of the pages.
LEMMA InvNext == IInv /\ [Next]_vars => IInv'
  <1> SUFFICES ASSUME IInv, [Next]_vars PROVE IInv'
    OBVIOUS
  <1>1. Core'
    BY CoreNext DEF IInv
  <1>2. PageMirrorsMemory'
    BY MirrorNext DEF IInv, Core
  <1>3. PendingLonger'
    BY LongerNext DEF IInv, Core
  <1> QED BY <1>1, <1>2, <1>3 DEF IInv

\* The inductive invariant holds in every reachable state, over any number of
\* operations, failed writes and crashes.
THEOREM Invariance == Spec => []IInv
  BY InvInit, InvNext, PTL DEF Spec

\* Every reachable state is well-typed, and no page holds more than fits: the
\* length check of serialize_versions and write_page is enough also for delete,
\* which rewrites a page with one tombstone more.
THEOREM TypeCorrect == Spec => []TypeOK
  BY Invariance, PTL DEF IInv, Core

\* Index entries never share a page, nor name the root or a page of an earlier
\* run: allocate_page (the length of the file) is a fresh page, although a failed
\* insert leaves its page behind and a crash its whole index.
THEOREM PagesCorrect == Spec => []PagesNotShared
  BY Invariance, PTL DEF IInv, Core

\* Whatever was deleted and whichever inserts failed half-way, a page the index
\* points to holds the older end of its own row's chain (engine.rs insert writes
\* the chain, delete only the page).
THEOREM MirrorCorrect == Spec => []PageMirrorsMemory
  BY Invariance, PTL DEF IInv, Core

\* Every index entry has its Put record in the log before it is in the index, in
\* the order of the entries (BTree::insert logs first).
THEOREM LogCorrect == Spec => []IndexIsLogged
  BY Invariance, PTL DEF IInv, Core

\* No step writes a page of an earlier run of the process: insert appends, and
\* delete rewrites only pages that this run's index names.
THEOREM FrozenCorrect == Spec => OldPagesFrozen
  <1>1. ASSUME IInv, [Next]_vars
        PROVE  [\A p \in 1..(root - 1) : pages'[p] = pages[p]]_vars
    <2> SUFFICES ASSUME NEW p \in 1..(root - 1) PROVE pages'[p] = pages[p]
      OBVIOUS
    <2>1. TypeOK /\ PagesNotShared /\ p \in 1..Len(pages) /\ p < root /\ root \in Nat
      BY <1>1 DEF IInv, Core, TypeOK
    <2>2. CASE \/ Begin
               \/ \E tx \in active : \E outcome \in {"committed", "aborted"} : Decide(tx, outcome)
               \/ InsertLog \/ DeleteLog \/ UNCHANGED vars
      BY <2>1, <2>2, QuietStep
    <2>3. ASSUME NEW tx \in active, NEW r \in Row, NEW val \in Value, InsertPage(r, val, tx)
          PROVE  pages'[p] = pages[p]
      BY <2>1, <2>3, InsertPageStep DEF PagesKept
    <2>4. ASSUME NEW tx \in active, NEW r \in Row, DeletePage(r, tx)
          PROVE  pages'[p] = pages[p]
      <3>1. PageOf(r) \in (root + 1)..Len(pages)
        BY <2>1, <2>4, DeletePageStep
      <3>2. p # PageOf(r)
        BY <2>1, <3>1
      <3> QED BY <2>1, <2>4, <3>2, DeletePageStep
    <2>5. CASE InsertIndex
      BY <2>1, <2>5, InsertIndexStep
    <2>6. CASE Restart
      BY <2>1, <2>6, RestartStep DEF PagesKept
    <2> QED BY <1>1, <2>2, <2>3, <2>4, <2>5, <2>6 DEF Next, Commit, Abort
  <1> QED BY <1>1, Invariance, PTL DEF Spec, OldPagesFrozen

------------------------------------------------------------------------------
(* Snapshot reads                                                          *)

\* What get works on, and its answer without the tombstone.
VersionsOf(r) == IF index[r] = <<>> THEN <<>> ELSE pages[PageOf(r)].versions
SeenIn(vs, tx) ==
    LET i == FirstVisible(vs, tx)
        v == IF i = 0 THEN None ELSE vs[i]
    IN  IF v = None THEN None ELSE [created_by |-> v.created_by, value |-> v.value]

\* get sees the same when the same versions are visible with the same contents.
LEMMA SeenSame ==
  ASSUME NEW vs \in Seq(Version), NEW ws \in Seq(Version), NEW tx, Len(ws) = Len(vs),
         \A i \in 1..Len(vs) :
            /\ ws[i].created_by = vs[i].created_by /\ ws[i].value = vs[i].value
            /\ IsVisible(ws[i], tx) <=> IsVisible(vs[i], tx)
  PROVE  SeenIn(ws, tx) = SeenIn(vs, tx)
  <1>1. DOMAIN vs = 1..Len(vs) /\ DOMAIN ws = 1..Len(vs)
    OBVIOUS
  <1>2. {i \in DOMAIN ws : IsVisible(ws[i], tx)} = {i \in DOMAIN vs : IsVisible(vs[i], tx)}
    BY <1>1
  <1>3. FirstVisible(ws, tx) = FirstVisible(vs, tx)
    BY <1>2 DEF FirstVisible
  <1>4. PICK i \in 0..Len(vs) : i = FirstVisible(vs, tx)
    BY FirstVisibleFacts
  <1>5. CASE i = 0
    BY <1>3, <1>4, <1>5 DEF SeenIn
  <1>6. CASE i # 0
    <2>1. vs[i] # None /\ ws[i] # None
      BY <1>1, <1>4, <1>6, NoneIsNoVersion
    <2>2. ws[i].created_by = vs[i].created_by /\ ws[i].value = vs[i].value
      BY <1>4, <1>6
    <2> QED BY <1>3, <1>4, <1>6, <2>1, <2>2 DEF SeenIn
  <1> QED BY <1>5, <1>6

\* Between two transactions of the registry there is no room for a tombstone that
\* the deleting one does not see and the reader does.
LEMMA NoTombstoneBetween ==
  ASSUME TypeOK, Ordered, NEW w \in active, NEW tx \in active, NEW k \in DOMAIN registry,
         registry[k].ts > w.snapshot_tx.ts, w.tx_id.ts > tx.snapshot_tx.ts
  PROVE  registry[k].ts > tx.snapshot_tx.ts
  <1>1. /\ registry \in Seq(TxId) /\ active \subseteq Transaction
    BY DEF TypeOK
  <1>2. \A u \in TxId : u.ts \in Nat
    BY Bounds DEF TxId
  <1>3. tx.snapshot_tx.ts \in Nat /\ w.snapshot_tx.ts \in Nat /\ w.tx_id.ts \in Nat
    BY <1>1, <1>2 DEF Transaction
  <1>4. /\ DOMAIN registry = 1..Len(registry) /\ Len(registry) \in Nat
        /\ \A i \in DOMAIN registry : registry[i].ts \in Nat
    BY <1>1, <1>2
  <1>5. PICK m \in DOMAIN registry :
           /\ w.tx_id = registry[m]
           /\ w.snapshot_tx = IF m = 1 THEN Nil ELSE registry[m - 1]
    BY DEF Ordered
  <1>6. CASE k >= m
    <2>1. registry[m].ts =< registry[k].ts
      BY <1>4, <1>6 DEF Ordered
    <2> QED BY <1>3, <1>4, <1>5, <2>1
  <1>7. CASE k < m
    <2>1. m # 1 /\ m - 1 \in DOMAIN registry /\ k =< m - 1
      BY <1>4, <1>7
    <2>2. registry[k].ts =< registry[m - 1].ts
      BY <2>1 DEF Ordered
    <2> QED BY <1>3, <1>4, <1>5, <2>1, <2>2
  <1> QED BY <1>4, <1>6, <1>7

\* A delete by a transaction the reader's snapshot does not cover changes nothing
\* for the reader.
LEMMA DeleteInvisible ==
  ASSUME TypeOK, Ordered, NEW w \in active, NEW tx \in active, NEW vs \in Seq(Version),
         \A i \in DOMAIN vs : vs[i].deleted_by # None =>
            \E k \in DOMAIN registry : vs[i].deleted_by = registry[k],
         w.tx_id.ts > tx.snapshot_tx.ts
  PROVE  SeenIn(Tombstoned(vs, w), tx) = SeenIn(vs, tx)
  <1> DEFINE ws == Tombstoned(vs, w)
  <1>1. w \in Transaction
    BY DEF TypeOK
  <1>2. /\ ws \in Seq(Version) /\ Len(ws) = Len(vs)
        /\ \A i \in 1..Len(vs) :
              /\ ws[i].created_by = vs[i].created_by
              /\ ws[i].value = vs[i].value
              /\ ws[i].deleted_by =
                    IF i = FirstVisible(vs, w) THEN w.tx_id ELSE vs[i].deleted_by
    BY <1>1, TombstonedFacts
  <1> HIDE DEF ws
  <1>3. ASSUME NEW i \in 1..Len(vs)
        PROVE  IsVisible(ws[i], tx) <=> IsVisible(vs[i], tx)
    <2>1. CASE i # FirstVisible(vs, w)
      BY <1>2, <2>1 DEF IsVisible
    <2>2. CASE i = FirstVisible(vs, w)
      <3>1. vs[i].deleted_by = None \/ vs[i].deleted_by.ts > w.snapshot_tx.ts
        <4>1. IsVisible(vs[i], w)
          BY <2>2, FirstVisibleFacts
        <4> QED BY <4>1 DEF IsVisible
      <3>2. vs[i].deleted_by = None \/ vs[i].deleted_by.ts > tx.snapshot_tx.ts
        BY <3>1, NoTombstoneBetween
      <3>3. ws[i].deleted_by = w.tx_id
        BY <1>2, <2>2
      <3> QED BY <1>2, <3>2, <3>3 DEF IsVisible
    <2> QED BY <2>1, <2>2
  <1>4. SeenIn(ws, tx) = SeenIn(vs, tx)
    BY <1>2, <1>3, SeenSame
  <1> QED BY <1>4 DEF ws

\* What is seen of a chain of one version is what its writer made visible.
LEMMA SeenOfOne ==
  ASSUME NEW vs \in Seq(Version), Len(vs) = 1, NEW tx, SeenIn(vs, tx) # None
  PROVE  vs[1].created_by.ts =< tx.snapshot_tx.ts
  <1>1. FirstVisible(vs, tx) # 0
    BY DEF SeenIn
  <1>2. FirstVisible(vs, tx) = 1
    BY <1>1, FirstVisibleFacts
  <1>3. IsVisible(vs[1], tx)
    BY <1>2, FirstVisibleFacts
  <1> QED BY <1>3 DEF IsVisible

\* get sees nothing of a row the index lacks.
LEMMA SeenOfNone == ASSUME NEW tx PROVE SeenIn(<<>>, tx) = None
  <1>1. {i \in DOMAIN <<>> : IsVisible(<<>>[i], tx)} = {}
    OBVIOUS
  <1>2. FirstVisible(<<>>, tx) = 0
    BY <1>1 DEF FirstVisible
  <1> QED BY <1>2 DEF SeenIn

\* What get answers to a running transaction changes, until a write fails, only in
\* an insert or a delete of a transaction its snapshot covers.  delete marks the
\* first version its own transaction sees, even one that already has a tombstone;
\* the order of the registry makes that harmless to every earlier reader.
LEMMA SnapshotStep ==
  ASSUME Core, [Next]_vars, NEW tx \in active \cap active', NEW r \in Row,
         Seen(r, tx)' # Seen(r, tx), faults' = 0
  PROVE  Writer.tx_id.ts =< tx.snapshot_tx.ts
  <1>a. TypeOK /\ PagesNotShared /\ PendingPage /\ Ordered /\ Tombstones /\ Unindexed
    BY DEF Core
  <1>b. /\ tables \in [Row -> Seq(Version)] /\ active \subseteq Transaction
        /\ index \in [Row -> Seq(1..MaxPages)]
    BY <1>a DEF TypeOK
  <1>c. faults \in Nat /\ faults + 1 # faults'
    BY <1>a, Bounds DEF TypeOK
  <1>1. SeenIn(VersionsOf(r)', tx) # SeenIn(VersionsOf(r), tx)
    <2>1. Seen(r, tx) = SeenIn(VersionsOf(r), tx)
      BY DEF Seen, Get, SeenIn, VersionsOf
    <2>2. Seen(r, tx)' = SeenIn(VersionsOf(r)', tx)
      BY DEF Seen, Get, SeenIn, VersionsOf
    <2> QED BY <2>1, <2>2
  <1>2. VersionsOf(r)' # VersionsOf(r)
    BY <1>1
  <1>3. ~UNCHANGED <<index, pages>>
    BY <1>2 DEF VersionsOf, PageOf
  <1>4. CASE \/ Begin
             \/ \E u \in active : \E outcome \in {"committed", "aborted"} : Decide(u, outcome)
             \/ InsertLog \/ DeleteLog \/ UNCHANGED vars
    BY <1>a, <1>3, <1>4, QuietStep
  <1>5. ASSUME NEW u \in active, NEW s \in Row, NEW val \in Value, InsertPage(s, val, u)
        PROVE  FALSE
    <2>1. UNCHANGED index /\ PagesKept
      BY <1>a, <1>5, InsertPageStep
    <2>2. index[r] # <<>> => pages'[PageOf(r)] = pages[PageOf(r)]
      BY <1>a, <2>1, HeadIndex, IndexedPage DEF PagesKept
    <2> QED BY <1>2, <2>1, <2>2 DEF VersionsOf, PageOf
  <1>6. ASSUME NEW w \in active, NEW s \in Row, DeletePage(s, w)
        PROVE  Writer.tx_id.ts =< tx.snapshot_tx.ts
    <2> DEFINE p == PageOf(s)
               vs == pages[p].versions
    <2>1. /\ UNCHANGED index /\ p = index[s][1] /\ 1 \in DOMAIN index[s] /\ op = NoOp
          /\ vs \in Seq(Version) /\ p \in (root + 1)..Len(pages) /\ index[s] # <<>>
      BY <1>a, <1>6, DeletePageStep
    <2>2. /\ pages'[p] = DataPage(Tombstoned(vs, w))
          /\ \A q \in 1..Len(pages) : q # p => pages'[q] = pages[q]
          /\ op' = [kind |-> "delete_log", row |-> s, tx |-> w]
      BY <1>a, <1>3, <1>6, <1>c, <2>1, DeletePageStep
    <2>3. s = r
      <3>1. CASE index[r] = <<>>
        BY <1>2, <2>1, <3>1 DEF VersionsOf
      <3>2. CASE index[r] # <<>>
        <4>1. 1 \in DOMAIN index[r] /\ PageOf(r) = index[r][1] /\ PageOf(r) \in 1..Len(pages)
          BY <1>a, <3>2, HeadIndex, IndexedPage
        <4>2. PageOf(r) = p
          BY <1>2, <2>1, <2>2, <4>1 DEF VersionsOf, PageOf
        <4>3. index[r][1] = index[s][1] /\ 1 \in DOMAIN index[s]
          BY <2>1, <4>1, <4>2
        <4> QED BY <1>a, <4>1, <4>3 DEF PagesNotShared
      <3> QED BY <3>1, <3>2
    <2>4. VersionsOf(r) = vs /\ VersionsOf(r)' = Tombstoned(vs, w)
      BY <2>1, <2>2, <2>3 DEF VersionsOf, PageOf, DataPage
    <2>5. \A i \in DOMAIN vs : vs[i].deleted_by # None =>
             \E k \in DOMAIN registry : vs[i].deleted_by = registry[k]
      BY <1>a, <2>1 DEF Tombstones
    <2> HIDE DEF p, vs
    <2>6. ~(w.tx_id.ts > tx.snapshot_tx.ts)
      BY <1>1, <1>a, <2>1, <2>4, <2>5, DeleteInvisible
    <2>7. Writer = w
      BY <2>1, <2>2 DEF Writer, NoOp
    <2>8. w.tx_id.ts \in Nat /\ tx.snapshot_tx.ts \in Nat
      <3>1. w \in Transaction /\ tx \in Transaction
        BY <1>b
      <3> QED BY <3>1, Bounds DEF Transaction, TxId
    <2> QED BY <2>6, <2>7, <2>8
  <1>7. CASE InsertIndex
    <2>1. /\ op.row \in Row /\ Inserting /\ UNCHANGED <<pages, tables>>
          /\ op.kind = "insert_index"
      BY <1>a, <1>7, InsertIndexStep DEF InsertIndex
    <2>2. /\ ~RootFull /\ faults = 0
          /\ \A s \in Row : s # op.row => index'[s] = index[s]
          /\ DOMAIN index'[op.row] = 1..(Len(index[op.row]) + 1)
          /\ \A i \in DOMAIN index[op.row] : index'[op.row][i] = index[op.row][i]
          /\ index'[op.row][Len(index[op.row]) + 1] = op.page
          /\ index' = [index EXCEPT ![op.row] = Append(@, op.page)]
      BY <1>a, <1>3, <1>7, <1>c, <2>1, InsertIndexStep
    <2>3. r = op.row
      BY <1>2, <2>1, <2>2 DEF VersionsOf, PageOf
    <2>4. index'[r] = Append(index[r], op.page) /\ op.page \in 1..MaxPages
      BY <1>a, <1>b, <1>7, <2>1, <2>2, <2>3, InsertIndexStep
    <2>5. index[r] = <<>>
      <3>1. ASSUME index[r] # <<>> PROVE FALSE
        <4>1. index'[r] # <<>> /\ Head(index'[r]) = Head(index[r])
          <5>1. index[r] \in Seq(1..MaxPages)
            BY <1>b
          <5> QED BY ONLY <2>4, <3>1, <5>1, AppendProperties
        <4> QED BY <1>2, <2>1, <3>1, <4>1 DEF VersionsOf, PageOf
      <3> QED BY <3>1
    <2>6. index'[r] # <<>> /\ Head(index'[r]) = op.page
      BY <1>b, <2>4, <2>5
    <2>7. /\ pages[op.page].versions = tables[r] /\ tables[r] # <<>>
          /\ tables[r][1].created_by = op.tx.tx_id
      BY <1>a, <2>1, <2>3 DEF PendingPage, DataPage
    <2>8. Len(tables[r]) = 1 /\ tables[r] \in Seq(Version)
      BY <1>a, <1>b, <2>2, <2>5, <2>7 DEF Unindexed
    <2>9. VersionsOf(r) = <<>> /\ VersionsOf(r)' = tables[r]
      BY <2>1, <2>5, <2>6, <2>7 DEF VersionsOf, PageOf
    <2>10. tables[r][1].created_by.ts =< tx.snapshot_tx.ts
      BY <1>1, <2>8, <2>9, SeenOfNone, SeenOfOne
    <2> QED BY <2>1, <2>7, <2>10 DEF Writer
  <1>8. CASE Restart
    BY <1>8 DEF Restart
  <1> QED BY <1>4, <1>5, <1>6, <1>7, <1>8 DEF Next, Commit, Abort

\* Snapshot reads: until a write fails, neither get's answer to a running
\* transaction nor its None is changed by a transaction with a later id, whatever
\* the order of inserts, deletes, commits and aborts.
THEOREM SnapshotReads == Spec => LaterWritersInvisible
  <1>1. IInv => Core
    BY DEF IInv
  <1>2. Core /\ [Next]_vars =>
           [\A tx \in active \cap active' : \A r \in Row :
               faults' = 0 /\ Seen(r, tx)' # Seen(r, tx) =>
                  Writer.tx_id.ts =< tx.snapshot_tx.ts]_vars
    BY SnapshotStep
  <1> QED BY <1>1, <1>2, Invariance, PTL DEF Spec, LaterWritersInvisible

==============================================================================
