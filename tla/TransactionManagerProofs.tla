----------------------- MODULE TransactionManagerProofs -----------------------
(***************************************************************************)
(* Theorems about TransactionManager, for any set of threads and any       *)
(* bounds: type correctness, the life of a transaction under racing begin, *)
(* commit and abort, the refinement of TxLifecycle, and, for one caller at *)
(* a time, the snapshot theorem.                                           *)
(***************************************************************************)
EXTENDS TransactionManager, TLAPS

\* The nil id, the snapshot of the first transaction, is an id.
LEMMA NilIsTxId == Nil \in TxId
  BY BoundsAssumption DEF Nil, TxId

\* The millisecond of an id, which is what Ord compares.
LEMMA TimestampType == \A id \in TxId : id.ts \in Nat
  BY BoundsAssumption DEF TxId

\* A thread outside begin holds a well typed placeholder.
LEMMA NoCallIsTransaction == NoCall \in Transaction
  BY NilIsTxId, BoundsAssumption DEF NoCall, Transaction

\* The registry stays a vector indexed from 0 when a slot is written.
LEMMA RegisteredType ==
  ASSUME \E k \in 0..MaxTx : tx_registry \in [0..k -> TxId \cup {None}],
         NEW n \in 0..MaxTx, NEW id \in TxId
  PROVE  \E k \in 0..MaxTx : Registered(n, id) \in [0..k -> TxId \cup {None}]
  <1>1. PICK k \in 0..MaxTx : tx_registry \in [0..k -> TxId \cup {None}]
    OBVIOUS
  <1> DEFINE m == IF n > k THEN n ELSE k
  <1>2. m \in 0..MaxTx /\ DOMAIN tx_registry \cup 0..n = 0..m
    BY <1>1, BoundsAssumption
  <1>3. Registered(n, id) \in [0..m -> TxId \cup {None}]
    BY <1>1, <1>2 DEF Registered
  <1> QED BY <1>2, <1>3

\* A look-up inside the registry, or one past its end, gives an id.
LEMMA SnapshotType ==
  ASSUME NEW k \in Nat, tx_registry \in [0..k -> TxId \cup {None}],
         NEW n \in 0..(k + 1)
  PROVE  Snapshot(n) \in TxId
  BY NilIsTxId DEF Snapshot

\* The first half of the inductive invariant: the ownership of numbers.  A
\* number below next_tx belongs to one thread inside begin or to the one
\* transaction returned with it, and the registry slot of the number is empty
\* until that thread writes it.
Busy(t) == pc[t] # "idle"

Numbered ==
    \A t \in Thread : Busy(t) =>
        /\ call[t].tx_number \in 1..(next_tx - 1)
        /\ fate[call[t].tx_number] = "open"
        /\ \A u \in Thread :
              Busy(u) /\ u # t => call[u].tx_number # call[t].tx_number
        /\ \A tx \in handles : tx.tx_number # call[t].tx_number

Stamped ==
    \A t \in Thread : pc[t] \in {"stamped", "registered", "looked_up"} =>
        call[t].tx_id.n = call[t].tx_number

SlotsWritten ==
    /\ DOMAIN tx_registry \subseteq 0..(next_tx - 1)
    /\ \A t \in Thread :
          /\ pc[t] \in {"fetched", "stamped"} /\ call[t].tx_number \in DOMAIN tx_registry
                => tx_registry[call[t].tx_number] = None
          /\ pc[t] \in {"registered", "looked_up"}
                => /\ call[t].tx_number \in DOMAIN tx_registry
                   /\ tx_registry[call[t].tx_number] = call[t].tx_id
          /\ pc[t] = "looked_up"
                => call[t].snapshot_tx \in {Nil, tx_registry[call[t].tx_number - 1]}

HandlesNumbered ==
    /\ \A tx \in handles : tx.tx_number < next_tx /\ tx.tx_id.n = tx.tx_number
    /\ \A tx, u \in handles : tx.tx_number = u.tx_number => tx = u
    /\ \A n \in Number : n >= next_tx => fate[n] = "open"
    /\ \A id \in rejected : \E tx \in handles : tx.tx_id = id

IInv ==
    /\ TypeOK
    /\ Numbered
    /\ Stamped
    /\ SlotsWritten
    /\ HandlesNumbered
    /\ HandlesMatchRegistry
    /\ ActiveUntilDecided
    /\ RejectedOnlyIfDecided

------------------------------------------------------------------------------
(* Type correctness                                                        *)

\* The manager starts well typed.
LEMMA TypeInit == Init => TypeOK
  <1> SUFFICES ASSUME Init PROVE TypeOK
    OBVIOUS
  <1>1. tx_registry \in [0..0 -> TxId \cup {None}] /\ 0 \in 0..MaxTx
    BY NilIsTxId, BoundsAssumption DEF Init
  <1> QED
    BY <1>1, NoCallIsTransaction, BoundsAssumption
       DEF Init, TypeOK, Step, Fate, Number

\* Every step keeps the types; Numbered bounds the slot that begin writes.
LEMMA TypeNext == TypeOK /\ Numbered /\ SlotsWritten /\ [Next]_vars => TypeOK'
  <1> SUFFICES ASSUME TypeOK, Numbered, SlotsWritten, [Next]_vars PROVE TypeOK'
    OBVIOUS
  <1> USE BoundsAssumption DEF TypeOK, Step
  <1>1. ASSUME NEW t \in Thread, FetchNumber(t) PROVE TypeOK'
    <2>1. next_tx \in Number /\ next_tx \in 0..MaxTx
      BY <1>1 DEF FetchNumber, Number
    <2>2. [NoCall EXCEPT !.tx_number = next_tx] \in Transaction
      BY <2>1, NoCallIsTransaction DEF Transaction
    <2>3. call' \in [Thread -> Transaction] /\ pc' \in [Thread -> Step]
      BY <1>1, <2>2 DEF FetchNumber
    <2>4. committedBefore' \in [Number -> SUBSET Number]
      BY <1>1 DEF FetchNumber
    <2> QED BY <1>1, <2>1, <2>3, <2>4 DEF FetchNumber
  <1>2. ASSUME NEW t \in Thread, NewTxId(t) PROVE TypeOK'
    <2>1. PICK ms \in clock..MaxTime :
             /\ clock' = ms
             /\ call' = [call EXCEPT ![t].tx_id = [ts |-> ms, n |-> call[t].tx_number]]
      BY <1>2 DEF NewTxId
    <2>2. [ts |-> ms, n |-> call[t].tx_number] \in TxId
      BY DEF TxId, Transaction
    <2>3. [call[t] EXCEPT !.tx_id = [ts |-> ms, n |-> call[t].tx_number]] \in Transaction
      BY <2>2 DEF Transaction
    <2>4. call' \in [Thread -> Transaction] /\ clock' \in 1..MaxTime
      BY <2>1, <2>3
    <2> QED BY <1>2, <2>4 DEF NewTxId
  <1>3. ASSUME NEW t \in Thread, Register(t) PROVE TypeOK'
    <2>1. call[t].tx_number \in 0..MaxTx /\ call[t].tx_id \in TxId
      BY DEF Transaction
    <2>2. \E k \in 0..MaxTx : tx_registry' \in [0..k -> TxId \cup {None}]
      BY <1>3, <2>1, RegisteredType DEF Register
    <2> QED BY <1>3, <2>2 DEF Register
  <1>4. ASSUME NEW t \in Thread, LookUpSnapshot(t) PROVE TypeOK'
    <2>1. PICK k \in 0..MaxTx : tx_registry \in [0..k -> TxId \cup {None}]
      OBVIOUS
    <2>2. call[t].tx_number \in 0..(k + 1)
      BY <1>4, <2>1 DEF LookUpSnapshot, SlotsWritten, Transaction
    <2>3. Snapshot(call[t].tx_number) \in TxId
      BY <2>1, <2>2, SnapshotType
    <2>4. [call[t] EXCEPT !.snapshot_tx = Snapshot(call[t].tx_number)] \in Transaction
      BY <2>3 DEF Transaction
    <2> QED BY <1>4, <2>4 DEF LookUpSnapshot, state
  <1>5. ASSUME NEW t \in Thread, Activate(t) PROVE TypeOK'
    BY <1>5, NoCallIsTransaction DEF Activate
  <1>6. ASSUME NEW tx \in handles, Reject(tx.tx_id) PROVE TypeOK'
    <2>1. tx.tx_id \in TxId
      BY DEF Transaction
    <2> QED BY <1>6, <2>1 DEF Reject, state
  <1>7. ASSUME NEW id, CommitFound(id) \/ AbortFound(id) PROVE TypeOK'
    <2>1. PICK tx \in active :
             /\ active' = active \ {tx}
             /\ latest_committed' \in {latest_committed, tx.tx_number}
             /\ \E f \in Fate : fate' = [fate EXCEPT ![tx.tx_number] = f]
             /\ UNCHANGED <<next_tx, clock, tx_registry, pc, call, handles,
                            committedBefore, rejected>>
      BY <1>7 DEF CommitFound, AbortFound, Fate
    <2>2. tx.tx_number \in 0..MaxTx
      BY DEF Transaction
    <2>3. fate' \in [Number -> Fate]
      BY <2>1
    <2> QED BY <2>1, <2>2, <2>3
  <1>8. CASE UNCHANGED vars
    BY <1>8 DEF vars, state
  <1> QED
    BY <1>1, <1>2, <1>3, <1>4, <1>5, <1>6, <1>7, <1>8
       DEF Next, BeginStep, Decide, Commit, Abort

------------------------------------------------------------------------------
(* The inductive invariant                                                 *)

\* TransactionManager::new.
LEMMA InvInit == Init => IInv
  <1> SUFFICES ASSUME Init PROVE IInv
    OBVIOUS
  <1>1. TypeOK
    BY TypeInit
  <1>2. Numbered /\ Stamped /\ SlotsWritten
    BY DEF Init, Numbered, Stamped, SlotsWritten, Busy
  <1>3. HandlesNumbered /\ HandlesMatchRegistry /\ ActiveUntilDecided /\ RejectedOnlyIfDecided
    BY DEF Init, HandlesNumbered, HandlesMatchRegistry, ActiveUntilDecided,
           RejectedOnlyIfDecided
  <1> QED BY <1>1, <1>2, <1>3 DEF IInv

\* begin, fetch_add: the number fetched is nobody else's.
LEMMA FetchNumberInv ==
  ASSUME IInv, TypeOK', NEW t \in Thread, FetchNumber(t)
  PROVE  IInv'
  <1> USE DEF IInv, TypeOK
  <1>1. /\ next_tx \in Number /\ next_tx' = next_tx + 1
        /\ pc[t] = "idle" /\ pc' = [pc EXCEPT ![t] = "fetched"]
        /\ call'[t].tx_number = next_tx
        /\ \A u \in Thread : u # t => call'[u] = call[u]
        /\ UNCHANGED <<tx_registry, active, handles, fate, rejected>>
    BY DEF FetchNumber, Number, NoCall
  <1>2. fate[next_tx] = "open" /\ next_tx \notin DOMAIN tx_registry
    BY <1>1 DEF HandlesNumbered, SlotsWritten
  <1>3. Numbered'
    BY <1>1, <1>2 DEF Numbered, Busy, HandlesNumbered, Transaction, Number
  <1>4. Stamped'
    BY <1>1 DEF Stamped
  <1>5. SlotsWritten'
    BY <1>1, <1>2 DEF SlotsWritten
  <1>6. HandlesNumbered'
    BY <1>1 DEF HandlesNumbered, Transaction, Number
  <1>7. HandlesMatchRegistry' /\ ActiveUntilDecided' /\ RejectedOnlyIfDecided'
    BY <1>1 DEF HandlesMatchRegistry, ActiveUntilDecided, RejectedOnlyIfDecided
  <1> QED BY <1>3, <1>4, <1>5, <1>6, <1>7

\* begin, the id: it carries the number it was made for.
LEMMA NewTxIdInv ==
  ASSUME IInv, TypeOK', NEW t \in Thread, NewTxId(t)
  PROVE  IInv'
  <1> USE DEF IInv, TypeOK
  <1>1. /\ pc[t] = "fetched" /\ pc' = [pc EXCEPT ![t] = "stamped"]
        /\ call'[t].tx_id.n = call[t].tx_number
        /\ call'[t].tx_number = call[t].tx_number
        /\ \A u \in Thread : u # t => call'[u] = call[u]
        /\ UNCHANGED <<next_tx, tx_registry, active, handles, fate, rejected>>
    BY DEF NewTxId, Transaction
  <1>3. Numbered'
    BY <1>1 DEF Numbered, Busy
  <1>4. Stamped'
    BY <1>1 DEF Stamped
  <1>5. SlotsWritten'
    BY <1>1 DEF SlotsWritten
  <1>6. HandlesNumbered'
    BY <1>1 DEF HandlesNumbered
  <1>7. HandlesMatchRegistry' /\ ActiveUntilDecided' /\ RejectedOnlyIfDecided'
    BY <1>1 DEF HandlesMatchRegistry, ActiveUntilDecided, RejectedOnlyIfDecided
  <1> QED BY <1>3, <1>4, <1>5, <1>6, <1>7

\* begin, the registry: only the slot of the thread's own number is written.
LEMMA RegisterInv ==
  ASSUME IInv, TypeOK', NEW t \in Thread, Register(t)
  PROVE  IInv'
  <1> USE DEF IInv, TypeOK
  <1> DEFINE n == call[t].tx_number
  <1>1. /\ pc[t] = "stamped" /\ pc' = [pc EXCEPT ![t] = "registered"]
        /\ tx_registry' = Registered(n, call[t].tx_id)
        /\ UNCHANGED <<next_tx, call, active, handles, fate, rejected>>
    BY DEF Register
  <1>2. /\ n \in 1..(next_tx - 1)
        /\ n \in DOMAIN tx_registry => tx_registry[n] = None
        /\ \A u \in Thread : Busy(u) /\ u # t => call[u].tx_number # n
        /\ \A tx \in handles : tx.tx_number # n
    BY <1>1 DEF Numbered, Busy, SlotsWritten
  <1>3. /\ DOMAIN tx_registry' = DOMAIN tx_registry \cup 0..n
        /\ tx_registry'[n] = call[t].tx_id
        /\ \A i \in DOMAIN tx_registry : i # n => tx_registry'[i] = tx_registry[i]
        /\ \A i \in 0..n : i # n /\ i \notin DOMAIN tx_registry => tx_registry'[i] = None
    BY <1>1, <1>2 DEF Registered
  <1>4. Numbered' /\ Stamped' /\ HandlesNumbered'
    BY <1>1 DEF Numbered, Stamped, HandlesNumbered, Busy
  \* A snapshot taken from the slot written now was taken while it was empty.
  <1>5. ASSUME NEW m \in 1..MaxTx, m \in DOMAIN tx_registry, NEW s \in TxId,
               s \in {Nil, tx_registry[m - 1]}
        PROVE  s \in {Nil, tx_registry'[m - 1]}
    <2>1. m - 1 \in DOMAIN tx_registry
      BY <1>5
    <2>2. CASE m - 1 = n
      BY <2>1, <2>2, <1>2, <1>5, NoneAssumption
    <2>3. CASE m - 1 # n
      BY <2>1, <2>3, <1>3, <1>5
    <2> QED BY <2>2, <2>3
  <1>6. SlotsWritten'
    <2>1. DOMAIN tx_registry' \subseteq 0..(next_tx' - 1)
      BY <1>1, <1>2, <1>3 DEF SlotsWritten
    <2>2. ASSUME NEW u \in Thread, pc'[u] \in {"fetched", "stamped"},
                 call'[u].tx_number \in DOMAIN tx_registry'
          PROVE  tx_registry'[call'[u].tx_number] = None
      BY <1>1, <1>2, <1>3, <2>2 DEF SlotsWritten, Busy, Numbered
    <2>3. ASSUME NEW u \in Thread, pc'[u] \in {"registered", "looked_up"}
          PROVE  /\ call'[u].tx_number \in DOMAIN tx_registry'
                 /\ tx_registry'[call'[u].tx_number] = call'[u].tx_id
      BY <1>1, <1>2, <1>3, <2>3 DEF SlotsWritten, Busy
    <2>4. ASSUME NEW u \in Thread, pc'[u] = "looked_up"
          PROVE  call'[u].snapshot_tx \in {Nil, tx_registry'[call'[u].tx_number - 1]}
      <3>1. u # t /\ pc[u] = "looked_up" /\ call'[u] = call[u]
        BY <1>1, <2>4
      <3>2. /\ call[u].tx_number \in 1..MaxTx
            /\ call[u].tx_number \in DOMAIN tx_registry
            /\ call[u].snapshot_tx \in TxId
            /\ call[u].snapshot_tx \in {Nil, tx_registry[call[u].tx_number - 1]}
        BY <3>1 DEF SlotsWritten, Numbered, Busy, Transaction
      <3> QED BY <3>1, <3>2, <1>5
    <2> QED BY <2>1, <2>2, <2>3, <2>4 DEF SlotsWritten
  <1>7. HandlesMatchRegistry'
    <2> SUFFICES ASSUME NEW tx \in handles
                 PROVE  /\ tx.tx_number \in DOMAIN tx_registry' \ {0}
                        /\ tx_registry'[tx.tx_number] = tx.tx_id
                        /\ tx.snapshot_tx \in {Nil, tx_registry'[tx.tx_number - 1]}
      BY <1>1 DEF HandlesMatchRegistry
    <2>1. /\ tx.tx_number \in 1..MaxTx /\ tx.snapshot_tx \in TxId
          /\ tx.tx_number \in DOMAIN tx_registry \ {0}
          /\ tx_registry[tx.tx_number] = tx.tx_id
          /\ tx.snapshot_tx \in {Nil, tx_registry[tx.tx_number - 1]}
      BY DEF HandlesMatchRegistry, Transaction
    <2> QED BY <2>1, <1>2, <1>3, <1>5
  <1>8. ActiveUntilDecided' /\ RejectedOnlyIfDecided'
    BY <1>1 DEF ActiveUntilDecided, RejectedOnlyIfDecided
  <1> QED BY <1>4, <1>6, <1>7, <1>8

\* begin, the snapshot: the slot before, if it is written by now.
LEMMA LookUpSnapshotInv ==
  ASSUME IInv, TypeOK', NEW t \in Thread, LookUpSnapshot(t)
  PROVE  IInv'
  <1> USE DEF IInv, TypeOK
  <1>1. /\ pc[t] = "registered" /\ pc' = [pc EXCEPT ![t] = "looked_up"]
        /\ call'[t].tx_id = call[t].tx_id
        /\ call'[t].tx_number = call[t].tx_number
        /\ call'[t].snapshot_tx = Snapshot(call[t].tx_number)
        /\ \A u \in Thread : u # t => call'[u] = call[u]
        /\ UNCHANGED <<next_tx, tx_registry, active, handles, fate, rejected>>
    BY DEF LookUpSnapshot, Transaction, state
  <1>2. Snapshot(call[t].tx_number) \in {Nil, tx_registry[call[t].tx_number - 1]}
    BY DEF Snapshot
  <1>3. Numbered'
    BY <1>1 DEF Numbered, Busy
  <1>4. Stamped'
    BY <1>1 DEF Stamped
  <1>5. SlotsWritten'
    BY <1>1, <1>2 DEF SlotsWritten
  <1>6. HandlesNumbered'
    BY <1>1 DEF HandlesNumbered
  <1>7. HandlesMatchRegistry' /\ ActiveUntilDecided' /\ RejectedOnlyIfDecided'
    BY <1>1 DEF HandlesMatchRegistry, ActiveUntilDecided, RejectedOnlyIfDecided
  <1> QED BY <1>3, <1>4, <1>5, <1>6, <1>7

\* begin, the active map: the transaction is handed out.
LEMMA ActivateInv ==
  ASSUME IInv, TypeOK', NEW t \in Thread, Activate(t)
  PROVE  IInv'
  <1> USE DEF IInv, TypeOK
  <1> DEFINE new == call[t]
  <1>1. /\ pc[t] = "looked_up" /\ pc' = [pc EXCEPT ![t] = "idle"]
        /\ active' = active \cup {new} /\ handles' = handles \cup {new}
        /\ \A u \in Thread : u # t => call'[u] = call[u]
        /\ UNCHANGED <<next_tx, tx_registry, fate, rejected>>
    BY DEF Activate
  <1>2. /\ new.tx_number \in 1..(next_tx - 1) /\ fate[new.tx_number] = "open"
        /\ \A tx \in handles : tx.tx_number # new.tx_number
        /\ \A u \in Thread : Busy(u) /\ u # t => call[u].tx_number # new.tx_number
        /\ new.tx_id.n = new.tx_number
    BY <1>1 DEF Numbered, Busy, Stamped
  <1>3. /\ new.tx_number \in DOMAIN tx_registry
        /\ tx_registry[new.tx_number] = new.tx_id
        /\ new.snapshot_tx \in {Nil, tx_registry[new.tx_number - 1]}
    BY <1>1 DEF SlotsWritten
  <1>4. Numbered'
    BY <1>1, <1>2 DEF Numbered, Busy
  <1>5. Stamped'
    BY <1>1 DEF Stamped
  <1>6. SlotsWritten'
    BY <1>1 DEF SlotsWritten
  <1>7. HandlesNumbered'
    BY <1>1, <1>2 DEF HandlesNumbered, Transaction
  <1>8. HandlesMatchRegistry'
    BY <1>1, <1>2, <1>3 DEF HandlesMatchRegistry
  <1>9. ActiveUntilDecided'
    BY <1>1, <1>2 DEF ActiveUntilDecided
  \* Only ids of returned transactions were ever rejected, and the new id is
  \* none of them.
  <1>10. RejectedOnlyIfDecided'
    <2>1. ASSUME new.tx_id \in rejected PROVE FALSE
      <3>1. PICK tx \in handles : tx.tx_id = new.tx_id
        BY <2>1 DEF HandlesNumbered
      <3>2. tx.tx_number = new.tx_id.n
        BY <3>1 DEF HandlesNumbered
      <3> QED BY <3>2, <1>2
    <2> QED BY <1>1, <2>1 DEF RejectedOnlyIfDecided
  <1> QED BY <1>4, <1>5, <1>6, <1>7, <1>8, <1>9, <1>10

\* commit and abort of a transaction that is not active.
LEMMA RejectInv ==
  ASSUME IInv, TypeOK', NEW h \in handles, Reject(h.tx_id)
  PROVE  IInv'
  <1> USE DEF IInv
  <1>1. /\ \A tx \in active : tx.tx_id # h.tx_id
        /\ rejected' = rejected \cup {h.tx_id}
        /\ UNCHANGED <<next_tx, tx_registry, active, pc, call, handles, fate>>
    BY DEF Reject, state
  <1>2. Numbered' /\ Stamped' /\ SlotsWritten' /\ HandlesMatchRegistry' /\ ActiveUntilDecided'
    BY <1>1 DEF Numbered, Stamped, SlotsWritten, HandlesMatchRegistry,
                ActiveUntilDecided, Busy
  <1>3. HandlesNumbered'
    BY <1>1 DEF HandlesNumbered
  <1>4. RejectedOnlyIfDecided'
    BY <1>1 DEF RejectedOnlyIfDecided, ActiveUntilDecided
  <1> QED BY <1>2, <1>3, <1>4

\* What CommitFound and AbortFound have in common.
Settles(tx, f) ==
    /\ tx \in active
    /\ f \in {"committed", "aborted"}
    /\ active' = active \ {tx}
    /\ fate' = [fate EXCEPT ![tx.tx_number] = f]
    /\ UNCHANGED <<next_tx, tx_registry, pc, call, handles, rejected>>

\* commit and abort of an active one both settle it.
LEMMA FoundSettles ==
  ASSUME NEW id, CommitFound(id) \/ AbortFound(id)
  PROVE  \E tx \in active, f \in {"committed", "aborted"} : Settles(tx, f)
  BY DEF CommitFound, AbortFound, Settles

\* Settling takes exactly one transaction out of the map, for good.
LEMMA SettlesInv ==
  ASSUME IInv, TypeOK', NEW tx \in active, NEW f \in {"committed", "aborted"},
         Settles(tx, f)
  PROVE  IInv'
  <1> USE DEF IInv, TypeOK
  <1>1. /\ tx \in handles /\ tx.tx_number \in Number /\ tx.tx_number < next_tx
        /\ fate'[tx.tx_number] = f
        /\ \A n \in Number : n # tx.tx_number => fate'[n] = fate[n]
        /\ active' = active \ {tx}
        /\ UNCHANGED <<next_tx, tx_registry, pc, call, handles, rejected>>
    <2>1. tx \in handles /\ tx.tx_number \in 0..MaxTx
      BY DEF Settles, ActiveUntilDecided, Transaction
    <2>2. tx.tx_number \in Number /\ tx.tx_number < next_tx
      BY <2>1 DEF HandlesMatchRegistry, HandlesNumbered, Number
    <2> QED BY <2>1, <2>2 DEF Settles
  <1>2. Numbered'
    <2>1. ASSUME NEW t \in Thread, Busy(t)
          PROVE  fate'[call[t].tx_number] = "open"
      <3>1. /\ call[t].tx_number \in 1..(next_tx - 1)
            /\ fate[call[t].tx_number] = "open"
            /\ tx.tx_number # call[t].tx_number
        BY <2>1, <1>1 DEF Numbered
      <3>2. call[t].tx_number \in Number
        BY <3>1, BoundsAssumption DEF Number
      <3> QED BY <3>1, <3>2, <1>1
    <2> QED BY <1>1, <2>1 DEF Numbered, Busy
  <1>3. Stamped' /\ SlotsWritten' /\ HandlesMatchRegistry'
    BY <1>1 DEF Stamped, SlotsWritten, HandlesMatchRegistry
  <1>4. HandlesNumbered'
    BY <1>1 DEF HandlesNumbered, Number
  <1>5. ASSUME NEW u \in handles PROVE u.tx_number \in Number
    BY <1>5 DEF HandlesMatchRegistry, Transaction, Number
  <1>6. ActiveUntilDecided'
    BY <1>1, <1>5 DEF ActiveUntilDecided, HandlesNumbered
  <1>7. RejectedOnlyIfDecided'
    BY <1>1, <1>5 DEF RejectedOnlyIfDecided
  <1> QED BY <1>2, <1>3, <1>4, <1>6, <1>7

\* Every step of every thread keeps the invariant.
LEMMA InvNext == IInv /\ [Next]_vars => IInv'
  <1> SUFFICES ASSUME IInv, [Next]_vars PROVE IInv'
    OBVIOUS
  <1>1. TypeOK'
    BY TypeNext DEF IInv
  <1>2. ASSUME NEW t \in Thread, BeginStep(t) PROVE IInv'
    BY <1>1, <1>2, FetchNumberInv, NewTxIdInv, RegisterInv, LookUpSnapshotInv,
       ActivateInv DEF BeginStep
  <1>3. ASSUME NEW t \in Thread, Decide(t) PROVE IInv'
    BY <1>1, <1>3, RejectInv, FoundSettles, SettlesInv DEF Decide, Commit, Abort
  <1>4. CASE UNCHANGED vars
    <2>1. UNCHANGED <<next_tx, tx_registry, active, pc, call, handles, fate, rejected>>
      BY <1>4 DEF vars, state
    <2>2. Numbered' /\ Stamped' /\ SlotsWritten'
      BY <2>1 DEF IInv, Numbered, Stamped, SlotsWritten, Busy
    <2>3. HandlesNumbered' /\ HandlesMatchRegistry'
      BY <2>1 DEF IInv, HandlesNumbered, HandlesMatchRegistry
    <2>4. ActiveUntilDecided' /\ RejectedOnlyIfDecided'
      BY <2>1 DEF IInv, ActiveUntilDecided, RejectedOnlyIfDecided
    <2> QED BY <1>1, <2>2, <2>3, <2>4 DEF IInv
  <1> QED BY <1>2, <1>3, <1>4 DEF Next

\* The inductive invariant holds in every reachable state.
LEMMA InvHolds == Spec => []IInv
  BY InvInit, InvNext, PTL DEF Spec

\* Every reachable state is well typed: no begin hands out None, and no look-up
\* of a predecessor leaves the registry (mvcc.rs 131-173).
THEOREM TypeCorrect == Spec => []TypeOK
  <1>1. IInv => TypeOK
    BY DEF IInv
  <1> QED BY <1>1, InvHolds, PTL

\* Whatever the interleaving of begins, a returned transaction owns its
\* registry slot and its snapshot is its predecessor's id or nil.
THEOREM RegistryCorrect == Spec => []HandlesMatchRegistry
  <1>1. IInv => HandlesMatchRegistry
    BY DEF IInv
  <1> QED BY <1>1, InvHolds, PTL

\* A transaction is in `active' exactly until it is decided.
THEOREM ActiveCorrect == Spec => []ActiveUntilDecided
  <1>1. IInv => ActiveUntilDecided
    BY DEF IInv
  <1> QED BY <1>1, InvHolds, PTL

\* commit and abort refuse only transactions that are decided already.
THEOREM RejectionCorrect == Spec => []RejectedOnlyIfDecided
  <1>1. IInv => RejectedOnlyIfDecided
    BY DEF IInv
  <1> QED BY <1>1, InvHolds, PTL

------------------------------------------------------------------------------
(* Refinement                                                              *)

\* The steps of begin before the last are invisible to TxLifecycle.
LEMMA LifecycleUnchanged ==
  ASSUME UNCHANGED <<active, fate, latest_committed>>
  PROVE  UNCHANGED Lifecycle!lifeVars
  BY DEF Lifecycle!lifeVars, StatusOf

\* A step of the manager is one of TxLifecycle or leaves it alone.
LEMMA LifecycleStep ==
  ASSUME IInv, IInv', [Next]_vars
  PROVE  [Lifecycle!Next]_(Lifecycle!lifeVars)
  <1> USE DEF IInv, TypeOK
  <1>1. ASSUME NEW t \in Thread, Activate(t) PROVE Lifecycle!Next
    <2>1. PICK n \in 1..(next_tx - 1) :
             /\ n = call[t].tx_number
             /\ fate[n] = "open"
             /\ \A tx \in active : tx.tx_number # n
      BY <1>1 DEF Activate, Numbered, Busy, ActiveUntilDecided
    <2>2. n \in Number
      BY <2>1, BoundsAssumption DEF Number
    <2>3. StatusOf(n) = "unborn"
      BY <2>1 DEF StatusOf
    <2>4. StatusOf(n)' = "active"
      <3>1. PICK tx \in active' : tx.tx_number = n
        BY <1>1, <2>1 DEF Activate
      <3> QED BY <3>1 DEF StatusOf
    <2>5. ASSUME NEW m \in Number, m # n PROVE StatusOf(m)' = StatusOf(m)
      BY <1>1, <2>1, <2>5 DEF Activate, StatusOf
    <2>6. Lifecycle!Open(n)
      BY <1>1, <2>2, <2>3, <2>4, <2>5 DEF Activate, Lifecycle!Open, Number
    <2> QED BY <2>2, <2>6 DEF Lifecycle!Next, Number
  <1>2. ASSUME NEW tx \in active, NEW f \in {"committed", "aborted"}, Settles(tx, f)
        PROVE  /\ tx.tx_number \in Number
               /\ StatusOf(tx.tx_number) = "active"
               /\ StatusOf(tx.tx_number)' = f
               /\ \A m \in Number : m # tx.tx_number => StatusOf(m)' = StatusOf(m)
    <2>1. tx \in handles /\ tx.tx_number \in Number
      BY DEF ActiveUntilDecided, HandlesMatchRegistry, Transaction, Number
    <2>2. \A u \in active' : u.tx_number # tx.tx_number
      BY <1>2, <2>1 DEF Settles, ActiveUntilDecided, HandlesNumbered
    <2>3. StatusOf(tx.tx_number)' = f
      BY <1>2, <2>1, <2>2 DEF Settles, StatusOf
    <2>4. StatusOf(tx.tx_number) = "active"
      BY DEF StatusOf
    <2>5. ASSUME NEW m \in Number, m # tx.tx_number PROVE StatusOf(m)' = StatusOf(m)
      BY <1>2, <2>5 DEF Settles, StatusOf
    <2> QED BY <2>1, <2>3, <2>4, <2>5
  <1>3. ASSUME NEW id, CommitFound(id) PROVE Lifecycle!Next
    <2>1. PICK tx \in active : Settles(tx, "committed") /\ latest_committed' = tx.tx_number
      BY <1>3 DEF CommitFound, Settles
    <2>2. Lifecycle!Commit(tx.tx_number) /\ tx.tx_number \in Number
      BY <1>2, <2>1 DEF Lifecycle!Commit, Number
    <2> QED BY <2>2 DEF Lifecycle!Next, Number
  <1>4. ASSUME NEW id, AbortFound(id) PROVE Lifecycle!Next
    <2>1. PICK tx \in active : Settles(tx, "aborted") /\ latest_committed' = latest_committed
      BY <1>4 DEF AbortFound, Settles
    <2>2. Lifecycle!Abort(tx.tx_number) /\ tx.tx_number \in Number
      BY <1>2, <2>1 DEF Lifecycle!Abort, Number
    <2> QED BY <2>2 DEF Lifecycle!Next, Number
  <1>5. ASSUME NEW t \in Thread,
               FetchNumber(t) \/ NewTxId(t) \/ Register(t) \/ LookUpSnapshot(t)
        PROVE  UNCHANGED <<active, fate, latest_committed>>
    BY <1>5 DEF FetchNumber, NewTxId, Register, LookUpSnapshot, state
  <1>6. ASSUME NEW id, Reject(id) PROVE UNCHANGED <<active, fate, latest_committed>>
    BY <1>6 DEF Reject, state
  <1>7. CASE UNCHANGED vars
    BY <1>7, LifecycleUnchanged DEF vars, state
  <1> QED
    BY <1>1, <1>3, <1>4, <1>5, <1>6, <1>7, LifecycleUnchanged
       DEF Next, BeginStep, Decide, Commit, Abort

\* The manager implements the abstract life of a transaction: opened once,
\* decided once, never revised, whatever the number of threads.
THEOREM RefinesLifecycle == Spec => ImplementsLifecycle
  <1>1. Init => Lifecycle!Init
    BY DEF Init, Lifecycle!Init, StatusOf, Number
  <1> QED
    BY <1>1, LifecycleStep, InvHolds, PTL
       DEF Spec, ImplementsLifecycle, Lifecycle!Spec

------------------------------------------------------------------------------
(* One caller at a time, as behind the mutex the SQL executor keeps around *)
(* the engine                                                              *)

OneCaller == \A s, t \in Thread : s = t

\* No thread is between taking its number and writing its slot.
Settled == \A t \in Thread : pc[t] \notin {"fetched", "stamped"}

\* The second inductive invariant: the registry has no holes and is sorted by
\* time, and every snapshot is the slot before.
SerialInv ==
    /\ \A t \in Thread : Busy(t) => call[t].tx_number = next_tx - 1
    /\ DOMAIN tx_registry = IF Settled THEN 0..(next_tx - 1) ELSE 0..(next_tx - 2)
    /\ tx_registry[0] = Nil
    /\ \A i \in DOMAIN tx_registry : tx_registry[i] \in TxId /\ tx_registry[i].ts =< clock
    /\ \A i, j \in DOMAIN tx_registry : i =< j => tx_registry[i].ts =< tx_registry[j].ts
    /\ \A t \in Thread : pc[t] = "stamped" => call[t].tx_id.ts = clock
    /\ \A t \in Thread : pc[t] = "looked_up" =>
          call[t].snapshot_tx = tx_registry[call[t].tx_number - 1]
    /\ \A tx \in handles : tx.snapshot_tx = tx_registry[tx.tx_number - 1]
    /\ \A n \in Number : committedBefore[n] \subseteq 1..(n - 1)

\* The registry starts with the nil id in slot 0.
LEMMA SerialInit == Init => SerialInv
  BY NilIsTxId, BoundsAssumption DEF Init, SerialInv, Settled, Busy, Nil, Number

\* With one caller, no slot is missing when a number is fetched.
LEMMA SerialFetch ==
  ASSUME OneCaller, IInv, SerialInv, NEW t \in Thread, FetchNumber(t)
  PROVE  SerialInv'
  <1> USE DEF IInv, TypeOK
  <1>1. /\ pc[t] = "idle" /\ pc'[t] = "fetched" /\ Thread = {t}
        /\ next_tx' = next_tx + 1 /\ next_tx \in Number
        /\ call'[t].tx_number = next_tx
        /\ UNCHANGED <<clock, tx_registry, handles>>
    BY DEF OneCaller, FetchNumber, NoCall, Number
  <1>2. Settled /\ ~Settled' /\ DOMAIN tx_registry' = 0..(next_tx' - 2)
    BY <1>1 DEF Settled, SerialInv
  <1>3. \A m \in Number : fate[m] = "committed" => m \in 1..(next_tx - 1)
    BY DEF HandlesNumbered, Number
  <1>4. \A n \in Number : committedBefore'[n] \subseteq 1..(n - 1)
    BY <1>1, <1>3 DEF FetchNumber, SerialInv
  <1> QED BY <1>1, <1>2, <1>4 DEF SerialInv

\* The generator does not go back, so the new id is the latest.
LEMMA SerialNewTxId ==
  ASSUME OneCaller, IInv, SerialInv, NEW t \in Thread, NewTxId(t)
  PROVE  SerialInv'
  <1> USE DEF IInv, TypeOK
  <1>1. PICK ms \in clock..MaxTime :
           /\ clock' = ms
           /\ call' = [call EXCEPT ![t].tx_id = [ts |-> ms, n |-> call[t].tx_number]]
    BY DEF NewTxId
  <1>2. /\ pc[t] = "fetched" /\ pc'[t] = "stamped" /\ Thread = {t}
        /\ call'[t].tx_number = call[t].tx_number
        /\ call'[t].tx_id.ts = clock' /\ clock =< clock'
        /\ UNCHANGED <<next_tx, tx_registry, handles, committedBefore>>
    BY <1>1 DEF OneCaller, NewTxId, Transaction
  <1>3. ~Settled /\ ~Settled'
    BY <1>2 DEF Settled
  <1>4. ASSUME NEW i \in DOMAIN tx_registry
        PROVE  tx_registry[i] \in TxId /\ tx_registry[i].ts =< clock'
    <2>1. tx_registry[i] \in TxId /\ tx_registry[i].ts =< clock
      BY <1>4 DEF SerialInv
    <2>2. tx_registry[i].ts \in Nat /\ clock \in Nat /\ clock' \in Nat
      BY <1>1, <2>1, TimestampType, BoundsAssumption
    <2> QED BY <1>2, <2>1, <2>2
  <1>5. \A u \in Thread : Busy(u)' => call'[u].tx_number = next_tx' - 1
    BY <1>2 DEF SerialInv, Busy
  <1> QED BY <1>2, <1>3, <1>4, <1>5 DEF SerialInv

\* The registry grows by one slot and stays ordered.
LEMMA SerialRegister ==
  ASSUME OneCaller, IInv, SerialInv, NEW t \in Thread, Register(t)
  PROVE  SerialInv'
  <1> USE DEF IInv, TypeOK
  <1> DEFINE n == next_tx - 1
  <1>1. /\ pc[t] = "stamped" /\ pc'[t] = "registered" /\ Thread = {t}
        /\ tx_registry' = Registered(n, call[t].tx_id)
        /\ call[t].tx_number = n /\ n \in 1..MaxTx
        /\ call[t].tx_id \in TxId /\ call[t].tx_id.ts = clock
        /\ UNCHANGED <<next_tx, clock, call, handles, committedBefore>>
    BY DEF OneCaller, Register, SerialInv, Busy, Numbered, Transaction
  <1>2. ~Settled /\ Settled' /\ DOMAIN tx_registry = 0..(n - 1)
    BY <1>1 DEF Settled, SerialInv
  <1>3. /\ DOMAIN tx_registry' = 0..n
        /\ tx_registry'[n] = call[t].tx_id
        /\ \A i \in 0..(n - 1) : tx_registry'[i] = tx_registry[i]
    BY <1>1, <1>2 DEF Registered
  <1>4. \A i \in DOMAIN tx_registry' : tx_registry'[i] \in TxId /\ tx_registry'[i].ts =< clock'
    BY <1>1, <1>2, <1>3 DEF SerialInv, TxId
  <1>5. ASSUME NEW i \in 0..n, NEW j \in 0..n, i =< j
        PROVE  tx_registry'[i].ts =< tx_registry'[j].ts
    <2>1. CASE j = n
      <3>1. tx_registry'[j].ts = clock /\ tx_registry'[i].ts =< clock'
        BY <1>1, <1>3, <1>4, <2>1
      <3> QED BY <1>1, <3>1
    <2>2. CASE j # n
      <3>1. i \in DOMAIN tx_registry /\ j \in DOMAIN tx_registry
        BY <1>1, <1>2, <1>5, <2>2
      <3>2. tx_registry'[i] = tx_registry[i] /\ tx_registry'[j] = tx_registry[j]
        BY <1>2, <1>3, <3>1
      <3> QED BY <1>5, <3>1, <3>2 DEF SerialInv
    <2> QED BY <2>1, <2>2
  <1>6. ASSUME NEW tx \in handles PROVE tx.snapshot_tx = tx_registry'[tx.tx_number - 1]
    <2>1. tx.tx_number \in 1..n /\ tx.tx_number # n
      BY <1>1 DEF HandlesNumbered, HandlesMatchRegistry, Numbered, Busy, Transaction
    <2> QED BY <2>1, <1>3 DEF SerialInv
  <1> QED BY <1>1, <1>2, <1>3, <1>4, <1>5, <1>6 DEF SerialInv

\* The slot before is written, so it is the snapshot.
LEMMA SerialLookUp ==
  ASSUME OneCaller, IInv, SerialInv, NEW t \in Thread, LookUpSnapshot(t)
  PROVE  SerialInv'
  <1> USE DEF IInv, TypeOK
  <1>1. /\ pc[t] = "registered" /\ pc'[t] = "looked_up" /\ Thread = {t}
        /\ call'[t].tx_number = call[t].tx_number
        /\ call'[t].snapshot_tx = Snapshot(call[t].tx_number)
        /\ UNCHANGED <<next_tx, clock, tx_registry, handles, committedBefore>>
    BY DEF OneCaller, LookUpSnapshot, Transaction, state
  <1>2. Settled /\ Settled' /\ call[t].tx_number = next_tx - 1 /\ call[t].tx_number >= 1
    BY <1>1 DEF Settled, SerialInv, Busy, Numbered
  <1>3. Snapshot(call[t].tx_number) = tx_registry[call[t].tx_number - 1]
    BY <1>2, NoneAssumption DEF Snapshot, SerialInv
  <1> QED BY <1>1, <1>2, <1>3 DEF SerialInv, Busy

\* The transaction handed out has that snapshot.
LEMMA SerialActivate ==
  ASSUME OneCaller, IInv, SerialInv, NEW t \in Thread, Activate(t)
  PROVE  SerialInv'
  <1> USE DEF IInv, TypeOK
  <1>1. /\ pc[t] = "looked_up" /\ pc'[t] = "idle" /\ Thread = {t}
        /\ handles' = handles \cup {call[t]}
        /\ UNCHANGED <<next_tx, clock, tx_registry, committedBefore>>
    BY DEF OneCaller, Activate
  <1>2. Settled /\ Settled'
    BY <1>1 DEF Settled
  <1> QED BY <1>1, <1>2 DEF SerialInv, Busy

\* Every step keeps the serial invariant.
LEMMA SerialNext == OneCaller /\ IInv /\ SerialInv /\ [Next]_vars => SerialInv'
  <1> SUFFICES ASSUME OneCaller, IInv, SerialInv, [Next]_vars PROVE SerialInv'
    OBVIOUS
  <1>1. ASSUME UNCHANGED <<next_tx, clock, tx_registry, pc, call, handles, committedBefore>>
        PROVE  SerialInv'
    BY <1>1 DEF SerialInv, Settled, Busy
  <1>2. ASSUME NEW id, Reject(id) \/ CommitFound(id) \/ AbortFound(id) PROVE SerialInv'
    BY <1>1, <1>2 DEF Reject, CommitFound, AbortFound, state
  <1>3. CASE UNCHANGED vars
    BY <1>1, <1>3 DEF vars, state
  <1> QED
    BY <1>2, <1>3, SerialFetch, SerialNewTxId, SerialRegister, SerialLookUp,
       SerialActivate DEF Next, BeginStep, Decide, Commit, Abort

\* In a gapless, ordered registry the slot before covers every earlier commit.
LEMMA SerialImplies ==
  ASSUME IInv, SerialInv
  PROVE  SeesEarlierCommits /\ SnapshotNotAhead
  <1> USE DEF IInv, TypeOK
  <1>1. ASSUME NEW tx \in handles
        PROVE  /\ tx.tx_number \in DOMAIN tx_registry /\ tx.tx_number \in 1..MaxTx
               /\ tx.tx_number - 1 \in DOMAIN tx_registry
               /\ tx.snapshot_tx = tx_registry[tx.tx_number - 1]
               /\ tx.tx_id = tx_registry[tx.tx_number]
    BY DEF HandlesMatchRegistry, SerialInv, Transaction
  <1>2. SeesEarlierCommits
    <2> SUFFICES ASSUME NEW tx \in handles, NEW m \in committedBefore[tx.tx_number]
                 PROVE  tx_registry[m].ts =< tx.snapshot_tx.ts
      BY DEF SeesEarlierCommits, LessEq
    <2>1. m \in 1..(tx.tx_number - 1)
      BY <1>1 DEF SerialInv, Number
    <2>2. m \in DOMAIN tx_registry /\ m =< tx.tx_number - 1
      BY <1>1, <2>1
    <2> QED BY <1>1, <2>2 DEF SerialInv
  <1>3. SnapshotNotAhead
    <2> SUFFICES ASSUME NEW tx \in handles, NEW u \in handles, tx.tx_number =< u.tx_number
                 PROVE  tx.snapshot_tx.ts =< u.tx_id.ts
      BY DEF SnapshotNotAhead, LessEq
    <2>1. tx.tx_number - 1 =< u.tx_number
      BY <1>1
    <2> QED BY <1>1, <2>1 DEF SerialInv
  <1> QED BY <1>2, <1>3

\* With one caller, both invariants hold in every reachable state.
LEMMA SerialHolds ==
  ASSUME OneCaller
  PROVE  Spec => [](IInv /\ SerialInv)
  <1>1. OneCaller
    OBVIOUS
  <1>2. IInv /\ SerialInv /\ [Next]_vars => SerialInv'
    BY <1>1, SerialNext
  <1> QED BY <1>2, SerialInit, InvHolds, PTL DEF Spec

\* With one caller at a time a snapshot covers everything committed before
\* begin was called (mvcc.rs 130-158).
THEOREM SnapshotCorrect ==
  ASSUME OneCaller
  PROVE  Spec => []SeesEarlierCommits
  <1>1. IInv /\ SerialInv => SeesEarlierCommits
    BY SerialImplies
  <1>2. Spec => [](IInv /\ SerialInv)
    BY SerialHolds
  <1> QED BY <1>1, <1>2, PTL

\* Nor does a snapshot reach further than the id of its own or of any later
\* transaction: what begins in a later millisecond stays out of it.
THEOREM SnapshotBehind ==
  ASSUME OneCaller
  PROVE  Spec => []SnapshotNotAhead
  <1>1. IInv /\ SerialInv => SnapshotNotAhead
    BY SerialImplies
  <1>2. Spec => [](IInv /\ SerialInv)
    BY SerialHolds
  <1> QED BY <1>1, <1>2, PTL

==============================================================================
