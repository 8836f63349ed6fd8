-------------------------- MODULE TransactionManager --------------------------
(***************************************************************************)
(* sabi-storage/src/mvcc.rs, struct TransactionManager, and the ordering   *)
(* of transaction ids of sabi-core/src/tx.rs.                              *)
(*                                                                         *)
(* `begin' takes no lock over its whole body, so it is five steps here:    *)
(* the atomic fetch_add, the call of Uuid::now_v7, the write-locked        *)
(* registration, the read-locked look-up of the predecessor, and the       *)
(* insertion under the `active' mutex.  `commit' and `abort' hold that     *)
(* mutex from the first line to the last and are one step each.            *)
(*                                                                         *)
(* A TxId is a version 7 UUID: its millisecond timestamp `ts', which is    *)
(* all that Ord looks at, and its other bits, which Eq also looks at.  The *)
(* generator never returns the same UUID twice; `n' stands for the bits    *)
(* that keep two ids of one millisecond apart.                             *)
(*                                                                         *)
(* Left out: Transaction.read_only, which is stored and never read, and    *)
(* Transaction.state, which is Active for as long as the record is in      *)
(* `active' (it changes in the step that removes the record).              *)
(***************************************************************************)
EXTENDS Integers, FiniteSets

CONSTANTS
    Thread,     \* callers of the manager
    MaxTx,      \* bound: calls of begin
    MaxTime,    \* bound: milliseconds the clock may show
    None        \* Option::None

TxId == [ts : 0..MaxTime, n : 0..MaxTx]

ASSUME BoundsAssumption == MaxTx \in Nat \ {0} /\ MaxTime \in Nat \ {0}
ASSUME NoneAssumption == None \notin TxId

Nil == [ts |-> 0, n |-> 0]

\* impl Ord for TxId: only the timestamps are compared.
LessEq(a, b) == a.ts =< b.ts

Transaction == [tx_id : TxId, snapshot_tx : TxId, tx_number : 0..MaxTx]

VARIABLES
    next_tx,            \* the counter
    clock,              \* last millisecond handed out by Uuid::now_v7
    tx_registry,        \* number -> Option<TxId>, a vector indexed from 0
    active,             \* the transactions in the map `active'
    latest_committed,   \* number stored by the last commit
    pc,                 \* pc[t]: where thread t is in begin
    call,               \* call[t]: the locals of begin in thread t
    handles,            \* history: transactions that begin has returned
    fate,               \* history: what became of a transaction number
    committedBefore,    \* history: numbers committed when begin n was called
    rejected            \* history: ids refused with InvalidTransaction

state == <<next_tx, clock, tx_registry, active, latest_committed>>
vars == <<state, pc, call, handles, fate, committedBefore, rejected>>

Number == 1..MaxTx
Fate == {"open", "committed", "aborted"}
Step == {"idle", "fetched", "stamped", "registered", "looked_up"}

NoCall == [tx_id |-> Nil, snapshot_tx |-> Nil, tx_number |-> 0]

\* TransactionManager::new
Init ==
    /\ next_tx = 1
    /\ clock = 1
    /\ tx_registry = [i \in 0..0 |-> Nil]
    /\ active = {}
    /\ latest_committed = 0
    /\ pc = [t \in Thread |-> "idle"]
    /\ call = [t \in Thread |-> NoCall]
    /\ handles = {}
    /\ fate = [n \in Number |-> "open"]
    /\ committedBefore = [n \in Number |-> {}]
    /\ rejected = {}

------------------------------------------------------------------------------
(* begin                                                                   *)

\* next_tx.fetch_add(1)
FetchNumber(t) ==
    /\ pc[t] = "idle"
    /\ next_tx =< MaxTx
    /\ next_tx' = next_tx + 1
    /\ call' = [call EXCEPT ![t] = [NoCall EXCEPT !.tx_number = next_tx]]
    /\ committedBefore' = [committedBefore EXCEPT ![next_tx] =
                              {m \in Number : fate[m] = "committed"}]
    /\ pc' = [pc EXCEPT ![t] = "fetched"]
    /\ UNCHANGED <<clock, tx_registry, active, latest_committed, handles, fate,
                   rejected>>

\* Mutation: the wall clock is used as it is, and may be set back.
NewTxId_WallClock(t) ==
    /\ pc[t] = "fetched"
    /\ \E ms \in 1..MaxTime :
          /\ clock' = ms
          /\ call' = [call EXCEPT ![t].tx_id =
                         [ts |-> ms, n |-> call[t].tx_number]]
    /\ pc' = [pc EXCEPT ![t] = "stamped"]
    /\ UNCHANGED <<next_tx, tx_registry, active, latest_committed, handles,
                   fate, committedBefore, rejected>>

\* The shared clock-sequence of Uuid::now_v7 never goes back, and may stay in
\* the same millisecond.
NewTxId(t) ==
    /\ pc[t] = "fetched"
    /\ \E ms \in clock..MaxTime :
          /\ clock' = ms
          /\ call' = [call EXCEPT ![t].tx_id =
                         [ts |-> ms, n |-> call[t].tx_number]]
    /\ pc' = [pc EXCEPT ![t] = "stamped"]
    /\ UNCHANGED <<next_tx, tx_registry, active, latest_committed, handles,
                   fate, committedBefore, rejected>>

\* Mutation: registry.push(Some(id)), whatever the number.
Registered_Push(n, id) ==
    [i \in 0..Cardinality(DOMAIN tx_registry) |->
        IF i \in DOMAIN tx_registry THEN tx_registry[i] ELSE id]

\* The registry after resize(n + 1, None), if it is too short, and the store.
Registered(n, id) ==
    [i \in DOMAIN tx_registry \cup 0..n |->
        IF i = n THEN id
        ELSE IF i \in DOMAIN tx_registry THEN tx_registry[i] ELSE None]

Register(t) ==
    /\ pc[t] = "stamped"
    /\ tx_registry' = Registered(call[t].tx_number, call[t].tx_id)
    /\ pc' = [pc EXCEPT ![t] = "registered"]
    /\ UNCHANGED <<next_tx, clock, active, latest_committed, call, handles,
                   fate, committedBefore, rejected>>

\* Mutation: no unwrap_or.
Snapshot_NoDefault(n) == IF n > 1 THEN tx_registry[n - 1] ELSE Nil

\* Mutation: the transaction latest_committed names, which a commit out of
\* order sets back.
Snapshot_Latest(n) ==
    IF tx_registry[latest_committed] # None THEN tx_registry[latest_committed]
    ELSE Nil

\* registry[n - 1].unwrap_or(nil), and nil for the first transaction.
Snapshot(n) ==
    IF n > 1 /\ tx_registry[n - 1] # None THEN tx_registry[n - 1] ELSE Nil

\* Mutation: begin starts over until its predecessor is decided.
LookUpSnapshot_Waits(t) ==
    /\ pc[t] = "registered"
    /\ IF \A n \in Number : n = call[t].tx_number - 1 => fate[n] # "open"
       THEN /\ call' = [call EXCEPT ![t].snapshot_tx = Snapshot(call[t].tx_number)]
            /\ pc' = [pc EXCEPT ![t] = "looked_up"]
       ELSE UNCHANGED call /\ pc' = [pc EXCEPT ![t] = "stamped"]
    /\ UNCHANGED <<state, handles, fate, committedBefore, rejected>>

LookUpSnapshot(t) ==
    /\ pc[t] = "registered"
    /\ call' = [call EXCEPT ![t].snapshot_tx = Snapshot(call[t].tx_number)]
    /\ pc' = [pc EXCEPT ![t] = "looked_up"]
    /\ UNCHANGED <<state, handles, fate, committedBefore, rejected>>

Activate(t) ==
    /\ pc[t] = "looked_up"
    /\ active' = active \cup {call[t]}
    /\ handles' = handles \cup {call[t]}
    /\ pc' = [pc EXCEPT ![t] = "idle"]
    /\ call' = [call EXCEPT ![t] = NoCall]
    /\ UNCHANGED <<next_tx, clock, tx_registry, latest_committed, fate,
                   committedBefore, rejected>>

BeginStep(t) ==
    \/ FetchNumber(t)
    \/ NewTxId(t)
    \/ Register(t)
    \/ LookUpSnapshot(t)
    \/ Activate(t)

------------------------------------------------------------------------------
(* commit and abort, with the id of a transaction begin has returned       *)

\* Mutation: a transaction that a later one has overtaken is refused as well.
Reject_Overtaken(id) ==
    /\ \A tx \in active : tx.tx_id # id \/ tx.tx_number < latest_committed
    /\ rejected' = rejected \cup {id}
    /\ UNCHANGED <<state, pc, call, handles, fate, committedBefore>>

\* active.get_mut(&tx_id) found nothing: Err(InvalidTransaction).
Reject(id) ==
    /\ \A tx \in active : tx.tx_id # id
    /\ rejected' = rejected \cup {id}
    /\ UNCHANGED <<state, pc, call, handles, fate, committedBefore>>

\* Mutation: the transaction stays in the map.
CommitFound_Keeps(id) ==
    \E tx \in active :
        /\ tx.tx_id = id
        /\ latest_committed' = tx.tx_number
        /\ fate' = [fate EXCEPT ![tx.tx_number] = "committed"]
        /\ UNCHANGED <<next_tx, clock, tx_registry, active, pc, call, handles,
                       committedBefore, rejected>>

CommitFound(id) ==
    \E tx \in active :
        /\ tx.tx_id = id
        /\ latest_committed' = tx.tx_number
        /\ active' = active \ {tx}
        /\ fate' = [fate EXCEPT ![tx.tx_number] = "committed"]
        /\ UNCHANGED <<next_tx, clock, tx_registry, pc, call, handles,
                       committedBefore, rejected>>

Commit(t, id) == pc[t] = "idle" /\ (CommitFound(id) \/ Reject(id))

\* Mutation: abort also moves latest_committed.
AbortFound_Latest(id) ==
    \E tx \in active :
        /\ tx.tx_id = id
        /\ latest_committed' = tx.tx_number
        /\ active' = active \ {tx}
        /\ fate' = [fate EXCEPT ![tx.tx_number] = "aborted"]
        /\ UNCHANGED <<next_tx, clock, tx_registry, pc, call, handles,
                       committedBefore, rejected>>

AbortFound(id) ==
    \E tx \in active :
        /\ tx.tx_id = id
        /\ active' = active \ {tx}
        /\ fate' = [fate EXCEPT ![tx.tx_number] = "aborted"]
        /\ UNCHANGED <<next_tx, clock, tx_registry, latest_committed, pc, call,
                       handles, committedBefore, rejected>>

Abort(t, id) == pc[t] = "idle" /\ (AbortFound(id) \/ Reject(id))

Decide(t) == \E tx \in handles : Commit(t, tx.tx_id) \/ Abort(t, tx.tx_id)

Next == \E t \in Thread : BeginStep(t) \/ Decide(t)

Spec == Init /\ [][Next]_vars

\* No step of begin waits for anything but a lock held for one step by
\* another thread, so a thread inside begin keeps running.  Nothing makes a
\* caller begin, commit or abort.
Fairness ==
    \A t \in Thread :
        WF_vars(NewTxId(t) \/ Register(t) \/ LookUpSnapshot(t) \/ Activate(t))

FairSpec == Spec /\ Fairness

------------------------------------------------------------------------------
(* Properties                                                              *)

\* Type invariant: the counters stay in their bounds, the registry is a vector
\* indexed from 0, and every id handed to a caller is an id, never None.
TypeOK ==
    /\ next_tx \in 1..(MaxTx + 1)
    /\ clock \in 1..MaxTime
    /\ \E k \in 0..MaxTx : tx_registry \in [0..k -> TxId \cup {None}]
    /\ active \subseteq Transaction
    /\ latest_committed \in 0..MaxTx
    /\ pc \in [Thread -> Step]
    /\ call \in [Thread -> Transaction]
    /\ handles \subseteq Transaction
    /\ fate \in [Number -> Fate]
    /\ committedBefore \in [Number -> SUBSET Number]
    /\ rejected \subseteq TxId

\* However the steps of begin in several threads interleave, a transaction
\* that begin returned still owns the registry slot of its number, and its
\* snapshot is the id in the slot before, or nil (mvcc.rs 139-158).
HandlesMatchRegistry ==
    \A tx \in handles :
        /\ tx.tx_number \in DOMAIN tx_registry \ {0}
        /\ tx_registry[tx.tx_number] = tx.tx_id
        /\ tx.snapshot_tx \in {Nil, tx_registry[tx.tx_number - 1]}

\* A returned transaction is in `active' exactly while nothing was decided
\* about it: commit and abort of racing callers decide it once
\* (mvcc.rs 176-225).
ActiveUntilDecided ==
    /\ active \subseteq handles
    /\ \A tx \in handles : tx \in active <=> fate[tx.tx_number] = "open"

\* commit and abort answer InvalidTransaction only for a transaction that
\* somebody has already committed or aborted; none is lost from `active'.
RejectedOnlyIfDecided ==
    \A tx \in handles : tx.tx_id \in rejected => fate[tx.tx_number] # "open"

\* The abstract life of a transaction number, and its refinement.
StatusOf(n) ==
    IF \E tx \in active : tx.tx_number = n THEN "active"
    ELSE IF fate[n] = "open" THEN "unborn" ELSE fate[n]

Lifecycle == INSTANCE TxLifecycle
                WITH status <- [n \in Number |-> StatusOf(n)],
                     latest <- latest_committed

\* The manager implements TxLifecycle: numbers are opened once, decided once,
\* and latest_committed always names the transaction committed last.
ImplementsLifecycle == Lifecycle!Spec

\* begin returns: a thread that took a number gets its transaction.
BeginReturns == \A t \in Thread : pc[t] # "idle" ~> pc[t] = "idle"

\* What committed before begin was called is covered by the snapshot: its id
\* is at most snapshot_tx in the order is_visible uses (mvcc.rs 130-158).
SeesEarlierCommits ==
    \A tx \in handles : \A m \in committedBefore[tx.tx_number] :
        LessEq(tx_registry[m], tx.snapshot_tx)

\* A snapshot is never later than the transaction's own id, nor than the id of
\* a transaction with a higher number: what begins later stays out of it,
\* unless it begins in the very millisecond of the snapshot.
SnapshotNotAhead ==
    \A tx, u \in handles :
        tx.tx_number =< u.tx_number => LessEq(tx.snapshot_tx, u.tx_id)

==============================================================================
