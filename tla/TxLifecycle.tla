----------------------------- MODULE TxLifecycle -----------------------------
(***************************************************************************)
(* What the transaction manager of sabi-storage promises, and no more: a   *)
(* transaction number is opened once, an open transaction is decided once, *)
(* as committed or as aborted, and a decision is never revised.  `latest'  *)
(* is the number of the transaction whose commit came last.                *)
(***************************************************************************)
EXTENDS Naturals

CONSTANT MaxTx          \* transaction numbers are 1..MaxTx

VARIABLES status,       \* status[n]: "unborn", "active", "committed", "aborted"
          latest        \* 0, or the number committed last

lifeVars == <<status, latest>>

Status == {"unborn", "active", "committed", "aborted"}

Init ==
    /\ status = [n \in 1..MaxTx |-> "unborn"]
    /\ latest = 0

Open(n) ==
    /\ status[n] = "unborn"
    /\ status' = [status EXCEPT ![n] = "active"]
    /\ latest' = latest

Commit(n) ==
    /\ status[n] = "active"
    /\ status' = [status EXCEPT ![n] = "committed"]
    /\ latest' = n

Abort(n) ==
    /\ status[n] = "active"
    /\ status' = [status EXCEPT ![n] = "aborted"]
    /\ latest' = latest

Next == \E n \in 1..MaxTx : Open(n) \/ Commit(n) \/ Abort(n)

Spec == Init /\ [][Next]_lifeVars
==============================================================================
