--------------------------------- MODULE MCWal ---------------------------------
(* Wal with two transaction ids whose first three fields read the same in     *)
(* neither byte order.                                                         *)
EXTENDS Wal

MCTx == {[i \in 1..16 |-> (i * n) % 256] : n \in {1, 7}}

==============================================================================
