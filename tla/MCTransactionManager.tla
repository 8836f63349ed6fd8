------------------------- MODULE MCTransactionManager -------------------------
(* Small instances of TransactionManager for TLC.                          *)
EXTENDS TransactionManager
==============================================================================
