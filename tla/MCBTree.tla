------------------------------- MODULE MCBTree -------------------------------
(* Small instances of BTree for TLC.                                       *)
EXTENDS BTree

Keys == 1..3
StrayIds == {1, 6}  \* misread page ids: the first leaf and the first root
Junk == {9}         \* misread keys, behind every key
==============================================================================
