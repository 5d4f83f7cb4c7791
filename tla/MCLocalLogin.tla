---------------------------- MODULE MCLocalLogin ----------------------------
(* Instances of LocalLogin for TLC.                                          *)
EXTENDS LocalLogin, TLC

Symmetric == Permutations(Requests)
=============================================================================
