---------------------------- MODULE MCTransactions ----------------------------
(* TLC instances of Transactions; the constants are given in the cfg files.   *)
EXTENDS Transactions
=============================================================================
