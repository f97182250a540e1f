-------------------------- MODULE MCTransactionParts --------------------------
(* TLC instances of TransactionParts; the constants are given in the cfg files. *)
EXTENDS TransactionParts
=============================================================================
