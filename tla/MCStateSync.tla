---------------------------- MODULE MCStateSync ----------------------------
(* TLC instances of StateSync; the constants are given in the cfg files.   *)
EXTENDS StateSync
=============================================================================
