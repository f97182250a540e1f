---------------------------- MODULE MCClientPools ----------------------------
(* TLC instances of ClientPools; the constants are given in the cfg files.   *)
EXTENDS ClientPools
=============================================================================
