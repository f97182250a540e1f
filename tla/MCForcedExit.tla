---------------------------- MODULE MCForcedExit ----------------------------
(* TLC instances of ForcedExit; the constants are given in the cfg files.    *)
EXTENDS ForcedExit
=============================================================================
