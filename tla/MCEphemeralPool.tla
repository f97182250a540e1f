---------------------------- MODULE MCEphemeralPool ----------------------------
(* TLC instances of EphemeralPool; the constants are given in the cfg files.  *)
EXTENDS EphemeralPool
=============================================================================
