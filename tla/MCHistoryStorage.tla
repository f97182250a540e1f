--------------------------- MODULE MCHistoryStorage ---------------------------
(* TLC instances of HistoryStorage; the constants are given in the cfg files. *)
EXTENDS HistoryStorage
=============================================================================
