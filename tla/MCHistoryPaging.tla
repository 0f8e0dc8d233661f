-------------------------- MODULE MCHistoryPaging --------------------------
(* Instance of HistoryPaging for TLC; the bounds are in the .cfg.          *)
EXTENDS HistoryPaging, TLC
=============================================================================
