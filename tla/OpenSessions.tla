---------------------------- MODULE OpenSessions ----------------------------
(* The sessions of all adapter processes that share a home directory.      *)
CONSTANT Sessions

VARIABLE open   \* those that have started and not ended
=============================================================================
