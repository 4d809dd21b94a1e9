----------------------------- MODULE MCEscrowSync -----------------------------
(* Small instances of the synchronisation for TLC.                            *)
EXTENDS SyncProperties

CONSTANTS sweep, call
=============================================================================
