------------------------ MODULE MCAdminCancellation ------------------------
(* Small instances of the cancellation over the outbox for TLC.               *)
EXTENDS CancellationProperties

CONSTANTS sweep, call, pay, void
=============================================================================
