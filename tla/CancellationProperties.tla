----------------------- MODULE CancellationProperties -----------------------
(***************************************************************************)
(* What administrators, depositors and the operator of the signer rely on.    *)
(***************************************************************************)
EXTENDS AdminCancellation

\* "Exactly one signed transaction may be outstanding": whatever the network has
\* received and can still execute, now or after a reorganisation, is the
\* transaction in the outbox.
OneOutstanding ==
    \A t \in broadcast :
        t.action # Outside /\ t.nonce >= Len(settled) => outbox.tx = t

\* "Pending cancellation also blocks ... platform payments": while an administrator's
\* cancellation is active no payment of that escrow is in the outbox, and none that was
\* sent can still be executed, so that a payment cannot overtake the refund.
CancellationExcludesPayment ==
    cancelling =>
        /\ outbox.tx.action \notin Payments
        /\ \A t \in broadcast : t.action \in Payments => t.nonce < Len(settled)

\* What a late reconciliation writes over a blocked request breaks it (updateJob, which
\* spares only a complete one).  The hypothesis under which it is a theorem: nobody
\* blocks the request while another reconciliation is under way.
Underway(w) == reconcile[w].pc \notin {"idle", "file", "job"}

NobodyIsOvertaken ==
    request'.status = "blocked" /\ request.status # "blocked" =>
        \A v, w \in Workers : Underway(v) /\ Underway(w) => v = w

\* A completed request is told to depositors as a full refund: the escrow is
\* voided in a block that stays, and nothing was paid from it before or since.
CompleteMeansFullRefund ==
    request.status = "complete" => Executed(Void, settled) /\ ~Paid(Chain)

\* A payment or a void is never signed again once it was executed, however late
\* the invocation that prepared it comes.
NeverSignedAgain ==
    [][outbox.tx = NoTx /\ outbox'.tx # NoTx /\ outbox'.action \in OneTime =>
            ~Executed(outbox'.action, settled)]_vars

-----------------------------------------------------------------------------
(* Blocks keep coming and carry what they can; the sweep runs every minute;   *)
(* an invocation ends, and so does a lease.                                  *)

Fairness ==
    /\ WF_vars((\E t \in broadcast : Mine(t)) /\ UNCHANGED cancellationVars)
    /\ WF_vars(EmptyBlock /\ UNCHANGED cancellationVars)
    /\ WF_vars(LeaseExpires /\ UNCHANGED cancellationVars)
    /\ SF_vars(StartSweep)
    /\ SF_vars(TakeUp(Sweeper))
    /\ \A w \in Workers : WF_vars(ReconcileStep(w)) /\ WF_vars(SignerStep(w) \/ RefuseToSign(w))

FairSpec == Spec /\ Fairness

\* The signer is never wedged: after any crash, lost transaction, replacement or
\* reorganisation, the outstanding transaction is eventually decided.
OutboxDrains == outbox.tx # NoTx ~> outbox.tx = NoTx

\* A request comes to an end: it does not keep the payments of its escrow waiting
\* for ever.  The exception is a transaction that another one replaced: its hash
\* stays with the request, and when the outbox has forgotten it nobody asks again.
\* (Bound: a signer whose nonces are used up signs nothing.)
Replaced(t) == t # NoTx /\ t.nonce < Len(settled) /\ ~IsMined(t, settled)

NoncesUsedUp == Len(settled) > MaxNonce /\ ~Executed(Void, settled)

RequestResolves == Waiting ~> ~Waiting \/ Replaced(request.hash) \/ NoncesUsedUp
=============================================================================
