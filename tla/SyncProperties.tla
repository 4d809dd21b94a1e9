---------------------------- MODULE SyncProperties ----------------------------
(***************************************************************************)
(* What the dashboards, the notices and the settlement rely on.              *)
(***************************************************************************)
EXTENDS EscrowSync

\* The number of events the job has counted is the number of events at or below
\* its checkpoint, each of them written before: an interrupted, repeated or
\* overtaken run neither loses an event nor counts one twice.
CheckpointIsExact ==
    /\ job.anchors = IF Partial(job) THEN job.index ELSE Upto(job.block)
    /\ 1..job.anchors \subseteq recorded

\* The owner's request to select stands until the chain has answered it: until its
\* own lock or decline is confirmed, or the escrow closed without a payment.
RequestStandsUntilAnswered ==
    [][job.requested /\ (~job'.requested \/ job'.id # job.id) =>
          \/ \E i \in 1..Upto(height) :
                chain[i].id = job.id /\ chain[i].kind \in {"Locked", "Declined"}
          \/ UnpaidTerminal(Upto(height))]_vars

-----------------------------------------------------------------------------
(* The sweep runs every minute; blocks follow each other, and the outbox        *)
(* delivers (OutboxDrains of CancellationProperties).  An invocation ends: short *)
(* of a fault by its own next step, which it always has (as WF of its steps would *)
(* say, which costs TLC more).                                                *)

Fairness ==
    /\ WF_vars(ConfirmBlock) /\ WF_vars(Settle) /\ WF_vars(LeaseExpires)
    /\ SF_vars(~job.live /\ Claim(Sweeper))
    /\ \A w \in Workers : []<>At(w, "idle")

FairSpec == Spec /\ Fairness

Confirmed == Upto(height)

\* Whatever fails on the way, once the escrow is quiet every confirmed event is
\* recorded and the summary shows the escrow after it.
MirrorConverges ==
    <>[](recorded = 1..Confirmed /\ Upto(summary) = Confirmed)

\* A confirmed first payment accepts the proposal for the posting; a confirmed
\* decline rejects it, even when the pages that tell of it are read by different
\* runs; and a posting does not stay reserved for a proposal whose escrow closed
\* unpaid.
OutcomeIsMirrored ==
    <>[](/\ Has(Confirmed, "Upfront") => proposal = "accepted" /\ posting.accepted
         /\ Has(Confirmed, "Declined") => proposal = "rejected"
         /\ UnpaidTerminal(Confirmed) => posting.selection = NoId)
=============================================================================
