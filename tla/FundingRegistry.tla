-------------------------- MODULE FundingRegistry --------------------------
(***************************************************************************)
(* The part of EscrowAuditRegistry (and of AuditRegistryExtensible under it) *)
(* that funding depends on: revisions, withdrawals, the per-posting pause,   *)
(* the pending selection and the accepted proposal.  Postings and proposals  *)
(* are records; each external function is a pair CanX / X on them.           *)
(*                                                                         *)
(* A content hash may never be used twice, so a revision number identifies   *)
(* the content; the append-only anchors are left out.                       *)
(***************************************************************************)
EXTENDS Integers

CONSTANTS
    Proposals,      \* proposal ids
    None            \* bytes32(0) where a proposal id is expected

Posting ==
    [revision : Nat, started : BOOLEAN, paused : BOOLEAN, withdrawn : BOOLEAN,
     pending : Proposals \cup {None}, accepted : Proposals \cup {None}]

\* A posting as commitOpportunity leaves it: its only revision has index 0.
NewPosting ==
    [revision |-> 0, started |-> FALSE, paused |-> FALSE, withdrawn |-> FALSE,
     pending |-> None, accepted |-> None]

\* `submitted' is proposalEscrow[p] # 0: the escrow is created in the same call.
Proposal ==
    [submitted : BOOLEAN, revision : Nat, boundRevision : Nat,
     withdrawn : BOOLEAN, voided : BOOLEAN]

NoProposal ==
    [submitted |-> FALSE, revision |-> 0, boundRevision |-> 0,
     withdrawn |-> FALSE, voided |-> FALSE]

-----------------------------------------------------------------------------
(* Publication *)

\* _submissionOpen
SubmissionOpen(posting, expiresAt, now) == ~posting.withdrawn /\ now < expiresAt

CanUpdateOpportunity(posting, expiresAt, now) ==
    /\ ~posting.started
    /\ SubmissionOpen(posting, expiresAt, now)

UpdateOpportunity(posting) == [posting EXCEPT !.revision = @ + 1]

\* The researcher names the posting revision the proposal was written against.
CanCommitProposal(proposal, posting, expected, expiresAt, now) ==
    /\ ~proposal.submitted
    /\ posting.accepted = None
    /\ ~posting.paused
    /\ SubmissionOpen(posting, expiresAt, now)
    /\ expected = posting.revision

CommitProposal(proposal, expected) ==
    [proposal EXCEPT !.submitted = TRUE, !.boundRevision = expected]

\* Mutant: a proposal stays editable after its first deposit.
CanUpdateFundedHashes(proposal, posting, deposited, expected, expiresAt, now) ==
    /\ proposal.submitted /\ ~proposal.voided /\ ~proposal.withdrawn
    /\ SubmissionOpen(posting, expiresAt, now)
    /\ expected = posting.revision

CanUpdateHashes(proposal, posting, deposited, expected, expiresAt, now) ==
    /\ proposal.submitted /\ ~proposal.voided
    /\ deposited = 0
    /\ ~proposal.withdrawn
    /\ SubmissionOpen(posting, expiresAt, now)
    /\ expected = posting.revision

UpdateHashes(proposal, expected) ==
    [proposal EXCEPT !.revision = @ + 1, !.boundRevision = expected]

-----------------------------------------------------------------------------
(* What an escrow asks of the registry *)

\* Mutant: the digest is served for a proposal bound to an older revision too.
HasAnyContext(proposal, posting) == proposal.submitted

\* fundingContextDigest reverts unless the proposal is bound to the posting's
\* current revision; otherwise it commits to both revisions.
HasContext(proposal, posting) ==
    proposal.submitted /\ proposal.boundRevision = posting.revision

ContextDigest(proposal, posting) == <<proposal.revision, posting.revision>>

IsFundingCurrent(p, proposal, posting) ==
    /\ proposal.submitted /\ ~proposal.voided
    /\ posting.accepted \in {None, p}
    /\ ~proposal.withdrawn /\ ~posting.withdrawn

IsFundingActive(p, proposal, posting) ==
    /\ IsFundingCurrent(p, proposal, posting)
    /\ ~posting.paused
    /\ posting.pending \in {None, p}

IsFundingInvalidated(p, proposal, posting) ==
    proposal.submitted /\ ~IsFundingCurrent(p, proposal, posting)

-----------------------------------------------------------------------------
(* recordFundingEvent: what an escrow's events change for its posting *)

ClosingEvents == {"SelectionInvalidated", "Expired", "Cancelled", "Voided"}

\* The two cases in which the event, and with it the escrow's call, reverts
CanRecord(p, posting, event) ==
    /\ event = "SelectionLocked" => posting.pending = None
    /\ event = "TrancheReleased" => posting.accepted \in {None, p}

IsAward(posting, event) == event = "TrancheReleased" /\ posting.accepted = None

\* Mutant: the award leaves the selection pending.
PendingAfterAward(p, posting, event) ==
    IF event = "SelectionLocked" THEN p
    ELSE IF event \in ClosingEvents /\ posting.pending = p THEN None
    ELSE posting.pending

PendingAfter(p, posting, event) ==
    IF event = "SelectionLocked" THEN p
    ELSE IF event \in ClosingEvents /\ posting.pending = p THEN None
    ELSE IF IsAward(posting, event) THEN None
    ELSE posting.pending

\* Mutant: a payment is only logged, as it is for grants.
NeverAccepted(p, posting, event) == posting.accepted

AcceptedAfter(p, posting, event) ==
    IF IsAward(posting, event) THEN p ELSE posting.accepted

RecordOnPosting(p, posting, event) ==
    [posting EXCEPT !.started = (@ \/ event = "Deposit"),
                    !.pending = PendingAfter(p, posting, event),
                    !.accepted = AcceptedAfter(p, posting, event)]

RecordOnProposal(proposal, event) ==
    IF event = "Voided" THEN [proposal EXCEPT !.voided = TRUE] ELSE proposal

=============================================================================
