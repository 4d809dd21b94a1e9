--------------------------- MODULE EscrowTheorems ---------------------------
(***************************************************************************)
(* The escrow workflow keeps its promises for any number of postings,        *)
(* proposals and funders, any plan, fee, target and windows.                *)
(*                                                                         *)
(* The inductive invariant is TypeOK and, for every proposal, ProposalInv:   *)
(* a relation between its escrow, its record, its posting and the tokens     *)
(* held.  Each action changes one proposal's escrow and its posting, so a    *)
(* step is proved once for the proposal it concerns, with the lemmas of       *)
(* FundingEscrowProofs, and once for all its rivals (RivalStep).  The          *)
(* theorems follow from it, the action properties and the refinement of       *)
(* AwardProtocol by going through the actions once more.                     *)
(*                                                                         *)
(* Last, the tree in which the contract keeps the funders' intervals does      *)
(* what the escrow's operators say of them.                                  *)
(***************************************************************************)
EXTENDS EscrowProperties, FenwickTree, FundingEscrowProofs

ProposalInv(p, e, proposal, posting, held) ==
    /\ EscrowInv(e)
    /\ held = Unpaid(e) - e.totalRefunded
    /\ ~proposal.submitted => e = NewEscrow
    /\ posting.pending = p <=> e.state = "Locked"
    /\ posting.accepted = p <=> e.currentTranche > 0
    /\ e.totalDeposited > 0 =>
          posting.started /\ proposal.boundRevision = posting.revision

Inv ==
    /\ TypeOK
    /\ \A p \in Proposals :
          ProposalInv(p, escrows[p], proposals[p], PostingFor(p), custody[p])

-----------------------------------------------------------------------------
(* The registry's records *)

\* recordFundingEvent changes the posting's start, pending and accepted fields.
LEMMA PostingFields ==
    ASSUME NEW posting \in Posting, NEW p \in Proposals, NEW event
    PROVE  LET r == RecordOnPosting(p, posting, event)
           IN /\ r \in Posting
              /\ r.pending = PendingAfter(p, posting, event)
              /\ r.accepted = AcceptedAfter(p, posting, event)
              /\ r.started <=> posting.started \/ event = "Deposit"
              /\ r.revision = posting.revision
  <1> DEFINE r == RecordOnPosting(p, posting, event)
             started == posting.started \/ event = "Deposit"
             pending == PendingAfter(p, posting, event)
             accepted == AcceptedAfter(p, posting, event)
  <1>1. started \in BOOLEAN
    OBVIOUS
  <1>2. pending \in Proposals \cup {None} /\ accepted \in Proposals \cup {None}
    BY DEF Posting, PendingAfter, AcceptedAfter
  <1>3. r = [posting EXCEPT !.started = started, !.pending = pending, !.accepted = accepted]
    BY DEF RecordOnPosting
  <1> HIDE DEF r, started, pending, accepted
  <1>4. r \in Posting
    BY <1>1, <1>2, <1>3, Zenon DEF Posting
  <1>5. /\ r.pending = pending /\ r.accepted = accepted /\ r.started = started
        /\ r.revision = posting.revision
    BY <1>3, Zenon DEF Posting
  <1> QED BY <1>4, <1>5, Zenon DEF r, started, pending, accepted

LEMMA ProposalFields ==
    ASSUME NEW proposal \in Proposal, NEW event
    PROVE  LET r == RecordOnProposal(proposal, event)
           IN /\ r \in Proposal /\ r.submitted = proposal.submitted
              /\ r.boundRevision = proposal.boundRevision
              /\ r.revision = proposal.revision
  BY DEF RecordOnProposal, Proposal

\* What an event changes for one proposal it leaves alone for the others, as long
\* as a selection is locked only on a free posting and an award ends the winner's
\* own selection.
LEMMA RivalStep ==
    ASSUME NEW p \in Proposals, NEW r \in Proposals, r # p,
           NEW posting \in Posting, NEW e, NEW proposal, NEW held, NEW event,
           ProposalInv(r, e, proposal, posting, held),
           event = "SelectionLocked" => posting.pending = None,
           IsAward(posting, event) => posting.pending \in {None, p}
    PROVE  ProposalInv(r, e, proposal, RecordOnPosting(p, posting, event), held)
  <1> DEFINE after == RecordOnPosting(p, posting, event)
  <1>1. /\ after.pending = PendingAfter(p, posting, event)
        /\ after.accepted = AcceptedAfter(p, posting, event)
        /\ posting.started => after.started
        /\ after.revision = posting.revision
    BY PostingFields
  <1> HIDE DEF after
  <1>2. None # r
    BY WorkflowAssumption
  <1>3. after.pending = r <=> posting.pending = r
    BY <1>1, <1>2 DEF PendingAfter, IsAward
  <1>4. after.accepted = r <=> posting.accepted = r
    BY <1>1, <1>2 DEF AcceptedAfter, IsAward
  <1> QED BY <1>1, <1>3, <1>4 DEF ProposalInv, after

-----------------------------------------------------------------------------
(* A transaction, seen from the proposal it concerns *)

\* What is left to show of an action: the lock, the award and the binding agree
\* with the escrow the action leaves.
Agrees(p, d, proposal, posting, event) ==
    /\ PendingAfter(p, posting, event) = p <=> d.state = "Locked"
    /\ AcceptedAfter(p, posting, event) = p <=> d.currentTranche > 0
    /\ d.totalDeposited > 0 =>
          /\ posting.started \/ event = "Deposit"
          /\ proposal.boundRevision = posting.revision

LEMMA OwnStep ==
    ASSUME NEW p \in Proposals, NEW posting \in Posting, NEW proposal \in Proposal,
           NEW d \in Escrow, NEW event, NEW held,
           EscrowInv(d), proposal.submitted, held = Unpaid(d) - d.totalRefunded,
           Agrees(p, d, proposal, posting, event)
    PROVE  ProposalInv(p, d, RecordOnProposal(proposal, event),
                       RecordOnPosting(p, posting, event), held)
  <1> DEFINE after == RecordOnPosting(p, posting, event)
             filed == RecordOnProposal(proposal, event)
  <1>1. /\ after.pending = PendingAfter(p, posting, event)
        /\ after.accepted = AcceptedAfter(p, posting, event)
        /\ after.started <=> posting.started \/ event = "Deposit"
        /\ after.revision = posting.revision
    BY PostingFields
  <1>2. filed.submitted = proposal.submitted /\ filed.boundRevision = proposal.boundRevision
    BY ProposalFields
  <1> HIDE DEF after, filed
  <1>3. ProposalInv(p, d, filed, after, held)
    BY <1>1, <1>2 DEF ProposalInv, Agrees
  <1> QED BY <1>3 DEF after, filed

\* What a transaction on p does not touch.
Elsewhere(p) ==
    /\ now' = now /\ listed' = listed
    /\ reviewed' \in [Funders -> [Proposals -> Digests \cup {NoReview}]]
    /\ signed' \in [Proposals -> [Parties -> Signatures \cup {NoSignature}]]

LEMMA TransactionStep ==
    ASSUME Inv, NEW p \in Proposals, NEW d \in Escrow, NEW event, NEW held \in Nat,
           EscrowInv(d), proposals[p].submitted, held = Unpaid(d) - d.totalRefunded,
           Agrees(p, d, proposals[p], PostingFor(p), event),
           event = "TrancheReleased" => escrows[p].state \in {"Locked", "Active"},
           Transact(p, d, event), Elsewhere(p),
           custody' = [custody EXCEPT ![p] = held]
    PROVE  Inv'
  <1> DEFINE q == PostingOf[p]
             posting == RecordOnPosting(p, postings[q], event)
             proposal == RecordOnProposal(proposals[p], event)
  <1>1. /\ q \in Postings /\ postings[q] \in Posting /\ PostingFor(p) = postings[q]
        /\ proposals[p] \in Proposal /\ None \notin Proposals
        /\ PostingOf \in [Proposals -> Postings]
    BY WorkflowAssumption DEF Inv, TypeOK, PostingFor
  <1>2. /\ escrows' = [escrows EXCEPT ![p] = d]
        /\ postings' = [postings EXCEPT ![q] = posting]
        /\ proposals' = [proposals EXCEPT ![p] = proposal]
        /\ event = "SelectionLocked" => postings[q].pending = None
    BY <1>1 DEF Transact, CanRecord
  <1>3. posting \in Posting
    BY <1>1, PostingFields
  <1>4. proposal \in Proposal
    BY <1>1, ProposalFields
  <1>5. ProposalInv(p, d, proposal, posting, held)
    BY <1>1, OwnStep
  <1>6. IsAward(postings[q], event) => postings[q].pending \in {None, p}
    <2>1. ProposalInv(p, escrows[p], proposals[p], postings[q], custody[p])
      BY <1>1 DEF Inv
    <2>2. SUFFICES ASSUME event = "TrancheReleased", postings[q].accepted = None
                   PROVE  postings[q].pending = p
      BY DEF IsAward
    <2>3. escrows[p] \in Escrow /\ ~(escrows[p].currentTranche > 0)
      BY <2>1, <2>2, <1>1 DEF ProposalInv, Inv, TypeOK
    <2>4. escrows[p].state = "Locked"
      BY <2>1, <2>2, <2>3 DEF ProposalInv, EscrowInv, StateAgrees
    <2> QED BY <2>1, <2>4 DEF ProposalInv
  <1>7. ASSUME NEW r \in Proposals, r # p, PostingOf[r] = q
        PROVE  ProposalInv(r, escrows[r], proposals[r], posting, custody[r])
    <2>1. ProposalInv(r, escrows[r], proposals[r], postings[q], custody[r])
      BY <1>7 DEF Inv, PostingFor
    <2> QED BY <2>1, <1>1, <1>2, <1>6, <1>7, RivalStep
  <1>8. TypeOK'
    BY <1>1, <1>2, <1>3, <1>4 DEF Inv, TypeOK, Elsewhere
  <1>9. ASSUME NEW r \in Proposals
        PROVE  ProposalInv(r, escrows'[r], proposals'[r], postings'[PostingOf[r]], custody'[r])
    <2> HIDE DEF posting, proposal, q
    <2>1. /\ escrows \in [Proposals -> Escrow] /\ custody \in [Proposals -> Nat]
          /\ proposals \in [Proposals -> Proposal] /\ postings \in [Postings -> Posting]
      BY DEF Inv, TypeOK
    <2>2. CASE r = p
      <3>1. /\ escrows'[r] = d /\ proposals'[r] = proposal /\ custody'[r] = held
            /\ postings'[PostingOf[r]] = posting
        BY <2>1, <2>2, <1>1, <1>2 DEF q
      <3> QED BY <3>1, <2>2, <1>5
    <2>3. CASE r # p
      <3>1. /\ escrows'[r] = escrows[r] /\ proposals'[r] = proposals[r]
            /\ custody'[r] = custody[r]
        BY <2>1, <2>3, <1>2
      <3>2. CASE PostingOf[r] = q
        <4>1. postings'[PostingOf[r]] = posting
          BY <3>2, <2>1, <1>1, <1>2
        <4> QED BY <4>1, <3>1, <3>2, <2>3, <1>7
      <3>3. CASE PostingOf[r] # q
        <4>1. postings'[PostingOf[r]] = postings[PostingOf[r]]
          BY <3>3, <2>1, <1>1, <1>2
        <4>2. ProposalInv(r, escrows[r], proposals[r], postings[PostingOf[r]], custody[r])
          BY DEF Inv, PostingFor
        <4> QED BY <4>1, <4>2, <3>1
      <3> QED BY <3>2, <3>3
    <2> QED BY <2>2, <2>3
  <1> QED BY <1>8, <1>9 DEF Inv, PostingFor

-----------------------------------------------------------------------------
(* How one transaction moves one escrow's money *)

Keeps(e, d, h, k) ==
    /\ d.totalDeposited = e.totalDeposited /\ d.totalReleased = e.totalReleased
    /\ d.totalRefunded = e.totalRefunded
    /\ d.refundsEnabled = e.refundsEnabled /\ d.refundPool = e.refundPool
    /\ k = h

Collects(e, d, h, k, amount) ==
    /\ ~e.refundsEnabled /\ ~d.refundsEnabled
    /\ e.totalReleased = 0 /\ d.totalReleased = 0
    /\ d.totalDeposited = e.totalDeposited + amount
    /\ d.totalRefunded = e.totalRefunded
    /\ k = h + amount

Pays(e, d, h, k, amount) ==
    /\ ~e.refundsEnabled /\ ~d.refundsEnabled
    /\ e.totalDeposited = Target /\ d.totalDeposited = Target
    /\ d.totalReleased = e.totalReleased + amount
    /\ d.totalRefunded = e.totalRefunded
    /\ amount <= h /\ k = h - amount

Opens(e, d, h, k) ==
    /\ ~e.refundsEnabled /\ d.refundsEnabled
    /\ d.totalDeposited = e.totalDeposited /\ d.totalReleased = e.totalReleased
    /\ d.totalRefunded = e.totalRefunded
    /\ k = h

Refunds(e, d, h, k, amount) ==
    /\ d.refundsEnabled /\ (e.refundsEnabled => d.refundPool = e.refundPool)
    /\ d.totalDeposited = e.totalDeposited /\ d.totalReleased = e.totalReleased
    /\ d.totalRefunded = e.totalRefunded + amount
    /\ amount <= h /\ k = h - amount

DeadlineKept(e, d) ==
    e.state \in {"Locked", "Active"} /\ d.totalReleased = e.totalReleased =>
        d.approvalDeadline <= e.approvalDeadline

Moves(e, d, h, k) ==
    /\ DeadlineKept(e, d)
    /\ \/ Keeps(e, d, h, k)
       \/ Opens(e, d, h, k)
       \/ \E amount \in 1..Target :
             \/ Collects(e, d, h, k, amount)
             \/ Pays(e, d, h, k, amount)
             \/ Refunds(e, d, h, k, amount)

\* The step changes p's escrow to d and what it holds to k, and no other's.
Changes(p, d, k) ==
    /\ escrows' = [escrows EXCEPT ![p] = d]
    /\ custody' = [custody EXCEPT ![p] = k]
    /\ Moves(escrows[p], d, custody[p], k)

\* What the invariant says of one proposal, in the form the steps use.
LEMMA Here ==
    ASSUME Inv, NEW p \in Proposals
    PROVE  /\ escrows[p] \in Escrow /\ EscrowInv(escrows[p])
           /\ PostingFor(p) \in Posting /\ proposals[p] \in Proposal
           /\ custody[p] \in Nat /\ now \in Nat
           /\ custody = [custody EXCEPT ![p] = custody[p]]
           /\ ProposalInv(p, escrows[p], proposals[p], PostingFor(p), custody[p])
  <1>1. PostingFor(p) \in Posting
    BY WorkflowAssumption DEF Inv, TypeOK, PostingFor
  <1>2. now \in Nat
    BY WorkflowAssumption DEF Inv, TypeOK
  <1>3. /\ escrows[p] \in Escrow /\ proposals[p] \in Proposal /\ custody[p] \in Nat
        /\ custody = [custody EXCEPT ![p] = custody[p]]
    BY DEF Inv, TypeOK
  <1>4. ProposalInv(p, escrows[p], proposals[p], PostingFor(p), custody[p])
    BY DEF Inv
  <1> QED BY <1>1, <1>2, <1>3, <1>4 DEF ProposalInv

\* Only a filed proposal has an escrow that left its initial state.
LEMMA Filed ==
    ASSUME Inv, NEW p \in Proposals, escrows[p].state # "Open"
    PROVE  proposals[p].submitted
  <1>1. NewEscrow.state = "Open"
    BY Zenon DEF NewEscrow
  <1> QED BY <1>1, Here DEF ProposalInv

LEMMA ActiveFacts ==
    ASSUME NEW p \in Proposals, Active(p)
    PROVE  /\ proposals[p].submitted
           /\ PostingFor(p).accepted \in {None, p} /\ PostingFor(p).pending \in {None, p}
  BY DEF Active, IsFundingActive, IsFundingCurrent

\* Transactions that move no money and leave the refunds as they were.
LEMMA QuietStep ==
    ASSUME Inv, NEW p \in Proposals, NEW d \in Escrow, EscrowInv(d),
           SameBooks(d, escrows[p]), SameRefunds(d, escrows[p]),
           NEW event \in {"SelectionLocked", "Approval", "MilestoneSubmitted", "FunderVote"},
           IF event = "SelectionLocked" THEN d.state = "Locked" ELSE d.state = escrows[p].state,
           DeadlineKept(escrows[p], d), proposals[p].submitted,
           Transact(p, d, event), Elsewhere(p), custody' = custody
    PROVE  Inv' /\ Changes(p, d, custody[p])
  <1>1. /\ custody[p] \in Nat /\ custody' = [custody EXCEPT ![p] = custody[p]]
        /\ ProposalInv(p, escrows[p], proposals[p], PostingFor(p), custody[p])
    BY Here
  <1>2. custody[p] = Unpaid(d) - d.totalRefunded
    BY <1>1 DEF ProposalInv, SameBooks, Unpaid
  <1>3. Agrees(p, d, proposals[p], PostingFor(p), event)
    BY <1>1 DEF ProposalInv, SameBooks, Agrees, PendingAfter, AcceptedAfter, IsAward, ClosingEvents
  <1>4. Inv'
    BY <1>1, <1>2, <1>3, TransactionStep
  <1>5. Moves(escrows[p], d, custody[p], custody[p])
    BY DEF Moves, Keeps, SameBooks, SameRefunds
  <1>6. escrows' = [escrows EXCEPT ![p] = d]
    BY DEF Transact
  <1> QED BY <1>1, <1>4, <1>5, <1>6 DEF Changes

\* Transactions that open refunds, or open them again for another reason.
LEMMA ClosingStep ==
    ASSUME Inv, NEW p \in Proposals, NEW d \in Escrow, EscrowInv(d),
           SameBooks(d, escrows[p]), d.refundsEnabled,
           escrows[p].refundsEnabled => d.refundPool = escrows[p].refundPool,
           NEW event \in ClosingEvents, d.state # "Locked",
           DeadlineKept(escrows[p], d), proposals[p].submitted,
           Transact(p, d, event), Elsewhere(p), custody' = custody
    PROVE  Inv' /\ Changes(p, d, custody[p])
  <1>1. /\ custody[p] \in Nat /\ custody' = [custody EXCEPT ![p] = custody[p]]
        /\ ProposalInv(p, escrows[p], proposals[p], PostingFor(p), custody[p])
        /\ d.refundsEnabled \in BOOLEAN /\ escrows[p].refundsEnabled \in BOOLEAN
    BY Here DEF Escrow
  <1>2. custody[p] = Unpaid(d) - d.totalRefunded
    BY <1>1 DEF ProposalInv, SameBooks, Unpaid
  <1>3. Agrees(p, d, proposals[p], PostingFor(p), event)
    BY <1>1, WorkflowAssumption
       DEF ProposalInv, SameBooks, Agrees, PendingAfter, AcceptedAfter, IsAward, ClosingEvents
  <1>4. Inv'
    BY <1>1, <1>2, <1>3, TransactionStep DEF ClosingEvents
  <1>5. Moves(escrows[p], d, custody[p], custody[p])
    BY <1>1 DEF Moves, Keeps, Opens, SameBooks
  <1>6. escrows' = [escrows EXCEPT ![p] = d]
    BY DEF Transact
  <1> QED BY <1>1, <1>4, <1>5, <1>6 DEF Changes

-----------------------------------------------------------------------------
(* One lemma per action on an escrow *)

LEMMA LockStep ==
    ASSUME Inv, NEW p \in Proposals, LockSelection(p)
    PROVE  Inv' /\ \E d, k : Changes(p, d, k)
  <1> DEFINE e == escrows[p]
             d == Lock(e, now)
  <1>1. e \in Escrow /\ EscrowInv(e) /\ now \in Nat
    BY Here
  <1>2. CanLock(e, now) /\ Active(p) /\ Transact(p, d, "SelectionLocked")
    BY DEF LockSelection
  <1>3. Elsewhere(p) /\ custody' = custody
    BY DEF LockSelection, Elsewhere, Inv, TypeOK
  <1>4. d \in Escrow /\ EscrowInv(d)
    BY <1>1, <1>2, LockInv
  <1>5. d.state = "Locked" /\ SameBooks(d, e) /\ SameRefunds(d, e)
    BY <1>1, Zenon DEF Lock, Escrow, SameBooks, SameRefunds
  <1>6. DeadlineKept(e, d)
    BY <1>2 DEF DeadlineKept, CanLock
  <1>7. proposals[p].submitted
    BY <1>2, ActiveFacts
  <1> HIDE DEF d
  <1> QED BY <1>2, <1>3, <1>4, <1>5, <1>6, <1>7, QuietStep

LEMMA ApproveStep ==
    ASSUME Inv, NEW p \in Proposals, NEW party \in Parties, NEW index, NEW evidence,
           ApproveTranche(p, party, index, evidence), index \in Nat,
           evidence \in Evidence \cup {NoEvidence}
    PROVE  Inv' /\ \E d, k : Changes(p, d, k)
  <1> DEFINE e == escrows[p]
             d == Approve(e, party)
  <1>1. e \in Escrow /\ EscrowInv(e)
    BY Here
  <1>2. Active(p) /\ Transact(p, d, "Approval")
    BY DEF ApproveTranche
  <1>3. Elsewhere(p) /\ custody' = custody
    BY DEF ApproveTranche, Elsewhere, Inv, TypeOK, Signatures
  <1>4. d \in Escrow /\ EscrowInv(d)
    BY <1>1, ApproveInv
  <1>5. /\ d.state = e.state /\ SameBooks(d, e) /\ SameRefunds(d, e)
        /\ d.approvalDeadline = e.approvalDeadline /\ e.approvalDeadline \in Nat
    BY <1>1, Zenon DEF Approve, Escrow, SameBooks, SameRefunds
  <1>6. proposals[p].submitted
    BY <1>2, ActiveFacts
  <1> HIDE DEF d
  <1>7. DeadlineKept(e, d)
    BY <1>5 DEF DeadlineKept
  <1> QED BY <1>2, <1>3, <1>4, <1>5, <1>6, <1>7, QuietStep

LEMMA SubmitStep ==
    ASSUME Inv, NEW p \in Proposals, NEW index, NEW evidence \in Evidence,
           SubmitEvidence(p, index, evidence)
    PROVE  Inv' /\ \E d, k : Changes(p, d, k)
  <1> DEFINE e == escrows[p]
             d == SubmitMilestone(e, evidence)
  <1>1. e \in Escrow /\ EscrowInv(e)
    BY Here
  <1>2. Active(p) /\ Transact(p, d, "MilestoneSubmitted")
    BY DEF SubmitEvidence
  <1>3. Elsewhere(p) /\ custody' = custody
    BY DEF SubmitEvidence, Elsewhere, Inv, TypeOK
  <1>4. d \in Escrow /\ EscrowInv(d)
    BY <1>1, SubmitMilestoneInv
  <1>5. /\ d.state = e.state /\ SameBooks(d, e) /\ SameRefunds(d, e)
        /\ d.approvalDeadline = e.approvalDeadline /\ e.approvalDeadline \in Nat
    BY <1>1, Zenon DEF SubmitMilestone, Escrow, SameBooks, SameRefunds
  <1>6. proposals[p].submitted
    BY <1>2, ActiveFacts
  <1> HIDE DEF d
  <1>7. DeadlineKept(e, d)
    BY <1>5 DEF DeadlineKept
  <1> QED BY <1>2, <1>3, <1>4, <1>5, <1>6, <1>7, QuietStep

LEMMA VoteStep ==
    ASSUME Inv, NEW p \in Proposals, NEW f \in Funders, NEW index, NEW evidence,
           NEW ballot \in {"yes", "no"}, VoteMilestone(f, p, index, evidence, ballot)
    PROVE  Inv' /\ \E d, k : Changes(p, d, k)
  <1> DEFINE e == escrows[p]
             d == Vote(e, f, ballot)
  <1>1. e \in Escrow /\ EscrowInv(e)
    BY Here
  <1>2. Active(p) /\ Transact(p, d, "FunderVote")
    BY DEF VoteMilestone
  <1>3. Elsewhere(p) /\ custody' = custody
    BY DEF VoteMilestone, Elsewhere, Inv, TypeOK
  <1>4. d \in Escrow /\ EscrowInv(d)
    BY <1>1, VoteInv
  <1>5. /\ d.state = e.state /\ SameBooks(d, e) /\ SameRefunds(d, e)
        /\ d.approvalDeadline = e.approvalDeadline /\ e.approvalDeadline \in Nat
    BY <1>1, Zenon DEF Vote, Escrow, SameBooks, SameRefunds
  <1>6. proposals[p].submitted
    BY <1>2, ActiveFacts
  <1> HIDE DEF d
  <1>7. DeadlineKept(e, d)
    BY <1>5 DEF DeadlineKept
  <1> QED BY <1>2, <1>3, <1>4, <1>5, <1>6, <1>7, QuietStep

\* The four ways of opening refunds with OpenRefunds alone.
LEMMA OpenStep ==
    ASSUME Inv, NEW p \in Proposals, NEW next \in {"Cancelled", "Expired", "Voided"},
           NEW availableAt \in Nat, NEW event \in ClosingEvents, proposals[p].submitted,
           escrows[p].state \notin {"Released", "Refunded"},
           Transact(p, OpenRefunds(escrows[p], next, availableAt), event),
           Elsewhere(p), custody' = custody
    PROVE  Inv' /\ \E d, k : Changes(p, d, k)
  <1> DEFINE e == escrows[p]
             d == OpenRefunds(e, next, availableAt)
  <1>1. e \in Escrow /\ EscrowInv(e)
    BY Here
  <1>2. /\ d \in Escrow /\ EscrowInv(d) /\ SameBooks(d, e)
        /\ d.refundsEnabled /\ d.state = next
        /\ e.refundsEnabled => d.refundPool = e.refundPool
    BY <1>1, OpenRefundsInv
  <1>3. d.approvalDeadline = e.approvalDeadline /\ e.approvalDeadline \in Nat
    BY <1>1, Zenon DEF OpenRefunds, Escrow
  <1> HIDE DEF d
  <1>4. DeadlineKept(e, d)
    BY <1>3 DEF DeadlineKept
  <1>5. Transact(p, d, event)
    BY DEF d
  <1> QED BY <1>2, <1>4, <1>5, ClosingStep

LEMMA InvalidateStep ==
    ASSUME Inv, NEW p \in Proposals,
           PlatformInvalidateSelection(p) \/ RejectSelection(p)
    PROVE  Inv' /\ \E d, k : Changes(p, d, k)
  <1> DEFINE e == escrows[p]
             d == InvalidateSelection(e, now)
  <1>1. e \in Escrow /\ EscrowInv(e) /\ now \in Nat
    BY Here
  <1>2. e.state = "Locked" /\ Transact(p, d, "SelectionInvalidated")
    BY DEF PlatformInvalidateSelection, RejectSelection, CanInvalidateSelection,
           CanRejectSelection
  <1>3. Elsewhere(p) /\ custody' = custody
    BY DEF PlatformInvalidateSelection, RejectSelection, Elsewhere, Inv, TypeOK
  <1>4. /\ d \in Escrow /\ EscrowInv(d) /\ SameBooks(d, e)
        /\ d.refundsEnabled /\ d.state = "Cancelled" /\ d.approvalDeadline = 0
    BY <1>1, <1>2, InvalidateSelectionInv
  <1>5. ~e.refundsEnabled /\ e.approvalDeadline \in Nat
    BY <1>1, <1>2 DEF EscrowInv, StateAgrees, RefundStates, Escrow
  <1>6. proposals[p].submitted
    BY <1>2, Filed
  <1> HIDE DEF d
  <1>7. DeadlineKept(e, d)
    BY <1>4, <1>5 DEF DeadlineKept
  <1>8. "SelectionInvalidated" \in ClosingEvents
    BY DEF ClosingEvents
  <1> QED BY <1>2, <1>3, <1>4, <1>5, <1>6, <1>7, <1>8, ClosingStep

LEMMA UnwindStep ==
    ASSUME Inv, NEW p \in Proposals,
           CancelEscrow(p) \/ VoidEscrow(p) \/ RefundInvalidated(p) \/ ExpireEscrow(p)
    PROVE  Inv' /\ \E d, k : Changes(p, d, k)
  <1> DEFINE e == escrows[p]
  <1>1. now \in Nat /\ ExpiresAt \in Nat
    BY Here, Sizes
  <1>2. Elsewhere(p) /\ custody' = custody
    BY DEF CancelEscrow, VoidEscrow, RefundInvalidated, ExpireEscrow, Elsewhere, Inv, TypeOK
  <1>3. {"Cancelled", "Voided", "Expired"} \subseteq ClosingEvents
    BY DEF ClosingEvents
  <1>4. CASE CancelEscrow(p)
    <2>1. /\ proposals[p].submitted /\ e.state \notin {"Released", "Refunded"}
          /\ Transact(p, OpenRefunds(e, "Cancelled", ExpiresAt), "Cancelled")
      BY <1>4 DEF CancelEscrow, CanCancel, Cancel
    <2> QED BY <2>1, <1>1, <1>2, <1>3, OpenStep
  <1>5. CASE VoidEscrow(p) \/ RefundInvalidated(p)
    <2>1. /\ proposals[p].submitted /\ e.state \notin {"Released", "Refunded"}
          /\ Transact(p, OpenRefunds(e, "Voided", now), "Voided")
      BY <1>5 DEF VoidEscrow, RefundInvalidated, CanVoid, Void, IsFundingInvalidated
    <2> QED BY <2>1, <1>1, <1>2, <1>3, OpenStep
  <1>6. CASE ExpireEscrow(p)
    <2>1. /\ proposals[p].submitted /\ e.state \notin {"Released", "Refunded"}
          /\ Transact(p, OpenRefunds(e, "Expired", now), "Expired")
      BY <1>6 DEF ExpireEscrow, CanExpire, Expire
    <2> QED BY <2>1, <1>1, <1>2, <1>3, OpenStep
  <1> QED BY <1>4, <1>5, <1>6

LEMMA BookNumbers ==
    ASSUME NEW e \in Escrow
    PROVE  /\ e.totalDeposited \in Nat /\ e.totalDeposited <= Target
           /\ e.totalReleased \in Nat /\ e.totalRefunded \in Nat
           /\ e.approvalDeadline \in Nat /\ e.currentTranche \in Nat
  <1>1. /\ e.totalDeposited \in 0..Target /\ e.totalReleased \in 0..Target
        /\ e.totalRefunded \in Nat /\ e.approvalDeadline \in Nat
        /\ e.currentTranche \in 0..Tranches
    BY Zenon DEF Escrow
  <1> QED BY <1>1, Sizes

LEMMA DepositStep ==
    ASSUME Inv, NEW f \in Funders, NEW p \in Proposals, NEW amount \in Amounts,
           DepositAmount(f, p, amount) \/ DepositReviewed(f, p, amount)
    PROVE  Inv' /\ \E d, k : Changes(p, d, k)
  <1> DEFINE e == escrows[p]
             d == Deposit(e, f, amount)
             k == custody[p] + amount
  <1>1. /\ e \in Escrow /\ EscrowInv(e) /\ now \in Nat /\ custody[p] \in Nat
        /\ ProposalInv(p, e, proposals[p], PostingFor(p), custody[p])
        /\ amount \in Nat
    BY Here, WorkflowAssumption
  <1>2. /\ CanDeposit(e, amount, now) /\ Active(p) /\ Transact(p, d, "Deposit")
        /\ custody' = [custody EXCEPT ![p] = @ + amount]
        /\ UNCHANGED <<now, listed, signed>>
    BY DEF DepositAmount, DepositReviewed, TakeDeposit
  <1>3. custody' = [custody EXCEPT ![p] = k]
    BY <1>2
  <1>4. Elsewhere(p)
    <2>1. reviewed' = reviewed \/ reviewed' = [reviewed EXCEPT ![f][p] = NoReview]
      BY DEF DepositAmount, DepositReviewed
    <2>2. /\ reviewed \in [Funders -> [Proposals -> Digests \cup {NoReview}]]
          /\ signed \in [Proposals -> [Parties -> Signatures \cup {NoSignature}]]
      BY DEF Inv, TypeOK
    <2> DEFINE reviews == Digests \cup {NoReview}
    <2>3. NoReview \in reviews
      OBVIOUS
    <2> HIDE DEF reviews
    <2>4. [reviewed EXCEPT ![f][p] = NoReview] \in [Funders -> [Proposals -> reviews]]
      BY <2>2, <2>3 DEF reviews
    <2>5. reviewed' \in [Funders -> [Proposals -> Digests \cup {NoReview}]]
      BY <2>1, <2>2, <2>4 DEF reviews
    <2> QED BY <1>2, <2>2, <2>5 DEF Elsewhere
  <1>5. d \in Escrow /\ EscrowInv(d)
    BY <1>1, <1>2, DepositInv
  <1>6. /\ d.state = e.state /\ d.totalDeposited = e.totalDeposited + amount
        /\ d.totalReleased = e.totalReleased /\ d.totalRefunded = e.totalRefunded
        /\ d.refundsEnabled = e.refundsEnabled /\ d.currentTranche = e.currentTranche
        /\ e.totalReleased \in Nat /\ e.totalDeposited \in Nat /\ e.totalRefunded \in Nat
        /\ e.totalDeposited <= Target
    <2>1. /\ d.state = e.state /\ d.totalDeposited = e.totalDeposited + amount
          /\ d.totalReleased = e.totalReleased /\ d.totalRefunded = e.totalRefunded
          /\ d.refundsEnabled = e.refundsEnabled /\ d.currentTranche = e.currentTranche
      BY <1>1, Zenon DEF Deposit, Escrow
    <2> HIDE DEF d
    <2>2. /\ e.totalReleased \in Nat /\ e.totalDeposited \in Nat /\ e.totalRefunded \in Nat
          /\ e.totalDeposited <= Target
      BY <1>1, BookNumbers
    <2> QED BY <2>1, <2>2
  <1> HIDE DEF d
  <1>7. e.state = "Open" /\ ~e.refundsEnabled /\ e.currentTranche = 0
    BY <1>1, <1>2 DEF CanDeposit, EscrowInv, StateAgrees, RefundStates
  <1>8. e.totalReleased = 0
    BY <1>1, <1>7, PlanAmounts DEF EscrowInv, BooksFollowPlan
  <1>9. k \in Nat /\ k = Unpaid(d) - d.totalRefunded
    BY <1>1, <1>6 DEF ProposalInv, Unpaid
  <1>10. proposals[p].boundRevision = PostingFor(p).revision
    <2>1. CASE DepositAmount(f, p, amount)
      <3>1. e.totalDeposited > 0
        BY <2>1, <1>6 DEF DepositAmount
      <3> QED BY <3>1, <1>1 DEF ProposalInv
    <2>2. CASE DepositReviewed(f, p, amount)
      BY <2>2 DEF DepositReviewed, HasContext
    <2> QED BY <2>1, <2>2
  <1>11. Agrees(p, d, proposals[p], PostingFor(p), "Deposit")
    BY <1>1, <1>6, <1>10
       DEF ProposalInv, Agrees, PendingAfter, AcceptedAfter, IsAward, ClosingEvents
  <1>12. proposals[p].submitted
    BY <1>2, ActiveFacts
  <1>13. Inv'
    BY <1>1, <1>2, <1>3, <1>4, <1>5, <1>9, <1>11, <1>12, TransactionStep
  <1>14. amount \in 1..Target
    <2>1. amount > 0 /\ amount <= Target - e.totalDeposited
      BY <1>2 DEF CanDeposit
    <2>2. amount \in Nat /\ e.totalDeposited \in Nat
      BY <1>1, <1>6
    <2> HIDE DEF e
    <2> QED BY <2>1, <2>2, Sizes
  <1>15. Collects(e, d, custody[p], k, amount)
    BY <1>6, <1>7, <1>8 DEF Collects
  <1>16. DeadlineKept(e, d)
    BY <1>7 DEF DeadlineKept
  <1>17. escrows' = [escrows EXCEPT ![p] = d]
    BY <1>2 DEF Transact
  <1> QED BY <1>3, <1>13, <1>14, <1>15, <1>16, <1>17 DEF Changes, Moves

LEMMA ReleaseStep ==
    ASSUME Inv, NEW p \in Proposals, NEW index, NEW evidence,
           ReleaseTranche(p, index, evidence)
    PROVE  Inv' /\ \E d, k : Changes(p, d, k)
  <1> DEFINE e == escrows[p]
             d == Release(e, now)
             k == custody[p] - Payment(e)
  <1>1. /\ e \in Escrow /\ EscrowInv(e) /\ now \in Nat /\ custody[p] \in Nat
        /\ ProposalInv(p, e, proposals[p], PostingFor(p), custody[p])
    BY Here
  <1>2. /\ CanRelease(e, index, evidence, now) /\ Active(p)
        /\ Transact(p, d, "TrancheReleased")
        /\ Payment(e) <= custody[p]
        /\ custody' = [custody EXCEPT ![p] = @ - Payment(e)]
    BY DEF ReleaseTranche, TransferOut
  <1>3. custody' = [custody EXCEPT ![p] = k]
    BY <1>2
  <1>4. Elsewhere(p)
    BY DEF ReleaseTranche, Elsewhere, Inv, TypeOK
  <1>5. /\ d \in Escrow /\ EscrowInv(d)
        /\ e.state \in {"Locked", "Active"} /\ index = e.currentTranche
        /\ index \in 0..(Tranches - 1) /\ Payment(e) = GrossAmount(index)
    BY <1>1, <1>2, ReleaseInv
  <1>6. /\ Payment(e) \in Nat /\ Payment(e) > 0
        /\ Payment(e) <= Target
    <2> HIDE DEF d
    <2>1. index \in 0..(Tranches - 1) /\ index \in 0..Tranches /\ index + 1 \in 0..Tranches
      BY <1>5, Sizes
    <2>2. /\ CumulativeAmount(index) \in 0..Target /\ CumulativeAmount(index + 1) \in 0..Target
          /\ CumulativeAmount(index) + GrossAmount(index) = CumulativeAmount(index + 1)
          /\ GrossAmount(index) \in Nat /\ GrossAmount(index) > 0
      BY <2>1, PlanAmounts
    <2> QED BY <2>2, <1>5, Sizes
  <1>7. /\ d.totalDeposited = e.totalDeposited
        /\ d.totalReleased = e.totalReleased + Payment(e)
        /\ d.totalRefunded = e.totalRefunded
        /\ d.refundsEnabled = e.refundsEnabled
        /\ d.currentTranche = e.currentTranche + 1
        /\ d.state \in {"Released", "Active"}
    <2>1. /\ d.totalDeposited = e.totalDeposited
          /\ d.totalReleased = e.totalReleased + GrossAmount(e.currentTranche)
          /\ d.totalRefunded = e.totalRefunded
          /\ d.refundsEnabled = e.refundsEnabled
          /\ d.currentTranche = e.currentTranche + 1
      BY <1>1, Zenon DEF Release, Escrow
    <2>2. d.state = IF e.currentTranche + 1 = Tranches THEN "Released" ELSE "Active"
      BY <1>1, Zenon DEF Release, Escrow
    <2>3. GrossAmount(e.currentTranche) = Payment(e)
      BY <1>5
    <2> QED BY <2>1, <2>2, <2>3
  <1> HIDE DEF d
  <1>8. /\ ~e.refundsEnabled /\ e.totalDeposited = Target
    BY <1>1, <1>5 DEF EscrowInv, StateAgrees, RefundStates
  <1>9. /\ e.totalReleased \in Nat /\ e.totalDeposited \in Nat /\ e.totalRefunded \in Nat
        /\ e.currentTranche \in Nat /\ e.approvalDeadline \in Nat
    BY <1>1, BookNumbers
  <1>10. k \in Nat /\ k = Unpaid(d) - d.totalRefunded
    BY <1>1, <1>2, <1>6, <1>7, <1>9 DEF ProposalInv, Unpaid
  <1>11. Agrees(p, d, proposals[p], PostingFor(p), "TrancheReleased")
    <2>1. /\ PostingFor(p).accepted \in {None, p} /\ PostingFor(p).pending \in {None, p}
          /\ None # p
      BY <1>2, ActiveFacts, WorkflowAssumption
    <2>2. PendingAfter(p, PostingFor(p), "TrancheReleased") # p
      <3>1. CASE PostingFor(p).accepted = None
        BY <3>1, <2>1 DEF PendingAfter, ClosingEvents, IsAward
      <3>2. CASE PostingFor(p).accepted = p
        <4>1. e.currentTranche > 0
          BY <3>2, <1>1 DEF ProposalInv
        <4>2. e.state # "Locked"
          BY <4>1, <1>1, <1>9 DEF EscrowInv, StateAgrees
        <4> QED BY <4>2, <3>2, <2>1, <1>1 DEF ProposalInv, PendingAfter, ClosingEvents, IsAward
      <3> QED BY <3>1, <3>2, <2>1
    <2>3. AcceptedAfter(p, PostingFor(p), "TrancheReleased") = p
      BY <2>1 DEF AcceptedAfter, IsAward
    <2>4. d.currentTranche > 0 /\ d.state # "Locked"
      BY <1>7, <1>9
    <2> QED BY <2>2, <2>3, <2>4, <1>1, <1>7, <1>9 DEF Agrees, ProposalInv
  <1>12. proposals[p].submitted
    BY <1>2, ActiveFacts
  <1>13. Inv'
    BY <1>2, <1>3, <1>4, <1>5, <1>10, <1>11, <1>12, TransactionStep
  <1>14. Pays(e, d, custody[p], k, Payment(e)) /\ Payment(e) \in 1..Target
    BY <1>2, <1>6, <1>7, <1>8, Sizes DEF Pays
  <1>15. DeadlineKept(e, d)
    BY <1>6, <1>7, <1>9 DEF DeadlineKept
  <1>16. escrows' = [escrows EXCEPT ![p] = d]
    BY <1>2 DEF Transact
  <1> QED BY <1>3, <1>13, <1>14, <1>15, <1>16 DEF Changes, Moves

LEMMA ClaimStep ==
    ASSUME Inv, NEW f \in Funders, NEW p \in Proposals, ClaimRefund(f, p)
    PROVE  Inv' /\ \E d, k : Changes(p, d, k)
  <1> DEFINE e == escrows[p]
             d == Claim(e, f, now)
             amount == ClaimAmount(e, f, now)
             k == custody[p] - amount
             event == IF e.refundsEnabled THEN "RefundClaimed" ELSE "Expired"
  <1>1. /\ e \in Escrow /\ EscrowInv(e) /\ now \in Nat /\ custody[p] \in Nat
        /\ ProposalInv(p, e, proposals[p], PostingFor(p), custody[p])
    BY Here
  <1>2. /\ proposals[p].submitted /\ CanClaim(e, f, now) /\ Transact(p, d, event)
        /\ amount <= custody[p]
        /\ custody' = [custody EXCEPT ![p] = @ - amount]
    BY DEF ClaimRefund, TransferOut
  <1>3. custody' = [custody EXCEPT ![p] = k]
    BY <1>2
  <1>4. Elsewhere(p)
    BY DEF ClaimRefund, Elsewhere, Inv, TypeOK
  <1>5. /\ d \in Escrow /\ EscrowInv(d)
        /\ amount \in Nat /\ amount > 0
        /\ d.totalRefunded = e.totalRefunded + amount
        /\ d.totalDeposited = e.totalDeposited /\ d.totalReleased = e.totalReleased
        /\ d.currentTranche = e.currentTranche
        /\ d.refundsEnabled /\ d.state \in RefundStates
        /\ e.refundsEnabled => d.refundPool = e.refundPool
        /\ d.approvalDeadline = e.approvalDeadline
    BY <1>1, <1>2, ClaimInv
  <1>6. /\ e.totalReleased \in Nat /\ e.totalDeposited \in Nat /\ e.totalRefunded \in Nat
        /\ e.totalDeposited <= Target /\ e.approvalDeadline \in Nat
    BY <1>1, BookNumbers
  <1> HIDE DEF d, amount
  <1>7. k \in Nat /\ k = Unpaid(d) - d.totalRefunded
    BY <1>1, <1>2, <1>5, <1>6 DEF ProposalInv, Unpaid
  <1>8. d.state # "Locked"
    BY <1>5 DEF RefundStates
  <1>9. Agrees(p, d, proposals[p], PostingFor(p), event)
    <2>1. CASE e.refundsEnabled
      <3>1. e.state # "Locked"
        BY <2>1, <1>1 DEF EscrowInv, StateAgrees, RefundStates
      <3> QED BY <3>1, <2>1, <1>1, <1>5, <1>8
              DEF ProposalInv, Agrees, PendingAfter, AcceptedAfter, IsAward, ClosingEvents
    <2>2. CASE ~e.refundsEnabled
      BY <2>2, <1>1, <1>5, <1>8, WorkflowAssumption
         DEF ProposalInv, Agrees, PendingAfter, AcceptedAfter, IsAward, ClosingEvents
    <2> QED BY <2>1, <2>2
  <1>10. event # "TrancheReleased"
    OBVIOUS
  <1> HIDE DEF event
  <1>11. Inv'
    BY <1>2, <1>3, <1>4, <1>5, <1>7, <1>9, <1>10, TransactionStep
  <1>12. amount \in 1..Target
    <2>1. custody[p] = e.totalDeposited - e.totalReleased - e.totalRefunded
      BY <1>1 DEF ProposalInv, Unpaid
    <2>2. Target \in Nat
      BY Sizes
    <2>3. amount <= custody[p] /\ amount \in Nat /\ amount > 0 /\ custody[p] \in Nat
      BY <1>1, <1>2, <1>5
    <2> HIDE DEF e
    <2> QED BY <2>1, <2>2, <2>3, <1>6
  <1>13. Refunds(e, d, custody[p], k, amount)
    BY <1>2, <1>5 DEF Refunds
  <1>14. DeadlineKept(e, d)
    BY <1>5, <1>6 DEF DeadlineKept
  <1>15. escrows' = [escrows EXCEPT ![p] = d]
    BY <1>2 DEF Transact
  <1> QED BY <1>3, <1>11, <1>12, <1>13, <1>14, <1>15 DEF Changes, Moves

-----------------------------------------------------------------------------
(* Steps that touch no escrow *)

\* The registry's own transactions keep every lock and award, and rewrite only
\* what no deposit was made for.
RegistryOnly ==
    /\ UNCHANGED <<now, money, reviewed, signed>> /\ listed' \in BOOLEAN
    /\ postings' \in [Postings -> Posting] /\ proposals' \in [Proposals -> Proposal]
    /\ \A q \in Postings :
          /\ postings'[q].pending = postings[q].pending
          /\ postings'[q].accepted = postings[q].accepted
          /\ postings'[q].started = postings[q].started
    /\ \A p \in Proposals :
          /\ proposals[p].submitted => proposals'[p].submitted
          /\ escrows[p].totalDeposited > 0 =>
                /\ proposals'[p].revision = proposals[p].revision
                /\ proposals'[p].boundRevision = proposals[p].boundRevision
                /\ postings'[PostingOf[p]].revision = postings[PostingOf[p]].revision

LEMMA RegistryStep ==
    ASSUME Inv, RegistryOnly
    PROVE  Inv'
  <1>1. TypeOK'
    BY DEF Inv, TypeOK, RegistryOnly, money
  <1>2. ASSUME NEW p \in Proposals
        PROVE  ProposalInv(p, escrows'[p], proposals'[p], postings'[PostingOf[p]], custody'[p])
    <2>1. /\ PostingOf[p] \in Postings
          /\ escrows'[p] = escrows[p] /\ custody'[p] = custody[p]
      BY WorkflowAssumption DEF RegistryOnly, money
    <2>2. ProposalInv(p, escrows[p], proposals[p], postings[PostingOf[p]], custody[p])
      BY DEF Inv, PostingFor
    <2> QED BY <2>1, <2>2 DEF RegistryOnly, ProposalInv
  <1> QED BY <1>1, <1>2 DEF Inv, PostingFor

LEMMA NothingDeposited ==
    ASSUME Inv, NEW p \in Proposals, ~proposals[p].submitted \/ ~PostingFor(p).started
    PROVE  ~(escrows[p].totalDeposited > 0)
  <1>1. NewEscrow.totalDeposited = 0
    BY Zenon DEF NewEscrow
  <1> QED BY <1>1, Here DEF ProposalInv

LEMMA PublicationStep ==
    ASSUME Inv, Publication
    PROVE  RegistryOnly
  <1>1. /\ postings \in [Postings -> Posting] /\ proposals \in [Proposals -> Proposal]
        /\ listed \in BOOLEAN /\ PostingOf \in [Proposals -> Postings] /\ MaxRevision \in Nat
    BY WorkflowAssumption DEF Inv, TypeOK
  <1>2. ASSUME NEW p \in Proposals, NEW r \in 0..MaxRevision, CommitProposalWithEscrow(p, r)
        PROVE  RegistryOnly
    <2> DEFINE filed == CommitProposal(proposals[p], r)
    <2>1. /\ ~proposals[p].submitted /\ proposals' = [proposals EXCEPT ![p] = filed]
          /\ UNCHANGED <<now, listed, postings, money, reviewed, signed>>
      BY <1>2 DEF CommitProposalWithEscrow, CanCommitProposal
    <2>2. r \in Nat /\ proposals[p] \in Proposal
      BY <1>1
    <2>3. filed \in Proposal /\ filed.submitted
      BY <2>2 DEF CommitProposal, Proposal
    <2> HIDE DEF filed
    <2>4. ~(escrows[p].totalDeposited > 0)
      BY <2>1, NothingDeposited
    <2> QED BY <1>1, <2>1, <2>3, <2>4 DEF RegistryOnly
  <1>3. ASSUME NEW p \in Proposals, NEW r \in 0..MaxRevision, UpdateProposal(p, r)
        PROVE  RegistryOnly
    <2> DEFINE filed == UpdateHashes(proposals[p], r)
    <2>1. /\ escrows[p].totalDeposited = 0 /\ proposals' = [proposals EXCEPT ![p] = filed]
          /\ UNCHANGED <<now, listed, postings, money, reviewed, signed>>
      BY <1>3 DEF UpdateProposal, CanUpdateHashes
    <2>2. r \in Nat /\ proposals[p] \in Proposal
      BY <1>1
    <2>3. filed \in Proposal /\ filed.submitted = proposals[p].submitted
      <3>1. proposals[p].revision + 1 \in Nat
        BY <2>2 DEF Proposal
      <3> QED BY <2>2, <3>1, Zenon DEF UpdateHashes, Proposal
    <2> HIDE DEF filed
    <2> QED BY <1>1, <2>1, <2>3 DEF RegistryOnly
  <1>4. ASSUME NEW p \in Proposals, WithdrawProposal(p)
        PROVE  RegistryOnly
    <2> DEFINE filed == [proposals[p] EXCEPT !.withdrawn = TRUE]
    <2>1. /\ proposals' = [proposals EXCEPT ![p] = filed]
          /\ UNCHANGED <<now, listed, postings, money, reviewed, signed>>
      BY <1>4 DEF WithdrawProposal
    <2>2. /\ filed \in Proposal /\ filed.submitted = proposals[p].submitted
          /\ filed.revision = proposals[p].revision
          /\ filed.boundRevision = proposals[p].boundRevision
      BY <1>1 DEF Proposal
    <2> HIDE DEF filed
    <2> QED BY <1>1, <2>1, <2>2 DEF RegistryOnly
  <1>5. ASSUME NEW q \in Postings, UpdatePosting(q)
        PROVE  RegistryOnly
    <2> DEFINE edited == UpdateOpportunity(postings[q])
    <2>1. /\ ~postings[q].started /\ postings' = [postings EXCEPT ![q] = edited]
          /\ UNCHANGED <<now, listed, proposals, money, reviewed, signed>>
      BY <1>5 DEF UpdatePosting, CanUpdateOpportunity
    <2>2. /\ edited \in Posting /\ edited.pending = postings[q].pending
          /\ edited.accepted = postings[q].accepted /\ edited.started = postings[q].started
      BY <1>1 DEF UpdateOpportunity, Posting
    <2> HIDE DEF edited
    <2>3. ASSUME NEW p \in Proposals, PostingOf[p] = q
          PROVE  ~(escrows[p].totalDeposited > 0)
      BY <2>1, <2>3, NothingDeposited DEF PostingFor
    <2> QED BY <1>1, <2>1, <2>2, <2>3 DEF RegistryOnly
  <1>6. ASSUME NEW q \in Postings, NEW b \in BOOLEAN,
               WithdrawPosting(q) \/ SetPostingFundingPaused(q, b)
        PROVE  RegistryOnly
    <2>1. PICK edited \in Posting :
            /\ postings' = [postings EXCEPT ![q] = edited]
            /\ edited.pending = postings[q].pending /\ edited.revision = postings[q].revision
            /\ edited.accepted = postings[q].accepted /\ edited.started = postings[q].started
      <3>1. CASE WithdrawPosting(q)
        <4> DEFINE edited == [postings[q] EXCEPT !.withdrawn = TRUE]
        <4>1. postings' = [postings EXCEPT ![q] = edited]
          BY <3>1 DEF WithdrawPosting
        <4>2. edited \in Posting
          <5>1. postings[q] \in Posting
            BY <1>1
          <5> QED BY <5>1, Zenon DEF Posting
        <4>3. /\ edited.pending = postings[q].pending /\ edited.revision = postings[q].revision
              /\ edited.accepted = postings[q].accepted /\ edited.started = postings[q].started
          BY <1>1 DEF Posting
        <4> HIDE DEF edited
        <4> QED BY <4>1, <4>2, <4>3
      <3>2. CASE SetPostingFundingPaused(q, b)
        <4> DEFINE edited == [postings[q] EXCEPT !.paused = b]
        <4>1. postings' = [postings EXCEPT ![q] = edited]
          BY <3>2 DEF SetPostingFundingPaused
        <4>2. /\ edited \in Posting
              /\ edited.pending = postings[q].pending /\ edited.revision = postings[q].revision
              /\ edited.accepted = postings[q].accepted /\ edited.started = postings[q].started
          BY <1>1 DEF Posting
        <4> QED BY <4>1, <4>2
      <3> QED BY <3>1, <3>2, <1>6
    <2>2. UNCHANGED <<now, listed, proposals, money, reviewed, signed>>
      BY <1>6 DEF WithdrawPosting, SetPostingFundingPaused
    <2> QED BY <1>1, <2>1, <2>2 DEF RegistryOnly
  <1>7. CASE SetTokenAllowed
    BY <1>7, <1>1 DEF SetTokenAllowed, RegistryOnly, registry
  <1> QED BY <1>2, <1>3, <1>4, <1>5, <1>6, <1>7 DEF Publication, Records

LEMMA ReviewStep ==
    ASSUME Inv, NEW f \in Funders, NEW p \in Proposals, ReviewContext(f, p)
    PROVE  Inv'
  <1> DEFINE digest == ContextDigest(proposals[p], PostingFor(p))
             reviews == Digests \cup {NoReview}
  <1>1. /\ reviewed' = [reviewed EXCEPT ![f][p] = digest]
        /\ UNCHANGED <<now, listed, registry, money, signed>>
    BY DEF ReviewContext
  <1>2. digest \in reviews
    BY Here DEF ContextDigest, Digests, Proposal, Posting
  <1>3. reviewed \in [Funders -> [Proposals -> reviews]]
    BY DEF Inv, TypeOK
  <1>4. reviewed' \in [Funders -> [Proposals -> reviews]]
    <2> HIDE DEF digest, reviews
    <2> QED BY <1>1, <1>2, <1>3
  <1>5. TypeOK'
    BY <1>1, <1>4 DEF Inv, TypeOK, registry, money
  <1> QED BY <1>1, <1>5 DEF Inv, PostingFor, registry, money

LEMMA TickStep ==
    ASSUME Inv, Tick
    PROVE  Inv'
  <1>1. TypeOK'
    BY WorkflowAssumption DEF Inv, TypeOK, Tick, registry, money
  <1> QED BY <1>1 DEF Inv, PostingFor, Tick, registry, money

-----------------------------------------------------------------------------
(* The invariant *)

LEMMA InitInv == Init => Inv
  <1> SUFFICES ASSUME Init PROVE Inv
    OBVIOUS
  <1>1. NewPosting \in Posting /\ NoProposal \in Proposal
    BY DEF NewPosting, Posting, NoProposal, Proposal
  <1>2. TypeOK
    BY <1>1, NewEscrowInv, WorkflowAssumption DEF Init, TypeOK
  <1>3. ASSUME NEW p \in Proposals
        PROVE  ProposalInv(p, NewEscrow, NoProposal, NewPosting, 0)
    <2>1. /\ NewEscrow.state = "Open" /\ NewEscrow.currentTranche = 0
          /\ NewEscrow.totalDeposited = 0 /\ NewEscrow.totalReleased = 0
          /\ NewEscrow.totalRefunded = 0
      BY Zenon DEF NewEscrow
    <2>2. NewPosting.pending = None /\ NewPosting.accepted = None /\ None # p
      BY WorkflowAssumption DEF NewPosting
    <2> QED BY <2>1, <2>2, NewEscrowInv DEF ProposalInv, Unpaid
  <1>4. ASSUME NEW p \in Proposals
        PROVE  /\ escrows[p] = NewEscrow /\ proposals[p] = NoProposal
               /\ PostingFor(p) = NewPosting /\ custody[p] = 0
    BY WorkflowAssumption DEF Init, PostingFor
  <1> QED BY <1>2, <1>3, <1>4 DEF Inv

\* Every step is the registry's own, moves one escrow, or concerns neither.
LEMMA NextStep ==
    ASSUME Inv, [Next]_vars
    PROVE  /\ Inv'
           /\ \/ UNCHANGED money
              \/ \E p \in Proposals : \E d, k : Changes(p, d, k)
  <1>1. CASE Publication
    BY <1>1, PublicationStep, RegistryStep DEF RegistryOnly
  <1>2. CASE Funding
    <2>1. ASSUME NEW f \in Funders, NEW p \in Proposals, ReviewContext(f, p)
          PROVE  Inv' /\ UNCHANGED money
      BY <2>1, ReviewStep DEF ReviewContext
    <2>2. ASSUME NEW f \in Funders, NEW p \in Proposals, NEW a \in Amounts,
                 DepositAmount(f, p, a) \/ DepositReviewed(f, p, a)
          PROVE  Inv' /\ \E d, k : Changes(p, d, k)
      BY <2>2, DepositStep
    <2>3. ASSUME NEW f \in Funders, NEW p \in Proposals, NEW i \in Indices,
                 NEW v \in Evidence, NEW b \in {"yes", "no"}, VoteMilestone(f, p, i, v, b)
          PROVE  Inv' /\ \E d, k : Changes(p, d, k)
      BY <2>3, VoteStep
    <2>4. ASSUME NEW f \in Funders, NEW p \in Proposals, ClaimRefund(f, p)
          PROVE  Inv' /\ \E d, k : Changes(p, d, k)
      BY <2>4, ClaimStep
    <2> QED BY <1>2, <2>1, <2>2, <2>3, <2>4 DEF Funding
  <1>3. CASE Settlement
    <2>1. ASSUME NEW p \in Proposals, LockSelection(p)
          PROVE  Inv' /\ \E d, k : Changes(p, d, k)
      BY <2>1, LockStep
    <2>2. ASSUME NEW p \in Proposals, NEW x \in Parties, NEW i \in Indices,
                 NEW v \in Evidence \cup {NoEvidence}, ApproveTranche(p, x, i, v)
          PROVE  Inv' /\ \E d, k : Changes(p, d, k)
      <3>1. i \in Nat
        BY Sizes DEF Indices
      <3> QED BY <3>1, <2>2, ApproveStep
    <2>3. ASSUME NEW p \in Proposals, NEW i \in Indices, NEW v \in Evidence,
                 SubmitEvidence(p, i, v)
          PROVE  Inv' /\ \E d, k : Changes(p, d, k)
      BY <2>3, SubmitStep
    <2>4. ASSUME NEW p \in Proposals, NEW i \in Indices, NEW v \in Evidence \cup {NoEvidence},
                 ReleaseTranche(p, i, v)
          PROVE  Inv' /\ \E d, k : Changes(p, d, k)
      BY <2>4, ReleaseStep
    <2> QED BY <1>3, <2>1, <2>2, <2>3, <2>4 DEF Settlement
  <1>4. CASE Unwinding
    BY <1>4, InvalidateStep, UnwindStep DEF Unwinding
  <1>5. CASE Tick
    BY <1>5, TickStep DEF Tick
  <1>6. CASE UNCHANGED vars
    <2>1. TypeOK'
      BY <1>6 DEF Inv, TypeOK, vars, registry, money
    <2> QED BY <2>1, <1>6 DEF Inv, PostingFor, vars, registry, money
  <1> QED BY <1>1, <1>2, <1>3, <1>4, <1>5, <1>6 DEF Next

LEMMA InvIsInvariant == Spec => []Inv
  <1>1. Init => Inv
    BY InitInv
  <1>2. Inv /\ [Next]_vars => Inv'
    BY NextStep
  <1> QED BY <1>1, <1>2, PTL DEF Spec


-----------------------------------------------------------------------------
(* Invariants *)

\* Every variable keeps its type; in particular no deposit passes the target,
\* nothing is paid or booked as a fee beyond it, and no balance is negative.
THEOREM TypeCorrect == Spec => []TypeOK
  <1>1. Inv => TypeOK
    BY DEF Inv
  <1> QED BY <1>1, InvIsInvariant, PTL

\* An escrow holds exactly its deposits less its payments and refunds.
THEOREM BooksBalance == Spec => []CustodyMatchesBooks
  <1>1. Inv => CustodyMatchesBooks
    BY DEF Inv, ProposalInv, CustodyMatchesBooks
  <1> QED BY <1>1, InvIsInvariant, PTL

\* The posting's pending lock and the escrow's Locked state never diverge.
THEOREM LocksAgree == Spec => []PendingIffLocked
  <1>1. Inv => PendingIffLocked
    BY DEF Inv, ProposalInv, PendingIffLocked
  <1> QED BY <1>1, InvIsInvariant, PTL

\* Money is only held for proposals bound to the posting's current revision.
THEOREM FundedStaysBound == Spec => []FundedIsBound
  <1>1. Inv => FundedIsBound
    BY DEF Inv, ProposalInv, FundedIsBound
  <1> QED BY <1>1, InvIsInvariant, PTL

\* The plan's amounts tell whether anything was paid.
LEMMA AwardedIffPaid ==
    ASSUME NEW e \in Escrow, EscrowInv(e)
    PROVE  e.totalReleased > 0 <=> e.currentTranche > 0
  <1>1. /\ e.currentTranche \in Nat /\ e.currentTranche <= Tranches
        /\ e.totalReleased = CumulativeAmount(e.currentTranche) /\ Tranches \in Nat
    BY Sizes DEF Escrow, EscrowInv, BooksFollowPlan
  <1>2. CASE e.currentTranche = 0
    BY <1>1, <1>2, PlanAmounts
  <1>3. CASE e.currentTranche > 0
    <2> DEFINE i == e.currentTranche - 1
    <2>1. i \in 0..(Tranches - 1) /\ i \in 0..Tranches /\ i + 1 = e.currentTranche
      BY <1>1, <1>3
    <2>2. /\ CumulativeAmount(i) \in 0..Target
          /\ GrossAmount(i) \in Nat /\ GrossAmount(i) > 0
          /\ CumulativeAmount(i) + GrossAmount(i) = CumulativeAmount(i + 1)
      BY <2>1, PlanAmounts
    <2> HIDE DEF i
    <2> QED BY <2>1, <2>2, <1>1, <1>3, Sizes
  <1> QED BY <1>1, <1>2, <1>3

\* A posting pays at most one proposal, and the registry names it accepted.
THEOREM AwardIsExclusive == Spec => []ExclusiveAward
  <1>1. ASSUME Inv PROVE ExclusiveAward
    <2>1. ASSUME NEW p \in Proposals
          PROVE  Awarded(p) <=> PostingFor(p).accepted = p
      <3>1. /\ escrows[p] \in Escrow /\ EscrowInv(escrows[p])
            /\ PostingFor(p).accepted = p <=> escrows[p].currentTranche > 0
        BY <1>1, Here DEF ProposalInv
      <3>2. escrows[p].totalReleased > 0 <=> escrows[p].currentTranche > 0
        BY <3>1, AwardedIffPaid
      <3> QED BY <3>1, <3>2 DEF Awarded
    <2>2. ASSUME NEW p \in Proposals, Awarded(p), NEW r \in Rivals(p)
          PROVE  ~Awarded(r)
      BY <2>1, <2>2 DEF Rivals, PostingFor
    <2> QED BY <2>1, <2>2 DEF ExclusiveAward
  <1> QED BY <1>1, InvIsInvariant, PTL

\* What the next tranche adds to the fee is between nothing and its gross amount.
LEMMA NextFeeBound ==
    ASSUME NEW e \in Escrow, EscrowInv(e), e.currentTranche < Tranches
    PROVE  TrancheFee(e) \in 0..GrossAmount(e.currentTranche)
  <1> DEFINE i == e.currentTranche
             gross == GrossAmount(i)
             released == CumulativeAmount(i)
  <1>1. i \in 0..(Tranches - 1) /\ i \in 0..Tranches
    BY Sizes DEF Escrow
  <1>2. /\ e.totalReleased = released /\ e.feePaid = CumulativeFee(released)
    BY DEF EscrowInv, BooksFollowPlan
  <1>3. released \in 0..Target /\ gross \in Nat
    BY <1>1, PlanAmounts
  <1>4. released \in Nat
    BY <1>3, Sizes
  <1>5. FeeBps \in Nat /\ FeeBps <= BpsScale /\ BpsScale \in Nat \ {0}
    BY EscrowAssumption
  <1>6. TrancheFee(e) = MulDiv(released + gross, FeeBps, BpsScale)
                        - MulDiv(released, FeeBps, BpsScale)
    BY <1>2 DEF TrancheFee, CumulativeFee
  <1> HIDE DEF gross, released
  <1>7. TrancheFee(e) \in 0..gross
    BY <1>3, <1>4, <1>5, <1>6, MulDivGrowth
  <1> QED BY <1>7 DEF gross

\* Payments and fees are the plan's cumulative amounts, without drift.
THEOREM PlanIsFollowed == Spec => []PaymentsFollowPlan
  <1>1. ASSUME Inv PROVE PaymentsFollowPlan
    <2> SUFFICES ASSUME NEW p \in Proposals
                 PROVE  LET e == escrows[p]
                        IN /\ e.totalReleased = CumulativeAmount(e.currentTranche)
                           /\ e.feePaid = CumulativeFee(e.totalReleased)
                           /\ e.currentTranche < Tranches =>
                                 TrancheFee(e) \in 0..GrossAmount(e.currentTranche)
      BY DEF PaymentsFollowPlan
    <2>1. escrows[p] \in Escrow /\ EscrowInv(escrows[p])
      BY <1>1, Here
    <2>2. /\ escrows[p].totalReleased = CumulativeAmount(escrows[p].currentTranche)
          /\ escrows[p].feePaid = CumulativeFee(escrows[p].totalReleased)
      BY <2>1 DEF EscrowInv, BooksFollowPlan
    <2>3. escrows[p].currentTranche < Tranches =>
             TrancheFee(escrows[p]) \in 0..GrossAmount(escrows[p].currentTranche)
      BY <2>1, NextFeeBound
    <2> QED BY <2>2, <2>3
  <1> QED BY <1>1, InvIsInvariant, PTL

-----------------------------------------------------------------------------
(* Shares *)

\* A floored difference over an interval is within one unit of the exact quotient:
\* multiplied by the total, within the total.
LEMMA MulDivError ==
    ASSUME NEW pool \in Nat, NEW total \in Nat \ {0}, NEW end \in Nat, NEW c \in Nat,
           c <= end
    PROVE  LET share == MulDiv(pool, end, total) - MulDiv(pool, end - c, total)
           IN /\ -total < share * total - pool * c
              /\ share * total - pool * c < total
  <1> DEFINE x == pool * (end - c)
             y == pool * c
             lower == x \div total
             upper == (x + y) \div total
  <1>1. x \in Nat /\ y \in Nat /\ pool * end = x + y
    BY SMT
  <1>2. /\ lower \in Nat /\ upper \in Nat
        /\ lower * total <= x /\ x < lower * total + total
        /\ upper * total <= x + y /\ x + y < upper * total + total
    BY <1>1, SMT
  <1>3. MulDiv(pool, end, total) = upper /\ MulDiv(pool, end - c, total) = lower
    BY <1>1 DEF MulDiv
  <1> HIDE DEF x, lower, upper
  <1>4. (upper - lower) * total = upper * total - lower * total
    BY <1>2, SMT
  <1>5. upper * total \in Nat /\ lower * total \in Nat
    BY <1>2, SMT
  <1> QED BY <1>1, <1>2, <1>3, <1>4, <1>5, SMT

\* Every funder's share is between nothing and the contribution, and within one
\* base unit of the exact proportional share.
THEOREM SharesProportional == Spec => []SharesAreProportional
  <1>1. ASSUME Inv, NEW p \in Proposals, NEW f \in Funders
        PROVE  LET e == escrows[p]
                   share == Share(e, f, Unpaid(e))
                   error == share * e.totalDeposited - Unpaid(e) * e.contributions[f]
               IN /\ share \in 0..e.contributions[f]
                  /\ e.totalDeposited # 0 => -e.totalDeposited < error /\ error < e.totalDeposited
    <2> DEFINE e == escrows[p]
               total == e.totalDeposited
               c == e.contributions[f]
               end == e.ends[f]
               pool == Unpaid(e)
               share == Share(e, f, pool)
               error == share * total - pool * c
    <2>1. e \in Escrow /\ EscrowInv(e)
      BY <1>1, Here
    <2> HIDE DEF e
    <2>2. share \in 0..c
      BY <2>1, ShareBound DEF Unpaid
    <2>3. /\ total \in Nat /\ e.totalReleased \in Nat /\ c \in Nat /\ end \in Nat
          /\ e.totalReleased <= total /\ pool \in Nat
      <3>1. total \in Nat /\ e.totalReleased \in Nat /\ c \in Nat /\ end \in Nat
        BY <2>1, Sizes DEF Escrow
      <3>2. e.totalReleased <= total
        BY <2>1, PoolBound
      <3> QED BY <3>1, <3>2 DEF Unpaid
    <2>4. ASSUME total # 0 PROVE -total < error /\ error < total
      <3>1. CASE c = 0
        <4>1. share = 0
          BY <3>1 DEF Share
        <4> HIDE DEF pool, total, c, share
        <4>2. pool * c = 0 /\ share * total = 0
          BY <4>1, <3>1, <2>3
        <4> QED BY <4>2, <2>3, <2>4
      <3>2. CASE c # 0 /\ e.totalReleased = 0
        <4>1. share = c /\ pool = total
          BY <3>2, <2>3 DEF Share, Unpaid
        <4>2. share * total = pool * c
          BY <4>1, <2>3
        <4>3. error = 0
          BY <4>1, <4>2, <2>3
        <4> QED BY <4>3, <2>3, <2>4
      <3>3. CASE c # 0 /\ e.totalReleased # 0
        <4>1. share = MulDiv(pool, end, total) - MulDiv(pool, end - c, total)
          BY <3>3 DEF Share
        <4>2. c <= end
          BY <2>1 DEF EscrowInv, IntervalsFit
        <4> HIDE DEF pool, total, c, end, share
        <4> QED BY <4>1, <4>2, <2>3, <2>4, MulDivError
      <3> QED BY <3>1, <3>2, <3>3, <2>3
    <2> QED BY <2>2, <2>4 DEF e
  <1>2. Inv => SharesAreProportional
    BY <1>1 DEF SharesAreProportional
  <1> QED BY <1>2, InvIsInvariant, PTL

-----------------------------------------------------------------------------
(* Steps *)

\* Every step either leaves an escrow's money alone or moves it in one way.
LEMMA Moved ==
    ASSUME Inv, [Next]_vars, NEW r \in Proposals
    PROVE  Moves(escrows[r], escrows'[r], custody[r], custody'[r])
  <1>1. escrows \in [Proposals -> Escrow] /\ custody \in [Proposals -> Nat]
    BY DEF Inv, TypeOK
  <1>2. Moves(escrows[r], escrows[r], custody[r], custody[r])
    <2>1. escrows[r].approvalDeadline \in Nat
      BY <1>1 DEF Escrow
    <2> QED BY <2>1 DEF Moves, Keeps, DeadlineKept
  <1>3. CASE UNCHANGED money
    BY <1>2, <1>3 DEF money
  <1>4. ASSUME NEW p \in Proposals, NEW d, NEW k, Changes(p, d, k)
        PROVE  Moves(escrows[r], escrows'[r], custody[r], custody'[r])
    <2>1. escrows' = [escrows EXCEPT ![p] = d] /\ custody' = [custody EXCEPT ![p] = k]
      BY <1>4 DEF Changes
    <2>2. CASE r = p
      <3>1. escrows'[r] = d /\ custody'[r] = k
        BY <1>1, <2>1, <2>2
      <3> QED BY <3>1, <2>2, <1>4 DEF Changes
    <2>3. CASE r # p
      <3>1. escrows'[r] = escrows[r] /\ custody'[r] = custody[r]
        BY <1>1, <2>1, <2>3
      <3> QED BY <3>1, <1>2
    <2> QED BY <2>2, <2>3
  <1> QED BY <1>3, <1>4, NextStep

\* Once refunds are open, no deposit and no payment follows and the pool is fixed.
THEOREM RefundsFinal == Spec => RefundsAreFinal
  <1>1. ASSUME Inv, [Next]_vars, NEW p \in Proposals, escrows[p].refundsEnabled
        PROVE  /\ escrows'[p].refundsEnabled
               /\ escrows'[p].refundPool = escrows[p].refundPool
               /\ escrows'[p].totalDeposited = escrows[p].totalDeposited
               /\ escrows'[p].totalReleased = escrows[p].totalReleased
    BY <1>1, Moved DEF Moves, Keeps, Opens, Collects, Pays, Refunds
  <1>2. Inv /\ [Next]_vars =>
           [\A p \in Proposals : escrows[p].refundsEnabled =>
             /\ escrows'[p].refundsEnabled
             /\ escrows'[p].refundPool = escrows[p].refundPool
             /\ escrows'[p].totalDeposited = escrows[p].totalDeposited
             /\ escrows'[p].totalReleased = escrows[p].totalReleased]_vars
    BY <1>1
  <1> QED BY <1>2, InvIsInvariant, PTL DEF Spec, RefundsAreFinal

\* Only a payment moves a running approval or review deadline forward.
THEOREM DeadlinesKept == Spec => OnlyPaymentsExtendDeadlines
  <1>1. ASSUME Inv, [Next]_vars, NEW p \in Proposals,
               escrows[p].state \in {"Locked", "Active"}, ~Paid(p)
        PROVE  escrows'[p].approvalDeadline <= escrows[p].approvalDeadline
    BY <1>1, Moved DEF Moves, DeadlineKept, Paid
  <1>2. Inv /\ [Next]_vars =>
           [\A p \in Proposals :
              escrows[p].state \in {"Locked", "Active"} /\ ~Paid(p) =>
                 escrows'[p].approvalDeadline <= escrows[p].approvalDeadline]_vars
    BY <1>1
  <1> QED BY <1>2, InvIsInvariant, PTL DEF Spec, OnlyPaymentsExtendDeadlines

-----------------------------------------------------------------------------
(* What the registry learns from a step *)

\* An event of p's escrow reaches p's posting and p's record; what a selection and
\* a payment need is what the escrow and the registry asked for.
Recorded(p, event) ==
    /\ postings' = [postings EXCEPT ![PostingOf[p]] = RecordOnPosting(p, postings[PostingOf[p]], event)]
    /\ proposals' = [proposals EXCEPT ![p] = RecordOnProposal(proposals[p], event)]
    /\ CanRecord(p, PostingFor(p), event)
    /\ event = "SelectionLocked" => PostingFor(p).accepted \in {None, p}
    /\ event = "TrancheReleased" => escrows[p].state \in {"Locked", "Active"}

LEMMA EventOrRegistry ==
    ASSUME Inv, [Next]_vars
    PROVE  RegistryOnly \/ UNCHANGED registry \/ \E p \in Proposals : \E event : Recorded(p, event)
  <1>1. ASSUME NEW p \in Proposals, NEW d, NEW event, Transact(p, d, event),
               event = "SelectionLocked" => Active(p),
               event = "TrancheReleased" => escrows[p].state \in {"Locked", "Active"}
        PROVE  Recorded(p, event)
    BY <1>1, ActiveFacts, Here DEF Transact, Recorded, Inv, TypeOK
  <1>2. CASE Publication
    BY <1>2, PublicationStep
  <1>3. CASE Funding
    <2>1. ASSUME NEW f \in Funders, NEW p \in Proposals, ClaimRefund(f, p)
          PROVE  \E event : Recorded(p, event)
      <3> DEFINE event == IF escrows[p].refundsEnabled THEN "RefundClaimed" ELSE "Expired"
      <3>1. Transact(p, Claim(escrows[p], f, now), event)
        BY <2>1 DEF ClaimRefund
      <3>2. event # "SelectionLocked" /\ event # "TrancheReleased"
        OBVIOUS
      <3> HIDE DEF event
      <3> QED BY <3>1, <3>2, <1>1
    <2>2. ASSUME NEW f \in Funders, NEW p \in Proposals, NEW a \in Amounts,
                 DepositAmount(f, p, a) \/ DepositReviewed(f, p, a)
          PROVE  \E event : Recorded(p, event)
      <3>1. Transact(p, Deposit(escrows[p], f, a), "Deposit")
        BY <2>2 DEF DepositAmount, DepositReviewed, TakeDeposit
      <3> QED BY <3>1, <1>1
    <2>3. ASSUME NEW f \in Funders, NEW p \in Proposals, NEW i \in Indices,
                 NEW v \in Evidence, NEW b \in {"yes", "no"}, VoteMilestone(f, p, i, v, b)
          PROVE  \E event : Recorded(p, event)
      <3>1. Transact(p, Vote(escrows[p], f, b), "FunderVote")
        BY <2>3 DEF VoteMilestone
      <3> QED BY <3>1, <1>1
    <2>4. ASSUME NEW f \in Funders, NEW p \in Proposals, ReviewContext(f, p)
          PROVE  UNCHANGED registry
      BY <2>4 DEF ReviewContext
    <2> QED BY <1>3, <2>1, <2>2, <2>3, <2>4 DEF Funding
  <1>4. CASE Settlement
    <2>1. ASSUME NEW p \in Proposals, LockSelection(p)
          PROVE  \E event : Recorded(p, event)
      <3>1. Active(p) /\ Transact(p, Lock(escrows[p], now), "SelectionLocked")
        BY <2>1 DEF LockSelection
      <3> QED BY <3>1, <1>1
    <2>2. ASSUME NEW p \in Proposals, NEW i \in Indices, NEW v \in Evidence \cup {NoEvidence},
                 ReleaseTranche(p, i, v)
          PROVE  \E event : Recorded(p, event)
      <3>1. /\ Transact(p, Release(escrows[p], now), "TrancheReleased")
            /\ CanRelease(escrows[p], i, v, now)
        BY <2>2 DEF ReleaseTranche
      <3>2. escrows[p] \in Escrow /\ EscrowInv(escrows[p]) /\ now \in Nat
        BY Here
      <3>3. escrows[p].state \in {"Locked", "Active"}
        BY <3>1, <3>2, ReleaseInv
      <3> QED BY <3>1, <3>3, <1>1
    <2>3. ASSUME NEW p \in Proposals, NEW x \in Parties, NEW i \in Indices,
                 NEW v \in Evidence \cup {NoEvidence}, ApproveTranche(p, x, i, v)
          PROVE  \E event : Recorded(p, event)
      <3>1. Transact(p, Approve(escrows[p], x), "Approval")
        BY <2>3 DEF ApproveTranche
      <3> QED BY <3>1, <1>1
    <2>4. ASSUME NEW p \in Proposals, NEW i \in Indices, NEW v \in Evidence,
                 SubmitEvidence(p, i, v)
          PROVE  \E event : Recorded(p, event)
      <3>1. Transact(p, SubmitMilestone(escrows[p], v), "MilestoneSubmitted")
        BY <2>4 DEF SubmitEvidence
      <3> QED BY <3>1, <1>1
    <2> QED BY <1>4, <2>1, <2>2, <2>3, <2>4 DEF Settlement
  <1>5. CASE Unwinding
    <2>1. PICK p \in Proposals : \E d : \E event \in ClosingEvents : Transact(p, d, event)
      BY <1>5 DEF Unwinding, PlatformInvalidateSelection, RejectSelection, CancelEscrow,
                  VoidEscrow, RefundInvalidated, ExpireEscrow, ClosingEvents
    <2> QED BY <2>1, <1>1 DEF ClosingEvents
  <1>6. CASE Tick \/ UNCHANGED vars
    BY <1>6 DEF Tick, vars, registry
  <1> QED BY <1>2, <1>3, <1>4, <1>5, <1>6 DEF Next

\* Under money, neither a proposal nor its posting changes text.
THEOREM FundedTextStays == Spec => FundedContentIsFrozen
  <1>1. ASSUME Inv, [Next]_vars, NEW p \in Proposals, escrows[p].totalDeposited > 0
        PROVE  /\ proposals'[p].revision = proposals[p].revision
               /\ proposals'[p].boundRevision = proposals[p].boundRevision
               /\ postings'[PostingOf[p]].revision = PostingFor(p).revision
    <2>1. CASE RegistryOnly
      BY <1>1, <2>1 DEF RegistryOnly, PostingFor
    <2>2. CASE UNCHANGED registry
      BY <2>2 DEF registry, PostingFor
    <2>3. ASSUME NEW r \in Proposals, NEW event, Recorded(r, event)
          PROVE  /\ proposals'[p].revision = proposals[p].revision
                 /\ proposals'[p].boundRevision = proposals[p].boundRevision
                 /\ postings'[PostingOf[p]].revision = PostingFor(p).revision
      <3> DEFINE filed == RecordOnProposal(proposals[r], event)
                 recorded == RecordOnPosting(r, PostingFor(r), event)
      <3>1. /\ proposals[r] \in Proposal /\ PostingFor(r) \in Posting
            /\ proposals \in [Proposals -> Proposal] /\ postings \in [Postings -> Posting]
            /\ PostingOf \in [Proposals -> Postings]
        BY <1>1, Here, WorkflowAssumption DEF Inv, TypeOK
      <3>2. /\ filed.revision = proposals[r].revision
            /\ filed.boundRevision = proposals[r].boundRevision
            /\ recorded.revision = PostingFor(r).revision
        BY <3>1, ProposalFields, PostingFields
      <3>3. /\ proposals' = [proposals EXCEPT ![r] = filed]
            /\ postings' = [postings EXCEPT ![PostingOf[r]] = recorded]
        BY <2>3 DEF Recorded, PostingFor
      <3> HIDE DEF filed, recorded
      <3> QED BY <3>1, <3>2, <3>3 DEF PostingFor
    <2> QED BY <1>1, <2>1, <2>2, <2>3, EventOrRegistry
  <1>2. Inv /\ [Next]_vars =>
           [\A p \in Proposals : escrows[p].totalDeposited > 0 =>
             /\ proposals'[p].revision = proposals[p].revision
             /\ proposals'[p].boundRevision = proposals[p].boundRevision
             /\ postings'[PostingOf[p]].revision = PostingFor(p).revision]_vars
    BY <1>1
  <1> QED BY <1>2, InvIsInvariant, PTL DEF Spec, FundedContentIsFrozen

-----------------------------------------------------------------------------
(* The selection protocol *)

\* A proposal under selection is not the one that was paid.
SelectedIsUnpaid ==
    \A p \in Proposals : PostingFor(p).pending = p => PostingFor(p).accepted # p

LEMMA SelectionBeforeAward == Inv => SelectedIsUnpaid
  <1>1. ASSUME Inv, NEW p \in Proposals, PostingFor(p).pending = p
        PROVE  PostingFor(p).accepted # p
    <2>1. /\ escrows[p].state = "Locked" /\ EscrowInv(escrows[p])
          /\ PostingFor(p).accepted = p <=> escrows[p].currentTranche > 0
      BY <1>1, Here DEF ProposalInv
    <2> QED BY <2>1 DEF EscrowInv, StateAgrees
  <1> QED BY <1>1 DEF SelectedIsUnpaid

\* A first payment is made to the selected proposal.
LEMMA FirstPaymentIsSelected ==
    ASSUME Inv, NEW p \in Proposals, PostingFor(p).accepted = None,
           escrows[p].state \in {"Locked", "Active"}
    PROVE  PostingFor(p).pending = p
  <1>1. ProposalInv(p, escrows[p], proposals[p], PostingFor(p), custody[p])
    BY Here
  <1>2. None # p /\ escrows[p].currentTranche \in Nat
    BY Here, BookNumbers, WorkflowAssumption
  <1>3. escrows[p].state = "Locked"
    BY <1>1, <1>2 DEF ProposalInv, EscrowInv, StateAgrees
  <1> QED BY <1>1, <1>3 DEF ProposalInv

\* Every event is a selection of a free and unpaid posting, the end of a selection,
\* the first payment of the selected proposal, or nothing to the posting's award.
LEMMA EventIsProtocolStep ==
    ASSUME Inv, SelectedIsUnpaid', NEW p \in Proposals, NEW event, Recorded(p, event)
    PROVE  LET q == PostingOf[p]
               before == postings[q]
               after == postings'[q]
           IN \/ /\ before.pending = None /\ before.accepted = None
                 /\ after.pending = p /\ after.accepted = before.accepted
              \/ /\ before.pending # None
                 /\ after.pending = None /\ after.accepted = before.accepted
              \/ /\ before.pending = p /\ before.accepted = None
                 /\ after.pending = None /\ after.accepted = p
              \/ after.pending = before.pending /\ after.accepted = before.accepted
  <1> DEFINE q == PostingOf[p]
             before == postings[q]
             after == postings'[q]
  <1>1. /\ PostingOf[p] \in Postings /\ before = PostingFor(p) /\ before \in Posting
        /\ postings \in [Postings -> Posting] /\ None # p
    BY Here, WorkflowAssumption DEF PostingFor, Inv, TypeOK
  <1>2. after = RecordOnPosting(p, before, event)
    BY <1>1 DEF Recorded
  <1>3. /\ after.pending = PendingAfter(p, before, event)
        /\ after.accepted = AcceptedAfter(p, before, event)
    BY <1>1, <1>2, PostingFields
  <1>4. PostingFor(p)' = after
    BY DEF PostingFor
  <1> HIDE DEF before, after
  <1>5. CASE event = "SelectionLocked"
    <2>1. /\ before.pending = None /\ before.accepted \in {None, p}
          /\ after.pending = p /\ after.accepted = before.accepted
      BY <1>1, <1>3, <1>5 DEF Recorded, CanRecord, PendingAfter, AcceptedAfter, IsAward
    <2>2. after.accepted # p
      BY <2>1, <1>4 DEF SelectedIsUnpaid
    <2> QED BY <2>1, <2>2 DEF before, after
  <1>6. CASE event \in ClosingEvents
    <2>1. /\ after.pending = IF before.pending = p THEN None ELSE before.pending
          /\ after.accepted = before.accepted
      BY <1>3, <1>6 DEF PendingAfter, AcceptedAfter, IsAward, ClosingEvents
    <2> QED BY <2>1, <1>1 DEF before, after
  <1>7. CASE event = "TrancheReleased" /\ before.accepted = None
    <2>1. before.pending = p
      BY <1>1, <1>7, FirstPaymentIsSelected DEF Recorded
    <2>2. after.pending = None /\ after.accepted = p
      BY <1>3, <1>7 DEF PendingAfter, AcceptedAfter, IsAward, ClosingEvents
    <2> QED BY <2>1, <2>2, <1>7 DEF before, after
  <1>8. CASE ~(\/ event = "SelectionLocked" \/ event \in ClosingEvents
               \/ event = "TrancheReleased" /\ before.accepted = None)
    <2>1. after.pending = before.pending /\ after.accepted = before.accepted
      BY <1>3, <1>8 DEF PendingAfter, AcceptedAfter, IsAward
    <2> QED BY <2>1 DEF before, after
  <1> QED BY <1>5, <1>6, <1>7, <1>8

LEMMA AwardStep ==
    ASSUME Inv, ExclusiveAward, ExclusiveAward', SelectedIsUnpaid', [Next]_vars
    PROVE  [Award!Next]_(Award!vars)
  <1> DEFINE pend == [q \in Postings |-> postings[q].pending]
             pend2 == [q \in Postings |-> postings'[q].pending]
             paid == [q \in Postings |-> {p \in Proposals : PostingOf[p] = q /\ Awarded(p)}]
             paid2 == [q \in Postings |-> {p \in Proposals : PostingOf[p] = q /\ Awarded(p)'}]
  <1>1. ASSUME NEW p \in Proposals
        PROVE  /\ Awarded(p) <=> postings[PostingOf[p]].accepted = p
               /\ Awarded(p)' <=> postings'[PostingOf[p]].accepted = p
    BY DEF ExclusiveAward, PostingFor
  <1>2. /\ PostingOf \in [Proposals -> Postings] /\ None \notin Proposals
    BY WorkflowAssumption
  <1>3. CASE \A q \in Postings : /\ postings'[q].pending = postings[q].pending
                                 /\ postings'[q].accepted = postings[q].accepted
    <2>1. pend2 = pend
      BY <1>3
    <2>2. paid2 = paid
      BY <1>1, <1>2, <1>3
    <2> QED BY <2>1, <2>2 DEF Award!vars
  <1>4. ASSUME NEW p \in Proposals, NEW event, Recorded(p, event)
        PROVE  [Award!Next]_(Award!vars)
    <2> DEFINE q == PostingOf[p]
    <2>1. q \in Postings /\ postings \in [Postings -> Posting]
      BY <1>2 DEF Inv, TypeOK
    <2>2. ASSUME NEW r \in Postings, r # q
          PROVE  postings'[r] = postings[r]
      BY <1>4, <2>1, <2>2 DEF Recorded
    <2>3. pend2 = [pend EXCEPT ![q] = postings'[q].pending]
      BY <2>1, <2>2
    <2>4. ASSUME postings'[q].accepted = postings[q].accepted
          PROVE  paid2 = paid
      BY <1>1, <1>2, <2>1, <2>2, <2>4
    <2>5. ASSUME postings[q].accepted = None
          PROVE  paid[q] = {}
      BY <1>1, <1>2, <2>1, <2>5
    <2>6. ASSUME postings'[q].accepted = p
          PROVE  paid2 = [paid EXCEPT ![q] = {p}]
      <3>1. paid2[q] = {p}
        BY <1>1, <2>1, <2>6
      <3>2. ASSUME NEW r \in Postings, r # q
            PROVE  paid2[r] = paid[r]
        BY <1>1, <2>2, <3>2
      <3> HIDE DEF q
      <3> QED BY <2>1, <3>1, <3>2
    <2>7. CASE /\ postings[q].pending = None /\ postings[q].accepted = None
               /\ postings'[q].pending = p
               /\ postings'[q].accepted = postings[q].accepted
      <3>1. Award!Select(q, p)
        BY <2>1, <2>3, <2>4, <2>5, <2>7 DEF Award!Select
      <3> QED BY <3>1, <2>1 DEF Award!Next
    <2>8. CASE /\ postings[q].pending # None /\ postings'[q].pending = None
               /\ postings'[q].accepted = postings[q].accepted
      <3>1. Award!Drop(q)
        BY <2>1, <2>3, <2>4, <2>8 DEF Award!Drop
      <3> QED BY <3>1, <2>1 DEF Award!Next
    <2>9. CASE /\ postings[q].pending = p /\ postings[q].accepted = None
               /\ postings'[q].pending = None /\ postings'[q].accepted = p
      <3>1. Award!Award(q, p)
        BY <2>1, <2>3, <2>5, <2>6, <2>9 DEF Award!Award
      <3> QED BY <3>1, <2>1 DEF Award!Next
    <2>10. CASE /\ postings'[q].pending = postings[q].pending
                /\ postings'[q].accepted = postings[q].accepted
      BY <2>2, <2>10, <1>3
    <2> QED BY <1>4, <2>7, <2>8, <2>9, <2>10, EventIsProtocolStep
  <1>5. CASE RegistryOnly \/ UNCHANGED registry
    BY <1>5, <1>3 DEF RegistryOnly, registry
  <1> QED BY <1>4, <1>5, EventOrRegistry

LEMMA AwardInit == Init => Award!Init
  <1> SUFFICES ASSUME Init PROVE Award!Init
    OBVIOUS
  <1>1. ASSUME NEW q \in Postings PROVE postings[q].pending = None
    BY DEF Init, NewPosting
  <1>2. ASSUME NEW p \in Proposals PROVE ~Awarded(p)
    <2>1. escrows[p] = NewEscrow
      BY DEF Init
    <2>2. NewEscrow.totalReleased = 0
      BY Zenon DEF NewEscrow
    <2> QED BY <2>1, <2>2 DEF Awarded
  <1> QED BY <1>1, <1>2 DEF Award!Init

\* The workflow implements the selection protocol: to a posting, its escrows are
\* selections that are dropped or paid, one at a time, and one payment ends them.
THEOREM AwardRefined == Spec => ImplementsAward
  <1>1. Init => Award!Init
    BY AwardInit
  <1>2. /\ Inv /\ ExclusiveAward /\ ExclusiveAward' /\ SelectedIsUnpaid'
        /\ [Next]_vars
        => [Award!Next]_(Award!vars)
    BY AwardStep
  <1>3. Inv => SelectedIsUnpaid
    BY SelectionBeforeAward
  <1> QED BY <1>1, <1>2, <1>3, InvIsInvariant, AwardIsExclusive, PTL
          DEF Spec, ImplementsAward, Award!Spec

-----------------------------------------------------------------------------
(* What one transaction does to one escrow *)

\* The operations that leave the parties' signatures alone.
Operation(e, d, t) ==
    \/ \E f \in Funders, a \in Nat : CanDeposit(e, a, t) /\ d = Deposit(e, f, a)
    \/ CanLock(e, t) /\ d = Lock(e, t)
    \/ \E v \in Evidence : d = SubmitMilestone(e, v)
    \/ \E f \in Funders, b \in {"yes", "no"} :
          e.votes[f] = "none" /\ e.state # "Open" /\ d = Vote(e, f, b)
    \/ e.state = "Locked" /\ d = InvalidateSelection(e, t)
    \/ \E next \in {"Cancelled", "Expired", "Voided"}, at \in Nat :
          e.state \notin {"Released", "Refunded"} /\ d = OpenRefunds(e, next, at)
    \/ \E f \in Funders : CanClaim(e, f, t) /\ d = Claim(e, f, t)

Approves(p, d) ==
    \E x \in Parties, i \in Indices, v \in Evidence \cup {NoEvidence} :
        /\ CanApprove(escrows[p], x, i, v, now)
        /\ d = Approve(escrows[p], x)
        /\ signed' = [signed EXCEPT ![p][x] = <<i, v>>]

Releases(p, d) ==
    /\ \E i \in Indices, v \in Evidence \cup {NoEvidence} : CanRelease(escrows[p], i, v, now)
    /\ d = Release(escrows[p], now)
    /\ signed' = [signed EXCEPT ![p] = [x \in Parties |-> NoSignature]]

Operates(p, d) ==
    /\ escrows' = [escrows EXCEPT ![p] = d]
    /\ \/ Operation(escrows[p], d, now) /\ signed' = signed
       \/ Approves(p, d)
       \/ Releases(p, d)

LEMMA OperationStep ==
    ASSUME Inv, [Next]_vars
    PROVE  \/ UNCHANGED <<escrows, signed>>
           \/ \E p \in Proposals : \E d : Operates(p, d)
  <1>1. CASE Publication \/ Tick \/ UNCHANGED vars
    BY <1>1 DEF Publication, Records, CommitProposalWithEscrow, UpdateProposal,
        WithdrawProposal, UpdatePosting, WithdrawPosting, SetPostingFundingPaused,
        SetTokenAllowed, Tick, vars, money
  <1>2. CASE Funding
    <2>1. ASSUME NEW f \in Funders, NEW p \in Proposals, ReviewContext(f, p)
          PROVE  UNCHANGED <<escrows, signed>>
      BY <2>1 DEF ReviewContext, money
    <2>2. ASSUME NEW f \in Funders, NEW p \in Proposals, NEW a \in Amounts,
                 DepositAmount(f, p, a) \/ DepositReviewed(f, p, a)
          PROVE  \E d : Operates(p, d)
      <3>1. /\ CanDeposit(escrows[p], a, now) /\ signed' = signed
            /\ escrows' = [escrows EXCEPT ![p] = Deposit(escrows[p], f, a)]
        BY <2>2 DEF DepositAmount, DepositReviewed, TakeDeposit, Transact
      <3>2. a \in Nat
        BY WorkflowAssumption
      <3> QED BY <3>1, <3>2 DEF Operates, Operation
    <2>3. ASSUME NEW f \in Funders, NEW p \in Proposals, NEW i \in Indices,
                 NEW v \in Evidence, NEW b \in {"yes", "no"}, VoteMilestone(f, p, i, v, b)
          PROVE  \E d : Operates(p, d)
      <3>1. /\ CanVote(escrows[p], f, i, v, now) /\ signed' = signed
            /\ escrows' = [escrows EXCEPT ![p] = Vote(escrows[p], f, b)]
        BY <2>3 DEF VoteMilestone, Transact
      <3>2. escrows[p].votes[f] = "none" /\ escrows[p].state # "Open"
        BY <3>1 DEF CanVote, Current
      <3> QED BY <3>1, <3>2 DEF Operates, Operation
    <2>4. ASSUME NEW f \in Funders, NEW p \in Proposals, ClaimRefund(f, p)
          PROVE  \E d : Operates(p, d)
      <3>1. /\ CanClaim(escrows[p], f, now) /\ signed' = signed
            /\ escrows' = [escrows EXCEPT ![p] = Claim(escrows[p], f, now)]
        BY <2>4 DEF ClaimRefund, Transact
      <3> QED BY <3>1 DEF Operates, Operation
    <2> QED BY <1>2, <2>1, <2>2, <2>3, <2>4 DEF Funding
  <1>3. CASE Settlement
    <2>1. ASSUME NEW p \in Proposals, LockSelection(p)
          PROVE  \E d : Operates(p, d)
      <3>1. /\ CanLock(escrows[p], now) /\ signed' = signed
            /\ escrows' = [escrows EXCEPT ![p] = Lock(escrows[p], now)]
        BY <2>1 DEF LockSelection, Transact
      <3> QED BY <3>1 DEF Operates, Operation
    <2>2. ASSUME NEW p \in Proposals, NEW x \in Parties, NEW i \in Indices,
                 NEW v \in Evidence \cup {NoEvidence}, ApproveTranche(p, x, i, v)
          PROVE  \E d : Operates(p, d)
      <3>1. /\ CanApprove(escrows[p], x, i, v, now)
            /\ signed' = [signed EXCEPT ![p][x] = <<i, v>>]
            /\ escrows' = [escrows EXCEPT ![p] = Approve(escrows[p], x)]
        BY <2>2 DEF ApproveTranche, Transact
      <3> QED BY <3>1 DEF Operates, Approves
    <2>3. ASSUME NEW p \in Proposals, NEW i \in Indices, NEW v \in Evidence,
                 SubmitEvidence(p, i, v)
          PROVE  \E d : Operates(p, d)
      <3>1. /\ signed' = signed
            /\ escrows' = [escrows EXCEPT ![p] = SubmitMilestone(escrows[p], v)]
        BY <2>3 DEF SubmitEvidence, Transact
      <3> QED BY <3>1 DEF Operates, Operation
    <2>4. ASSUME NEW p \in Proposals, NEW i \in Indices, NEW v \in Evidence \cup {NoEvidence},
                 ReleaseTranche(p, i, v)
          PROVE  \E d : Operates(p, d)
      <3>1. /\ CanRelease(escrows[p], i, v, now)
            /\ signed' = [signed EXCEPT ![p] = [x \in Parties |-> NoSignature]]
            /\ escrows' = [escrows EXCEPT ![p] = Release(escrows[p], now)]
        BY <2>4 DEF ReleaseTranche, Transact
      <3> QED BY <3>1 DEF Operates, Releases
    <2> QED BY <1>3, <2>1, <2>2, <2>3, <2>4 DEF Settlement
  <1>4. CASE Unwinding
    <2> PICK p \in Proposals :
          \/ PlatformInvalidateSelection(p) \/ RejectSelection(p) \/ CancelEscrow(p)
          \/ VoidEscrow(p) \/ RefundInvalidated(p) \/ ExpireEscrow(p)
      BY <1>4 DEF Unwinding
    <2>1. now \in Nat /\ ExpiresAt \in Nat
      BY Here, Sizes
    <2>2. CASE PlatformInvalidateSelection(p) \/ RejectSelection(p)
      <3>1. /\ escrows[p].state = "Locked" /\ signed' = signed
            /\ escrows' = [escrows EXCEPT ![p] = InvalidateSelection(escrows[p], now)]
        BY <2>2 DEF PlatformInvalidateSelection, RejectSelection, Transact,
                    CanInvalidateSelection, CanRejectSelection
      <3> QED BY <3>1 DEF Operates, Operation
    <2>3. CASE CancelEscrow(p)
      <3>1. /\ escrows[p].state \in {"Open", "Locked"} /\ signed' = signed
            /\ escrows' = [escrows EXCEPT ![p] = OpenRefunds(escrows[p], "Cancelled", ExpiresAt)]
        BY <2>3 DEF CancelEscrow, Transact, CanCancel, Cancel
      <3> QED BY <2>1, <3>1 DEF Operates, Operation
    <2>4. CASE VoidEscrow(p) \/ RefundInvalidated(p)
      <3>1. /\ escrows[p].state \notin {"Released", "Refunded"} /\ signed' = signed
            /\ escrows' = [escrows EXCEPT ![p] = OpenRefunds(escrows[p], "Voided", now)]
        BY <2>4 DEF VoidEscrow, RefundInvalidated, Transact, CanVoid, Void
      <3> QED BY <2>1, <3>1 DEF Operates, Operation
    <2>5. CASE ExpireEscrow(p)
      <3>1. /\ escrows[p].state \in {"Open", "Locked", "Active"} /\ signed' = signed
            /\ escrows' = [escrows EXCEPT ![p] = OpenRefunds(escrows[p], "Expired", now)]
        BY <2>5 DEF ExpireEscrow, Transact, CanExpire, Expire
      <3> QED BY <2>1, <3>1 DEF Operates, Operation
    <2> QED BY <2>2, <2>3, <2>4, <2>5
  <1> QED BY <1>1, <1>2, <1>3, <1>4 DEF Next

LEMMA OperationSums ==
    ASSUME NEW e \in Escrow, EscrowInv(e), SumsInv(e), NEW t \in Nat, NEW d, Operation(e, d, t)
    PROVE  SumsInv(d)
  <1>1. ASSUME NEW f \in Funders, NEW a \in Nat, CanDeposit(e, a, t), d = Deposit(e, f, a)
        PROVE  SumsInv(d)
    BY <1>1, DepositSums
  <1>2. ASSUME NEW v \in Evidence, d = SubmitMilestone(e, v) PROVE SumsInv(d)
    BY <1>2, SubmitMilestoneSums
  <1>3. ASSUME NEW f \in Funders, NEW b \in {"yes", "no"},
               e.votes[f] = "none", e.state # "Open", d = Vote(e, f, b)
        PROVE  SumsInv(d)
    BY <1>3, VoteSums
  <1>4. ASSUME NEW next \in {"Cancelled", "Expired", "Voided"}, NEW at \in Nat,
               d = OpenRefunds(e, next, at)
        PROVE  SumsInv(d)
    BY <1>4, OpenRefundsSums
  <1>5. ASSUME NEW f \in Funders, CanClaim(e, f, t), d = Claim(e, f, t) PROVE SumsInv(d)
    BY <1>5, ClaimSums
  <1>6. CASE d = Lock(e, t)
    BY <1>6, LockSums
  <1>7. CASE e.state = "Locked" /\ d = InvalidateSelection(e, t)
    BY <1>7, InvalidateSelectionSums
  <1> QED BY <1>1, <1>2, <1>3, <1>4, <1>5, <1>6, <1>7 DEF Operation

\* The intervals, the refunds and the tallies of every escrow add up.
EscrowsAddUp == \A p \in Proposals : SumsInv(escrows[p])

LEMMA EscrowsAddUpIsInvariant == Spec => []EscrowsAddUp
  <1>1. Init => EscrowsAddUp
    BY NewEscrowSums DEF Init, EscrowsAddUp
  <1>2. ASSUME Inv, EscrowsAddUp, [Next]_vars PROVE EscrowsAddUp'
    <2>1. ASSUME NEW p \in Proposals, NEW d, Operates(p, d) PROVE SumsInv(d)
      <3>1. escrows[p] \in Escrow /\ EscrowInv(escrows[p]) /\ now \in Nat
        BY <1>2, Here
      <3>2. SumsInv(escrows[p])
        BY <1>2 DEF EscrowsAddUp
      <3>3. CASE Operation(escrows[p], d, now)
        BY <3>1, <3>2, <3>3, OperationSums
      <3>4. CASE Approves(p, d)
        BY <3>1, <3>2, <3>4, ApproveSums DEF Approves
      <3>5. CASE Releases(p, d)
        BY <3>1, <3>2, <3>5, ReleaseSums DEF Releases
      <3> QED BY <2>1, <3>3, <3>4, <3>5 DEF Operates
    <2>2. ASSUME NEW p \in Proposals, NEW d, Operates(p, d), NEW r \in Proposals
          PROVE  SumsInv(escrows'[r])
      <3>1. escrows \in [Proposals -> Escrow] /\ escrows' = [escrows EXCEPT ![p] = d]
        BY <1>2, <2>2 DEF Inv, TypeOK, Operates
      <3>2. escrows'[r] = IF r = p THEN d ELSE escrows[r]
        BY <3>1
      <3> QED BY <3>2, <2>1, <2>2, <1>2 DEF EscrowsAddUp
    <2>3. CASE UNCHANGED <<escrows, signed>>
      BY <1>2, <2>3 DEF EscrowsAddUp
    <2> QED BY <1>2, <2>2, <2>3, OperationStep DEF EscrowsAddUp
  <1> QED BY <1>1, <1>2, InvIsInvariant, PTL DEF Spec

-----------------------------------------------------------------------------
(* Refunds *)

SharesOf(e, pool) == [f \in Funders |-> Share(e, f, pool)]

\* The sum of the shares, as the property states it, is the fold of the lemmas.
LEMMA SumOfShares ==
    ASSUME NEW e, NEW pool
    PROVE  LET share(f) == Share(e, f, pool)
           IN SumOver(Funders, share) = Total(SharesOf(e, pool), Funders)
  <1> DEFINE Solves(it) == it = [s \in SUBSET Funders |->
                IF s = {} THEN 0
                ELSE Share(e, CHOOSE x \in s : TRUE, pool) + it[s \ {CHOOSE x \in s : TRUE}]]
             it == CHOOSE it : Solves(it)
             share(f) == Share(e, f, pool)
  <1>1. IsFiniteSet(Funders)
    BY EscrowAssumption
  <1>2. PICK jt : Sums(jt, SharesOf(e, pool), Funders)
              /\ Total(SharesOf(e, pool), Funders) = jt[Funders]
    BY <1>1, TotalSums
  <1>3. ASSUME NEW at PROVE Sums(at, SharesOf(e, pool), Funders) <=> Solves(at)
    <2>1. \A s \in SUBSET Funders : s # {} =>
             SharesOf(e, pool)[Chosen(s)] = Share(e, CHOOSE x \in s : TRUE, pool)
      BY ChosenIsMember DEF Chosen, SharesOf
    <2> QED BY <2>1 DEF Sums, Chosen
  <1>4. Sums(it, SharesOf(e, pool), Funders)
    <2>1. Solves(it)
      <3> HIDE DEF Solves
      <3>1. \E at : Solves(at)
        BY <1>2, <1>3
      <3> QED BY <3>1
    <2> HIDE DEF it, Solves
    <2> QED BY <1>3, <2>1
  <1>5. it[Funders] = jt[Funders]
    <2> HIDE DEF it
    <2> QED BY <1>1, <1>2, <1>4, SumsAgree
  <1>6. SumOver(Funders, share) = it[Funders]
    BY DEF SumOver, MapThenSumSet, MapThenFoldSet
  <1> QED BY <1>2, <1>5, <1>6

\* Every funder's share of the pool, summed, is the pool.
LEMMA SharesSum ==
    ASSUME Inv, EscrowsAddUp, NEW p \in Proposals
    PROVE  Total(SharesOf(escrows[p], Unpaid(escrows[p])), Funders) = Unpaid(escrows[p])
  <1> DEFINE e == escrows[p]
  <1>1. e \in Escrow /\ EscrowInv(e) /\ SumsInv(e)
    BY Here DEF EscrowsAddUp
  <1> HIDE DEF e
  <1>2. /\ e.contributions \in [Funders -> Nat] /\ e.ends \in [Funders -> Nat]
        /\ e.totalDeposited \in Nat /\ e.totalReleased \in Nat
    BY <1>1, Sizes DEF Escrow
  <1>3. e.totalReleased <= e.totalDeposited
    BY <1>1, PoolBound
  <1>4. IntervalsFit(e) /\ IntervalsTile(e)
    BY <1>1 DEF EscrowInv, SumsInv
  <1>5. Total(SharesOf(e, Unpaid(e)), Funders) = Unpaid(e)
    BY <1>2, <1>3, <1>4, SharesAddUp DEF SharesOf, Unpaid
  <1> QED BY <1>5 DEF e

LEMMA SharesSumHere == Inv /\ EscrowsAddUp => SharesSumToPool
  <1>1. ASSUME Inv, EscrowsAddUp, NEW p \in Proposals
        PROVE  LET e == escrows[p]
                   pool == IF e.refundsEnabled THEN e.refundPool ELSE Unpaid(e)
                   share(f) == Share(e, f, pool)
               IN SumOver(Funders, share) = Unpaid(e)
    <2> DEFINE e == escrows[p]
               pool == IF e.refundsEnabled THEN e.refundPool ELSE Unpaid(e)
    <2>1. pool = Unpaid(e)
      BY <1>1, Here DEF EscrowInv, RefundsAreShares, Unpaid
    <2>2. Total(SharesOf(e, pool), Funders) = Unpaid(e)
      BY <2>1, <1>1, SharesSum
    <2> HIDE DEF e, pool
    <2>3. LET share(f) == Share(e, f, pool)
          IN SumOver(Funders, share) = Total(SharesOf(e, pool), Funders)
      BY SumOfShares
    <2> QED BY <2>2, <2>3 DEF e, pool
  <1> QED BY <1>1 DEF SharesSumToPool

\* An escrow that counts as refunded owes no wallet anything.
LEMMA RefundedInFull ==
    ASSUME Inv, EscrowsAddUp, NEW p \in Proposals, escrows[p].state = "Refunded",
           NEW f \in Funders
    PROVE  escrows[p].refundedAmounts[f] = Share(escrows[p], f, Unpaid(escrows[p]))
  <1> DEFINE e == escrows[p]
             refunds == e.refundedAmounts
             shares == SharesOf(e, Unpaid(e))
  <1>1. e \in Escrow /\ EscrowInv(e) /\ SumsInv(e)
    BY Here DEF EscrowsAddUp
  <1>2. e.refundsEnabled /\ e.refundPool = Unpaid(e)
    BY <1>1 DEF EscrowInv, StateAgrees, RefundStates, RefundsAreShares, Unpaid
  <1>3. Total(refunds, Funders) = Total(shares, Funders)
    BY <1>1, <1>2, SharesSum DEF SumsInv, RefundsAddUp
  <1>4. ASSUME NEW g \in Funders
        PROVE  refunds[g] \in Int /\ shares[g] \in Int /\ refunds[g] <= shares[g]
    <2>1. shares[g] \in 0..e.contributions[g] /\ e.contributions[g] \in Nat
      <3> HIDE DEF e
      <3>1. Share(e, g, e.totalDeposited - e.totalReleased) \in 0..e.contributions[g]
        BY <1>1, ShareBound
      <3>2. e.contributions[g] \in Nat
        BY <1>1, Sizes DEF Escrow
      <3> QED BY <3>1, <3>2 DEF SharesOf, Unpaid
    <2>2. refunds[g] \in {0, shares[g]}
      BY <1>1, <1>2 DEF EscrowInv, RefundsAreShares, SharesOf
    <2> HIDE DEF refunds, shares, e
    <2> QED BY <2>1, <2>2
  <1>5. IsFiniteSet(Funders)
    BY EscrowAssumption
  <1> HIDE DEF refunds, shares
  <1>6. refunds[f] = shares[f]
    BY <1>3, <1>4, <1>5, TotalForcesEqual
  <1> QED BY <1>6 DEF refunds, shares, SharesOf

\* Nothing is left to share once the last tranche is paid.
LEMMA ReleasedLeavesNothing ==
    ASSUME NEW e \in Escrow, EscrowInv(e), e.state = "Released", NEW f \in Funders
    PROVE  Share(e, f, Unpaid(e)) = 0
  <1>1. e.totalReleased = Target /\ e.totalDeposited = Target /\ Target \in Nat \ {0}
    BY PlanAmounts, EscrowAssumption DEF EscrowInv, BooksFollowPlan, StateAgrees
  <1>2. Unpaid(e) = 0
    BY <1>1 DEF Unpaid
  <1>3. \A b \in Int : MulDiv(0, b, Target) = 0
    BY <1>1 DEF MulDiv
  <1>4. e.ends[f] \in Nat /\ e.contributions[f] \in Nat
    BY Sizes DEF Escrow
  <1>5. MulDiv(0, e.ends[f], Target) = 0 /\ MulDiv(0, e.ends[f] - e.contributions[f], Target) = 0
    BY <1>3, <1>4
  <1> QED BY <1>1, <1>2, <1>5 DEF Share

\* What the view offers, spelled out.
LEMMA SummaryClaimableIs ==
    ASSUME NEW e, NEW f, NEW t
    PROVE  SummaryClaimable(e, f, t) =
              IF /\ e.contributions[f] # 0 /\ SummaryUnpaid(e, f) # 0
                 /\ e.refundedAmounts[f] # SummaryUnpaid(e, f) /\ SummaryEligible(e, t)
              THEN SummaryUnpaid(e, f) - e.refundedAmounts[f] ELSE 0
  BY DEF SummaryClaimable, SummaryStatus

\* The view's answer is what a claim in the same block pays.
LEMMA ClaimableHere ==
    ASSUME Inv, EscrowsAddUp, NEW p \in Proposals, NEW f \in Funders
    PROVE  SummaryClaimable(escrows[p], f, now) =
              IF CanClaim(escrows[p], f, now) THEN ClaimAmount(escrows[p], f, now) ELSE 0
  <1> DEFINE e == escrows[p]
             share == Share(e, f, Unpaid(e))
             refund == e.refundedAmounts[f]
  <1>1. e \in Escrow /\ EscrowInv(e) /\ now \in Nat
    BY Here
  <1>2. /\ SummaryUnpaid(e, f) = share
        /\ e.contributions[f] = 0 => share = 0
        /\ share \in Int /\ refund \in Int
    <2>1. share \in 0..e.contributions[f] /\ e.contributions[f] \in Nat /\ refund \in Nat
      <3> HIDE DEF e
      <3>1. Share(e, f, e.totalDeposited - e.totalReleased) \in 0..e.contributions[f]
        BY <1>1, ShareBound
      <3>2. e.contributions[f] \in Nat /\ refund \in Nat
        BY <1>1, Sizes DEF Escrow
      <3> QED BY <3>1, <3>2 DEF Unpaid
    <2> QED BY <2>1 DEF SummaryUnpaid, Unpaid
  <1>3. SummaryClaimable(e, f, now) =
           IF share # 0 /\ refund # share /\ SummaryEligible(e, now)
           THEN share - refund ELSE 0
    BY <1>2, SummaryClaimableIs
  <1>4. CASE e.state = "Released"
    <2>1. share = 0
      BY <1>1, <1>4, ReleasedLeavesNothing
    <2>2. ~CanClaim(e, f, now)
      BY <1>4 DEF CanClaim
    <2> QED BY <1>3, <2>1, <2>2
  <1>5. CASE e.state = "Refunded"
    <2>1. refund = share
      BY <1>5, RefundedInFull
    <2>2. ~CanClaim(e, f, now)
      BY <1>5 DEF CanClaim
    <2> QED BY <1>3, <2>1, <2>2
  <1>6. ASSUME e.state \notin {"Released", "Refunded"},
               NEW o, o = WithRefundsOpen(e, now),
               o.refundsEnabled, Share(o, f, o.refundPool) = share, o.refundedAmounts[f] = refund,
               refund \in {0, share},
               (e.refundsEnabled \/ CanExpire(e, now)) /\ now >= o.refundAvailableAt
                  <=> SummaryEligible(e, now)
        PROVE  SummaryClaimable(e, f, now) =
                  IF CanClaim(e, f, now) THEN ClaimAmount(e, f, now) ELSE 0
    <2>1. RefundDue(o, f) = share - refund
      BY <1>6 DEF RefundDue
    <2>2. CanClaim(e, f, now) <=> SummaryEligible(e, now) /\ share - refund # 0
      BY <1>6, <2>1 DEF CanClaim
    <2>3. ClaimAmount(e, f, now) = share - refund
      BY <1>6, <2>1 DEF ClaimAmount
    <2> HIDE DEF share, refund, e
    <2> QED BY <1>2, <1>3, <1>6, <2>2, <2>3
  <1>7. CASE e.state \notin {"Released", "Refunded"} /\ e.refundsEnabled
    <2>1. WithRefundsOpen(e, now) = e
      BY <1>7 DEF WithRefundsOpen
    <2>2. e.refundPool = Unpaid(e) /\ refund \in {0, share}
      BY <1>1, <1>7 DEF EscrowInv, RefundsAreShares, Unpaid
    <2>3. SummaryEligible(e, now) <=> now >= e.refundAvailableAt
      BY <1>7 DEF SummaryEligible
    <2> QED BY <1>6, <1>7, <2>1, <2>2, <2>3
  <1>8. CASE e.state \notin {"Released", "Refunded"} /\ ~e.refundsEnabled
    <2> DEFINE o == WithRefundsOpen(e, now)
    <2>1. o = OpenRefunds(e, "Expired", now)
      BY <1>8 DEF WithRefundsOpen, Expire
    <2>2. /\ o.refundsEnabled /\ o.refundAvailableAt = now /\ o.refundPool = Unpaid(e)
          /\ o.refundedAmounts = e.refundedAmounts /\ o.contributions = e.contributions
          /\ o.ends = e.ends /\ o.totalDeposited = e.totalDeposited
          /\ o.totalReleased = e.totalReleased
      BY <1>1, <2>1, Zenon DEF OpenRefunds, Escrow, Unpaid
    <2> HIDE DEF o
    <2>3. Share(o, f, o.refundPool) = share
      BY <2>2 DEF Share
    <2>4. refund \in {0, share}
      BY <1>1, <1>8 DEF EscrowInv, RefundsAreShares
    <2>5. e.state \in {"Open", "Locked", "Active"}
      BY <1>1, <1>8 DEF EscrowInv, StateAgrees, RefundStates, Escrow, States
    <2>6. (e.refundsEnabled \/ CanExpire(e, now)) /\ now >= o.refundAvailableAt
             <=> SummaryEligible(e, now)
      BY <1>1, <1>8, <2>2, <2>5 DEF SummaryEligible, CanExpire
    <2> QED BY <1>6, <1>8, <2>2, <2>3, <2>4, <2>6 DEF o
  <1> QED BY <1>4, <1>5, <1>7, <1>8

\* After any history of an escrow the shares of its funders add up to what is
\* unpaid, each is proportional to within a unit, and the view a wallet reads
\* offers exactly what a claim pays.
THEOREM RefundsExact == Spec => []RefundsAreExact
  <1>1. Inv /\ EscrowsAddUp => ClaimableIsExact
    BY ClaimableHere DEF ClaimableIsExact
  <1> QED BY <1>1, SharesSumHere, SharesProportional, InvIsInvariant, EscrowsAddUpIsInvariant, PTL
          DEF RefundsAreExact

-----------------------------------------------------------------------------
(* Decisions *)

\* Who counts as having approved signed the current tranche with the evidence now
\* on record.
ApprovalsAreSigned ==
    \A p \in Proposals, x \in Parties :
        x \in escrows[p].approved =>
            signed[p][x] = <<escrows[p].currentTranche, escrows[p].evidence>>

\* An operation keeps what was approved, and what it was approved for, or voids it.
KeepsApprovals(e, d) ==
    \/ d.approved = {}
    \/ /\ d.approved = e.approved /\ d.currentTranche = e.currentTranche
       /\ d.evidence = e.evidence

LEMMA OperationKeepsApprovals ==
    ASSUME NEW e \in Escrow, NEW t, NEW d, Operation(e, d, t)
    PROVE  KeepsApprovals(e, d) /\ d.totalReleased = e.totalReleased
  <1>1. ASSUME NEW f \in Funders, NEW a \in Nat, d = Deposit(e, f, a)
        PROVE  KeepsApprovals(e, d) /\ d.totalReleased = e.totalReleased
    BY <1>1, Zenon DEF Deposit, Escrow, KeepsApprovals
  <1>2. ASSUME NEW v \in Evidence, d = SubmitMilestone(e, v)
        PROVE  KeepsApprovals(e, d) /\ d.totalReleased = e.totalReleased
    BY <1>2, Zenon DEF SubmitMilestone, Escrow, KeepsApprovals
  <1>3. ASSUME NEW f \in Funders, NEW b \in {"yes", "no"}, d = Vote(e, f, b)
        PROVE  KeepsApprovals(e, d) /\ d.totalReleased = e.totalReleased
    BY <1>3, Zenon DEF Vote, Escrow, KeepsApprovals
  <1>4. ASSUME NEW next, NEW at, d = OpenRefunds(e, next, at)
        PROVE  KeepsApprovals(e, d) /\ d.totalReleased = e.totalReleased
    BY <1>4, Zenon DEF OpenRefunds, Escrow, KeepsApprovals
  <1>5. ASSUME NEW f \in Funders, d = Claim(e, f, t)
        PROVE  KeepsApprovals(e, d) /\ d.totalReleased = e.totalReleased
    <2> DEFINE o == WithRefundsOpen(e, t)
               refunded == o.totalRefunded + RefundDue(o, f)
               balances == Credit(o.refundedAmounts, f, RefundDue(o, f))
               next == IF refunded = o.refundPool THEN "Refunded" ELSE o.state
    <2>1. d = [o EXCEPT !.refundedAmounts = balances, !.totalRefunded = refunded, !.state = next]
      BY <1>5, Zenon DEF Claim
    <2>2. o = e \/ o = [e EXCEPT !.refundsEnabled = TRUE, !.refundAvailableAt = t,
                         !.refundPool = e.totalDeposited - e.totalReleased, !.state = "Expired"]
      BY DEF WithRefundsOpen, Expire, OpenRefunds
    <2> HIDE DEF o, refunded, balances, next
    <2>3. CASE o = e
      BY <2>1, <2>3, Zenon DEF Escrow, KeepsApprovals
    <2>4. CASE o = [e EXCEPT !.refundsEnabled = TRUE, !.refundAvailableAt = t,
                    !.refundPool = e.totalDeposited - e.totalReleased, !.state = "Expired"]
      BY <2>1, <2>4, Zenon DEF Escrow, KeepsApprovals
    <2> QED BY <2>2, <2>3, <2>4
  <1>6. CASE d = Lock(e, t)
    BY <1>6, Zenon DEF Lock, Escrow, KeepsApprovals
  <1>7. CASE d = InvalidateSelection(e, t)
    BY <1>7, Zenon DEF InvalidateSelection, OpenRefunds, Escrow, KeepsApprovals
  <1> QED BY <1>1, <1>2, <1>3, <1>4, <1>5, <1>6, <1>7 DEF Operation

LEMMA ApprovalsAreSignedIsInvariant == Spec => []ApprovalsAreSigned
  <1>1. Init => ApprovalsAreSigned
    <2>1. NewEscrow.approved = {}
      BY Zenon DEF NewEscrow
    <2> QED BY <2>1 DEF Init, ApprovalsAreSigned
  <1>2. ASSUME Inv, ApprovalsAreSigned, [Next]_vars PROVE ApprovalsAreSigned'
    <2>1. /\ escrows \in [Proposals -> Escrow]
          /\ signed \in [Proposals -> [Parties -> Signatures \cup {NoSignature}]]
      BY <1>2 DEF Inv, TypeOK
    <2>2. ASSUME NEW p \in Proposals, NEW d, Operates(p, d),
                 NEW x \in Parties, x \in d.approved
          PROVE  signed'[p][x] = <<d.currentTranche, d.evidence>>
      <3>1. escrows[p] \in Escrow
        BY <2>1
      <3>2. CASE Operation(escrows[p], d, now) /\ signed' = signed
        <4>1. KeepsApprovals(escrows[p], d)
          BY <3>1, <3>2, OperationKeepsApprovals
        <4>2. /\ d.approved = escrows[p].approved /\ d.evidence = escrows[p].evidence
              /\ d.currentTranche = escrows[p].currentTranche
          BY <2>2, <4>1 DEF KeepsApprovals
        <4> QED BY <1>2, <2>2, <3>2, <4>2 DEF ApprovalsAreSigned
      <3>3. CASE Approves(p, d)
        <4> PICK y \in Parties, i \in Indices, v \in Evidence \cup {NoEvidence} :
              /\ CanApprove(escrows[p], y, i, v, now)
              /\ d = Approve(escrows[p], y)
              /\ signed' = [signed EXCEPT ![p][y] = <<i, v>>]
          BY <3>3 DEF Approves
        <4>1. i = escrows[p].currentTranche /\ v = escrows[p].evidence
          BY DEF CanApprove, Current
        <4>2. /\ d.approved = escrows[p].approved \cup {y} /\ d.evidence = escrows[p].evidence
              /\ d.currentTranche = escrows[p].currentTranche
          BY <3>1, Zenon DEF Approve, Escrow
        <4>3. signed'[p][x] = IF x = y THEN <<i, v>> ELSE signed[p][x]
          BY <2>1
        <4>4. CASE x = y
          BY <4>1, <4>2, <4>3, <4>4
        <4>5. CASE x # y
          <5>1. x \in escrows[p].approved
            BY <2>2, <4>2, <4>5
          <5>2. signed[p][x] = <<escrows[p].currentTranche, escrows[p].evidence>>
            BY <1>2, <5>1 DEF ApprovalsAreSigned
          <5> QED BY <4>2, <4>3, <4>5, <5>2
        <4> QED BY <4>4, <4>5
      <3>4. CASE Releases(p, d)
        <4>1. d.approved = {}
          BY <3>1, <3>4, Zenon DEF Releases, Release, Escrow
        <4> QED BY <2>2, <4>1
      <3> QED BY <2>2, <3>2, <3>3, <3>4 DEF Operates
    <2>3. ASSUME NEW p \in Proposals, NEW d, Operates(p, d), NEW r \in Proposals,
                 NEW x \in Parties, x \in escrows'[r].approved
          PROVE  signed'[r][x] = <<escrows'[r].currentTranche, escrows'[r].evidence>>
      <3>1. escrows'[r] = IF r = p THEN d ELSE escrows[r]
        BY <2>1, <2>3 DEF Operates
      <3>2. CASE r = p
        BY <2>2, <2>3, <3>1, <3>2
      <3>3. CASE r # p
        <4>1. signed'[r] = signed[r]
          BY <2>1, <2>3, <3>3 DEF Operates, Approves, Releases
        <4> QED BY <1>2, <2>3, <3>1, <3>3, <4>1 DEF ApprovalsAreSigned
      <3> QED BY <3>2, <3>3
    <2>4. CASE UNCHANGED <<escrows, signed>>
      BY <1>2, <2>4 DEF ApprovalsAreSigned
    <2> QED BY <1>2, <2>3, <2>4, OperationStep DEF ApprovalsAreSigned
  <1> QED BY <1>1, <1>2, InvIsInvariant, PTL DEF Spec

\* The tally, as the property states it, is the one the escrow keeps.
LEMMA TallyIsYesWeight ==
    ASSUME EscrowsAddUp, NEW p \in Proposals
    PROVE  YesWeight(p) = escrows[p].yesWeight
  <1> DEFINE weight(f) == IF escrows[p].votes[f] = "yes" THEN escrows[p].contributions[f] ELSE 0
             yes == YesVotes(escrows[p].votes, escrows[p].contributions)
             Solves(it) == it = [s \in SUBSET Funders |->
                IF s = {} THEN 0
                ELSE weight(CHOOSE x \in s : TRUE) + it[s \ {CHOOSE x \in s : TRUE}]]
             it == CHOOSE it : Solves(it)
  <1>1. IsFiniteSet(Funders)
    BY EscrowAssumption
  <1>2. PICK jt : Sums(jt, yes, Funders) /\ Total(yes, Funders) = jt[Funders]
    <2> HIDE DEF yes
    <2> QED BY <1>1, TotalSums
  <1>3. ASSUME NEW at PROVE Sums(at, yes, Funders) <=> Solves(at)
    <2>1. \A s \in SUBSET Funders : s # {} =>
             yes[Chosen(s)] = weight(CHOOSE x \in s : TRUE)
      BY ChosenIsMember DEF Chosen, YesVotes
    <2> QED BY <2>1 DEF Sums, Chosen
  <1>4. Sums(it, yes, Funders)
    <2>1. Solves(it)
      <3> HIDE DEF Solves
      <3>1. \E at : Solves(at)
        BY <1>2, <1>3
      <3> QED BY <3>1
    <2> HIDE DEF it, Solves
    <2> QED BY <1>3, <2>1
  <1>5. it[Funders] = jt[Funders]
    <2> HIDE DEF it, yes
    <2> QED BY <1>1, <1>2, <1>4, SumsAgree
  <1>6. YesWeight(p) = it[Funders]
    BY DEF YesWeight, SumOver, MapThenSumSet, MapThenFoldSet
  <1>7. Total(yes, Funders) = escrows[p].yesWeight
    BY DEF EscrowsAddUp, SumsInv, VotesAddUp
  <1> QED BY <1>2, <1>5, <1>6, <1>7

\* A tranche is paid on two signatures for it and for the evidence on record and,
\* with funder voting, on the votes of more than half of the deposits.
THEOREM PaymentsDecided == Spec => PaidAsDecided
  <1>1. ASSUME Inv, EscrowsAddUp, ApprovalsAreSigned, [Next]_vars,
               NEW p \in Proposals, Paid(p)
        PROVE  LET tranche == escrows[p].currentTranche
               IN /\ \A x \in Parties : signed[p][x] = <<tranche, escrows[p].evidence>>
                  /\ tranche # 0 /\ FunderVoting =>
                        2 * YesWeight(p) > escrows[p].totalDeposited
    <2>1. escrows \in [Proposals -> Escrow] /\ escrows[p] \in Escrow
      BY <1>1 DEF Inv, TypeOK
    <2>2. PICK r \in Proposals : \E d : Operates(r, d)
      BY <1>1, OperationStep DEF Paid
    <2>3. PICK d : Operates(r, d)
      BY <2>2
    <2>4. r = p /\ d.totalReleased # escrows[p].totalReleased
      BY <1>1, <2>1, <2>3 DEF Operates, Paid
    <2>5. ~Operation(escrows[p], d, now)
      BY <2>1, <2>4, OperationKeepsApprovals
    <2>6. ~Approves(p, d)
      <3>1. ASSUME NEW x \in Parties PROVE Approve(escrows[p], x).totalReleased = escrows[p].totalReleased
        BY <2>1, Zenon DEF Approve, Escrow
      <3> QED BY <2>4, <3>1 DEF Approves
    <2>7. Releases(p, d)
      BY <2>3, <2>4, <2>5, <2>6 DEF Operates
    <2>8. PICK i \in Indices, v \in Evidence \cup {NoEvidence} : CanRelease(escrows[p], i, v, now)
      BY <2>7 DEF Releases
    <2>9. /\ i = escrows[p].currentTranche /\ escrows[p].approved = Parties
          /\ i # 0 /\ FunderVoting => HasFunderMajority(escrows[p])
      BY <2>8 DEF CanRelease, Current
    <2>10. \A x \in Parties :
              signed[p][x] = <<escrows[p].currentTranche, escrows[p].evidence>>
      BY <1>1, <2>9 DEF ApprovalsAreSigned
    <2>11. HasFunderMajority(escrows[p]) => 2 * YesWeight(p) > escrows[p].totalDeposited
      <3>1. YesWeight(p) = escrows[p].yesWeight
        BY <1>1, TallyIsYesWeight
      <3>2. escrows[p].yesWeight \in Nat /\ escrows[p].totalDeposited \in Nat
        BY <2>1, Sizes DEF Escrow
      <3>3. \A y, t \in Nat : y > t \div 2 => 2 * y > t
        BY SMT
      <3> QED BY <3>1, <3>2, <3>3 DEF HasFunderMajority
    <2> QED BY <2>9, <2>10, <2>11
  <1>2. Inv /\ EscrowsAddUp /\ ApprovalsAreSigned /\ [Next]_vars =>
           [\A p \in Proposals : Paid(p) =>
              LET tranche == escrows[p].currentTranche
              IN /\ \A x \in Parties : signed[p][x] = <<tranche, escrows[p].evidence>>
                 /\ tranche # 0 /\ FunderVoting =>
                       2 * YesWeight(p) > escrows[p].totalDeposited]_vars
    BY <1>1
  <1> QED BY <1>2, InvIsInvariant, EscrowsAddUpIsInvariant, ApprovalsAreSignedIsInvariant, PTL
          DEF Spec, PaidAsDecided

-----------------------------------------------------------------------------
(* The tree of intervals                                                     *)

\* What holds of a number whenever it holds of all smaller ones holds up to any bound.
LEMMA StrongInduction ==
    ASSUME NEW N \in Nat, NEW Good,
           \A i \in 0..N : (\A k \in 0..N : k < i => k \in Good) => i \in Good
    PROVE  0..N \subseteq Good
  <1> DEFINE Bad == {i \in 0..N : i \notin Good}
  <1>1. SUFFICES ASSUME Bad # {}
                 PROVE  FALSE
    OBVIOUS
  <1>2. PICK i \in Bad : \A k \in Bad : ~(k < i)
    <2>1. Bad # {} /\ Bad \subseteq Nat
      BY <1>1
    <2> HIDE DEF Bad
    <2>2. PICK i \in Bad : \A k \in Bad : ~(<<k, i>> \in OpToRel(<, Nat))
      BY <2>1, NatLessThanWellFounded, WFMin
    <2> QED BY <2>1, <2>2 DEF OpToRel
  <1>3. \A k \in 0..N : k < i => k \in Good
    BY <1>2
  <1> QED BY <1>2, <1>3

LEMMA TreeSize == Cardinality(Funders) \in Nat
  BY EscrowAssumption, FS_CardinalityType

\* The recursion by halving defines a function.
LEMMA LowBitIs ==
    \A i \in Nodes : LowBit[i] = IF i % 2 = 1 THEN 1 ELSE 2 * LowBit[i \div 2]
  <1> DEFINE N == Cardinality(Funders)
             Step(g) == [i \in Nodes |-> IF i % 2 = 1 THEN 1 ELSE 2 * g[i \div 2]]
             Good == {n \in 0..N : \E g : \A i \in Nodes : i <= n => g[i] = Step(g)[i]}
  <1>1. N \in Nat /\ Nodes = 1..N
    BY TreeSize DEF Nodes
  <1>2. ASSUME NEW n \in 0..N, \A k \in 0..N : k < n => k \in Good
        PROVE  n \in Good
    <2>1. CASE n = 0
      BY <1>1, <2>1
    <2>2. CASE n # 0
      <3>1. n - 1 \in 0..N /\ n - 1 < n
        BY <1>1, <2>2
      <3>2. PICK g : \A i \in Nodes : i <= n - 1 => g[i] = Step(g)[i]
        BY <1>2, <3>1
      <3>3. ASSUME NEW i \in Nodes, i <= n
            PROVE  Step(g)[i] = Step(Step(g))[i]
        <4>1. CASE i % 2 = 1
          BY <4>1
        <4>2. CASE i % 2 # 1
          <5>1. i \div 2 \in Nodes /\ i \div 2 <= n - 1
            BY <1>1, <3>3, <4>2
          <5>2. g[i \div 2] = Step(g)[i \div 2]
            BY <3>2, <5>1
          <5> QED BY <4>2, <5>2
        <4> QED BY <4>1, <4>2
      <3> QED BY <3>3
    <2> QED BY <2>1, <2>2
  <1>3. N \in Good
    <2> HIDE DEF Good
    <2>1. 0..N \subseteq Good
      BY <1>1, <1>2, StrongInduction
    <2> QED BY <1>1, <2>1
  <1>4. PICK g : \A i \in Nodes : g[i] = Step(g)[i]
    BY <1>1, <1>3
  <1>5. Step(g) = [i \in Nodes |-> IF i % 2 = 1 THEN 1 ELSE 2 * Step(g)[i \div 2]]
    <2>1. \A i \in Nodes : i % 2 # 1 => i \div 2 \in Nodes
      BY <1>1
    <2> QED BY <1>4, <2>1
  <1>6. LowBit = [i \in Nodes |-> IF i % 2 = 1 THEN 1 ELSE 2 * LowBit[i \div 2]]
    <2> HIDE DEF Step
    <2> QED BY <1>5 DEF LowBit
  <1> QED BY <1>6

\* An even index and its half.
LEMMA Halves ==
    /\ \A i \in Nodes : i % 2 = 1 => LowBit[i] = 1
    /\ \A i \in Nodes : i % 2 # 1 =>
          \E m \in Nodes : i = 2 * m /\ m < i /\ LowBit[i] = 2 * LowBit[m]
  <1>1. Cardinality(Funders) \in Nat
    BY TreeSize
  <1>2. ASSUME NEW i \in Nodes, i % 2 # 1
        PROVE  \E m \in Nodes : i = 2 * m /\ m < i /\ LowBit[i] = 2 * LowBit[m]
    <2>1. i \div 2 \in Nodes /\ i = 2 * (i \div 2) /\ i \div 2 < i
      BY <1>1, <1>2 DEF Nodes
    <2> QED BY <1>2, <2>1, LowBitIs
  <1> QED BY <1>2, LowBitIs

LEMMA LowBitBound == \A i \in Nodes : LowBit[i] \in 1..i
  <1> DEFINE N == Cardinality(Funders)
             Good == {i \in 0..N : i = 0 \/ LowBit[i] \in 1..i}
  <1>1. N \in Nat /\ Nodes = 1..N
    BY TreeSize DEF Nodes
  <1>2. ASSUME NEW i \in 0..N, \A k \in 0..N : k < i => k \in Good
        PROVE  i \in Good
    <2>1. CASE i = 0
      BY <2>1
    <2>2. CASE i # 0 /\ i % 2 = 1
      BY <1>1, <2>2, Halves
    <2>3. CASE i # 0 /\ i % 2 # 1
      <3>1. PICK m \in Nodes : i = 2 * m /\ m < i /\ LowBit[i] = 2 * LowBit[m]
        BY <1>1, <2>3, Halves
      <3>2. LowBit[m] \in 1..m
        BY <1>1, <1>2, <3>1
      <3> QED BY <1>1, <3>1, <3>2
    <2> QED BY <2>1, <2>2, <2>3
  <1>3. 0..N \subseteq Good
    <2> HIDE DEF Good
    <2> QED BY <1>1, <1>2, StrongInduction
  <1> QED BY <1>1, <1>3

\* Node i is for the wallets after Before(i), up to the i-th.
Before(i) == i - LowBit[i]

LEMMA BeforeBound == \A i \in Nodes : Before(i) \in 0..(i - 1) /\ i \in Nat
  BY TreeSize, LowBitBound DEF Before, Nodes

\* Where the ranges of two nodes meet, one contains the other.
LEMMA RangesNest ==
    \A i \in Nodes : \A p \in Nodes : Before(i) < p /\ p <= i => Before(i) <= Before(p)
  <1> DEFINE N == Cardinality(Funders)
             Good == {i \in 0..N : i \in Nodes => \A p \in Nodes :
                         Before(i) < p /\ p <= i => Before(i) <= Before(p)}
  <1>1. N \in Nat /\ Nodes = 1..N
    BY TreeSize DEF Nodes
  <1>2. ASSUME NEW i \in 0..N, \A k \in 0..N : k < i => k \in Good, i \in Nodes,
               NEW p \in Nodes, Before(i) < p, p <= i
        PROVE  Before(i) <= Before(p)
    <2>1. LowBit[i] \in 1..i /\ LowBit[p] \in 1..p
      BY <1>2, LowBitBound
    <2>2. CASE i % 2 = 1
      BY <1>1, <1>2, <2>1, <2>2, Halves DEF Before
    <2>3. CASE i % 2 # 1
      <3>1. PICK m \in Nodes : i = 2 * m /\ m < i /\ LowBit[i] = 2 * LowBit[m]
        BY <1>2, <2>3, Halves
      <3>2. LowBit[m] \in 1..m /\ Before(i) = 2 * Before(m) /\ Before(m) \in Nat
        BY <1>1, <3>1, LowBitBound DEF Before
      <3>3. CASE p % 2 = 1
        <4>1. Before(p) = p - 1
          BY <3>3, Halves DEF Before
        <4> QED BY <1>1, <1>2, <3>2, <4>1
      <3>4. CASE p % 2 # 1
        <4>1. PICK q \in Nodes : p = 2 * q /\ LowBit[p] = 2 * LowBit[q]
          BY <3>4, Halves
        <4>2. LowBit[q] \in 1..q /\ Before(p) = 2 * Before(q) /\ Before(q) \in Nat
          BY <1>1, <4>1, LowBitBound DEF Before
        <4>3. Before(m) < q /\ q <= m
          BY <1>1, <1>2, <3>1, <3>2, <4>1
        <4>4. Before(m) <= Before(q)
          BY <1>1, <1>2, <3>1, <4>3
        <4> QED BY <3>2, <4>2, <4>4
      <3> QED BY <3>3, <3>4
    <2> QED BY <2>2, <2>3
  <1>3. 0..N \subseteq Good
    <2>1. \A i \in 0..N : (\A k \in 0..N : k < i => k \in Good) => i \in Good
      BY <1>2
    <2> HIDE DEF Good
    <2> QED BY <1>1, <2>1, StrongInduction
  <1> QED BY <1>1, <1>3

\* A node's parent covers the node.
LEMMA ParentCovers ==
    \A j \in Nodes : \A p \in Nodes : p = j + LowBit[j] => Before(p) < j
  <1> DEFINE N == Cardinality(Funders)
             Good == {j \in 0..N : j \in Nodes => \A p \in Nodes :
                         p = j + LowBit[j] => Before(p) < j}
  <1>1. N \in Nat /\ Nodes = 1..N
    BY TreeSize DEF Nodes
  <1>2. ASSUME NEW j \in 0..N, \A k \in 0..N : k < j => k \in Good, j \in Nodes,
               NEW p \in Nodes, p = j + LowBit[j]
        PROVE  Before(p) < j
    <2>1. LowBit[j] \in 1..j /\ LowBit[p] \in 1..p
      BY <1>2, LowBitBound
    <2>2. CASE j % 2 = 1
      <3>1. p = j + 1
        BY <1>2, <2>2, Halves
      <3>2. p % 2 # 1
        BY <1>1, <2>2, <3>1
      <3>3. PICK q \in Nodes : p = 2 * q /\ LowBit[p] = 2 * LowBit[q]
        BY <3>2, Halves
      <3>4. LowBit[q] \in 1..q
        BY LowBitBound
      <3> QED BY <1>1, <3>1, <3>3, <3>4 DEF Before
    <2>3. CASE j % 2 # 1
      <3>1. PICK m \in Nodes : j = 2 * m /\ m < j /\ LowBit[j] = 2 * LowBit[m]
        BY <1>2, <2>3, Halves
      <3>2. LowBit[m] \in 1..m
        BY LowBitBound
      <3>3. p % 2 # 1
        BY <1>1, <1>2, <3>1, <3>2
      <3>4. PICK q \in Nodes : p = 2 * q /\ LowBit[p] = 2 * LowBit[q]
        BY <3>3, Halves
      <3>5. LowBit[q] \in 1..q /\ q = m + LowBit[m]
        <4>1. LowBit[q] \in 1..q
          BY LowBitBound
        <4>2. 2 * q = 2 * m + 2 * LowBit[m]
          BY <1>2, <3>1, <3>4
        <4> QED BY <1>1, <3>2, <4>1, <4>2
      <3>6. Before(q) < m
        BY <1>1, <1>2, <3>1, <3>5
      <3> QED BY <1>1, <3>1, <3>4, <3>5, <3>6 DEF Before
    <2> QED BY <2>2, <2>3
  <1>3. 0..N \subseteq Good
    <2>1. \A i \in 0..N : (\A k \in 0..N : k < i => k \in Good) => i \in Good
      BY <1>2
    <2> HIDE DEF Good
    <2> QED BY <1>1, <2>1, StrongInduction
  <1> QED BY <1>1, <1>3

\* Whatever else covers a node lies at its parent or beyond.
LEMMA NoneBelowParent ==
    \A j \in Nodes : \A i \in Nodes : j < i /\ Before(i) < j => j + LowBit[j] <= i
  <1> DEFINE N == Cardinality(Funders)
             Good == {j \in 0..N : j \in Nodes => \A i \in Nodes :
                         j < i /\ Before(i) < j => j + LowBit[j] <= i}
  <1>1. N \in Nat /\ Nodes = 1..N
    BY TreeSize DEF Nodes
  <1>2. ASSUME NEW j \in 0..N, \A k \in 0..N : k < j => k \in Good, j \in Nodes,
               NEW i \in Nodes, j < i, Before(i) < j
        PROVE  j + LowBit[j] <= i
    <2>1. LowBit[j] \in 1..j /\ LowBit[i] \in 1..i
      BY <1>2, LowBitBound
    <2>2. CASE j % 2 = 1
      BY <1>1, <1>2, <2>2, Halves
    <2>3. CASE i % 2 = 1
      <3>1. Before(i) = i - 1
        BY <2>3, Halves DEF Before
      <3> QED BY <1>1, <1>2, <3>1
    <2>4. CASE j % 2 # 1 /\ i % 2 # 1
      <3>1. PICK m \in Nodes : j = 2 * m /\ m < j /\ LowBit[j] = 2 * LowBit[m]
        BY <1>2, <2>4, Halves
      <3>2. PICK q \in Nodes : i = 2 * q /\ LowBit[i] = 2 * LowBit[q]
        BY <2>4, Halves
      <3>3. LowBit[m] \in 1..m /\ LowBit[q] \in 1..q
        BY LowBitBound
      <3>4. m < q /\ Before(q) < m
        BY <1>1, <1>2, <3>1, <3>2, <3>3 DEF Before
      <3>5. m + LowBit[m] <= q
        BY <1>1, <1>2, <3>1, <3>4
      <3> QED BY <1>1, <3>1, <3>2, <3>3, <3>5
    <2> QED BY <2>2, <2>3, <2>4
  <1>3. 0..N \subseteq Good
    <2>1. \A i \in 0..N : (\A k \in 0..N : k < i => k \in Good) => i \in Good
      BY <1>2
    <2> HIDE DEF Good
    <2> QED BY <1>1, <2>1, StrongInduction
  <1> QED BY <1>1, <1>3

-----------------------------------------------------------------------------
(* The walks                                                                 *)

\* The walk down adds a node and what is before its range.
LEMMA PrefixSumIs ==
    ASSUME NEW tree
    PROVE  /\ PrefixSum(tree, 0) = 0
           /\ \A i \in Nodes : PrefixSum(tree, i) = tree[i] + PrefixSum(tree, Before(i))
  <1> DEFINE N == Cardinality(Funders)
             Step(s) == [i \in 0..N |-> IF i = 0 THEN 0 ELSE tree[i] + s[i - LowBit[i]]]
             Good == {n \in 0..N : \E s : \A i \in 0..N : i <= n => s[i] = Step(s)[i]}
             sum == CHOOSE s : s = Step(s)
  <1>1. N \in Nat /\ Nodes = 1..N
    BY TreeSize DEF Nodes
  <1>2. \A i \in 0..N : i # 0 => i - LowBit[i] \in 0..N /\ i - LowBit[i] < i
    BY <1>1, LowBitBound
  <1>3. ASSUME NEW n \in 0..N, \A k \in 0..N : k < n => k \in Good
        PROVE  n \in Good
    <2>1. CASE n = 0
      <3> DEFINE zero == [i \in 0..N |-> 0]
      <3>1. \A i \in 0..N : i <= n => zero[i] = Step(zero)[i]
        BY <1>1, <2>1
      <3> QED BY <3>1
    <2>2. CASE n # 0
      <3>1. n - 1 \in 0..N /\ n - 1 < n
        BY <1>1, <2>2
      <3>2. PICK s : \A i \in 0..N : i <= n - 1 => s[i] = Step(s)[i]
        BY <1>3, <3>1
      <3>3. ASSUME NEW i \in 0..N, i <= n
            PROVE  Step(s)[i] = Step(Step(s))[i]
        <4>1. CASE i = 0
          BY <4>1
        <4>2. CASE i # 0
          <5>1. i - LowBit[i] \in 0..N /\ i - LowBit[i] <= n - 1
            BY <1>1, <1>2, <3>3, <4>2
          <5>2. s[i - LowBit[i]] = Step(s)[i - LowBit[i]]
            BY <3>2, <5>1
          <5> QED BY <4>2, <5>2
        <4> QED BY <4>1, <4>2
      <3> QED BY <3>3
    <2> QED BY <2>1, <2>2
  <1>4. N \in Good
    <2> HIDE DEF Good
    <2>1. 0..N \subseteq Good
      BY <1>1, <1>3, StrongInduction
    <2> QED BY <1>1, <2>1
  <1>5. PICK s : \A i \in 0..N : s[i] = Step(s)[i]
    BY <1>1, <1>4
  <1>6. Step(s) = Step(Step(s))
    BY <1>2, <1>5
  <1>7. sum = Step(sum)
    <2> HIDE DEF Step
    <2> QED BY <1>6
  <1>8. \A i \in 0..N : sum[i] = IF i = 0 THEN 0 ELSE tree[i] + sum[i - LowBit[i]]
    <2> HIDE DEF sum
    <2> QED BY <1>7
  <1>9. \A i : PrefixSum(tree, i) = sum[i]
    BY DEF PrefixSum
  <1> HIDE DEF sum
  <1> QED BY <1>1, <1>2, <1>8, <1>9 DEF Before

\* `tree' is `old' with an amount more in every node for the j-th wallet, and so
\* are its prefixes from the j-th on.
NodesRaised(tree, old, n, j, amount) ==
    \A i \in 1..n :
        /\ old[i] \in Nat
        /\ tree[i] = old[i] + IF j <= i /\ Before(i) < j THEN amount ELSE 0

PrefixesRaised(tree, old, n, j, amount) ==
    \A i \in 0..n :
        /\ PrefixSum(old, i) \in Nat
        /\ PrefixSum(tree, i) = PrefixSum(old, i) + IF 0 < j /\ j <= i THEN amount ELSE 0

LEMMA RaisedWalk ==
    ASSUME NEW n \in 0..Cardinality(Funders), NEW old, NEW tree, NEW j \in Nat,
           NEW amount \in Nat, NodesRaised(tree, old, n, j, amount)
    PROVE  PrefixesRaised(tree, old, n, j, amount)
  <1> DEFINE Raised(i) == PrefixSum(old, i) + IF 0 < j /\ j <= i THEN amount ELSE 0
             Good == {i \in 0..n : PrefixSum(old, i) \in Nat /\ PrefixSum(tree, i) = Raised(i)}
  <1>1. n \in Nat /\ 1..n \subseteq Nodes
    BY TreeSize DEF Nodes
  <1>2. ASSUME NEW i \in 0..n, \A k \in 0..n : k < i => k \in Good
        PROVE  i \in Good
    <2>1. CASE i = 0
      BY <2>1, PrefixSumIs
    <2>2. CASE i # 0
      <3> DEFINE b == Before(i)
      <3>1. i \in 1..n /\ b \in 0..n /\ b < i
        BY <1>1, <2>2, BeforeBound
      <3>2. b \in Good
        BY <1>2, <3>1
      <3>3. /\ PrefixSum(old, i) = old[i] + PrefixSum(old, b)
            /\ PrefixSum(tree, i) = tree[i] + PrefixSum(tree, b)
        BY <1>1, <3>1, PrefixSumIs
      <3> HIDE DEF b
      <3>4. tree[i] = old[i] + IF j <= i /\ b < j THEN amount ELSE 0
        BY <3>1 DEF b, NodesRaised
      <3>5. old[i] \in Nat
        BY <3>1 DEF NodesRaised
      <3> QED BY <3>1, <3>2, <3>3, <3>4, <3>5
    <2> QED BY <2>1, <2>2
  <1>3. 0..n \subseteq Good
    <2> HIDE DEF Good
    <2> QED BY <1>1, <1>2, StrongInduction
  <1> QED BY <1>3 DEF PrefixesRaised

\* The walk up visits every node for the wallet, and no other.
LEMMA AncestorsCover ==
    ASSUME NEW n \in 0..Cardinality(Funders), NEW j \in 1..n
    PROVE  Ancestors(j, n) = {i \in 1..n : j <= i /\ Before(i) < j}
  <1> DEFINE Cover(k) == {i \in 1..n : k <= i /\ Before(i) < k}
             Step(u) == [i \in 1..n |->
                            {i} \cup IF LowBit[i] > n - i THEN {} ELSE u[i + LowBit[i]]]
             cover == [i \in 1..n |-> Cover(i)]
             up == CHOOSE u : u = Step(u)
             Good == {m \in 0..n : \A k \in 1..n : n - k <= m => up[k] = Cover(k)}
  <1>1. n \in Nat /\ \A i \in 1..n : i \in Nodes /\ LowBit[i] \in 1..i /\ Before(i) = i - LowBit[i]
    BY TreeSize, LowBitBound DEF Nodes, Before
  <1>2. ASSUME NEW k \in 1..n
        PROVE  Cover(k) = {k} \cup IF LowBit[k] > n - k THEN {} ELSE Cover(k + LowBit[k])
    <2>1. k \in Cover(k)
      BY <1>1
    <2>2. \A i \in Cover(k) : i # k => k + LowBit[k] <= i
      BY <1>1, NoneBelowParent
    <2>3. CASE LowBit[k] > n - k
      BY <1>1, <2>1, <2>2, <2>3
    <2>4. CASE ~(LowBit[k] > n - k)
      <3> DEFINE p == k + LowBit[k]
      <3>1. p \in 1..n /\ k < p
        BY <1>1, <2>4
      <3>2. Before(p) < k
        BY <1>1, <3>1, ParentCovers
      <3>3. ASSUME NEW i \in Cover(p)
            PROVE  i \in Cover(k)
        <4>1. Before(i) <= Before(p)
          BY <1>1, <3>1, <3>3, RangesNest
        <4> QED BY <1>1, <3>1, <3>2, <3>3, <4>1
      <3>4. ASSUME NEW i \in Cover(k), i # k
            PROVE  i \in Cover(p)
        BY <1>1, <2>2, <3>1, <3>4
      <3>5. Cover(k) = {k} \cup Cover(p)
        <4> HIDE DEF Cover
        <4> QED BY <2>1, <3>3, <3>4
      <3> QED BY <2>4, <3>5
    <2> QED BY <2>3, <2>4
  <1>3. cover = Step(cover)
    <2>1. \A k \in 1..n : ~(LowBit[k] > n - k) => k + LowBit[k] \in 1..n
      BY <1>1
    <2> HIDE DEF Cover
    <2> QED BY <1>2, <2>1
  <1>4. up = Step(up)
    <2> HIDE DEF Step, cover
    <2> QED BY <1>3
  <1>5. \A k \in 1..n : up[k] = {k} \cup IF LowBit[k] > n - k THEN {} ELSE up[k + LowBit[k]]
    <2> HIDE DEF up
    <2> QED BY <1>4
  <1> HIDE DEF Cover
  <1>6. ASSUME NEW m \in 0..n, \A k \in 0..n : k < m => k \in Good
        PROVE  m \in Good
    <2>1. ASSUME NEW k \in 1..n, n - k <= m
          PROVE  up[k] = Cover(k)
      <3>1. CASE LowBit[k] > n - k
        BY <1>2, <1>5, <3>1
      <3>2. CASE ~(LowBit[k] > n - k)
        <4> DEFINE p == k + LowBit[k]
        <4>1. p \in 1..n /\ n - p \in 0..n /\ n - p < m
          BY <1>1, <2>1, <3>2
        <4>2. n - p \in Good
          <5> DEFINE d == n - p
          <5>1. d \in 0..n /\ d < m
            BY <4>1
          <5> HIDE DEF Good, d
          <5>2. d \in Good
            BY <1>6, <5>1
          <5> QED BY <5>2 DEF d
        <4>3. \A i \in 1..n : n - i <= n - p => up[i] = Cover(i)
          BY <4>2
        <4>4. n - p <= n - p
          BY <4>1
        <4>5. up[p] = Cover(p)
          <5> HIDE DEF Good
          <5> QED BY <4>1, <4>3, <4>4
        <4> QED BY <1>2, <1>5, <3>2, <4>5
      <3> QED BY <3>1, <3>2
    <2> QED BY <2>1
  <1>7. n \in Good
    <2> HIDE DEF Good
    <2>1. 0..n \subseteq Good
      BY <1>1, <1>6, StrongInduction
    <2> QED BY <1>1, <2>1
  <1>8. up[j] = Cover(j)
    BY <1>1, <1>7
  <1>9. Ancestors(j, n) = up[j]
    BY DEF Ancestors
  <1> HIDE DEF up
  <1> QED BY <1>8, <1>9 DEF Cover

-----------------------------------------------------------------------------
(* The tree keeps the intervals                                              *)

Joined == {f \in Funders : funderIndex[f] # 0}

\* Prefixes grow with the index and end at the deposits; who deposited has an index.
TreeInv ==
    /\ fundingTree \in [Nodes -> Nat]
    /\ funderIndex \in [Funders -> 0..funderCount]
    /\ contributions \in [Funders -> Nat] /\ totalDeposited \in Nat
    /\ funderCount = Cardinality(Joined)
    /\ \A f \in Funders : contributions[f] = 0 <=> funderIndex[f] = 0
    /\ PrefixSum(fundingTree, funderCount) = totalDeposited
    /\ \A i, k \in 0..funderCount :
           i < k => PrefixSum(fundingTree, i) < PrefixSum(fundingTree, k)

LEMMA JoinedSize ==
    /\ IsFiniteSet(Joined) /\ Cardinality(Joined) \in 0..Cardinality(Funders)
    /\ \A f \in Funders : f \notin Joined =>
          /\ Cardinality(Joined \cup {f}) = Cardinality(Joined) + 1
          /\ Cardinality(Joined) + 1 \in Nodes
  <1>1. Joined \subseteq Funders /\ IsFiniteSet(Funders)
    BY EscrowAssumption DEF Joined
  <1> HIDE DEF Joined
  <1>2. /\ IsFiniteSet(Joined) /\ Cardinality(Joined) \in Nat /\ Cardinality(Funders) \in Nat
        /\ Cardinality(Joined) <= Cardinality(Funders)
    BY <1>1, FS_Subset, FS_CardinalityType
  <1>3. ASSUME NEW f \in Funders, f \notin Joined
        PROVE  /\ Cardinality(Joined \cup {f}) = Cardinality(Joined) + 1
               /\ Cardinality(Joined) + 1 \in Nodes
    <2>1. Cardinality(Joined \cup {f}) = Cardinality(Joined) + 1
      BY <1>2, <1>3, FS_AddElement
    <2>2. Joined \cup {f} \subseteq Funders
      BY <1>1, <1>3
    <2>3. Cardinality(Joined \cup {f}) <= Cardinality(Funders)
      BY <1>1, <2>2, FS_Subset
    <2> QED BY <1>2, <2>1, <2>3 DEF Nodes
  <1> QED BY <1>2, <1>3

LEMMA LedgerOfDeposit ==
    ASSUME NEW f \in Funders, NEW amount, contributions' = Credit(contributions, f, amount),
           totalDeposited' = totalDeposited + amount,
           Ledger'.ends = ExtendIntervals(Ledger, f, amount)
    PROVE  Ledger' = Deposit(Ledger, f, amount)
  <1> DEFINE credited == Credit(contributions, f, amount)
             extended == ExtendIntervals(Ledger, f, amount)
  <1>1. Deposit(Ledger, f, amount) =
            [Ledger EXCEPT !.ends = extended, !.contributions = credited,
                           !.totalDeposited = totalDeposited + amount]
    BY DEF Deposit, Ledger
  <1> HIDE DEF credited, extended
  <1>2. Deposit(Ledger, f, amount) =
            [contributions |-> credited, totalDeposited |-> totalDeposited + amount,
             ends |-> extended]
    BY <1>1 DEF Ledger
  <1>3. Ledger' = [contributions |-> contributions', totalDeposited |-> totalDeposited',
                   ends |-> Ledger'.ends]
    BY DEF Ledger
  <1> QED BY <1>2, <1>3 DEF credited, extended

\* Who joins has the interval after all others.
LEMMA JoinKeeps ==
    ASSUME TreeInv, NEW f \in Funders, NEW amount \in 1..Target,
           Contribute(f, amount), Join(f, amount)
    PROVE  TreeInv' /\ Ledger' = Deposit(Ledger, f, amount)
  <1> DEFINE n == funderCount
             new == NewNode(fundingTree, n + 1, totalDeposited, amount)
  <1>1. /\ n \in 0..Cardinality(Funders) /\ n \in Nat /\ n + 1 \in Nodes
        /\ Cardinality(Funders) \in Nat /\ Nodes = 1..Cardinality(Funders)
        /\ Cardinality(Joined \cup {f}) = n + 1
    <2>1. f \notin Joined /\ n = Cardinality(Joined)
      BY DEF TreeInv, Join, Joined
    <2> QED BY <2>1, JoinedSize, TreeSize DEF Nodes
  <1>2. amount \in Nat \ {0} /\ totalDeposited \in Nat
    BY EscrowAssumption DEF TreeInv
  <1>3. /\ funderIndex' = [funderIndex EXCEPT ![f] = n + 1] /\ funderCount' = n + 1
        /\ fundingTree' = [fundingTree EXCEPT ![n + 1] = new]
        /\ contributions' = [contributions EXCEPT ![f] = @ + amount]
        /\ totalDeposited' = totalDeposited + amount
        /\ funderIndex[f] = 0
    BY DEF Join, Contribute, Credit
  <1> DEFINE b == Before(n + 1)
  <1>4. /\ b \in 0..n
        /\ new = totalDeposited - PrefixSum(fundingTree, b) + amount
    BY <1>1, BeforeBound DEF NewNode, Before
  <1>5. \A i \in 0..n : /\ PrefixSum(fundingTree, i) \in Nat
                        /\ PrefixSum(fundingTree', i) = PrefixSum(fundingTree, i)
    <2>1. \A i \in 1..n : fundingTree[i] \in Nat /\ fundingTree'[i] = fundingTree[i]
      BY <1>1, <1>3 DEF TreeInv
    <2>2. NodesRaised(fundingTree', fundingTree, n, 0, 0)
      BY <1>1, <2>1 DEF NodesRaised
    <2>3. PrefixesRaised(fundingTree', fundingTree, n, 0, 0)
      BY <1>1, <2>2, RaisedWalk
    <2> QED BY <2>3 DEF PrefixesRaised
  <1>6. PrefixSum(fundingTree, b) <= totalDeposited
    <2>1. b = n \/ b < n
      BY <1>1, <1>4
    <2> QED BY <1>1, <1>2, <1>4, <1>5, <2>1 DEF TreeInv
  <1>7. new \in Nat
    BY <1>2, <1>4, <1>5, <1>6
  <1>8. PrefixSum(fundingTree', n + 1) = totalDeposited + amount
    <2>1. PrefixSum(fundingTree', n + 1) = fundingTree'[n + 1] + PrefixSum(fundingTree', b)
      BY <1>1, PrefixSumIs
    <2>2. fundingTree'[n + 1] = new
      BY <1>1, <1>3 DEF TreeInv
    <2> QED BY <1>2, <1>4, <1>5, <2>1, <2>2
  <1>9. TreeInv'
    <2>1. fundingTree' \in [Nodes -> Nat] /\ totalDeposited' \in Nat
      BY <1>1, <1>2, <1>3, <1>7 DEF TreeInv
    <2>2. funderIndex' \in [Funders -> 0..funderCount']
      BY <1>1, <1>3 DEF TreeInv
    <2>3. contributions' \in [Funders -> Nat]
      BY <1>2, <1>3 DEF TreeInv
    <2>4. \A g \in Funders : contributions'[g] = 0 <=> funderIndex'[g] = 0
      BY <1>1, <1>2, <1>3 DEF TreeInv
    <2>5. Joined' = Joined \cup {f}
      <3>1. n + 1 # 0 /\ \A g \in Funders :
                funderIndex'[g] = IF g = f THEN n + 1 ELSE funderIndex[g]
        BY <1>1, <1>3 DEF TreeInv
      <3>2. Joined' = {g \in Funders : funderIndex'[g] # 0}
        BY DEF Joined
      <3> QED BY <3>1, <3>2 DEF Joined
    <2>6. ASSUME NEW i \in 0..funderCount', NEW k \in 0..funderCount', i < k
          PROVE  PrefixSum(fundingTree', i) < PrefixSum(fundingTree', k)
      <3>1. i \in 0..n /\ (k \in 0..n \/ k = n + 1)
        BY <1>1, <1>3, <2>6
      <3>2. CASE k \in 0..n
        BY <1>5, <2>6, <3>1, <3>2 DEF TreeInv
      <3>3. CASE k = n + 1
        <4>1. i = n \/ i < n
          BY <1>1, <3>1
        <4>2. PrefixSum(fundingTree, i) <= totalDeposited
          BY <1>1, <1>2, <1>5, <3>1, <4>1 DEF TreeInv
        <4> QED BY <1>2, <1>5, <1>8, <3>1, <3>3, <4>2
      <3> QED BY <3>1, <3>2, <3>3
    <2> QED BY <1>1, <1>3, <1>8, <2>1, <2>2, <2>3, <2>4, <2>5, <2>6 DEF TreeInv
  <1>10. Ledger'.ends = ExtendIntervals(Ledger, f, amount)
    <2>1. ExtendIntervals(Ledger, f, amount) =
              [[g \in Funders |-> FundingPrefixEnd(g)] EXCEPT ![f] = totalDeposited + amount]
      BY <1>3 DEF ExtendIntervals, Ledger, TreeInv
    <2>2. \A g \in Funders : FundingPrefixEnd(g)' =
              IF g = f THEN totalDeposited + amount ELSE FundingPrefixEnd(g)
      BY <1>1, <1>3, <1>5, <1>8 DEF FundingPrefixEnd, TreeInv
    <2>3. Ledger'.ends = [g \in Funders |-> FundingPrefixEnd(g)']
      BY DEF Ledger
    <2> QED BY <2>1, <2>2, <2>3
  <1> QED BY <1>9, <1>10, LedgerOfDeposit DEF Contribute

\* A top-up widens the wallet's interval and shifts those after it.
LEMMA TopUpKeeps ==
    ASSUME TreeInv, NEW f \in Funders, NEW amount \in 1..Target,
           Contribute(f, amount), TopUp(f, amount)
    PROVE  TreeInv' /\ Ledger' = Deposit(Ledger, f, amount)
  <1> DEFINE n == funderCount
             j == funderIndex[f]
  <1>1. /\ n \in 0..Cardinality(Funders) /\ n \in Nat
        /\ Cardinality(Funders) \in Nat /\ Nodes = 1..Cardinality(Funders)
    BY JoinedSize, TreeSize DEF TreeInv, Nodes
  <1>2. amount \in Nat \ {0} /\ totalDeposited \in Nat
    BY EscrowAssumption DEF TreeInv
  <1>3. j \in 1..n /\ funderIndex' = funderIndex /\ funderCount' = n
        /\ contributions' = [contributions EXCEPT ![f] = @ + amount]
        /\ totalDeposited' = totalDeposited + amount
    BY <1>1 DEF TopUp, Contribute, Credit, TreeInv
  <1>4. /\ fundingTree' = [i \in Nodes |->
                              fundingTree[i] + IF i \in Ancestors(j, n) THEN amount ELSE 0]
        /\ Ancestors(j, n) = {i \in 1..n : j <= i /\ Before(i) < j}
    BY <1>1, <1>3, AncestorsCover DEF TopUp
  <1>5. fundingTree' \in [Nodes -> Nat]
    BY <1>2, <1>4 DEF TreeInv
  <1> HIDE DEF n, j
  <1>6. \A i \in 0..n :
            /\ PrefixSum(fundingTree, i) \in Nat
            /\ PrefixSum(fundingTree', i) =
                   PrefixSum(fundingTree, i) + IF j <= i THEN amount ELSE 0
    <2>1. j \in Nat /\ 0 < j
      BY <1>1, <1>3
    <2>2. NodesRaised(fundingTree', fundingTree, n, j, amount)
      BY <1>1, <1>4 DEF TreeInv, NodesRaised
    <2>3. PrefixesRaised(fundingTree', fundingTree, n, j, amount)
      BY <1>1, <1>2, <2>1, <2>2, RaisedWalk
    <2> QED BY <2>1, <2>3 DEF PrefixesRaised
  <1>7. TreeInv'
    <2>1. contributions' \in [Funders -> Nat] /\ totalDeposited' \in Nat
      BY <1>2, <1>3 DEF TreeInv
    <2>2. \A g \in Funders : contributions'[g] = 0 <=> funderIndex'[g] = 0
      BY <1>1, <1>2, <1>3 DEF TreeInv, j
    <2>3. Joined' = Joined
      BY <1>3 DEF Joined
    <2>4. PrefixSum(fundingTree', n) = totalDeposited'
      BY <1>1, <1>3, <1>6 DEF TreeInv, n
    <2>5. ASSUME NEW i \in 0..n, NEW k \in 0..n, i < k
          PROVE  PrefixSum(fundingTree', i) < PrefixSum(fundingTree', k)
      <3>1. PrefixSum(fundingTree, i) < PrefixSum(fundingTree, k)
        BY <2>5 DEF TreeInv, n
      <3>2. /\ PrefixSum(fundingTree, i) \in Nat /\ PrefixSum(fundingTree, k) \in Nat
            /\ PrefixSum(fundingTree', i) =
                   PrefixSum(fundingTree, i) + IF j <= i THEN amount ELSE 0
            /\ PrefixSum(fundingTree', k) =
                   PrefixSum(fundingTree, k) + IF j <= k THEN amount ELSE 0
        BY <1>6
      <3>3. i \in Nat /\ k \in Nat /\ j \in Nat /\ (j <= i => j <= k)
        BY <1>1, <1>3, <2>5
      <3> QED BY <1>2, <3>1, <3>2, <3>3
    <2> QED BY <1>3, <1>5, <2>1, <2>2, <2>3, <2>4, <2>5 DEF TreeInv, n
  <1>8. Ledger'.ends = ExtendIntervals(Ledger, f, amount)
    <2>1. ASSUME NEW g \in Funders
          PROVE  FundingPrefixEnd(g)' =
                     IF contributions[g] > 0 /\ FundingPrefixEnd(g) >= FundingPrefixEnd(f)
                     THEN FundingPrefixEnd(g) + amount ELSE FundingPrefixEnd(g)
      <3> DEFINE i == funderIndex[g]
      <3>1. /\ i \in 0..n /\ contributions[g] \in Nat /\ (contributions[g] = 0 <=> i = 0)
            /\ FundingPrefixEnd(g) = PrefixSum(fundingTree, i)
            /\ FundingPrefixEnd(f) = PrefixSum(fundingTree, j)
            /\ FundingPrefixEnd(g)' = PrefixSum(fundingTree', i)
        BY <1>3 DEF TreeInv, FundingPrefixEnd, n, j
      <3>2. \A k, m \in 0..n : k < m => PrefixSum(fundingTree, k) < PrefixSum(fundingTree, m)
        BY DEF TreeInv, n
      <3> HIDE DEF i
      <3>3. j \in 0..n /\ i \in Nat /\ j \in Nat
        BY <1>1, <1>3, <3>1
      <3>4. j <= i <=> PrefixSum(fundingTree, i) >= PrefixSum(fundingTree, j)
        <4>1. CASE i < j
          BY <1>6, <3>1, <3>2, <3>3, <4>1
        <4>2. CASE i = j
          BY <1>6, <3>3, <4>2
        <4>3. CASE j < i
          BY <1>6, <3>1, <3>2, <3>3, <4>3
        <4> QED BY <3>3, <4>1, <4>2, <4>3
      <3>5. j <= i => contributions[g] > 0
        BY <1>1, <1>3, <3>1, <3>3
      <3>6. PrefixSum(fundingTree', i) =
                PrefixSum(fundingTree, i) + IF j <= i THEN amount ELSE 0
        BY <1>6, <3>1
      <3>7. PrefixSum(fundingTree, i) \in Nat
        BY <1>6, <3>1
      <3> QED BY <1>2, <3>1, <3>4, <3>5, <3>6, <3>7
    <2>2. contributions[f] # 0
      BY <1>1, <1>3 DEF TreeInv, j
    <2>3. ExtendIntervals(Ledger, f, amount) =
              [g \in Funders |->
                 IF contributions[g] > 0 /\ FundingPrefixEnd(g) >= FundingPrefixEnd(f)
                 THEN FundingPrefixEnd(g) + amount ELSE FundingPrefixEnd(g)]
      BY <2>2 DEF ExtendIntervals, Ledger
    <2>4. Ledger'.ends = [g \in Funders |-> FundingPrefixEnd(g)']
      BY DEF Ledger
    <2> QED BY <2>1, <2>3, <2>4
  <1> QED BY <1>7, <1>8, LedgerOfDeposit DEF Contribute

LEMMA TreeStart == TreeInit => TreeInv
  <1> SUFFICES ASSUME TreeInit
               PROVE  TreeInv
    OBVIOUS
  <1>1. Joined = {}
    BY DEF TreeInit, Joined
  <1>2. Cardinality(Joined) = 0
    BY <1>1, FS_EmptySet
  <1>3. PrefixSum(fundingTree, 0) = 0
    BY PrefixSumIs
  <1> QED BY <1>2, <1>3 DEF TreeInit, TreeInv

\* The contract's logarithmic walks are the interval arithmetic of FundingEscrow, for
\* any number of wallets and any deposits: a new wallet's interval starts where the
\* others end, and a top-up shifts every later one.
THEOREM TreeRefined == TreeSpec => ImplementsDeposit
  <1> DEFINE Takes == \/ UNCHANGED treeVars
                     \/ \E f \in Funders, amount \in 1..Target :
                           Ledger' = Deposit(Ledger, f, amount)
  <1>1. TreeInv /\ [TreeNext]_treeVars => TreeInv' /\ [Takes]_Ledger
    <2> SUFFICES ASSUME TreeInv, [TreeNext]_treeVars
                 PROVE  TreeInv' /\ [Takes]_Ledger
      OBVIOUS
    <2>1. ASSUME NEW f \in Funders, NEW amount \in 1..Target, Contribute(f, amount),
                 Join(f, amount) \/ TopUp(f, amount)
          PROVE  TreeInv' /\ Ledger' = Deposit(Ledger, f, amount)
      BY <2>1, JoinKeeps, TopUpKeeps
    <2>2. CASE UNCHANGED treeVars
      BY <2>2 DEF treeVars, TreeInv, Joined, Ledger, FundingPrefixEnd
    <2> QED BY <2>1, <2>2 DEF TreeNext
  <1> QED BY <1>1, TreeStart, PTL DEF TreeSpec, ImplementsDeposit

=============================================================================
