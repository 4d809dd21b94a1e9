----------------------------- MODULE GrantPool -----------------------------
(***************************************************************************)
(* A grant posting (kind OpenFunding): its owner's OpenFundingPool, the       *)
(* proposals that answer it and their escrows, which are filled by the pool   *)
(* when a researcher accepts and otherwise behave as FundingEscrow does.      *)
(* One action is one transaction over the pool, the registry and one escrow.  *)
(*                                                                         *)
(* Every proposal of the model asks for the same Target, which an offer       *)
(* copies; the escrow's only wallet is the owner, in whose name the pool      *)
(* deposits.  Grants have no funder vote.                                     *)
(***************************************************************************)
EXTENDS FundingEscrow, FundingRegistry, FiniteSets

CONSTANTS
    AcceptanceWindow,   \* ACCEPTANCE_WINDOW, 7 days
    Amounts,            \* bound: amounts the owner moves in or out of the pool
    MaxPool,            \* bound: what the owner ever deposits
    MaxTime,            \* bound: last block timestamp
    MaxRevision         \* bound: edits of the posting or of a proposal

Owner == "owner"

ASSUME GrantAssumption ==
    /\ Funders = {Owner} /\ ~FunderVoting
    /\ IsFiniteSet(Proposals) /\ None \notin Proposals
    /\ AcceptanceWindow \in Nat \ {0}
    /\ Amounts \subseteq Nat \ {0}
    /\ MaxPool \in Nat /\ MaxTime \in Nat /\ MaxRevision \in Nat

VARIABLES
    now,            \* block.timestamp
    listed,         \* allowedTokens[token]
    posting,        \* the registry's record of the posting
    proposals,      \* the registry's records of the proposals
    pool,           \* the storage of OpenFundingPool
    offers,         \* _offers
    escrows,        \* the escrow contracts
    poolBalance,    \* token.balanceOf(pool)
    custody,        \* token.balanceOf(escrow)
    reviewed        \* the revision of each proposal that the owner last read

registry == <<posting, proposals>>
poolVars == <<pool, offers, poolBalance>>
escrowVars == <<escrows, custody>>
vars == <<now, listed, registry, poolVars, escrowVars, reviewed>>

Unread == -1

Pool == [created : BOOLEAN, totalDeposited : Nat, totalAllocated : Nat,
         totalWithdrawn : Nat, reservedAmount : Nat]

Offer == [state : {"None", "Pending", "Accepted", "Voided"}, acceptanceDeadline : Nat]

GrantTypeOK ==
    /\ now \in 0..MaxTime /\ listed \in BOOLEAN
    /\ posting \in Posting /\ proposals \in [Proposals -> Proposal]
    /\ pool \in Pool /\ offers \in [Proposals -> Offer]
    /\ escrows \in [Proposals -> Escrow]
    /\ poolBalance \in Nat /\ custody \in [Proposals -> Nat]
    /\ reviewed \in [Proposals -> Nat \cup {Unread}]

GrantInit ==
    /\ now = 0 /\ listed = TRUE
    /\ posting = NewPosting
    /\ proposals = [p \in Proposals |-> NoProposal]
    /\ pool = [created |-> FALSE, totalDeposited |-> 0, totalAllocated |-> 0,
               totalWithdrawn |-> 0, reservedAmount |-> 0]
    /\ offers = [p \in Proposals |-> [state |-> "None", acceptanceDeadline |-> 0]]
    /\ escrows = [p \in Proposals |-> NewEscrow]
    /\ poolBalance = 0
    /\ custody = [p \in Proposals |-> 0]
    /\ reviewed = [p \in Proposals |-> Unread]

Active(p) == IsFundingActive(p, proposals[p], posting)

\* Mutant: what is reserved for pending offers is available too.
AvailableWithReserved == pool.totalDeposited - pool.totalAllocated - pool.totalWithdrawn

Available == pool.totalDeposited - pool.totalAllocated - pool.totalWithdrawn
             - pool.reservedAmount

\* Mutant: the events of a grant's escrow are treated as the main workflow's.
RecordAsMainWorkflow(p, event) == RecordOnPosting(p, posting, event)

\* recordFundingEvent for a posting of this kind: no pending or accepted proposal
RecordOnGrant(p, event) == [posting EXCEPT !.started = (@ \/ event = "Deposit")]

Transact(p, escrow, event) ==
    /\ escrows' = [escrows EXCEPT ![p] = escrow]
    /\ posting' = RecordOnGrant(p, event)
    /\ proposals' = [proposals EXCEPT ![p] = RecordOnProposal(@, event)]

-----------------------------------------------------------------------------
(* The registry and the factory *)

CreateOpenFundingPool ==
    /\ ~pool.created
    /\ ~posting.withdrawn /\ now < ExpiresAt /\ listed
    /\ pool' = [pool EXCEPT !.created = TRUE]
    /\ UNCHANGED <<now, listed, registry, offers, poolBalance, escrowVars, reviewed>>

CommitProposalWithEscrow(p, expected) ==
    /\ CanCommitProposal(proposals[p], posting, expected, ExpiresAt, now)
    /\ listed
    /\ pool.created /\ pool.totalDeposited # 0
    /\ proposals' = [proposals EXCEPT ![p] = CommitProposal(@, expected)]
    /\ UNCHANGED <<now, listed, posting, poolVars, escrowVars, reviewed>>

\* Mutant: only a deposit freezes a proposal, not an offer.
NotOffered(p) == TRUE

NoOffer(p) == offers[p].state = "None"

UpdateProposal(p, expected) ==
    /\ proposals[p].revision < MaxRevision
    /\ CanUpdateHashes(proposals[p], posting, escrows[p].totalDeposited,
                       expected, ExpiresAt, now)
    /\ NoOffer(p)
    /\ proposals' = [proposals EXCEPT ![p] = UpdateHashes(@, expected)]
    /\ UNCHANGED <<now, listed, posting, poolVars, escrowVars, reviewed>>

UpdatePosting ==
    /\ posting.revision < MaxRevision
    /\ CanUpdateOpportunity(posting, ExpiresAt, now)
    /\ posting' = UpdateOpportunity(posting)
    /\ UNCHANGED <<now, listed, proposals, poolVars, escrowVars, reviewed>>

WithdrawPosting ==
    /\ ~posting.withdrawn
    /\ posting' = [posting EXCEPT !.withdrawn = TRUE]
    /\ UNCHANGED <<now, listed, proposals, poolVars, escrowVars, reviewed>>

WithdrawProposal(p) ==
    /\ proposals[p].submitted /\ ~proposals[p].withdrawn
    /\ proposals' = [proposals EXCEPT ![p].withdrawn = TRUE]
    /\ UNCHANGED <<now, listed, posting, poolVars, escrowVars, reviewed>>

SetPostingFundingPaused(paused) ==
    /\ posting' = [posting EXCEPT !.paused = paused]
    /\ UNCHANGED <<now, listed, proposals, poolVars, escrowVars, reviewed>>

SetTokenAllowed ==
    /\ listed' = ~listed
    /\ UNCHANGED <<now, registry, poolVars, escrowVars, reviewed>>

-----------------------------------------------------------------------------
(* The pool *)

PoolDeposit(amount) ==
    /\ pool.created
    /\ pool.totalDeposited + amount <= MaxPool
    /\ ~posting.withdrawn /\ listed
    /\ pool' = [pool EXCEPT !.totalDeposited = @ + amount]
    /\ poolBalance' = poolBalance + amount
    /\ posting' = [posting EXCEPT !.started = TRUE]
    /\ UNCHANGED <<now, listed, proposals, offers, escrowVars, reviewed>>

\* The owner's page reads a proposal; the selection is confirmed later.
ReviewProposal(p) ==
    /\ proposals[p].submitted /\ NoOffer(p)
    /\ reviewed' = [reviewed EXCEPT ![p] = proposals[p].revision]
    /\ UNCHANGED <<now, listed, registry, poolVars, escrowVars>>

AsReviewed(p) == reviewed[p] = proposals[p].revision

SelectProposal(p) ==
    /\ ~posting.withdrawn /\ now < ExpiresAt
    /\ NoOffer(p)
    /\ AsReviewed(p)
    /\ Active(p) /\ listed
    /\ Target <= Available
    /\ offers' = [offers EXCEPT ![p] = [state |-> "Pending",
                                        acceptanceDeadline |-> now + AcceptanceWindow]]
    /\ pool' = [pool EXCEPT !.reservedAmount = @ + Target]
    /\ UNCHANGED <<now, listed, registry, poolBalance, escrowVars, reviewed>>

\* acceptOpenFunding, in the escrow: a full deposit, a locked selection and both
\* approvals at once, for at most the approval window
AcceptOpenFunding(e) ==
    LET window == IF ReviewWindow[0] > ApprovalWindow THEN ApprovalWindow ELSE ReviewWindow[0]
    IN [Deposit(e, Owner, Target) EXCEPT
            !.state = "Locked", !.approved = Parties, !.approvalDeadline = now + window]

CanAcceptOpenFunding(p) ==
    /\ escrows[p].state = "Open" /\ escrows[p].totalDeposited = 0
    /\ Active(p) /\ listed

AcceptProposal(p) ==
    /\ offers[p].state = "Pending"
    /\ now < offers[p].acceptanceDeadline
    /\ CanAcceptOpenFunding(p)
    /\ Target <= poolBalance
    /\ offers' = [offers EXCEPT ![p].state = "Accepted"]
    /\ pool' = [pool EXCEPT !.reservedAmount = @ - Target, !.totalAllocated = @ + Target]
    /\ poolBalance' = poolBalance - Target
    /\ custody' = [custody EXCEPT ![p] = @ + Target]
    /\ Transact(p, AcceptOpenFunding(escrows[p]), "Deposit")
    /\ UNCHANGED <<now, listed, reviewed>>

\* Mutant: an escrow that an administrator voided cannot be voided by the pool.
CanVoidOpenEscrow(e) == e.state = "Open" /\ e.totalDeposited = 0

\* voidOpenFunding, in the escrow: nothing to do if an administrator voided it.
CanVoidOpenFunding(e) == e.state = "Voided" \/ e.totalDeposited = 0

VoidOpenFunding(e) == IF e.state = "Voided" THEN e ELSE Void(e, now)

\* Mutant: a voided offer keeps its reservation.
Unreserved == pool

Released == [pool EXCEPT !.reservedAmount = @ - Target]

VoidOffer(p) ==
    /\ offers[p].state = "Pending"
    /\ CanVoidOpenFunding(escrows[p])
    /\ offers' = [offers EXCEPT ![p].state = "Voided"]
    /\ pool' = Released
    /\ Transact(p, VoidOpenFunding(escrows[p]), "Voided")
    /\ UNCHANGED <<now, listed, poolBalance, custody, reviewed>>

ExpireProposal(p) ==
    /\ \/ now >= offers[p].acceptanceDeadline
       \/ IsFundingInvalidated(p, proposals[p], posting)
    /\ VoidOffer(p)

DeclineProposal(p) == now < offers[p].acceptanceDeadline /\ VoidOffer(p)

WithdrawAvailable(amount) ==
    /\ posting.withdrawn \/ now >= ExpiresAt
    /\ amount <= Available /\ amount <= poolBalance
    /\ pool' = [pool EXCEPT !.totalWithdrawn = @ + amount]
    /\ poolBalance' = poolBalance - amount
    /\ UNCHANGED <<now, listed, registry, offers, escrowVars, reviewed>>

-----------------------------------------------------------------------------
(* The escrow of an accepted grant: the calls of FundingEscrow that its own   *)
(* checks leave to a grant.  rejectSelection, deposits and lockSelection are  *)
(* refused; an offer that is still open cannot expire in the escrow.          *)

OnEscrow(p, escrow, event) ==
    /\ Transact(p, escrow, event)
    /\ UNCHANGED <<now, listed, poolVars, custody, reviewed>>

\* safeTransfer reverts when the escrow does not hold the amount.
TransferOut(p, amount) ==
    /\ amount <= custody[p]
    /\ custody' = [custody EXCEPT ![p] = @ - amount]
    /\ UNCHANGED <<now, listed, poolVars, reviewed>>

SubmitEvidence(p, v) ==
    /\ CanSubmitMilestone(escrows[p], escrows[p].currentTranche, v, now)
    /\ Active(p)
    /\ OnEscrow(p, SubmitMilestone(escrows[p], v), "MilestoneSubmitted")

ApproveTranche(p, party, v) ==
    /\ CanApprove(escrows[p], party, escrows[p].currentTranche, v, now)
    /\ Active(p)
    /\ OnEscrow(p, Approve(escrows[p], party), "Approval")

ReleaseTranche(p, v) ==
    /\ CanRelease(escrows[p], escrows[p].currentTranche, v, now)
    /\ Active(p)
    /\ TransferOut(p, Payment(escrows[p]))
    /\ Transact(p, Release(escrows[p], now), "TrancheReleased")

InvalidateGrant(p) ==
    /\ CanInvalidateSelection(escrows[p])
    /\ OnEscrow(p, InvalidateSelection(escrows[p], now), "SelectionInvalidated")

CancelEscrow(p) ==
    /\ proposals[p].submitted /\ CanCancel(escrows[p])
    /\ OnEscrow(p, Cancel(escrows[p]), "Cancelled")

VoidEscrow(p) ==
    /\ proposals[p].submitted /\ CanVoid(escrows[p])
    /\ OnEscrow(p, Void(escrows[p], now), "Voided")

RefundInvalidated(p) ==
    /\ CanVoid(escrows[p])
    /\ IsFundingInvalidated(p, proposals[p], posting)
    /\ OnEscrow(p, Void(escrows[p], now), "Voided")

ExpireEscrow(p) ==
    /\ escrows[p].state # "Open" /\ CanExpire(escrows[p], now)
    /\ OnEscrow(p, Expire(escrows[p], now), "Expired")

ClaimRefund(p) ==
    /\ CanClaim(escrows[p], Owner, now)
    /\ TransferOut(p, ClaimAmount(escrows[p], Owner, now))
    /\ Transact(p, Claim(escrows[p], Owner, now),
                IF escrows[p].refundsEnabled THEN "RefundClaimed" ELSE "Expired")

Tick ==
    /\ now < MaxTime
    /\ now' = now + 1
    /\ UNCHANGED <<listed, registry, poolVars, escrowVars, reviewed>>

-----------------------------------------------------------------------------

Publication ==
    \/ CreateOpenFundingPool \/ UpdatePosting \/ WithdrawPosting
    \/ \E p \in Proposals, r \in 0..MaxRevision : CommitProposalWithEscrow(p, r)
    \/ \E p \in Proposals, r \in 0..MaxRevision : UpdateProposal(p, r)
    \/ \E p \in Proposals : WithdrawProposal(p)
    \/ \E b \in BOOLEAN : SetPostingFundingPaused(b)

Offering ==
    \/ \E a \in Amounts : PoolDeposit(a) \/ WithdrawAvailable(a)
    \/ \E p \in Proposals :
          \/ ReviewProposal(p) \/ SelectProposal(p) \/ AcceptProposal(p)
          \/ ExpireProposal(p) \/ DeclineProposal(p)

Granting ==
    \E p \in Proposals :
        \/ \E v \in Evidence : SubmitEvidence(p, v)
        \/ \E x \in Parties, v \in Evidence : ApproveTranche(p, x, v)
        \/ \E v \in Evidence \cup {NoEvidence} : ReleaseTranche(p, v)
        \/ InvalidateGrant(p) \/ CancelEscrow(p) \/ VoidEscrow(p)
        \/ RefundInvalidated(p) \/ ExpireEscrow(p) \/ ClaimRefund(p)

GrantNext == Publication \/ SetTokenAllowed \/ Offering \/ Granting \/ Tick

GrantSpec == GrantInit /\ [][GrantNext]_vars

=============================================================================
