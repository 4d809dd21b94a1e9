--------------------------- MODULE EscrowWorkflow ---------------------------
(***************************************************************************)
(* Postings, their competing proposals and the proposals' escrows: the      *)
(* composition of FundingEscrow, EscrowAuditRegistry and FundingEscrowFactory *)
(* on one chain.  One action is one transaction: the escrow's new state, the *)
(* event it records at the registry and the token transfers happen together, *)
(* or the call reverts and is no action.  Who may call is in the action's    *)
(* parameters: funders, the two owners, the platform signer, an              *)
(* administrator, anyone.                                                   *)
(***************************************************************************)
EXTENDS FundingEscrow, FundingRegistry, FiniteSets

CONSTANTS
    Postings,       \* posting ids (main workflow: not OpenFunding)
    PostingOf,      \* the posting a proposal answers
    Amounts,        \* bound: contributions funders send
    MaxTime,        \* bound: last block timestamp
    MaxRevision     \* bound: edits of a posting or of a proposal

ASSUME WorkflowAssumption ==
    /\ PostingOf \in [Proposals -> Postings]
    /\ None \notin Proposals
    /\ Amounts \subseteq Nat
    /\ MaxTime \in Nat /\ MaxRevision \in Nat

VARIABLES
    now,            \* block.timestamp
    listed,         \* allowedTokens[token] at the factory
    postings,       \* the registry's postings
    proposals,      \* the registry's proposals
    escrows,        \* the escrow contracts
    custody,        \* token.balanceOf(escrow)
    reviewed,       \* the context digest each funder's client last read
    signed          \* history: what each party approved since the last payment,
                    \* the tranche and the evidence its call named

registry == <<postings, proposals>>
money == <<escrows, custody>>
vars == <<now, listed, postings, proposals, escrows, custody, reviewed, signed>>

NoReview == <<>>
NoSignature == <<>>
Digests == Nat \X Nat
Signatures == Nat \X (Evidence \cup {NoEvidence})

PostingFor(p) == postings[PostingOf[p]]
Active(p) == IsFundingActive(p, proposals[p], PostingFor(p))

TypeOK ==
    /\ now \in 0..MaxTime
    /\ listed \in BOOLEAN
    /\ postings \in [Postings -> Posting]
    /\ proposals \in [Proposals -> Proposal]
    /\ escrows \in [Proposals -> Escrow]
    /\ custody \in [Proposals -> Nat]
    /\ reviewed \in [Funders -> [Proposals -> Digests \cup {NoReview}]]
    /\ signed \in [Proposals -> [Parties -> Signatures \cup {NoSignature}]]

\* Every posting has been committed; no proposal has been filed.
Init ==
    /\ now = 0
    /\ listed = TRUE
    /\ postings = [q \in Postings |-> NewPosting]
    /\ proposals = [p \in Proposals |-> NoProposal]
    /\ escrows = [p \in Proposals |-> NewEscrow]
    /\ custody = [p \in Proposals |-> 0]
    /\ reviewed = [f \in Funders |-> [p \in Proposals |-> NoReview]]
    /\ signed = [p \in Proposals |-> [x \in Parties |-> NoSignature]]

\* A transaction on p's escrow: its new state and the event it records.
Transact(p, escrow, event) ==
    /\ CanRecord(p, PostingFor(p), event)
    /\ escrows' = [escrows EXCEPT ![p] = escrow]
    /\ postings' = [postings EXCEPT ![PostingOf[p]] = RecordOnPosting(p, @, event)]
    /\ proposals' = [proposals EXCEPT ![p] = RecordOnProposal(@, event)]

\* safeTransfer reverts when the escrow does not hold the amount.
TransferOut(p, amount) ==
    /\ amount <= custody[p]
    /\ custody' = [custody EXCEPT ![p] = @ - amount]

-----------------------------------------------------------------------------
(* Publication at the registry *)

CommitProposalWithEscrow(p, expected) ==
    /\ CanCommitProposal(proposals[p], PostingFor(p), expected, ExpiresAt, now)
    /\ listed
    /\ proposals' = [proposals EXCEPT ![p] = CommitProposal(@, expected)]
    /\ UNCHANGED <<now, listed, postings, money, reviewed, signed>>

UpdateProposal(p, expected) ==
    /\ proposals[p].revision < MaxRevision
    /\ CanUpdateHashes(proposals[p], PostingFor(p), escrows[p].totalDeposited,
                       expected, ExpiresAt, now)
    /\ proposals' = [proposals EXCEPT ![p] = UpdateHashes(@, expected)]
    /\ UNCHANGED <<now, listed, postings, money, reviewed, signed>>

UpdatePosting(q) ==
    /\ postings[q].revision < MaxRevision
    /\ CanUpdateOpportunity(postings[q], ExpiresAt, now)
    /\ postings' = [postings EXCEPT ![q] = UpdateOpportunity(@)]
    /\ UNCHANGED <<now, listed, proposals, money, reviewed, signed>>

WithdrawPosting(q) ==
    /\ ~postings[q].withdrawn
    /\ postings' = [postings EXCEPT ![q].withdrawn = TRUE]
    /\ UNCHANGED <<now, listed, proposals, money, reviewed, signed>>

WithdrawProposal(p) ==
    /\ proposals[p].submitted /\ ~proposals[p].withdrawn
    /\ proposals' = [proposals EXCEPT ![p].withdrawn = TRUE]
    /\ UNCHANGED <<now, listed, postings, money, reviewed, signed>>

\* The platform mirrors reversible moderation; repeating a value is allowed.
SetPostingFundingPaused(q, paused) ==
    /\ postings' = [postings EXCEPT ![q].paused = paused]
    /\ UNCHANGED <<now, listed, proposals, money, reviewed, signed>>

\* The factory's owner delists or relists the token.
SetTokenAllowed ==
    /\ listed' = ~listed
    /\ UNCHANGED <<now, registry, money, reviewed, signed>>

-----------------------------------------------------------------------------
(* Funders *)

\* The client reads the digest of what it shows, when the page offers a deposit;
\* the funder confirms later, against whatever the chain holds by then.
ReviewContext(f, p) ==
    /\ escrows[p].state = "Open" /\ escrows[p].totalDeposited < Target
    /\ now < ExpiresAt
    /\ Active(p) /\ listed
    /\ HasContext(proposals[p], PostingFor(p))
    /\ reviewed' = [reviewed EXCEPT ![f][p] = ContextDigest(proposals[p], PostingFor(p))]
    /\ UNCHANGED <<now, listed, registry, money, signed>>

\* _deposit, the common part of deposit and depositReviewed
TakeDeposit(f, p, amount) ==
    /\ CanDeposit(escrows[p], amount, now)
    /\ Active(p)
    /\ listed
    /\ Transact(p, Deposit(escrows[p], f, amount), "Deposit")
    /\ custody' = [custody EXCEPT ![p] = @ + amount]
    /\ UNCHANGED <<now, listed, signed>>

DepositAmount(f, p, amount) ==
    /\ escrows[p].totalDeposited # 0
    /\ TakeDeposit(f, p, amount)
    /\ UNCHANGED reviewed

DepositReviewed(f, p, amount) ==
    /\ HasContext(proposals[p], PostingFor(p))
    /\ reviewed[f][p] = ContextDigest(proposals[p], PostingFor(p))
    /\ TakeDeposit(f, p, amount)
    /\ reviewed' = [reviewed EXCEPT ![f][p] = NoReview]

VoteMilestone(f, p, index, evidence, ballot) ==
    /\ CanVote(escrows[p], f, index, evidence, now)
    /\ Active(p)
    /\ Transact(p, Vote(escrows[p], f, ballot), "FunderVote")
    /\ UNCHANGED <<now, listed, custody, reviewed, signed>>

\* When claimRefund opens the refunds itself it records Expired as well.
ClaimRefund(f, p) ==
    /\ proposals[p].submitted
    /\ CanClaim(escrows[p], f, now)
    /\ TransferOut(p, ClaimAmount(escrows[p], f, now))
    /\ Transact(p, Claim(escrows[p], f, now),
                IF escrows[p].refundsEnabled THEN "RefundClaimed" ELSE "Expired")
    /\ UNCHANGED <<now, listed, reviewed, signed>>

-----------------------------------------------------------------------------
(* The platform signer *)

LockSelection(p) ==
    /\ CanLock(escrows[p], now)
    /\ Active(p)
    /\ Transact(p, Lock(escrows[p], now), "SelectionLocked")
    /\ UNCHANGED <<now, listed, custody, reviewed, signed>>

\* The recipients' shares leave the escrow together; the registry is asked
\* again after the transfers, in the same transaction and hence the same state.
ReleaseTranche(p, index, evidence) ==
    /\ CanRelease(escrows[p], index, evidence, now)
    /\ Active(p)
    /\ TransferOut(p, Payment(escrows[p]))
    /\ Transact(p, Release(escrows[p], now), "TrancheReleased")
    /\ signed' = [signed EXCEPT ![p] = [x \in Parties |-> NoSignature]]
    /\ UNCHANGED <<now, listed, reviewed>>

PlatformInvalidateSelection(p) ==
    /\ CanInvalidateSelection(escrows[p])
    /\ Transact(p, InvalidateSelection(escrows[p], now), "SelectionInvalidated")
    /\ UNCHANGED <<now, listed, custody, reviewed, signed>>

CancelEscrow(p) ==
    /\ proposals[p].submitted
    /\ CanCancel(escrows[p])
    /\ Transact(p, Cancel(escrows[p]), "Cancelled")
    /\ UNCHANGED <<now, listed, custody, reviewed, signed>>

-----------------------------------------------------------------------------
(* The owners of the posting and of the proposal *)

ApproveTranche(p, party, index, evidence) ==
    /\ CanApprove(escrows[p], party, index, evidence, now)
    /\ Active(p)
    /\ Transact(p, Approve(escrows[p], party), "Approval")
    /\ signed' = [signed EXCEPT ![p][party] = <<index, evidence>>]
    /\ UNCHANGED <<now, listed, custody, reviewed>>

SubmitEvidence(p, index, evidence) ==
    /\ CanSubmitMilestone(escrows[p], index, evidence, now)
    /\ Active(p)
    /\ Transact(p, SubmitMilestone(escrows[p], evidence), "MilestoneSubmitted")
    /\ UNCHANGED <<now, listed, custody, reviewed, signed>>

RejectSelection(p) ==
    /\ CanRejectSelection(escrows[p], now)
    /\ Transact(p, InvalidateSelection(escrows[p], now), "SelectionInvalidated")
    /\ UNCHANGED <<now, listed, custody, reviewed, signed>>

-----------------------------------------------------------------------------
(* Administrators, anyone, and time *)

VoidEscrow(p) ==
    /\ proposals[p].submitted
    /\ CanVoid(escrows[p])
    /\ Transact(p, Void(escrows[p], now), "Voided")
    /\ UNCHANGED <<now, listed, custody, reviewed, signed>>

RefundInvalidated(p) ==
    /\ CanVoid(escrows[p])
    /\ IsFundingInvalidated(p, proposals[p], PostingFor(p))
    /\ Transact(p, Void(escrows[p], now), "Voided")
    /\ UNCHANGED <<now, listed, custody, reviewed, signed>>

ExpireEscrow(p) ==
    /\ proposals[p].submitted
    /\ CanExpire(escrows[p], now)
    /\ Transact(p, Expire(escrows[p], now), "Expired")
    /\ UNCHANGED <<now, listed, custody, reviewed, signed>>

Tick ==
    /\ now < MaxTime
    /\ now' = now + 1
    /\ UNCHANGED <<listed, registry, money, reviewed, signed>>

-----------------------------------------------------------------------------

Indices == 0..(Tranches - 1)

Records ==
    \/ \E p \in Proposals, r \in 0..MaxRevision : CommitProposalWithEscrow(p, r)
    \/ \E p \in Proposals, r \in 0..MaxRevision : UpdateProposal(p, r)
    \/ \E p \in Proposals : WithdrawProposal(p)
    \/ \E q \in Postings : UpdatePosting(q)
    \/ \E q \in Postings : WithdrawPosting(q)
    \/ \E q \in Postings, b \in BOOLEAN : SetPostingFundingPaused(q, b)

Publication == Records \/ SetTokenAllowed

Funding ==
    \/ \E f \in Funders, p \in Proposals : ReviewContext(f, p)
    \/ \E f \in Funders, p \in Proposals, a \in Amounts : DepositAmount(f, p, a)
    \/ \E f \in Funders, p \in Proposals, a \in Amounts : DepositReviewed(f, p, a)
    \/ \E f \in Funders, p \in Proposals, i \in Indices, v \in Evidence,
          b \in {"yes", "no"} : VoteMilestone(f, p, i, v, b)
    \/ \E f \in Funders, p \in Proposals : ClaimRefund(f, p)

Settlement ==
    \/ \E p \in Proposals : LockSelection(p)
    \/ \E p \in Proposals, x \in Parties, i \in Indices, v \in Evidence \cup {NoEvidence} :
          ApproveTranche(p, x, i, v)
    \/ \E p \in Proposals, i \in Indices, v \in Evidence : SubmitEvidence(p, i, v)
    \/ \E p \in Proposals, i \in Indices, v \in Evidence \cup {NoEvidence} :
          ReleaseTranche(p, i, v)

Unwinding ==
    \E p \in Proposals :
        \/ PlatformInvalidateSelection(p) \/ RejectSelection(p) \/ CancelEscrow(p)
        \/ VoidEscrow(p) \/ RefundInvalidated(p) \/ ExpireEscrow(p)

Next == Publication \/ Funding \/ Settlement \/ Unwinding \/ Tick

Spec == Init /\ [][Next]_vars

=============================================================================
