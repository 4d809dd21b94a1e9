--------------------------- MODULE FundingEscrow ---------------------------
(***************************************************************************)
(* The contract FundingEscrow of the main workflow (no grant pool): one     *)
(* proposal's pooled funding, milestone payments and refunds.               *)
(*                                                                         *)
(* An Ethereum call is atomic, so an escrow is a RECORD and every external  *)
(* function of the contract is a pair of constant-level operators: CanX, the *)
(* requirements whose failure reverts the call, and X, the escrow it leaves. *)
(* Calls to the registry (isFundingActive, recordFundingEvent) and token     *)
(* transfers concern other contracts: EscrowWorkflow composes them.          *)
(*                                                                         *)
(* Data abstractions.  `approved' stands for ownerApproved and               *)
(* solutionApproved; `ends' is what the Fenwick tree represents (the end of  *)
(* each wallet's interval in first-deposit order, see FenwickTree);          *)
(* `evidence', `usedEvidence' and `votes' are those of the current tranche,  *)
(* because the contract reads no other index.  selectionId is dropped: a     *)
(* selection is only ever locked from Open and Open is never re-entered, so  *)
(* an escrow has at most one.                                               *)
(***************************************************************************)
EXTENDS Integers, FiniteSets

CONSTANTS
    Funders,        \* wallets that deposit
    Evidence,       \* evidence hashes a proposal owner may submit
    NoEvidence,     \* bytes32(0)
    Target,         \* fundingTarget, in base units of the token
    BpsScale,       \* BPS_SCALE
    FeeBps,         \* feeBps, snapshotted at creation
    Tranches,       \* _milestones.length
    CumulativeBps,  \* cumulative share of the target after each tranche
    ReviewWindow,   \* _milestones[i].reviewWindow
    ApprovalWindow, \* APPROVAL_WINDOW
    Increment,      \* smallest contribution step, 10^(decimals - 2) in general
    Minimum,        \* smallest contribution, one whole token
    FunderVoting,   \* funderVoting
    ExpiresAt       \* expiresAt of the posting, copied into each escrow

Parties == {"owner", "solution"}   \* problemOwner and proposalOwner

States == {"Open", "Locked", "Released", "Refunded", "Cancelled", "Expired",
           "Active", "Voided"}

Ballots == {"none", "yes", "no"}

\* Math.mulDiv: the product is exact, the quotient is floored.
MulDiv(a, b, d) == (a * b) \div d

\* What _buildPlan allocates to the tranches before the i-th (from zero).
CumulativeAmount(i) == MulDiv(Target, CumulativeBps[i], BpsScale)
GrossAmount(i) == CumulativeAmount(i + 1) - CumulativeAmount(i)

ASSUME EscrowAssumption ==
    /\ IsFiniteSet(Funders)
    /\ NoEvidence \notin Evidence
    /\ Target \in Nat \ {0} /\ BpsScale \in Nat \ {0}
    /\ FeeBps \in 0..BpsScale
    /\ Tranches \in Nat \ {0}
    /\ CumulativeBps \in [0..Tranches -> 0..BpsScale]
    /\ CumulativeBps[0] = 0 /\ CumulativeBps[Tranches] = BpsScale
    /\ \A i \in 0..(Tranches - 1) : GrossAmount(i) > 0
    /\ ReviewWindow \in [0..(Tranches - 1) -> Nat \ {0}]
    /\ ApprovalWindow \in Nat \ {0}
    /\ Increment \in Nat \ {0} /\ Minimum \in Nat \ {0}
    /\ FunderVoting \in BOOLEAN
    /\ ExpiresAt \in Nat \ {0}

Escrow ==
    [state : States,
     totalDeposited : 0..Target, totalReleased : 0..Target,
     totalRefunded : Nat, feePaid : 0..Target,
     contributions : [Funders -> 0..Target], ends : [Funders -> 0..Target],
     refundedAmounts : [Funders -> Nat],
     approvalDeadline : Nat, approved : SUBSET Parties,
     currentTranche : 0..Tranches,
     evidence : Evidence \cup {NoEvidence}, usedEvidence : SUBSET Evidence,
     votes : [Funders -> Ballots], yesWeight : Nat,
     refundsEnabled : BOOLEAN, refundAvailableAt : Nat, refundPool : 0..Target]

NoBallots == [f \in Funders |-> "none"]

NewEscrow ==
    [state |-> "Open",
     totalDeposited |-> 0, totalReleased |-> 0, totalRefunded |-> 0, feePaid |-> 0,
     contributions |-> [f \in Funders |-> 0], ends |-> [f \in Funders |-> 0],
     refundedAmounts |-> [f \in Funders |-> 0],
     approvalDeadline |-> 0, approved |-> {}, currentTranche |-> 0,
     evidence |-> NoEvidence, usedEvidence |-> {},
     votes |-> NoBallots, yesWeight |-> 0,
     refundsEnabled |-> FALSE, refundAvailableAt |-> 0, refundPool |-> 0]

\* balances[f] += amount
Credit(balances, f, amount) == [balances EXCEPT ![f] = @ + amount]

-----------------------------------------------------------------------------
(* Deposits *)

\* FundingAmountPolicy.requireContribution: the last contribution may be of any
\* size; any other is at least the minimum and leaves at least the minimum.
PolicyAllows(amount, remaining) ==
    /\ amount % Increment = 0
    /\ \/ amount = remaining
       \/ amount >= Minimum /\ remaining - amount >= Minimum

\* Mutant: deposits are not restricted to an open escrow.
CanDepositInAnyState(e, amount, now) ==
    /\ now < ExpiresAt
    /\ amount > 0
    /\ amount <= Target - e.totalDeposited
    /\ PolicyAllows(amount, Target - e.totalDeposited)

CanDeposit(e, amount, now) ==
    /\ e.state = "Open"
    /\ now < ExpiresAt
    /\ amount > 0
    /\ amount <= Target - e.totalDeposited
    /\ PolicyAllows(amount, Target - e.totalDeposited)

\* Mutant: a top-up only moves the end of the wallet's own interval.
ExtendOwnInterval(e, f, amount) ==
    IF e.contributions[f] = 0
    THEN [e.ends EXCEPT ![f] = e.totalDeposited + amount]
    ELSE [e.ends EXCEPT ![f] = @ + amount]

\* _recordContribution: a new wallet's interval starts where the others end; a
\* top-up widens the wallet's interval and shifts every later one.
ExtendIntervals(e, f, amount) ==
    IF e.contributions[f] = 0
    THEN [e.ends EXCEPT ![f] = e.totalDeposited + amount]
    ELSE [g \in Funders |->
            IF e.contributions[g] > 0 /\ e.ends[g] >= e.ends[f]
            THEN e.ends[g] + amount ELSE e.ends[g]]

Deposit(e, f, amount) ==
    [e EXCEPT !.ends = ExtendIntervals(e, f, amount),
              !.contributions = Credit(@, f, amount),
              !.totalDeposited = @ + amount]

-----------------------------------------------------------------------------
(* Selection, approvals, evidence and votes *)

CanLock(e, now) ==
    /\ e.state = "Open"
    /\ now < ExpiresAt
    /\ e.totalDeposited = Target

Lock(e, now) ==
    [e EXCEPT !.state = "Locked", !.approvalDeadline = now + ApprovalWindow]

\* _requireCurrent, without the registry's answer.  approveSelection and release
\* name no evidence: tranche 0 has none.
Current(e, index, evidence, now) ==
    /\ e.state \in {"Locked", "Active"}
    /\ index = e.currentTranche
    /\ now < e.approvalDeadline
    /\ index # 0 => evidence # NoEvidence
    /\ e.evidence = evidence

\* approveSelection (tranche 0) and approveMilestone (later tranches) both check
\* _requireCurrent and then _approve
CanApprove(e, party, index, evidence, now) ==
    /\ Current(e, index, evidence, now)
    /\ party \notin e.approved

Approve(e, party) == [e EXCEPT !.approved = @ \cup {party}]

CanSubmitMilestone(e, index, evidence, now) ==
    /\ e.state = "Active"
    /\ index = e.currentTranche
    /\ now < e.approvalDeadline
    /\ evidence \notin e.usedEvidence

\* Mutants: new evidence keeps the approvals of the old, keeps its tally, or
\* starts a new review window.
SubmitKeepingApprovals(e, evidence) ==
    [e EXCEPT !.usedEvidence = @ \cup {evidence}, !.evidence = evidence,
              !.yesWeight = 0, !.votes = NoBallots]

SubmitKeepingTally(e, evidence) ==
    [e EXCEPT !.usedEvidence = @ \cup {evidence}, !.evidence = evidence,
              !.approved = {}, !.votes = NoBallots]

SubmitRestartingWindow(e, evidence) ==
    [e EXCEPT !.usedEvidence = @ \cup {evidence}, !.evidence = evidence,
              !.approved = {}, !.yesWeight = 0, !.votes = NoBallots,
              !.approvalDeadline = @ + ReviewWindow[e.currentTranche]]

SubmitMilestone(e, evidence) ==
    [e EXCEPT !.usedEvidence = @ \cup {evidence}, !.evidence = evidence,
              !.approved = {}, !.yesWeight = 0,
              !.votes = NoBallots]   \* hasVoted is keyed by the evidence hash

CanVote(e, f, index, evidence, now) ==
    /\ FunderVoting
    /\ index # 0
    /\ Current(e, index, evidence, now)
    /\ e.contributions[f] # 0
    /\ e.votes[f] = "none"

Vote(e, f, ballot) ==
    [e EXCEPT !.votes = [@ EXCEPT ![f] = ballot],
              !.yesWeight = IF ballot = "yes" THEN @ + e.contributions[f] ELSE @]

-----------------------------------------------------------------------------
(* Payments *)

HasFunderMajority(e) == e.yesWeight > e.totalDeposited \div 2

\* release (tranche 0) and releaseMilestone (later tranches)
CanRelease(e, index, evidence, now) ==
    /\ Current(e, index, evidence, now)
    /\ e.approved = Parties
    /\ index # 0 /\ FunderVoting => HasFunderMajority(e)

CumulativeFee(released) == MulDiv(released, FeeBps, BpsScale)

\* Mutant: the fee of each tranche is rounded on its own.
TrancheFeeAlone(e) == MulDiv(GrossAmount(e.currentTranche), FeeBps, BpsScale)

\* What the tranche adds to the fee: the cumulative fee less the fee already paid
TrancheFee(e) ==
    CumulativeFee(e.totalReleased + GrossAmount(e.currentTranche)) - e.feePaid

\* Mutant: the fee is paid on top of the gross amount.
PaymentPlusFee(e) == GrossAmount(e.currentTranche) + TrancheFee(e)

\* The two transfers: the net amount if there is one, and the fee
Payment(e) ==
    LET gross == GrossAmount(e.currentTranche)
        net == IF gross > TrancheFee(e) THEN gross - TrancheFee(e) ELSE 0
    IN net + TrancheFee(e)

Release(e, now) ==
    LET next == e.currentTranche + 1
    IN [e EXCEPT !.totalReleased = @ + GrossAmount(e.currentTranche),
                 !.feePaid = @ + TrancheFee(e),
                 !.currentTranche = next,
                 !.approved = {}, !.yesWeight = 0,
                 !.evidence = NoEvidence, !.usedEvidence = {}, !.votes = NoBallots,
                 !.state = IF next = Tranches THEN "Released" ELSE "Active",
                 !.approvalDeadline = IF next = Tranches THEN @
                                      ELSE now + ReviewWindow[next]]

-----------------------------------------------------------------------------
(* Refunds *)

OpenRefunds(e, next, availableAt) ==
    [e EXCEPT !.refundsEnabled = TRUE, !.refundAvailableAt = availableAt,
              !.refundPool = e.totalDeposited - e.totalReleased, !.state = next]

\* invalidateSelection (platform)
CanInvalidateSelection(e) == e.state = "Locked"

\* rejectSelection (either owner)
CanRejectSelection(e, now) == e.state = "Locked" /\ now < e.approvalDeadline

InvalidateSelection(e, now) ==
    [OpenRefunds(e, "Cancelled", now) EXCEPT !.approvalDeadline = 0, !.approved = {}]

CanCancel(e) == e.state \in {"Open", "Locked"}
Cancel(e) == OpenRefunds(e, "Cancelled", ExpiresAt)

\* voidEscrow (an escrow administrator) and refundInvalidated (anyone, once the
\* registry invalidated the funding)
CanVoid(e) == e.state \notin {"Released", "Refunded", "Voided"}
Void(e, now) == OpenRefunds(e, "Voided", now)

Deadline(e) == IF e.state \in {"Active", "Locked"} THEN e.approvalDeadline ELSE ExpiresAt

\* Mutant: an escrow waiting for milestone evidence cannot expire.
CanExpireBeforePayment(e, now) == e.state \in {"Open", "Locked"} /\ now >= Deadline(e)

CanExpire(e, now) == e.state \in {"Open", "Locked", "Active"} /\ now >= Deadline(e)
Expire(e, now) == OpenRefunds(e, "Expired", now)

\* Mutant: each share is taken of what is left, and floored on its own.
ShareOfWhatIsLeft(e, f, pool) ==
    IF e.contributions[f] = 0 THEN 0
    ELSE MulDiv(pool - e.totalRefunded, e.contributions[f], e.totalDeposited)

\* _remainingShare: proportional by cumulative floors over the wallet's interval
Share(e, f, pool) ==
    IF e.contributions[f] = 0 THEN 0
    ELSE IF e.totalReleased = 0 THEN e.contributions[f]
    ELSE MulDiv(pool, e.ends[f], e.totalDeposited)
         - MulDiv(pool, e.ends[f] - e.contributions[f], e.totalDeposited)

\* claimRefund first expires an escrow whose refunds nobody opened yet
WithRefundsOpen(e, now) == IF e.refundsEnabled THEN e ELSE Expire(e, now)

RefundDue(e, f) == Share(e, f, e.refundPool) - e.refundedAmounts[f]

CanClaim(e, f, now) ==
    /\ e.state \notin {"Released", "Refunded"}
    /\ e.refundsEnabled \/ CanExpire(e, now)
    /\ LET opened == WithRefundsOpen(e, now)
       IN now >= opened.refundAvailableAt /\ RefundDue(opened, f) # 0

ClaimAmount(e, f, now) == RefundDue(WithRefundsOpen(e, now), f)

Claim(e, f, now) ==
    LET opened == WithRefundsOpen(e, now)
        refunded == opened.totalRefunded + RefundDue(opened, f)
    IN [opened EXCEPT !.refundedAmounts = Credit(@, f, RefundDue(opened, f)),
                      !.totalRefunded = refunded,
                      !.state = IF refunded = opened.refundPool THEN "Refunded" ELSE @]

-----------------------------------------------------------------------------
(* The view depositorSummary, as the fields a wallet acts on *)

SummaryUnpaid(e, f) == Share(e, f, e.totalDeposited - e.totalReleased)

\* Mutant: a locked selection counts as overdue at the posting's deadline.
SummaryEligibleAtExpiry(e, now) ==
    IF e.refundsEnabled THEN now >= e.refundAvailableAt
    ELSE now >= (IF e.state = "Active" THEN e.approvalDeadline ELSE ExpiresAt)

SummaryEligible(e, now) ==
    IF e.refundsEnabled THEN now >= e.refundAvailableAt ELSE now >= Deadline(e)

SummaryStatus(e, f, now) ==
    CASE e.contributions[f] = 0 -> "None"
      [] e.contributions[f] # 0 /\ SummaryUnpaid(e, f) = 0 -> "Released"
      [] /\ e.contributions[f] # 0 /\ SummaryUnpaid(e, f) # 0
         /\ e.refundedAmounts[f] = SummaryUnpaid(e, f) -> "Refunded"
      [] OTHER -> CASE SummaryEligible(e, now) -> "Refundable"
                    [] ~SummaryEligible(e, now) /\ e.refundsEnabled -> "RefundPending"
                    [] OTHER -> IF e.totalReleased = 0 THEN "Locked" ELSE "PartiallyReleased"

SummaryClaimable(e, f, now) ==
    IF SummaryStatus(e, f, now) = "Refundable"
    THEN SummaryUnpaid(e, f) - e.refundedAmounts[f] ELSE 0

=============================================================================
