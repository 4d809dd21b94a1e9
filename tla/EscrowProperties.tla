-------------------------- MODULE EscrowProperties --------------------------
(***************************************************************************)
(* What the escrow workflow promises: safety, what a transaction may never   *)
(* do, and what must eventually happen.                                     *)
(***************************************************************************)
EXTENDS EscrowWorkflow, FiniteSetsExt

SumOver(S, value(_)) == MapThenSumSet(value, S)

Unpaid(e) == e.totalDeposited - e.totalReleased
Awarded(p) == escrows[p].totalReleased > 0
Rivals(p) == {r \in Proposals : PostingOf[r] = PostingOf[p]} \ {p}

-----------------------------------------------------------------------------
(* Safety *)

\* The token balance of an escrow is exactly what its books say it owes:
\* deposits less gross payments less refunds, through every interleaving of
\* payments, rounding and claims (FundingEscrow.outstandingBalance).
CustodyMatchesBooks ==
    \A p \in Proposals :
        custody[p] = Unpaid(escrows[p]) - escrows[p].totalRefunded

\* The funders' shares of the pool add up to what is unpaid, whatever the
\* deposit order, the top-ups and the tranches already paid: nobody's refund is
\* short and no unit stays behind (the telescoping floors of _remainingShare).
SharesSumToPool ==
    \A p \in Proposals :
        LET e == escrows[p]
            pool == IF e.refundsEnabled THEN e.refundPool ELSE Unpaid(e)
            share(f) == Share(e, f, pool)
        IN SumOver(Funders, share) = Unpaid(e)

\* Every funder's share is within one base unit of the exact proportional share
\* and is never negative or above the contribution (comment on _remainingShare).
SharesAreProportional ==
    \A p \in Proposals, f \in Funders :
        LET e == escrows[p]
            share == Share(e, f, Unpaid(e))
            error == share * e.totalDeposited - Unpaid(e) * e.contributions[f]
        IN /\ share \in 0..e.contributions[f]
           /\ e.totalDeposited # 0 => -e.totalDeposited < error /\ error < e.totalDeposited

\* depositorSummary, a view that recomputes eligibility without running
\* claimRefund, offers exactly what a claim in this block would pay.
ClaimableIsExact ==
    \A p \in Proposals, f \in Funders :
        proposals[p].submitted =>
            SummaryClaimable(escrows[p], f, now) =
                IF CanClaim(escrows[p], f, now)
                THEN ClaimAmount(escrows[p], f, now) ELSE 0

\* A refund is exact in all three senses, after any history of the escrow.
RefundsAreExact == SharesSumToPool /\ SharesAreProportional /\ ClaimableIsExact

\* The registry's pending lock of a posting and the Locked state of an escrow
\* agree: no posting stays blocked by a selection that ended, and no escrow is
\* locked without holding the posting's lock.
PendingIffLocked ==
    \A p \in Proposals :
        PostingFor(p).pending = p <=> escrows[p].state = "Locked"

\* At most one proposal of a posting is ever paid, and it is the accepted one.
ExclusiveAward ==
    \A p \in Proposals :
        /\ Awarded(p) <=> PostingFor(p).accepted = p
        /\ Awarded(p) => \A r \in Rivals(p) : ~Awarded(r)

\* A funded proposal is still bound to the posting's current revision: money is
\* never held for a proposal written against another text of the posting.
FundedIsBound ==
    \A p \in Proposals :
        escrows[p].totalDeposited > 0 =>
            proposals[p].boundRevision = PostingFor(p).revision

\* Payments follow the immutable plan: after each tranche the gross amount and
\* the fee are the plan's cumulative amounts, so rounding never accumulates, and
\* the fee of a tranche never exceeds it.
PaymentsFollowPlan ==
    \A p \in Proposals :
        LET e == escrows[p]
        IN /\ e.totalReleased = CumulativeAmount(e.currentTranche)
           /\ e.feePaid = CumulativeFee(e.totalReleased)
           /\ e.currentTranche < Tranches =>
                 TrancheFee(e) \in 0..GrossAmount(e.currentTranche)

-----------------------------------------------------------------------------
(* What a transaction may never do *)

Paid(p) == escrows'[p].totalReleased # escrows[p].totalReleased

YesWeight(p) ==
    LET weight(f) == IF escrows[p].votes[f] = "yes" THEN escrows[p].contributions[f] ELSE 0
    IN SumOver(Funders, weight)

\* A tranche is paid only on what was last decided about it.  Both owners signed
\* this tranche with the evidence now on record; with funder voting, wallets that
\* hold more than half of the deposits voted yes on a later tranche.  An edit of
\* the evidence between a decision and the payment voids it (submitMilestone).
PaidAsDecided ==
    [][\A p \in Proposals : Paid(p) =>
         LET tranche == escrows[p].currentTranche
         IN /\ \A x \in Parties : signed[p][x] = <<tranche, escrows[p].evidence>>
            /\ tranche # 0 /\ FunderVoting =>
                  2 * YesWeight(p) > escrows[p].totalDeposited]_vars

\* Once refunds are open an escrow neither takes nor pays money again, and the
\* pool the shares are computed from stays as it was.
RefundsAreFinal ==
    [][\A p \in Proposals : escrows[p].refundsEnabled =>
         /\ escrows'[p].refundsEnabled
         /\ escrows'[p].refundPool = escrows[p].refundPool
         /\ escrows'[p].totalDeposited = escrows[p].totalDeposited
         /\ escrows'[p].totalReleased = escrows[p].totalReleased]_vars

\* From the first deposit on, neither the proposal nor its posting changes text.
FundedContentIsFrozen ==
    [][\A p \in Proposals : escrows[p].totalDeposited > 0 =>
         /\ proposals'[p].revision = proposals[p].revision
         /\ proposals'[p].boundRevision = proposals[p].boundRevision
         /\ postings'[PostingOf[p]].revision = PostingFor(p).revision]_vars

\* A running deadline is only moved by a payment, never by new evidence,
\* approvals or votes: nobody can hold funds by resubmitting (submitMilestone).
OnlyPaymentsExtendDeadlines ==
    [][\A p \in Proposals :
         escrows[p].state \in {"Locked", "Active"} /\ ~Paid(p) =>
             escrows'[p].approvalDeadline <= escrows[p].approvalDeadline]_vars

-----------------------------------------------------------------------------
(* Refinement *)

\* Seen from its posting, the workflow is a selection protocol that awards once:
\* the registry's pending lock is its selection, and what the escrows paid, not
\* what the registry recorded, is its award.
Award == INSTANCE AwardProtocol WITH
    pending <- [q \in Postings |-> postings[q].pending],
    paid <- [q \in Postings |-> {p \in Proposals : PostingOf[p] = q /\ Awarded(p)}]

ImplementsAward == Award!Spec

-----------------------------------------------------------------------------
(* Liveness.  Blocks keep coming, and a wallet that can claim eventually does: *)
(* claimRefund needs nobody else, it opens the refunds of an overdue escrow.   *)
(* Nothing is assumed of the platform, the owners or the administrators.       *)

Fairness ==
    /\ WF_vars(Tick)
    /\ \A f \in Funders, p \in Proposals : WF_vars(ClaimRefund(f, p))

FairSpec == Spec /\ Fairness

\* No deposit is stuck: whatever the others do or fail to do, the escrow
\* eventually holds nothing, by payment or by refund.
FundsLeaveEscrow ==
    \A p \in Proposals : (custody[p] > 0) ~> (custody[p] = 0)

=============================================================================
