-------------------------- MODULE GrantProperties --------------------------
(***************************************************************************)
(* What the owner of a grant pool and its researchers rely on.               *)
(***************************************************************************)
EXTENDS GrantPool

Offered(state) == {p \in Proposals : offers[p].state = state}

\* The pool can always meet every offer: what it holds is what is reserved for
\* pending offers plus what is available, and neither is ever negative, whatever
\* expires, is declined, accepted or withdrawn in between.
PoolMeetsItsOffers ==
    /\ pool.reservedAmount = Target * Cardinality(Offered("Pending"))
    /\ pool.totalAllocated = Target * Cardinality(Offered("Accepted"))
    /\ Available >= 0
    /\ poolBalance = Available + pool.reservedAmount

\* The owner awards the text that was read: from the selection on, the proposal
\* is the revision the owner reviewed, although it was read earlier and the
\* researcher may edit a proposal that has no offer.
AwardIsAsReviewed ==
    \A p \in Proposals :
        offers[p].state # "None" => proposals[p].revision = reviewed[p]

\* "A payout must never invalidate their other selected proposals": no call on one
\* grant's escrow changes whether another one may proceed.
GrantsAreIndependent ==
    [][\A p, q \in Proposals :
          p # q /\ escrows'[p] # escrows[p] => Active(q)' = Active(q)]_vars

-----------------------------------------------------------------------------
(* Time passes; somebody (anyone may) expires overdue offers; owners take     *)
(* back what they can.                                                       *)

Fairness ==
    /\ WF_vars(Tick)
    /\ WF_vars(\E a \in Amounts : WithdrawAvailable(a))
    /\ \A p \in Proposals :
          WF_vars(ExpireProposal(p)) /\ WF_vars(ClaimRefund(p))

FairGrantSpec == GrantSpec /\ Fairness

\* No token is stranded: what the pool and the escrows hold is paid or taken back.
GrantMoneyMovesOn ==
    <>[](poolBalance = 0 /\ \A p \in Proposals : custody[p] = 0)

=============================================================================
