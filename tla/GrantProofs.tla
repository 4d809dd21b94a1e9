---------------------------- MODULE GrantProofs ----------------------------
(***************************************************************************)
(* The grant pool keeps its promises for any number of proposals, any target, *)
(* any amounts and any windows.                                             *)
(*                                                                         *)
(* Two inductive invariants.  PoolInv counts the offers: an offer enters or   *)
(* leaves `Pending' or `Accepted' together with one Target of the pool's      *)
(* books, so the lemmas about OffersIn say how a change of one offer moves    *)
(* the counts.  ReviewInv adds to AwardIsAsReviewed that an offer is only     *)
(* ever made for a submitted proposal, which cannot be submitted again.      *)
(***************************************************************************)
EXTENDS GrantProperties, FiniteSetTheorems, TLAPS

OffersIn(o, state) == Cardinality({p \in Proposals : o[p].state = state})

\* The pool's books, given what was offered
Balanced(books, o, balance) ==
    /\ books.reservedAmount = Target * OffersIn(o, "Pending")
    /\ books.totalAllocated = Target * OffersIn(o, "Accepted")
    /\ books.totalDeposited - books.totalAllocated - books.totalWithdrawn
          - books.reservedAmount >= 0
    /\ balance = books.totalDeposited - books.totalAllocated - books.totalWithdrawn

PoolInv ==
    /\ now \in Nat /\ pool \in Pool /\ offers \in [Proposals -> Offer]
    /\ poolBalance \in Nat
    /\ Balanced(pool, offers, poolBalance)

-----------------------------------------------------------------------------
(* Counting offers *)

LEMMA Constants ==
    /\ Target \in Nat /\ Target > 0 /\ AcceptanceWindow \in Nat
    /\ IsFiniteSet(Proposals) /\ Amounts \subseteq Nat \ {0}
  BY EscrowAssumption, GrantAssumption

LEMMA OffersInType ==
    ASSUME NEW o, NEW state
    PROVE  OffersIn(o, state) \in Nat
  <1> DEFINE S == {p \in Proposals : o[p].state = state}
  <1>1. IsFiniteSet(S)
    BY Constants, FS_Subset
  <1> QED BY <1>1, FS_CardinalityType DEF OffersIn

\* One offer that leaves a state is one less there, ..
LEMMA OfferLeaves ==
    ASSUME NEW o \in [Proposals -> Offer], NEW p \in Proposals, NEW new \in Offer,
           NEW state, o[p].state = state, new.state # state
    PROVE  OffersIn([o EXCEPT ![p] = new], state) = OffersIn(o, state) - 1
  <1> DEFINE S == {r \in Proposals : o[r].state = state}
             T == {r \in Proposals : [o EXCEPT ![p] = new][r].state = state}
  <1>1. T = S \ {p} /\ p \in S
    OBVIOUS
  <1>2. IsFiniteSet(S)
    BY Constants, FS_Subset
  <1> HIDE DEF S, T
  <1>3. Cardinality(T) = Cardinality(S) - 1
    BY <1>1, <1>2, FS_RemoveElement
  <1> QED BY <1>3 DEF OffersIn, S, T

\* .. one that enters it is one more, ..
LEMMA OfferEnters ==
    ASSUME NEW o \in [Proposals -> Offer], NEW p \in Proposals, NEW new \in Offer,
           NEW state, o[p].state # state, new.state = state
    PROVE  OffersIn([o EXCEPT ![p] = new], state) = OffersIn(o, state) + 1
  <1> DEFINE S == {r \in Proposals : o[r].state = state}
             T == {r \in Proposals : [o EXCEPT ![p] = new][r].state = state}
  <1>1. T = S \cup {p} /\ p \notin S
    OBVIOUS
  <1>2. IsFiniteSet(S)
    BY Constants, FS_Subset
  <1> HIDE DEF S, T
  <1>3. Cardinality(T) = Cardinality(S) + 1
    BY <1>1, <1>2, FS_AddElement
  <1> QED BY <1>3 DEF OffersIn, S, T

\* .. and the other states keep theirs.
LEMMA OfferElsewhere ==
    ASSUME NEW o \in [Proposals -> Offer], NEW p \in Proposals, NEW new \in Offer,
           NEW state, o[p].state # state, new.state # state
    PROVE  OffersIn([o EXCEPT ![p] = new], state) = OffersIn(o, state)
  <1>1. {r \in Proposals : [o EXCEPT ![p] = new][r].state = state}
          = {r \in Proposals : o[r].state = state}
    OBVIOUS
  <1> QED BY <1>1 DEF OffersIn

LEMMA TargetTimes ==
    ASSUME NEW n \in Nat
    PROVE  /\ Target * n \in Nat
           /\ Target * (n + 1) = Target * n + Target
           /\ Target * (n - 1) = Target * n - Target
  BY Constants

-----------------------------------------------------------------------------
(* The pool's books *)

LEMMA PoolInvInit == GrantInit => PoolInv
  <1> SUFFICES ASSUME GrantInit PROVE PoolInv
    OBVIOUS
  <1>1. /\ now = 0 /\ pool \in Pool /\ offers \in [Proposals -> Offer]
        /\ poolBalance = 0
    BY DEF GrantInit, Pool, Offer
  <1>2. /\ pool.totalDeposited = 0 /\ pool.totalAllocated = 0
        /\ pool.totalWithdrawn = 0 /\ pool.reservedAmount = 0
    BY DEF GrantInit
  <1>3. OffersIn(offers, "Pending") = 0 /\ OffersIn(offers, "Accepted") = 0
    <2>1. /\ {p \in Proposals : offers[p].state = "Pending"} = {}
          /\ {p \in Proposals : offers[p].state = "Accepted"} = {}
      BY DEF GrantInit
    <2> QED BY <2>1, FS_EmptySet DEF OffersIn
  <1>4. Target * 0 = 0
    BY Constants
  <1> QED BY <1>1, <1>2, <1>3, <1>4 DEF PoolInv, Balanced

\* What a step does to the pool: nothing to its books, a deposit, an offer, an
\* acceptance, the end of an offer, or a withdrawal.
Untouched ==
    /\ offers' = offers /\ poolBalance' = poolBalance
    /\ pool' \in Pool
    /\ pool'.totalDeposited = pool.totalDeposited
    /\ pool'.totalAllocated = pool.totalAllocated
    /\ pool'.totalWithdrawn = pool.totalWithdrawn
    /\ pool'.reservedAmount = pool.reservedAmount

LEMMA DepositStep ==
    ASSUME PoolInv, NEW amount \in Amounts, PoolDeposit(amount)
    PROVE  PoolInv'
  <1>1. amount \in Nat
    BY Constants
  <1>2. /\ now' = now /\ offers' = offers /\ poolBalance' = poolBalance + amount
        /\ pool' = [pool EXCEPT !.totalDeposited = @ + amount]
    BY DEF PoolDeposit
  <1>3. /\ pool' \in Pool
        /\ pool'.totalDeposited = pool.totalDeposited + amount
        /\ pool'.totalAllocated = pool.totalAllocated
        /\ pool'.totalWithdrawn = pool.totalWithdrawn
        /\ pool'.reservedAmount = pool.reservedAmount
    BY <1>1, <1>2 DEF PoolInv, Pool
  <1>4. pool \in Pool /\ poolBalance \in Nat /\ Balanced(pool, offers, poolBalance)
    BY DEF PoolInv
  <1>5. Balanced(pool', offers', poolBalance')
    BY <1>1, <1>2, <1>3, <1>4 DEF Balanced, Pool
  <1> QED BY <1>1, <1>2, <1>3, <1>4, <1>5 DEF PoolInv

LEMMA SelectStep ==
    ASSUME PoolInv, NEW p \in Proposals, SelectProposal(p)
    PROVE  PoolInv'
  <1> DEFINE new == [state |-> "Pending", acceptanceDeadline |-> now + AcceptanceWindow]
  <1>1. /\ now \in Nat /\ pool \in Pool /\ offers \in [Proposals -> Offer]
        /\ poolBalance \in Nat /\ Balanced(pool, offers, poolBalance)
    BY DEF PoolInv
  <1>2. new \in Offer /\ new.state = "Pending"
    BY <1>1, Constants DEF Offer
  <1>3. /\ now' = now /\ poolBalance' = poolBalance
        /\ offers' = [offers EXCEPT ![p] = new]
        /\ pool' = [pool EXCEPT !.reservedAmount = @ + Target]
        /\ offers[p].state = "None" /\ Target <= Available
    BY DEF SelectProposal, NoOffer
  <1> HIDE DEF new
  <1>4. /\ offers' \in [Proposals -> Offer]
        /\ OffersIn(offers', "Pending") = OffersIn(offers, "Pending") + 1
        /\ OffersIn(offers', "Accepted") = OffersIn(offers, "Accepted")
    <2>1. offers' \in [Proposals -> Offer]
      BY <1>1, <1>2, <1>3
    <2>2. OffersIn(offers', "Pending") = OffersIn(offers, "Pending") + 1
      BY <1>1, <1>2, <1>3, OfferEnters
    <2>3. OffersIn(offers', "Accepted") = OffersIn(offers, "Accepted")
      BY <1>1, <1>2, <1>3, OfferElsewhere
    <2> QED BY <2>1, <2>2, <2>3
  <1>5. /\ pool' \in Pool
        /\ pool'.totalDeposited = pool.totalDeposited
        /\ pool'.totalAllocated = pool.totalAllocated
        /\ pool'.totalWithdrawn = pool.totalWithdrawn
        /\ pool'.reservedAmount = pool.reservedAmount + Target
    BY <1>1, <1>3, Constants DEF Pool
  <1>6. Target * OffersIn(offers', "Pending") = Target * OffersIn(offers, "Pending") + Target
    BY <1>4, OffersInType, TargetTimes
  <1>7. Balanced(pool', offers', poolBalance')
    BY <1>1, <1>3, <1>4, <1>5, <1>6, Constants DEF Balanced, Pool, Available
  <1> QED BY <1>1, <1>3, <1>4, <1>5, <1>7 DEF PoolInv

LEMMA AcceptStep ==
    ASSUME PoolInv, NEW p \in Proposals, AcceptProposal(p)
    PROVE  PoolInv'
  <1> DEFINE new == [offers[p] EXCEPT !.state = "Accepted"]
  <1>1. /\ now \in Nat /\ pool \in Pool /\ offers \in [Proposals -> Offer]
        /\ poolBalance \in Nat /\ Balanced(pool, offers, poolBalance)
    BY DEF PoolInv
  <1>2. new \in Offer /\ new.state = "Accepted"
    BY <1>1 DEF Offer
  <1>3. /\ now' = now /\ poolBalance' = poolBalance - Target
        /\ offers' = [offers EXCEPT ![p] = new]
        /\ pool' = [pool EXCEPT !.reservedAmount = @ - Target, !.totalAllocated = @ + Target]
        /\ offers[p].state = "Pending" /\ Target <= poolBalance
    BY <1>1 DEF AcceptProposal
  <1> HIDE DEF new
  <1>4. /\ offers' \in [Proposals -> Offer]
        /\ OffersIn(offers', "Pending") = OffersIn(offers, "Pending") - 1
        /\ OffersIn(offers', "Accepted") = OffersIn(offers, "Accepted") + 1
    BY <1>1, <1>2, <1>3, OfferEnters, OfferLeaves
  <1>5. /\ OffersIn(offers, "Pending") \in Nat /\ OffersIn(offers', "Pending") \in Nat
        /\ OffersIn(offers, "Accepted") \in Nat
    BY OffersInType
  <1>6. /\ Target * OffersIn(offers', "Pending") = Target * OffersIn(offers, "Pending") - Target
        /\ Target * OffersIn(offers', "Accepted") = Target * OffersIn(offers, "Accepted") + Target
        /\ Target * OffersIn(offers', "Pending") \in Nat
    BY <1>4, <1>5, TargetTimes
  <1>7. /\ pool' \in Pool
        /\ pool'.totalDeposited = pool.totalDeposited
        /\ pool'.totalAllocated = pool.totalAllocated + Target
        /\ pool'.totalWithdrawn = pool.totalWithdrawn
        /\ pool'.reservedAmount = pool.reservedAmount - Target
    <2>1. pool.reservedAmount - Target \in Nat /\ pool.totalAllocated + Target \in Nat
      BY <1>1, <1>6, Constants DEF Balanced, Pool
    <2> QED BY <2>1, <1>1, <1>3 DEF Pool
  <1>8. Balanced(pool', offers', poolBalance')
    BY <1>1, <1>3, <1>6, <1>7, Constants DEF Balanced, Pool
  <1>9. poolBalance' \in Nat
    BY <1>1, <1>3, Constants
  <1> QED BY <1>1, <1>3, <1>4, <1>7, <1>8, <1>9 DEF PoolInv

LEMMA VoidStep ==
    ASSUME PoolInv, NEW p \in Proposals, VoidOffer(p)
    PROVE  PoolInv'
  <1> DEFINE new == [offers[p] EXCEPT !.state = "Voided"]
  <1>1. /\ now \in Nat /\ pool \in Pool /\ offers \in [Proposals -> Offer]
        /\ poolBalance \in Nat /\ Balanced(pool, offers, poolBalance)
    BY DEF PoolInv
  <1>2. new \in Offer /\ new.state = "Voided"
    BY <1>1 DEF Offer
  <1>3. /\ now' = now /\ poolBalance' = poolBalance
        /\ offers' = [offers EXCEPT ![p] = new]
        /\ pool' = [pool EXCEPT !.reservedAmount = @ - Target]
        /\ offers[p].state = "Pending"
    BY <1>1 DEF VoidOffer, Released
  <1> HIDE DEF new
  <1>4. /\ offers' \in [Proposals -> Offer]
        /\ OffersIn(offers', "Pending") = OffersIn(offers, "Pending") - 1
        /\ OffersIn(offers', "Accepted") = OffersIn(offers, "Accepted")
    <2>1. offers' \in [Proposals -> Offer]
      BY <1>1, <1>2, <1>3
    <2>2. OffersIn(offers', "Pending") = OffersIn(offers, "Pending") - 1
      BY <1>1, <1>2, <1>3, OfferLeaves
    <2>3. OffersIn(offers', "Accepted") = OffersIn(offers, "Accepted")
      BY <1>1, <1>2, <1>3, OfferElsewhere
    <2> QED BY <2>1, <2>2, <2>3
  <1>5. OffersIn(offers, "Pending") \in Nat /\ OffersIn(offers', "Pending") \in Nat
    BY OffersInType
  <1>6. /\ Target * OffersIn(offers', "Pending") = Target * OffersIn(offers, "Pending") - Target
        /\ Target * OffersIn(offers', "Pending") \in Nat
    BY <1>4, <1>5, TargetTimes
  <1>7. /\ pool' \in Pool
        /\ pool'.totalDeposited = pool.totalDeposited
        /\ pool'.totalAllocated = pool.totalAllocated
        /\ pool'.totalWithdrawn = pool.totalWithdrawn
        /\ pool'.reservedAmount = pool.reservedAmount - Target
    <2>1. pool.reservedAmount - Target \in Nat
      BY <1>1, <1>6, Constants DEF Balanced, Pool
    <2> QED BY <2>1, <1>1, <1>3 DEF Pool
  <1>8. Balanced(pool', offers', poolBalance')
    BY <1>1, <1>3, <1>4, <1>6, <1>7, Constants DEF Balanced, Pool
  <1> QED BY <1>1, <1>3, <1>4, <1>7, <1>8 DEF PoolInv

LEMMA WithdrawStep ==
    ASSUME PoolInv, NEW amount \in Amounts, WithdrawAvailable(amount)
    PROVE  PoolInv'
  <1>1. amount \in Nat
    BY Constants
  <1>2. /\ now' = now /\ offers' = offers /\ poolBalance' = poolBalance - amount
        /\ pool' = [pool EXCEPT !.totalWithdrawn = @ + amount]
        /\ amount <= Available /\ amount <= poolBalance
    BY DEF WithdrawAvailable
  <1>3. /\ pool' \in Pool
        /\ pool'.totalDeposited = pool.totalDeposited
        /\ pool'.totalAllocated = pool.totalAllocated
        /\ pool'.totalWithdrawn = pool.totalWithdrawn + amount
        /\ pool'.reservedAmount = pool.reservedAmount
    BY <1>1, <1>2 DEF PoolInv, Pool
  <1>4. /\ now \in Nat /\ pool \in Pool /\ offers \in [Proposals -> Offer]
        /\ poolBalance \in Nat /\ Balanced(pool, offers, poolBalance)
    BY DEF PoolInv
  <1>5. Balanced(pool', offers', poolBalance') /\ poolBalance' \in Nat
    BY <1>1, <1>2, <1>3, <1>4 DEF Balanced, Pool, Available
  <1> QED BY <1>2, <1>3, <1>4, <1>5 DEF PoolInv

\* The steps that leave the pool's books alone
LEMMA UntouchedStep ==
    ASSUME PoolInv, Untouched, now' \in Nat
    PROVE  PoolInv'
  BY DEF PoolInv, Untouched, Balanced

LEMMA PublicationKeepsPool ==
    ASSUME PoolInv, Publication
    PROVE  Untouched /\ now' = now
  <1>1. CASE CreateOpenFundingPool
    BY <1>1 DEF CreateOpenFundingPool, PoolInv, Pool, Untouched
  <1>2. CASE UNCHANGED poolVars /\ UNCHANGED now
    BY <1>2 DEF poolVars, PoolInv, Untouched
  <1>3. Publication => CreateOpenFundingPool \/ (UNCHANGED poolVars /\ UNCHANGED now)
    BY DEF Publication, CommitProposalWithEscrow, UpdateProposal, UpdatePosting,
           WithdrawPosting, WithdrawProposal, SetPostingFundingPaused
  <1> QED BY <1>1, <1>2, <1>3

LEMMA GrantingKeepsPool ==
    ASSUME PoolInv, Granting
    PROVE  Untouched /\ now' = now
  <1>1. UNCHANGED poolVars /\ UNCHANGED now
    BY DEF Granting, SubmitEvidence, ApproveTranche, ReleaseTranche, InvalidateGrant,
           CancelEscrow, VoidEscrow, RefundInvalidated, ExpireEscrow, ClaimRefund,
           OnEscrow, TransferOut
  <1> QED BY <1>1 DEF poolVars, PoolInv, Untouched

LEMMA PoolInvNext == PoolInv /\ [GrantNext]_vars => PoolInv'
  <1> SUFFICES ASSUME PoolInv, [GrantNext]_vars PROVE PoolInv'
    OBVIOUS
  <1>1. now \in Nat
    BY DEF PoolInv
  <1>2. CASE Publication
    BY <1>1, <1>2, PublicationKeepsPool, UntouchedStep
  <1>3. CASE SetTokenAllowed
    <2>1. Untouched /\ now' = now
      BY <1>3 DEF SetTokenAllowed, poolVars, PoolInv, Untouched
    <2> QED BY <1>1, <2>1, UntouchedStep
  <1>4. CASE Offering
    <2>1. ASSUME NEW p \in Proposals, ReviewProposal(p)
          PROVE  PoolInv'
      <3>1. Untouched /\ now' = now
        BY <2>1 DEF ReviewProposal, poolVars, PoolInv, Untouched
      <3> QED BY <1>1, <3>1, UntouchedStep
    <2>2. ASSUME NEW p \in Proposals, ExpireProposal(p) \/ DeclineProposal(p)
          PROVE  PoolInv'
      BY <2>2, VoidStep DEF ExpireProposal, DeclineProposal
    <2> QED BY <1>4, <2>1, <2>2, DepositStep, WithdrawStep, SelectStep, AcceptStep
            DEF Offering
  <1>5. CASE Granting
    BY <1>1, <1>5, GrantingKeepsPool, UntouchedStep
  <1>6. CASE Tick
    <2>1. Untouched /\ now' \in Nat
      BY <1>1, <1>6 DEF Tick, poolVars, PoolInv, Untouched
    <2> QED BY <2>1, UntouchedStep
  <1>7. CASE UNCHANGED vars
    <2>1. Untouched /\ now' = now
      BY <1>7 DEF vars, poolVars, PoolInv, Untouched
    <2> QED BY <1>1, <2>1, UntouchedStep
  <1> QED BY <1>2, <1>3, <1>4, <1>5, <1>6, <1>7 DEF GrantNext

\* The pool can meet every offer it made, whatever happens to the offers.
THEOREM OffersAreCovered == GrantSpec => []PoolMeetsItsOffers
  <1>1. PoolInv => PoolMeetsItsOffers
    <2> SUFFICES ASSUME PoolInv PROVE PoolMeetsItsOffers
      OBVIOUS
    <2>1. pool \in Pool /\ poolBalance \in Nat /\ Balanced(pool, offers, poolBalance)
      BY DEF PoolInv
    <2>2. /\ Cardinality(Offered("Pending")) = OffersIn(offers, "Pending")
          /\ Cardinality(Offered("Accepted")) = OffersIn(offers, "Accepted")
      BY DEF Offered, OffersIn
    <2> QED BY <2>1, <2>2 DEF Balanced, PoolMeetsItsOffers, Available, Pool
  <1> QED BY <1>1, PoolInvInit, PoolInvNext, PTL DEF GrantSpec

-----------------------------------------------------------------------------
(* What was read is what is awarded *)

ReviewInv ==
    /\ offers \in [Proposals -> Offer] /\ proposals \in [Proposals -> Proposal]
    /\ reviewed \in [Proposals -> Nat \cup {Unread}]
    /\ now \in Nat
    /\ \A p \in Proposals : offers[p].state # "None" =>
          proposals[p].submitted /\ proposals[p].revision = reviewed[p]

LEMMA ReviewInvInit == GrantInit => ReviewInv
  BY DEF GrantInit, ReviewInv, Offer, Proposal, NoProposal

\* An event of an escrow changes neither revision nor submission.
LEMMA EventKeepsText ==
    ASSUME ReviewInv, NEW p \in Proposals, NEW event, NEW e,
           Transact(p, e, event)
    PROVE  /\ proposals' \in [Proposals -> Proposal]
           /\ \A r \in Proposals :
                 /\ proposals'[r].submitted = proposals[r].submitted
                 /\ proposals'[r].revision = proposals[r].revision
  <1> DEFINE filed == RecordOnProposal(proposals[p], event)
  <1>1. proposals \in [Proposals -> Proposal]
    BY DEF ReviewInv
  <1>2. /\ filed \in Proposal /\ filed.submitted = proposals[p].submitted
        /\ filed.revision = proposals[p].revision
    BY <1>1 DEF RecordOnProposal, Proposal
  <1>3. proposals' = [proposals EXCEPT ![p] = filed]
    BY <1>1 DEF Transact
  <1> HIDE DEF filed
  <1> QED BY <1>1, <1>2, <1>3

\* A transaction that makes no new offer keeps the invariant.
LEMMA NoNewOffer ==
    ASSUME ReviewInv, NEW p \in Proposals, NEW event, NEW e,
           Transact(p, e, event), reviewed' = reviewed, now' = now,
           offers' \in [Proposals -> Offer],
           \A r \in Proposals : offers'[r].state # "None" => offers[r].state # "None"
    PROVE  ReviewInv'
  BY EventKeepsText DEF ReviewInv

LEMMA PublicationKeepsReview ==
    ASSUME ReviewInv, Publication
    PROVE  ReviewInv'
  <1>1. ASSUME NEW p \in Proposals, NEW r \in 0..MaxRevision,
               CommitProposalWithEscrow(p, r)
        PROVE  ReviewInv'
    <2>1. /\ ~proposals[p].submitted
          /\ proposals' = [proposals EXCEPT ![p] = CommitProposal(proposals[p], r)]
          /\ UNCHANGED <<offers, reviewed, now>>
      BY <1>1 DEF CommitProposalWithEscrow, CanCommitProposal, poolVars, ReviewInv
    <2>2. CommitProposal(proposals[p], r) \in Proposal
      <3>1. r \in Nat /\ proposals[p] \in Proposal
        BY <1>1, GrantAssumption DEF ReviewInv
      <3> QED BY <3>1 DEF CommitProposal, Proposal
    <2>3. offers[p].state = "None"
      BY <2>1 DEF ReviewInv
    <2> QED BY <2>1, <2>2, <2>3 DEF ReviewInv
  <1>2. ASSUME NEW p \in Proposals, NEW r \in 0..MaxRevision, UpdateProposal(p, r)
        PROVE  ReviewInv'
    <2>1. /\ offers[p].state = "None"
          /\ proposals' = [proposals EXCEPT ![p] = UpdateHashes(proposals[p], r)]
          /\ UNCHANGED <<offers, reviewed, now>>
      BY <1>2 DEF UpdateProposal, NoOffer, poolVars, ReviewInv
    <2>2. UpdateHashes(proposals[p], r) \in Proposal
      <3>1. r \in Nat /\ proposals[p] \in Proposal
        BY <1>2, GrantAssumption DEF ReviewInv
      <3> DEFINE next == proposals[p].revision + 1
      <3>2. next \in Nat
        BY <3>1 DEF Proposal
      <3>3. UpdateHashes(proposals[p], r) =
               [proposals[p] EXCEPT !.revision = next, !.boundRevision = r]
        BY DEF UpdateHashes
      <3> HIDE DEF next
      <3> QED BY <3>1, <3>2, <3>3, Zenon DEF Proposal
    <2> QED BY <2>1, <2>2 DEF ReviewInv
  <1>3. ASSUME NEW p \in Proposals, WithdrawProposal(p)
        PROVE  ReviewInv'
    <2>1. /\ proposals' = [proposals EXCEPT ![p].withdrawn = TRUE]
          /\ UNCHANGED <<offers, reviewed, now>>
      BY <1>3 DEF WithdrawProposal, poolVars
    <2>2. /\ proposals' \in [Proposals -> Proposal]
          /\ \A r \in Proposals :
                /\ proposals'[r].submitted = proposals[r].submitted
                /\ proposals'[r].revision = proposals[r].revision
      BY <2>1 DEF ReviewInv, Proposal
    <2> QED BY <2>1, <2>2 DEF ReviewInv
  <1>4. CASE UNCHANGED <<offers, proposals, reviewed, now>>
    BY <1>4 DEF ReviewInv
  <1>5. CreateOpenFundingPool \/ UpdatePosting \/ WithdrawPosting
           \/ (\E b \in BOOLEAN : SetPostingFundingPaused(b))
        => UNCHANGED <<offers, proposals, reviewed, now>>
    BY DEF CreateOpenFundingPool, UpdatePosting, WithdrawPosting, SetPostingFundingPaused,
           poolVars, registry
  <1> QED BY <1>1, <1>2, <1>3, <1>4, <1>5 DEF Publication

LEMMA OfferingKeepsReview ==
    ASSUME ReviewInv, Offering
    PROVE  ReviewInv'
  <1>1. ASSUME NEW a \in Amounts, PoolDeposit(a) \/ WithdrawAvailable(a)
        PROVE  ReviewInv'
    <2>1. UNCHANGED <<offers, proposals, reviewed, now>>
      BY <1>1 DEF PoolDeposit, WithdrawAvailable, registry
    <2> QED BY <2>1 DEF ReviewInv
  <1>2. ASSUME NEW p \in Proposals, ReviewProposal(p) PROVE ReviewInv'
    <2>1. /\ offers[p].state = "None"
          /\ reviewed' = [reviewed EXCEPT ![p] = proposals[p].revision]
          /\ UNCHANGED <<offers, proposals, now>>
      BY <1>2 DEF ReviewProposal, NoOffer, poolVars, registry
    <2>2. proposals[p].revision \in Nat
      BY DEF ReviewInv, Proposal
    <2> QED BY <2>1, <2>2 DEF ReviewInv
  <1>3. ASSUME NEW p \in Proposals, SelectProposal(p) PROVE ReviewInv'
    <2> DEFINE new == [state |-> "Pending", acceptanceDeadline |-> now + AcceptanceWindow]
    <2>1. /\ offers' = [offers EXCEPT ![p] = new]
          /\ reviewed[p] = proposals[p].revision /\ proposals[p].submitted
          /\ UNCHANGED <<proposals, reviewed, now>>
      BY <1>3 DEF SelectProposal, AsReviewed, Active, IsFundingActive, IsFundingCurrent,
                  registry
    <2>2. new \in Offer
      BY Constants DEF Offer, ReviewInv
    <2> QED BY <2>1, <2>2 DEF ReviewInv
  <1>4. ASSUME NEW p \in Proposals, AcceptProposal(p) PROVE ReviewInv'
    <2>1. /\ offers[p].state = "Pending"
          /\ offers' = [offers EXCEPT ![p].state = "Accepted"]
          /\ Transact(p, AcceptOpenFunding(escrows[p]), "Deposit")
          /\ reviewed' = reviewed /\ now' = now
      BY <1>4 DEF AcceptProposal
    <2>2. /\ offers' \in [Proposals -> Offer]
          /\ \A r \in Proposals : offers'[r].state # "None" => offers[r].state # "None"
      BY <2>1 DEF ReviewInv, Offer
    <2> QED BY <2>1, <2>2, NoNewOffer
  <1>5. ASSUME NEW p \in Proposals, VoidOffer(p) PROVE ReviewInv'
    <2>1. /\ offers[p].state = "Pending"
          /\ offers' = [offers EXCEPT ![p].state = "Voided"]
          /\ Transact(p, VoidOpenFunding(escrows[p]), "Voided")
          /\ reviewed' = reviewed /\ now' = now
      BY <1>5 DEF VoidOffer
    <2>2. /\ offers' \in [Proposals -> Offer]
          /\ \A r \in Proposals : offers'[r].state # "None" => offers[r].state # "None"
      BY <2>1 DEF ReviewInv, Offer
    <2> QED BY <2>1, <2>2, NoNewOffer
  <1> QED BY <1>1, <1>2, <1>3, <1>4, <1>5 DEF Offering, ExpireProposal, DeclineProposal

LEMMA GrantingIsTransaction ==
    ASSUME Granting
    PROVE  \E p \in Proposals : \E e, event :
              /\ Transact(p, e, event)
              /\ offers' = offers /\ reviewed' = reviewed /\ now' = now
  BY DEF Granting, SubmitEvidence, ApproveTranche, ReleaseTranche, InvalidateGrant,
         CancelEscrow, VoidEscrow, RefundInvalidated, ExpireEscrow, ClaimRefund,
         OnEscrow, TransferOut, poolVars

LEMMA ReviewInvNext == ReviewInv /\ [GrantNext]_vars => ReviewInv'
  <1> SUFFICES ASSUME ReviewInv, [GrantNext]_vars PROVE ReviewInv'
    OBVIOUS
  <1>1. CASE Granting
    <2>1. PICK p \in Proposals : \E e, event :
              /\ Transact(p, e, event)
              /\ offers' = offers /\ reviewed' = reviewed /\ now' = now
      BY <1>1, GrantingIsTransaction
    <2>2. offers' \in [Proposals -> Offer]
      BY <2>1 DEF ReviewInv
    <2> QED BY <2>1, <2>2, NoNewOffer
  <1>2. CASE SetTokenAllowed \/ UNCHANGED vars
    <2>1. UNCHANGED <<offers, proposals, reviewed, now>>
      BY <1>2 DEF SetTokenAllowed, vars, registry, poolVars
    <2> QED BY <2>1 DEF ReviewInv
  <1>3. CASE Tick
    BY <1>3 DEF Tick, registry, poolVars, ReviewInv
  <1> QED BY <1>1, <1>2, <1>3, PublicationKeepsReview, OfferingKeepsReview DEF GrantNext

\* The owner never awards a text that was not the one last read.
THEOREM AwardsAreAsReviewed == GrantSpec => []AwardIsAsReviewed
  <1>1. ReviewInv => AwardIsAsReviewed
    BY DEF ReviewInv, AwardIsAsReviewed
  <1> QED BY <1>1, ReviewInvInit, ReviewInvNext, PTL DEF GrantSpec

-----------------------------------------------------------------------------
(* Grants do not disturb each other *)

LEMMA EventKeepsPosting ==
    ASSUME posting \in Posting, NEW p \in Proposals, NEW e, NEW event,
           Transact(p, e, event)
    PROVE  posting' \in Posting
  BY DEF Transact, RecordOnGrant, Posting

LEMMA PostingStays ==
    ASSUME posting \in Posting, [GrantNext]_vars
    PROVE  posting' \in Posting
  <1>1. CASE Publication
    <2>1. UpdateOpportunity(posting) \in Posting
      BY DEF UpdateOpportunity, Posting
    <2>2. ASSUME NEW b \in BOOLEAN
          PROVE  /\ [posting EXCEPT !.paused = b] \in Posting
                 /\ [posting EXCEPT !.withdrawn = TRUE] \in Posting
      BY <2>2 DEF Posting
    <2> QED BY <1>1, <2>1, <2>2
            DEF Publication, CreateOpenFundingPool, UpdatePosting, WithdrawPosting,
                SetPostingFundingPaused, CommitProposalWithEscrow, UpdateProposal,
                WithdrawProposal, registry
  <1>2. CASE Offering
    <2>1. [posting EXCEPT !.started = TRUE] \in Posting
      BY DEF Posting
    <2> QED BY <1>2, <2>1, EventKeepsPosting
            DEF Offering, PoolDeposit, WithdrawAvailable, ReviewProposal, SelectProposal,
                AcceptProposal, ExpireProposal, DeclineProposal, VoidOffer, registry
  <1>3. CASE Granting
    BY <1>3, GrantingIsTransaction, EventKeepsPosting
  <1>4. CASE SetTokenAllowed \/ Tick \/ UNCHANGED vars
    BY <1>4 DEF SetTokenAllowed, Tick, vars, registry
  <1> QED BY <1>1, <1>2, <1>3, <1>4 DEF GrantNext

LEMMA PostingInit == GrantInit => posting \in Posting
  BY DEF GrantInit, Posting, NewPosting

\* What lets a proposal proceed does not look at whether the posting has started,
\* and an event of one proposal's escrow changes nothing else of a rival's.
LEMMA RivalStaysActive ==
    ASSUME NEW p \in Proposals, NEW q \in Proposals, p # q, NEW e, NEW event,
           proposals \in [Proposals -> Proposal], posting \in Posting,
           Transact(p, e, event)
    PROVE  Active(q)' = Active(q)
  <1>1. proposals'[q] = proposals[q]
    BY DEF Transact
  <1>2. /\ posting'.accepted = posting.accepted /\ posting'.withdrawn = posting.withdrawn
        /\ posting'.paused = posting.paused /\ posting'.pending = posting.pending
    BY DEF Transact, RecordOnGrant, Posting
  <1> QED BY <1>1, <1>2 DEF Active, IsFundingActive, IsFundingCurrent

\* An escrow changes only in a transaction of its own.
LEMMA EscrowStep ==
    ASSUME [GrantNext]_vars, NEW p \in Proposals, escrows'[p] # escrows[p]
    PROVE  \E r \in Proposals : \E e, event : Transact(r, e, event)
  <1>1. CASE Publication \/ SetTokenAllowed \/ Tick \/ UNCHANGED vars
    BY <1>1 DEF Publication, CreateOpenFundingPool, UpdatePosting, WithdrawPosting,
                SetPostingFundingPaused, CommitProposalWithEscrow, UpdateProposal,
                WithdrawProposal, SetTokenAllowed, Tick, vars, escrowVars
  <1>2. CASE Offering
    BY <1>2 DEF Offering, PoolDeposit, WithdrawAvailable, ReviewProposal, SelectProposal,
                AcceptProposal, ExpireProposal, DeclineProposal, VoidOffer, escrowVars
  <1>3. CASE Granting
    BY <1>3, GrantingIsTransaction
  <1> QED BY <1>1, <1>2, <1>3 DEF GrantNext

\* A payment, a refund or a void of one grant leaves every other one as it was.
THEOREM GrantsStayIndependent == GrantSpec => GrantsAreIndependent
  <1>1. ASSUME ReviewInv, posting \in Posting, [GrantNext]_vars,
               NEW p \in Proposals, NEW q \in Proposals, p # q, escrows'[p] # escrows[p]
        PROVE  Active(q)' = Active(q)
    <2>1. PICK r \in Proposals : \E e, event : Transact(r, e, event)
      BY <1>1, EscrowStep
    <2>2. r = p
      BY <1>1, <2>1 DEF Transact
    <2>3. proposals \in [Proposals -> Proposal]
      BY <1>1 DEF ReviewInv
    <2> QED BY <1>1, <2>1, <2>2, <2>3, RivalStaysActive
  <1>2. ReviewInv /\ posting \in Posting /\ [GrantNext]_vars =>
           [\A p, q \in Proposals :
              p # q /\ escrows'[p] # escrows[p] => Active(q)' = Active(q)]_vars
    BY <1>1
  <1>3. posting \in Posting /\ [GrantNext]_vars => (posting \in Posting)'
    BY PostingStays
  <1>4. GrantSpec => [](ReviewInv /\ posting \in Posting)
    BY <1>3, ReviewInvInit, ReviewInvNext, PostingInit, PTL DEF GrantSpec
  <1> QED BY <1>2, <1>4, PTL DEF GrantSpec, GrantsAreIndependent

=============================================================================
