------------------------- MODULE IndependentProofs -------------------------
(***************************************************************************)
(* What a listing's escrow keeps, for any target, fee, window and set of      *)
(* funders.  The invariant ties the money to the state and to the books of    *)
(* FundingEscrowProofs (intervals, refunds and tallies add up), and the votes  *)
(* to the ballots about the evidence on record.  That the sums stay within the *)
(* target is part of the type, so typing needs the sums as much as the         *)
(* properties do.                                                            *)
(***************************************************************************)
EXTENDS IndependentProperties, FundingEscrowProofs

Closed == {"Declined", "Expired", "Cancelled", "Refunded"}

Half == Target \div 2

\* What each state says of the payments.
StageAgrees(e) ==
    /\ e.state = "Open" => e.totalReleased = 0
    /\ e.state = "Accepted" => e.totalReleased = Half
    /\ e.state = "Released" => e.totalReleased = Target
    /\ e.totalReleased \in {0, Half, Target}
    /\ e.totalReleased # 0 => e.totalDeposited = Target
    /\ e.feePaid = CumulativeFee(e.totalReleased)
    /\ e.refundsEnabled <=> e.state \in Closed

Kept(e) ==
    /\ e \in IndependentEscrow
    /\ StageAgrees(e)
    /\ IntervalsFit(e)
    /\ RefundsAreShares(e)
    /\ SumsInv(e)

\* The votes on record are the ballots about the evidence on record; evidence that
\* was never submitted has none.
BallotsAgree(e, cast) ==
    /\ \A f \in Funders, v \in Evidence : <<f, v>> \in cast => v \in e.usedEvidence
    /\ e.evidence # NoEvidence =>
          /\ e.evidence \in e.usedEvidence
          /\ \A f \in Funders : e.votes[f] = "yes" <=> <<f, e.evidence>> \in cast

IndependentInv ==
    /\ IndependentTypeOK
    /\ Kept(escrow)
    /\ custody = escrow.totalDeposited - escrow.totalReleased - escrow.totalRefunded
    /\ BallotsAgree(escrow, ballots)

-----------------------------------------------------------------------------
(* The escrow's records *)

LEMMA HalfOfTarget ==
    /\ Target \in Nat /\ Target > 1 /\ Half \in Nat /\ 0 < Half /\ Half < Target
    /\ ReviewTime \in Nat /\ MaxTime \in Nat /\ Amounts \subseteq Nat
  <1>1. Target \in Nat /\ Target > 1
    BY Sizes, IndependentAssumption
  <1> QED BY <1>1, IndependentAssumption DEF Half

LEMMA Fields ==
    ASSUME NEW e \in IndependentEscrow
    PROVE  /\ e.totalDeposited \in Nat /\ e.totalDeposited <= Target
           /\ e.totalReleased \in Nat /\ e.totalReleased <= Target
           /\ e.totalRefunded \in Nat /\ e.yesWeight \in Nat
           /\ e.contributions \in [Funders -> 0..Target] /\ e.ends \in [Funders -> 0..Target]
           /\ e.contributions \in [Funders -> Nat] /\ e.ends \in [Funders -> Nat]
           /\ e.refundedAmounts \in [Funders -> Nat] /\ e.votes \in [Funders -> Ballots]
           /\ e.state \in IndependentStates
  BY Sizes DEF IndependentEscrow

\* No more was released than deposited.
LEMMA Unreleased ==
    ASSUME NEW e \in IndependentEscrow, StageAgrees(e)
    PROVE  /\ e.totalReleased <= e.totalDeposited
           /\ e.totalDeposited - e.totalReleased \in 0..Target
  <1>1. /\ e.totalDeposited \in Nat /\ e.totalDeposited <= Target
        /\ e.totalReleased \in Nat /\ e.totalReleased <= Target
    BY Fields
  <1>2. e.totalReleased <= e.totalDeposited
    BY <1>1, HalfOfTarget DEF StageAgrees
  <1> QED BY <1>1, <1>2, HalfOfTarget

\* What a wallet was refunded is nothing or its share of what is unpaid.
LEMMA NothingOrShare ==
    ASSUME NEW e, RefundsAreShares(e), NEW f \in Funders
    PROVE  e.refundedAmounts[f] \in {0, Share(e, f, e.totalDeposited - e.totalReleased)}
  BY DEF RefundsAreShares

\* An escrow in the making: its fields without the bounds that the sums give.
LEMMA KeptBounds ==
    ASSUME NEW e, Kept(e)
    PROVE  /\ e.totalRefunded \in 0..(e.totalDeposited - e.totalReleased)
           /\ e.totalDeposited - e.totalReleased \in 0..Target
           /\ e.totalReleased <= e.totalDeposited
  <1>1. e \in IndependentEscrow /\ StageAgrees(e) /\ IntervalsFit(e) /\ SumsInv(e)
    BY DEF Kept
  <1>2. /\ e.totalReleased <= e.totalDeposited
        /\ e.totalDeposited - e.totalReleased \in 0..Target
    BY <1>1, Unreleased
  <1>3. \A f \in Funders :
           e.refundedAmounts[f] \in {0, Share(e, f, e.totalDeposited - e.totalReleased)}
    BY NothingOrShare DEF Kept
  <1>4. /\ e.contributions \in [Funders -> Nat] /\ e.ends \in [Funders -> Nat]
        /\ e.totalDeposited \in Nat /\ e.totalReleased \in Nat
    BY <1>1, Fields
  <1>5. e.totalRefunded \in 0..(e.totalDeposited - e.totalReleased)
    BY <1>1, <1>2, <1>3, <1>4, RefundsWithin
  <1> QED BY <1>2, <1>5

-----------------------------------------------------------------------------
(* The operations *)

LEMMA DepositKept ==
    ASSUME NEW e, Kept(e), e.state = "Open", NEW f \in Funders,
           NEW amount \in Nat \ {0}, amount <= Target - e.totalDeposited
    PROVE  LET d == Deposit(e, f, amount)
           IN /\ Kept(d)
              /\ d.totalDeposited = e.totalDeposited + amount
              /\ d.totalReleased = e.totalReleased /\ d.totalRefunded = e.totalRefunded
              /\ d.refundsEnabled = e.refundsEnabled /\ d.state = e.state
              /\ d.evidence = e.evidence /\ d.usedEvidence = e.usedEvidence
              /\ d.votes = e.votes
  <1> DEFINE d == Deposit(e, f, amount)
             ends == ExtendIntervals(e, f, amount)
             contributions == Credit(e.contributions, f, amount)
             total == e.totalDeposited + amount
  <1>1. /\ e \in IndependentEscrow /\ StageAgrees(e) /\ IntervalsFit(e)
        /\ RefundsAreShares(e) /\ SumsInv(e)
    BY DEF Kept
  <1>2. total \in 0..Target /\ total <= Target /\ e.totalReleased = 0 /\ ~e.refundsEnabled
    BY <1>1, Fields, HalfOfTarget DEF StageAgrees, Closed
  <1>3. /\ contributions \in [Funders -> 0..Target] /\ ends \in [Funders -> 0..Target]
        /\ \A g \in Funders : contributions[g] <= ends[g] /\ ends[g] <= total
    <2>1. /\ e.contributions \in [Funders -> 0..Target] /\ e.ends \in [Funders -> 0..Target]
          /\ e.totalDeposited \in Nat
      BY <1>1, Fields
    <2> QED BY <2>1, <1>1, <1>2, DepositFits
  <1> HIDE DEF ends, contributions
  <1>4. /\ d.contributions = contributions /\ d.ends = ends /\ d.totalDeposited = total
        /\ d.state = e.state /\ d.totalReleased = e.totalReleased /\ d.feePaid = e.feePaid
        /\ d.totalRefunded = e.totalRefunded /\ d.refundedAmounts = e.refundedAmounts
        /\ d.refundsEnabled = e.refundsEnabled /\ d.refundPool = e.refundPool
        /\ d.votes = e.votes /\ d.yesWeight = e.yesWeight
        /\ d.evidence = e.evidence /\ d.usedEvidence = e.usedEvidence
    BY <1>1, Zenon DEF Deposit, IndependentEscrow, ends, contributions
  <1>5. d \in IndependentEscrow
    BY <1>1, <1>2, <1>3, Zenon DEF Deposit, IndependentEscrow, ends, contributions
  <1> HIDE DEF d, total
  <1>6. StageAgrees(d) /\ IntervalsFit(d) /\ RefundsAreShares(d)
    BY <1>1, <1>2, <1>3, <1>4 DEF StageAgrees, IntervalsFit, RefundsAreShares
  <1>7. SumsInv(d)
    <2>1. /\ e.contributions \in [Funders -> Nat] /\ e.ends \in [Funders -> Nat]
          /\ e.totalDeposited \in Nat
      BY <1>1, Fields
    <2> QED BY <2>1, <1>1, <1>4, DepositKeepsSums DEF contributions, ends, total
  <1> QED BY <1>4, <1>5, <1>6, <1>7 DEF Kept, d, total

\* The state that a payment leads to, with what it has released by then.
Stage(next, released) ==
    \/ next = "Accepted" /\ released = Half
    \/ next = "Released" /\ released = Target

\* A payment raises what was released to a stage of the plan, and the fee with it.
LEMMA PayKept ==
    ASSUME NEW e, Kept(e), ~e.refundsEnabled, e.totalDeposited = Target,
           NEW next, NEW deadline \in Nat, NEW gross \in Nat, NEW fee,
           Stage(next, e.totalReleased + gross),
           e.feePaid + fee = CumulativeFee(e.totalReleased + gross),
           NEW d, d = [e EXCEPT !.state = next, !.completionDeadline = deadline,
                                !.totalReleased = e.totalReleased + gross,
                                !.feePaid = e.feePaid + fee]
    PROVE  Kept(d)
  <1> DEFINE released == e.totalReleased + gross
  <1>1. /\ e \in IndependentEscrow /\ StageAgrees(e) /\ IntervalsFit(e)
        /\ RefundsAreShares(e) /\ SumsInv(e)
    BY DEF Kept
  <1>2. released \in 0..Target /\ released \in Nat /\ next \in IndependentStates
    BY HalfOfTarget DEF IndependentStates, Stage
  <1>3. e.feePaid + fee \in 0..Target
    BY <1>2, FeeBound, Sizes
  <1>4. /\ d.state = next /\ d.totalReleased = released /\ d.feePaid = e.feePaid + fee
        /\ d.contributions = e.contributions /\ d.ends = e.ends
        /\ d.totalDeposited = e.totalDeposited /\ d.totalRefunded = e.totalRefunded
        /\ d.refundedAmounts = e.refundedAmounts
        /\ d.refundsEnabled = e.refundsEnabled /\ d.refundPool = e.refundPool
        /\ d.votes = e.votes /\ d.yesWeight = e.yesWeight
        /\ d.evidence = e.evidence /\ d.usedEvidence = e.usedEvidence
    BY <1>1, Zenon DEF IndependentEscrow
  <1>5. d \in IndependentEscrow
    BY <1>1, <1>2, <1>3, Zenon DEF IndependentEscrow
  <1>6. StageAgrees(d)
    BY <1>1, <1>4, HalfOfTarget DEF StageAgrees, Closed, Stage
  <1>7. IntervalsFit(d) /\ RefundsAreShares(d)
    BY <1>1, <1>4 DEF IntervalsFit, RefundsAreShares
  <1>8. d.state \notin {"Open", "Refunded"}
    BY <1>4 DEF Stage
  <1>9. SumsInv(d)
    BY <1>1, <1>4, <1>8, SameSums
  <1> QED BY <1>4, <1>5, <1>6, <1>7, <1>9 DEF Kept

LEMMA OpenedKept ==
    ASSUME NEW e, Kept(e), e.state \in {"Open", "Accepted"},
           NEW next \in {"Declined", "Expired", "Cancelled"}
    PROVE  LET d == Opened(e, next)
           IN /\ Kept(d) /\ d.state = next /\ d.refundsEnabled
              /\ d.totalDeposited = e.totalDeposited /\ d.totalReleased = e.totalReleased
              /\ d.totalRefunded = e.totalRefunded
              /\ d.refundPool = e.totalDeposited - e.totalReleased
              /\ d.evidence = e.evidence /\ d.usedEvidence = e.usedEvidence
              /\ d.votes = e.votes
  <1> DEFINE d == Opened(e, next)
             pool == e.totalDeposited - e.totalReleased
  <1>1. /\ e \in IndependentEscrow /\ StageAgrees(e) /\ IntervalsFit(e)
        /\ RefundsAreShares(e) /\ SumsInv(e)
    BY DEF Kept
  <1>2. pool \in 0..Target /\ next \in IndependentStates
    BY <1>1, Unreleased DEF IndependentStates
  <1>3. /\ d.state = next /\ d.refundsEnabled = TRUE /\ d.refundPool = pool
        /\ d.totalReleased = e.totalReleased /\ d.feePaid = e.feePaid
        /\ d.contributions = e.contributions /\ d.ends = e.ends
        /\ d.totalDeposited = e.totalDeposited /\ d.totalRefunded = e.totalRefunded
        /\ d.refundedAmounts = e.refundedAmounts
        /\ d.votes = e.votes /\ d.yesWeight = e.yesWeight
        /\ d.evidence = e.evidence /\ d.usedEvidence = e.usedEvidence
    BY <1>1, Zenon DEF Opened, IndependentEscrow
  <1>4. d \in IndependentEscrow
    BY <1>1, <1>2, Zenon DEF Opened, IndependentEscrow
  <1> HIDE DEF d, pool
  <1>5. StageAgrees(d) /\ IntervalsFit(d)
    BY <1>1, <1>3 DEF StageAgrees, IntervalsFit, Closed
  <1>6. ~e.refundsEnabled
    BY <1>1 DEF StageAgrees, Closed
  <1>7. RefundsAreShares(d)
    BY <1>1, <1>3, <1>6 DEF RefundsAreShares, pool
  <1>8. SumsInv(d)
    BY <1>1, <1>3, SameSums
  <1> QED BY <1>3, <1>4, <1>5, <1>7, <1>8 DEF Kept, d, pool

LEMMA EvidenceKept ==
    ASSUME NEW e, Kept(e), NEW v \in Evidence,
           NEW d, d = [e EXCEPT !.usedEvidence = e.usedEvidence \cup {v}, !.evidence = v,
                                !.yesWeight = 0, !.votes = NoBallots]
    PROVE  Kept(d)
  <1>1. /\ e \in IndependentEscrow /\ StageAgrees(e) /\ IntervalsFit(e)
        /\ RefundsAreShares(e) /\ SumsInv(e)
    BY DEF Kept
  <1>2. /\ e.usedEvidence \cup {v} \in SUBSET Evidence /\ v \in Evidence \cup {NoEvidence}
        /\ NoBallots \in [Funders -> Ballots] /\ 0 \in 0..Target
    BY <1>1, Sizes DEF IndependentEscrow, NoBallots, Ballots
  <1>3. /\ d.state = e.state /\ d.totalReleased = e.totalReleased /\ d.feePaid = e.feePaid
        /\ d.contributions = e.contributions /\ d.ends = e.ends
        /\ d.totalDeposited = e.totalDeposited /\ d.totalRefunded = e.totalRefunded
        /\ d.refundedAmounts = e.refundedAmounts
        /\ d.refundsEnabled = e.refundsEnabled /\ d.refundPool = e.refundPool
        /\ d.votes = NoBallots /\ d.yesWeight = 0
        /\ d.evidence = v /\ d.usedEvidence = e.usedEvidence \cup {v}
    BY <1>1, Zenon DEF IndependentEscrow
  <1>4. d \in IndependentEscrow
    BY <1>1, <1>2, Zenon DEF IndependentEscrow
  <1>5. StageAgrees(d) /\ IntervalsFit(d)
    BY <1>1, <1>3 DEF StageAgrees, IntervalsFit
  <1>6. RefundsAreShares(d)
    BY <1>1, <1>3 DEF RefundsAreShares, Share
  <1>7. SumsInv(d)
    BY <1>1, <1>3, SameSums
  <1> QED BY <1>3, <1>4, <1>5, <1>6, <1>7 DEF Kept

LEMMA VoteKept ==
    ASSUME NEW e, Kept(e), e.state = "Accepted", NEW f \in Funders,
           NEW ballot \in {"yes", "no"}, e.votes[f] = "none"
    PROVE  Kept(Vote(e, f, ballot))
  <1> DEFINE d == Vote(e, f, ballot)
             votes == [e.votes EXCEPT ![f] = ballot]
             weight == IF ballot = "yes" THEN e.yesWeight + e.contributions[f] ELSE e.yesWeight
  <1>1. /\ e \in IndependentEscrow /\ StageAgrees(e) /\ IntervalsFit(e)
        /\ RefundsAreShares(e) /\ SumsInv(e)
    BY DEF Kept
  <1>2. /\ d.state = e.state /\ d.totalReleased = e.totalReleased /\ d.feePaid = e.feePaid
        /\ d.contributions = e.contributions /\ d.ends = e.ends
        /\ d.totalDeposited = e.totalDeposited /\ d.totalRefunded = e.totalRefunded
        /\ d.refundedAmounts = e.refundedAmounts
        /\ d.refundsEnabled = e.refundsEnabled /\ d.refundPool = e.refundPool
        /\ d.votes = votes /\ d.yesWeight = weight
        /\ d.evidence = e.evidence /\ d.usedEvidence = e.usedEvidence
    BY <1>1, Zenon DEF Vote, IndependentEscrow
  <1>3. /\ e.votes \in [Funders -> Ballots] /\ e.contributions \in [Funders -> Nat]
        /\ e.ends \in [Funders -> Nat] /\ e.yesWeight \in Nat
        /\ e.totalDeposited \in Nat /\ e.totalDeposited <= Target
    BY <1>1, Fields
  <1>4. votes \in [Funders -> Ballots]
    BY <1>3 DEF Ballots
  <1>5. d = [e EXCEPT !.votes = votes, !.yesWeight = weight]
    BY DEF Vote
  <1> HIDE DEF d
  <1>6. SumsInv(d)
    <2>1. /\ SumsInv(e) /\ f \in Funders /\ ballot \in {"yes", "no"}
          /\ e.votes \in [Funders -> Ballots] /\ e.contributions \in [Funders -> Nat]
          /\ e.yesWeight \in Nat /\ e.votes[f] = "none" /\ e.state # "Open"
      BY <1>1, <1>3
    <2>2. /\ d.contributions = e.contributions /\ d.ends = e.ends
          /\ d.totalDeposited = e.totalDeposited
          /\ d.refundedAmounts = e.refundedAmounts /\ d.totalRefunded = e.totalRefunded
          /\ d.votes = [e.votes EXCEPT ![f] = ballot]
          /\ d.yesWeight = IF ballot = "yes" THEN e.yesWeight + e.contributions[f]
                                            ELSE e.yesWeight
          /\ d.state = e.state /\ d.refundPool = e.refundPool
      BY <1>2
    <2> QED BY ONLY <2>1, <2>2, VoteKeepsSums, Zenon
  <1> HIDE DEF votes, weight
  <1>7. StageAgrees(d) /\ IntervalsFit(d)
    BY <1>1, <1>2 DEF StageAgrees, IntervalsFit
  <1>8. RefundsAreShares(d)
    BY <1>1, <1>2 DEF RefundsAreShares, Share
  <1>9. weight \in 0..Target
    <2>1. d.yesWeight \in 0..d.totalDeposited
      BY <1>2, <1>3, <1>6, <1>7, TallyWithin
    <2> QED BY <2>1, <1>2, <1>3, Sizes
  <1>10. d \in IndependentEscrow
    BY <1>1, <1>4, <1>5, <1>9, Zenon DEF IndependentEscrow
  <1>11. Kept(d)
    BY <1>6, <1>7, <1>8, <1>10 DEF Kept
  <1> QED BY <1>11 DEF d

\* A refund pays a wallet its whole share, once, and never more than the escrow holds.
LEMMA ClaimKept ==
    ASSUME NEW o, Kept(o), o.refundsEnabled, NEW f \in Funders, RefundDue(o, f) # 0,
           NEW d, d = [o EXCEPT !.refundedAmounts = Credit(o.refundedAmounts, f, RefundDue(o, f)),
                                !.totalRefunded = o.totalRefunded + RefundDue(o, f),
                                !.state = IF o.totalRefunded + RefundDue(o, f) = o.refundPool
                                          THEN "Refunded" ELSE o.state]
    PROVE  Kept(d) /\ RefundDue(o, f) \in 1..Target
  <1> DEFINE due == RefundDue(o, f)
             balances == o.refundedAmounts
             refunded == Credit(balances, f, due)
             next == IF o.totalRefunded + due = o.refundPool THEN "Refunded" ELSE o.state
             pool == o.totalDeposited - o.totalReleased
             share == Share(o, f, pool)
  <1>1. /\ o \in IndependentEscrow /\ StageAgrees(o) /\ IntervalsFit(o)
        /\ RefundsAreShares(o) /\ SumsInv(o)
    BY DEF Kept
  <1>2. /\ o.contributions \in [Funders -> Nat] /\ o.ends \in [Funders -> Nat]
        /\ o.contributions \in [Funders -> 0..Target]
        /\ o.totalDeposited \in Nat /\ o.totalReleased \in Nat /\ o.totalRefunded \in Nat
        /\ o.totalDeposited <= Target /\ balances \in [Funders -> Nat]
    BY <1>1, Fields
  <1>3. o.totalReleased <= o.totalDeposited /\ pool \in 0..Target
    BY <1>1, Unreleased
  <1>4. o.refundPool = pool /\ balances[f] \in {0, share}
    BY <1>1 DEF RefundsAreShares
  <1>5. share \in 0..o.contributions[f]
    <2>1. o.contributions[f] \in Nat /\ o.ends[f] \in Nat
      BY <1>2
    <2> QED BY <2>1, <1>1, <1>2, <1>3, ShareWithin
  <1>6. due = share /\ due \in 1..Target /\ balances[f] = 0
    <2>1. due = share - balances[f]
      BY <1>4 DEF RefundDue
    <2>2. o.contributions[f] \in Nat /\ o.contributions[f] <= Target /\ Target \in Nat
      BY <1>2, Sizes
    <2>3. due # 0
      OBVIOUS
    <2> HIDE DEF due, share, balances
    <2> QED BY <2>1, <2>2, <2>3, <1>4, <1>5
  <1>7. refunded = [balances EXCEPT ![f] = balances[f] + due]
    BY DEF Credit
  <1>8. d = [o EXCEPT !.refundedAmounts = refunded, !.totalRefunded = o.totalRefunded + due,
                      !.state = next]
    OBVIOUS
  <1> HIDE DEF due, refunded, share, next, balances
  <1>9. /\ refunded \in [Funders -> Nat]
        /\ \A g \in Funders : refunded[g] = IF g = f THEN share ELSE balances[g]
    BY <1>2, <1>6, <1>7
  <1>10. next \in Closed /\ next \in IndependentStates
    BY <1>1 DEF StageAgrees, Closed, IndependentStates, next
  <1>11. /\ d.state = next /\ d.totalReleased = o.totalReleased /\ d.feePaid = o.feePaid
         /\ d.contributions = o.contributions /\ d.ends = o.ends
         /\ d.totalDeposited = o.totalDeposited /\ d.totalRefunded = o.totalRefunded + due
         /\ d.refundedAmounts = refunded
         /\ d.refundsEnabled = o.refundsEnabled /\ d.refundPool = o.refundPool
         /\ d.votes = o.votes /\ d.yesWeight = o.yesWeight
         /\ d.evidence = o.evidence /\ d.usedEvidence = o.usedEvidence
    BY <1>1, <1>8, Zenon DEF IndependentEscrow
  <1>12. IntervalsFit(d)
    BY <1>1, <1>11 DEF IntervalsFit
  <1>13. StageAgrees(d)
    BY <1>1, <1>10, <1>11 DEF StageAgrees, Closed
  <1>14. RefundsAreShares(d)
    <2>1. \A g \in Funders : Share(d, g, d.refundPool) = Share(o, g, pool)
      BY <1>4, <1>11 DEF Share
    <2>2. \A g \in Funders : balances[g] \in {0, Share(o, g, pool)}
      BY <1>1, <1>4 DEF RefundsAreShares, balances
    <2>3. \A g \in Funders : d.refundedAmounts[g] \in {0, Share(d, g, d.refundPool)}
      BY <2>1, <2>2, <1>9, <1>11 DEF share
    <2> QED BY <2>3, <1>4, <1>11 DEF RefundsAreShares
  <1>15. SumsInv(d)
    <2>1. o.state \notin {"Refunded", "Open"}
      <3>1. o.state # "Open"
        BY <1>1 DEF StageAgrees, Closed
      <3>2. ASSUME o.state = "Refunded" PROVE FALSE
        <4>1. o.totalRefunded = pool
          BY <3>2, <1>1, <1>4 DEF SumsInv, RefundsAddUp
        <4> DEFINE shares == [g \in Funders |-> Share(o, g, pool)]
        <4>2. Total(shares, Funders) = pool
          BY <1>1, <1>2, <1>3, SharesAddUp DEF SumsInv
        <4>3. o.totalRefunded = Total(balances, Funders) /\ IsFiniteSet(Funders)
          BY <1>1, EscrowAssumption DEF SumsInv, RefundsAddUp, balances
        <4>4. \A g \in Funders : balances[g] \in {0, shares[g]} /\ shares[g] \in 0..o.contributions[g]
          <5>1. ASSUME NEW g \in Funders PROVE shares[g] \in 0..o.contributions[g]
            <6>1. o.contributions[g] \in Nat /\ o.ends[g] \in Nat
              BY <1>2
            <6> QED BY <6>1, <1>1, <1>2, <1>3, ShareWithin
          <5>2. \A g \in Funders : balances[g] \in {0, shares[g]}
            BY <1>1, <1>4 DEF RefundsAreShares, balances
          <5> QED BY <5>1, <5>2
        <4>5. shares[f] = share
          BY DEF share
        <4> HIDE DEF shares, pool
        <4>6. \A g \in Funders : balances[g] \in Int /\ shares[g] \in Int /\ balances[g] <= shares[g]
          BY <4>4, <1>2
        <4>7. balances[f] = shares[f]
          BY <4>1, <4>2, <4>3, <4>6, TotalForcesEqual
        <4> QED BY <4>5, <4>7, <1>6
      <3> QED BY <3>1, <3>2
    <2>2. /\ d.refundedAmounts = Credit(o.refundedAmounts, f, due) /\ due \in Nat
          /\ d.state = IF o.totalRefunded + due = o.refundPool THEN "Refunded" ELSE o.state
      BY <1>6, <1>11 DEF refunded, next, balances
    <2>3. /\ SumsInv(o) /\ f \in Funders /\ o.totalRefunded \in Nat
          /\ o.refundedAmounts \in [Funders -> Nat]
      BY <1>1, <1>2 DEF balances
    <2>4. /\ d.contributions = o.contributions /\ d.ends = o.ends
          /\ d.totalDeposited = o.totalDeposited /\ d.refundPool = o.refundPool
          /\ d.totalRefunded = o.totalRefunded + due
          /\ d.votes = o.votes /\ d.yesWeight = o.yesWeight
      BY <1>11
    <2> QED BY ONLY <2>1, <2>2, <2>3, <2>4, ClaimKeepsSums, Zenon
  <1>16. o.totalRefunded + due \in 0..Target
    <2>1. \A g \in Funders :
             d.refundedAmounts[g] \in {0, Share(d, g, d.totalDeposited - d.totalReleased)}
      BY <1>14, NothingOrShare
    <2>2. d.totalRefunded \in 0..(d.totalDeposited - d.totalReleased)
      BY <2>1, <1>2, <1>3, <1>11, <1>12, <1>15, RefundsWithin
    <2> QED BY <2>2, <1>3, <1>6, <1>2, <1>11, Sizes
  <1>17. refunded \in [Funders -> 0..Target]
    <2>1. balances \in [Funders -> 0..Target]
      BY <1>1 DEF IndependentEscrow, balances
    <2>2. share \in 0..Target
      BY <1>6, Sizes
    <2> QED BY <2>1, <2>2, <1>6, <1>7, Sizes
  <1>18. d \in IndependentEscrow
    BY <1>1, <1>8, <1>10, <1>16, <1>17, Zenon DEF IndependentEscrow
  <1>19. Kept(d)
    BY <1>12, <1>13, <1>14, <1>15, <1>18 DEF Kept
  <1> QED BY <1>6, <1>19 DEF due

-----------------------------------------------------------------------------
(* The contract's steps, and what each moves *)

LEMMA IndependentStart == IndependentInit => IndependentInv
  <1> SUFFICES ASSUME IndependentInit
               PROVE  IndependentInv
    OBVIOUS
  <1> DEFINE zeros == [f \in Funders |-> 0]
  <1>1. /\ escrow.state = "Open" /\ escrow.totalDeposited = 0 /\ escrow.totalReleased = 0
        /\ escrow.totalRefunded = 0 /\ escrow.feePaid = 0 /\ escrow.refundPool = 0
        /\ escrow.refundsEnabled = FALSE /\ escrow.contributions = zeros
        /\ escrow.ends = zeros /\ escrow.refundedAmounts = zeros
        /\ escrow.evidence = NoEvidence /\ escrow.usedEvidence = {}
        /\ escrow.votes = NoBallots /\ escrow.yesWeight = 0
    BY DEF IndependentInit
  <1>2. /\ zeros \in [Funders -> 0..Target] /\ 0 \in 0..Target /\ 0 \in Nat
        /\ NoBallots \in [Funders -> Ballots] /\ {} \in SUBSET Evidence
        /\ "Open" \in IndependentStates /\ FALSE \in BOOLEAN
        /\ NoEvidence \in Evidence \cup {NoEvidence}
    BY Sizes DEF NoBallots, Ballots, IndependentStates
  <1>3. escrow \in IndependentEscrow
    BY <1>2, Zenon DEF IndependentInit, IndependentEscrow
  <1>4. StageAgrees(escrow)
    <2>1. CumulativeFee(0) = 0
      BY FeeBound
    <2> QED BY <1>1, <2>1 DEF StageAgrees, Closed
  <1>5. IntervalsFit(escrow) /\ RefundsAreShares(escrow)
    BY <1>1 DEF IntervalsFit, RefundsAreShares, Share
  <1>6. SumsInv(escrow)
    <2>1. /\ NewEscrow.contributions = zeros /\ NewEscrow.ends = zeros
          /\ NewEscrow.totalDeposited = 0 /\ NewEscrow.totalRefunded = 0
          /\ NewEscrow.refundedAmounts = zeros /\ NewEscrow.votes = NoBallots
          /\ NewEscrow.yesWeight = 0 /\ NewEscrow.state = "Open"
          /\ NewEscrow.refundPool = 0
      BY DEF NewEscrow
    <2> HIDE DEF zeros
    <2> QED BY <1>1, <2>1, NewEscrowSums, SameSums
  <1>7. IndependentTypeOK
    BY <1>2, <1>3, HalfOfTarget DEF IndependentInit, IndependentTypeOK
  <1>8. BallotsAgree(escrow, ballots)
    BY <1>1 DEF BallotsAgree, IndependentInit
  <1> QED BY <1>1, <1>3, <1>4, <1>5, <1>6, <1>7, <1>8 DEF IndependentInv, Kept, IndependentInit

\* What a step moves: nothing, a deposit, a payment, the opening of the refunds, or a
\* refund.
Idle ==
    /\ escrow'.totalDeposited = escrow.totalDeposited
    /\ escrow'.totalReleased = escrow.totalReleased
    /\ escrow'.totalRefunded = escrow.totalRefunded
    /\ escrow'.refundsEnabled = escrow.refundsEnabled
    /\ custody' = custody

Collects(a) ==
    /\ ~escrow.refundsEnabled /\ ~escrow'.refundsEnabled
    /\ escrow.totalReleased = 0 /\ escrow'.totalReleased = 0
    /\ escrow.totalDeposited + a <= Target
    /\ escrow'.totalDeposited = escrow.totalDeposited + a
    /\ escrow'.totalRefunded = escrow.totalRefunded
    /\ custody' = custody + a

Pays(a) ==
    /\ ~escrow.refundsEnabled /\ ~escrow'.refundsEnabled
    /\ escrow.totalDeposited = Target /\ escrow'.totalDeposited = Target
    /\ a <= custody
    /\ escrow'.totalReleased = escrow.totalReleased + a
    /\ escrow'.totalRefunded = escrow.totalRefunded
    /\ custody' = custody - a

Opens ==
    /\ ~escrow.refundsEnabled /\ escrow'.refundsEnabled
    /\ escrow'.totalDeposited = escrow.totalDeposited
    /\ escrow'.totalReleased = escrow.totalReleased
    /\ escrow'.totalRefunded = escrow.totalRefunded
    /\ custody' = custody

Refunds(a) ==
    /\ escrow'.refundsEnabled
    /\ a <= custody
    /\ escrow'.totalDeposited = escrow.totalDeposited
    /\ escrow'.totalReleased = escrow.totalReleased
    /\ escrow'.totalRefunded = escrow.totalRefunded + a
    /\ custody' = custody - a

Moves == Idle \/ Opens \/ \E a \in 1..Target : Collects(a) \/ Pays(a) \/ Refunds(a)

\* The second half leaves by a release of the evidence on record only.
ByRelease ==
    escrow'.state = "Released" /\ escrow.state # "Released" =>
        \E v \in Evidence : ReleaseCompletion(v)

Rest == UNCHANGED <<now, listed, listing>>

\* An escrow that is kept, with the custody its books say, is all that a step owes.
LEMMA Reestablished ==
    ASSUME IndependentTypeOK, Rest, Kept(escrow'),
           custody' = escrow'.totalDeposited - escrow'.totalReleased - escrow'.totalRefunded,
           BallotsAgree(escrow', ballots'), ballots' \subseteq Funders \X Evidence
    PROVE  IndependentInv'
  <1>1. /\ escrow'.totalRefunded \in 0..(escrow'.totalDeposited - escrow'.totalReleased)
        /\ escrow'.totalDeposited - escrow'.totalReleased \in 0..Target
    BY KeptBounds
  <1>2. escrow' \in IndependentEscrow
    BY DEF Kept
  <1>3. custody' \in 0..Target
    BY <1>1, Sizes
  <1>4. IndependentTypeOK'
    BY <1>2, <1>3 DEF IndependentTypeOK, Rest
  <1> QED BY <1>4 DEF IndependentInv

\* The votes and the evidence stay, and so do the ballots.
LEMMA SameBallots ==
    ASSUME NEW e, NEW cast, BallotsAgree(e, cast), NEW d,
           d.evidence = e.evidence, d.usedEvidence = e.usedEvidence, d.votes = e.votes
    PROVE  BallotsAgree(d, cast)
  BY DEF BallotsAgree

Safe == IndependentInv' /\ Moves /\ ByRelease

LEMMA Books ==
    ASSUME IndependentInv
    PROVE  /\ Kept(escrow) /\ IndependentTypeOK /\ BallotsAgree(escrow, ballots)
           /\ custody = escrow.totalDeposited - escrow.totalReleased - escrow.totalRefunded
           /\ StageAgrees(escrow) /\ escrow \in IndependentEscrow
           /\ escrow.totalDeposited \in Nat /\ escrow.totalReleased \in Nat
           /\ escrow.totalRefunded \in Nat /\ custody \in Nat /\ now \in Nat
           /\ ballots \subseteq Funders \X Evidence
  <1>1. /\ Kept(escrow) /\ IndependentTypeOK /\ BallotsAgree(escrow, ballots)
        /\ custody = escrow.totalDeposited - escrow.totalReleased - escrow.totalRefunded
    BY DEF IndependentInv
  <1>2. escrow \in IndependentEscrow /\ StageAgrees(escrow)
    BY <1>1 DEF Kept
  <1>3. /\ escrow.totalDeposited \in Nat /\ escrow.totalReleased \in Nat
        /\ escrow.totalRefunded \in Nat
    BY <1>2, Fields
  <1>4. custody \in Nat /\ now \in Nat /\ ballots \subseteq Funders \X Evidence
    BY <1>1, Sizes, HalfOfTarget DEF IndependentTypeOK
  <1> QED BY <1>1, <1>2, <1>3, <1>4

LEMMA ListingStep ==
    ASSUME IndependentInv, ListingNext \/ Tick \/ UNCHANGED vars
    PROVE  Safe
  <1>1. escrow' = escrow /\ custody' = custody /\ ballots' = ballots
    BY DEF ListingNext, Tick, vars, UpdateListing, WithdrawListing, SetPostingFundingPaused,
           SetTokenAllowed
  <1>2. /\ now \in 0..MaxTime /\ listed \in BOOLEAN
        /\ listing \in [edited : BOOLEAN, withdrawn : BOOLEAN, paused : BOOLEAN]
    BY Books DEF IndependentTypeOK
  <1>3. now' \in 0..MaxTime
    BY <1>2, HalfOfTarget DEF ListingNext, Tick, vars, UpdateListing, WithdrawListing,
           SetPostingFundingPaused, SetTokenAllowed
  <1>4. listed' \in BOOLEAN
    BY <1>2 DEF ListingNext, Tick, vars, UpdateListing, WithdrawListing,
           SetPostingFundingPaused, SetTokenAllowed
  <1>5. listing' \in [edited : BOOLEAN, withdrawn : BOOLEAN, paused : BOOLEAN]
    BY <1>2, Zenon DEF ListingNext, Tick, vars, UpdateListing, WithdrawListing,
           SetPostingFundingPaused, SetTokenAllowed
  <1>6. IndependentInv'
    BY <1>1, <1>3, <1>4, <1>5 DEF IndependentInv, IndependentTypeOK
  <1> QED BY <1>1, <1>6 DEF Safe, Moves, Idle, ByRelease

LEMMA DepositStep ==
    ASSUME IndependentInv, NEW f \in Funders, NEW a \in Amounts, IndependentDeposit(f, a)
    PROVE  Safe
  <1> DEFINE d == Deposit(escrow, f, a)
  <1>1. /\ escrow.state = "Open" /\ a > 0 /\ a <= Target - escrow.totalDeposited
        /\ escrow' = d /\ custody' = custody + a /\ Rest /\ ballots' = ballots
    BY DEF IndependentDeposit, Rest
  <1>2. a \in Nat \ {0}
    BY <1>1, HalfOfTarget
  <1>3. /\ Kept(d)
        /\ d.totalDeposited = escrow.totalDeposited + a
        /\ d.totalReleased = escrow.totalReleased /\ d.totalRefunded = escrow.totalRefunded
        /\ d.refundsEnabled = escrow.refundsEnabled /\ d.state = escrow.state
        /\ d.evidence = escrow.evidence /\ d.usedEvidence = escrow.usedEvidence
        /\ d.votes = escrow.votes
    BY <1>1, <1>2, Books, DepositKept
  <1> HIDE DEF d
  <1>4. ~escrow.refundsEnabled /\ escrow.totalReleased = 0
    BY <1>1, Books DEF StageAgrees, Closed
  <1>5. BallotsAgree(d, ballots)
    BY <1>3, Books, SameBallots
  <1>6. IndependentInv'
    <2>1. custody' = d.totalDeposited - d.totalReleased - d.totalRefunded
      BY <1>1, <1>2, <1>3, Books
    <2> QED BY <2>1, <1>1, <1>3, <1>5, Books, Reestablished
  <1>7. Collects(a) /\ a \in 1..Target
    BY <1>1, <1>2, <1>3, <1>4, Books, Sizes DEF Collects
  <1> QED BY <1>1, <1>3, <1>6, <1>7 DEF Safe, Moves, ByRelease

\* Both payments, once their guards are known.
LEMMA PayStep ==
    ASSUME IndependentInv, NEW next, NEW deadline \in Nat, NEW gross \in 1..Target,
           NEW paid, Pay(gross, paid), Covers(gross), Rest, ballots' = ballots,
           paid = [escrow EXCEPT !.state = next, !.completionDeadline = deadline],
           ~escrow.refundsEnabled, escrow.totalDeposited = Target,
           Stage(next, escrow.totalReleased + gross)
    PROVE  IndependentInv' /\ Moves /\ escrow'.state = next
  <1> DEFINE d == [escrow EXCEPT !.state = next, !.completionDeadline = deadline,
                                 !.totalReleased = escrow.totalReleased + gross,
                                 !.feePaid = escrow.feePaid + FeeOf(gross)]
  <1>1. escrow' = d
    <2>1. /\ paid.totalReleased = escrow.totalReleased /\ paid.feePaid = escrow.feePaid
      BY Books, Zenon DEF IndependentEscrow
    <2>2. d = [paid EXCEPT !.totalReleased = escrow.totalReleased + gross,
                           !.feePaid = escrow.feePaid + FeeOf(gross)]
      OBVIOUS
    <2> HIDE DEF d
    <2> QED BY <2>1, <2>2, Zenon DEF Pay
  <1>2. custody' = custody - gross /\ gross <= custody
    BY DEF Pay, Covers
  <1>3. escrow.feePaid + FeeOf(gross) = CumulativeFee(escrow.totalReleased + gross)
    <2>1. escrow.totalReleased + gross \in Nat
      BY Books
    <2>2. CumulativeFee(escrow.totalReleased + gross) \in Nat
      BY <2>1, FeeBound
    <2>3. escrow.feePaid \in Nat
      BY Books, Sizes DEF IndependentEscrow
    <2> QED BY <2>2, <2>3 DEF FeeOf
  <1>4. Kept(d)
    <2> DEFINE fee == FeeOf(gross)
    <2>1. /\ Kept(escrow) /\ ~escrow.refundsEnabled /\ escrow.totalDeposited = Target
          /\ deadline \in Nat /\ gross \in Nat
          /\ Stage(next, escrow.totalReleased + gross)
          /\ escrow.feePaid + fee = CumulativeFee(escrow.totalReleased + gross)
      BY <1>3, Books
    <2>2. d = [escrow EXCEPT !.state = next, !.completionDeadline = deadline,
                             !.totalReleased = escrow.totalReleased + gross,
                             !.feePaid = escrow.feePaid + fee]
      OBVIOUS
    <2> HIDE DEF d, fee
    <2> QED BY ONLY <2>1, <2>2, PayKept, Zenon
  <1>5. /\ d.totalReleased = escrow.totalReleased + gross /\ d.state = next
        /\ d.totalDeposited = escrow.totalDeposited
        /\ d.totalRefunded = escrow.totalRefunded
        /\ d.refundsEnabled = escrow.refundsEnabled
        /\ d.evidence = escrow.evidence /\ d.usedEvidence = escrow.usedEvidence
        /\ d.votes = escrow.votes
    BY Books, Zenon DEF IndependentEscrow
  <1> HIDE DEF d
  <1>6. BallotsAgree(d, ballots)
    BY <1>5, Books, SameBallots
  <1>7. IndependentInv'
    <2>1. custody' = d.totalDeposited - d.totalReleased - d.totalRefunded
      BY <1>2, <1>5, Books
    <2> QED BY <2>1, <1>1, <1>4, <1>6, Books, Reestablished
  <1>8. Pays(gross)
    BY <1>1, <1>2, <1>5 DEF Pays
  <1> QED BY <1>1, <1>5, <1>7, <1>8 DEF Moves

LEMMA AcceptStep ==
    ASSUME IndependentInv, AcceptFunding
    PROVE  Safe
  <1> DEFINE paid == [escrow EXCEPT !.state = "Accepted", !.completionDeadline = now + ReviewTime]
  <1>1. /\ escrow.state = "Open" /\ escrow.totalDeposited = Target
        /\ Pay(Half, paid) /\ Covers(Half) /\ Rest /\ ballots' = ballots
    BY DEF AcceptFunding, CanAccept, ResearcherDecides, Half, Rest
  <1>2. ~escrow.refundsEnabled /\ escrow.totalReleased = 0
    BY <1>1, Books DEF StageAgrees, Closed
  <1>3. /\ Half \in 1..Target /\ now + ReviewTime \in Nat
        /\ escrow.totalReleased + Half = Half
    BY <1>2, Books, HalfOfTarget
  <1> HIDE DEF paid
  <1>4. IndependentInv' /\ Moves /\ escrow'.state = "Accepted"
    BY <1>1, <1>2, <1>3, PayStep DEF paid, Stage
  <1> QED BY <1>4 DEF Safe, ByRelease

LEMMA ReleaseStep ==
    ASSUME IndependentInv, NEW v \in Evidence, ReleaseCompletion(v)
    PROVE  Safe
  <1> DEFINE paid == [escrow EXCEPT !.state = "Released"]
             deadline == escrow.completionDeadline
             gross == Target - escrow.totalReleased
  <1>1. /\ escrow.state = "Accepted" /\ Pay(gross, paid) /\ Covers(gross)
        /\ Rest /\ ballots' = ballots
    BY DEF ReleaseCompletion, CanReleaseCompletion, CompletionOpen, Rest
  <1>2. /\ ~escrow.refundsEnabled /\ escrow.totalReleased = Half
        /\ escrow.totalDeposited = Target
    BY <1>1, Books, HalfOfTarget DEF StageAgrees, Closed
  <1>3. gross \in 1..Target /\ escrow.totalReleased + gross = Target /\ deadline \in Nat
    BY <1>2, Books, HalfOfTarget DEF IndependentEscrow
  <1>4. paid = [escrow EXCEPT !.state = "Released", !.completionDeadline = deadline]
    BY Books, Zenon DEF IndependentEscrow
  <1> HIDE DEF paid, gross, deadline
  <1>5. IndependentInv' /\ Moves
    BY <1>1, <1>2, <1>3, <1>4, PayStep DEF Stage
  <1> QED BY <1>5 DEF Safe, ByRelease

\* The researcher's refusal, a cancellation and the end of a window.
LEMMA OpenStep ==
    ASSUME IndependentInv, DeclineFunding \/ AdminCancel \/ ExpireFunding
    PROVE  Safe
  <1>1. PICK next \in {"Declined", "Expired", "Cancelled"} : escrow' = Opened(escrow, next)
    BY DEF DeclineFunding, AdminCancel, ExpireFunding, ClosingState
  <1> DEFINE d == Opened(escrow, next)
  <1>2. /\ escrow.state \in {"Open", "Accepted"} /\ escrow' = d /\ custody' = custody
        /\ Rest /\ ballots' = ballots
    BY <1>1 DEF DeclineFunding, AdminCancel, ExpireFunding, ResearcherDecides, Openable,
           Running, Rest
  <1>3. /\ Kept(d) /\ d.state = next /\ d.refundsEnabled
        /\ d.totalDeposited = escrow.totalDeposited
        /\ d.totalReleased = escrow.totalReleased /\ d.totalRefunded = escrow.totalRefunded
        /\ d.evidence = escrow.evidence /\ d.usedEvidence = escrow.usedEvidence
        /\ d.votes = escrow.votes
    BY <1>2, Books, OpenedKept
  <1> HIDE DEF d
  <1>4. ~escrow.refundsEnabled
    BY <1>2, Books DEF StageAgrees, Closed
  <1>5. BallotsAgree(d, ballots)
    BY <1>3, Books, SameBallots
  <1>6. IndependentInv'
    BY <1>2, <1>3, <1>5, Books, Reestablished
  <1>7. Opens
    BY <1>2, <1>3, <1>4 DEF Opens
  <1> QED BY <1>2, <1>3, <1>6, <1>7 DEF Safe, Moves, ByRelease

\* New evidence was never voted about.
LEMMA EvidenceStep ==
    ASSUME IndependentInv, NEW v \in Evidence, IndependentEvidence(v)
    PROVE  Safe
  <1> DEFINE d == WithEvidence(v)
  <1>1. /\ escrow.state = "Accepted" /\ v \notin escrow.usedEvidence /\ escrow' = d
        /\ custody' = custody /\ Rest /\ ballots' = ballots
    BY DEF IndependentEvidence, CompletionOpen, Rest
  <1>2. /\ d.evidence = v /\ d.usedEvidence = escrow.usedEvidence \cup {v}
        /\ d.votes = NoBallots /\ d.state = escrow.state
        /\ d.totalDeposited = escrow.totalDeposited
        /\ d.totalReleased = escrow.totalReleased /\ d.totalRefunded = escrow.totalRefunded
        /\ d.refundsEnabled = escrow.refundsEnabled
    BY Books, Zenon DEF WithEvidence, IndependentEscrow
  <1>3. Kept(d)
    <2>1. d = [escrow EXCEPT !.usedEvidence = escrow.usedEvidence \cup {v}, !.evidence = v,
                             !.yesWeight = 0, !.votes = NoBallots]
      BY DEF WithEvidence
    <2>2. Kept(escrow) /\ v \in Evidence
      BY Books
    <2> HIDE DEF d
    <2> QED BY ONLY <2>1, <2>2, EvidenceKept, Zenon
  <1> HIDE DEF d
  <1>4. BallotsAgree(d, ballots)
    BY <1>1, <1>2, Books DEF BallotsAgree, NoBallots
  <1>5. IndependentInv'
    BY <1>1, <1>2, <1>3, <1>4, Books, Reestablished
  <1> QED BY <1>1, <1>2, <1>5 DEF Safe, Moves, Idle, ByRelease

LEMMA VoteStep ==
    ASSUME IndependentInv, NEW f \in Funders, NEW v \in Evidence, NEW ballot \in {"yes", "no"},
           VoteCompletion(f, v, ballot)
    PROVE  Safe
  <1> DEFINE d == Vote(escrow, f, ballot)
             cast == IF ballot = "yes" THEN ballots \cup {<<f, v>>} ELSE ballots
  <1>1. /\ escrow.state = "Accepted" /\ v = escrow.evidence /\ escrow.votes[f] = "none"
        /\ escrow' = d /\ custody' = custody /\ Rest /\ ballots' = cast
    BY DEF VoteCompletion, CanVoteCompletion, CompletionOpen, Rest
  <1>2. /\ d.evidence = escrow.evidence /\ d.usedEvidence = escrow.usedEvidence
        /\ d.votes = [escrow.votes EXCEPT ![f] = ballot] /\ d.state = escrow.state
        /\ d.totalDeposited = escrow.totalDeposited
        /\ d.totalReleased = escrow.totalReleased /\ d.totalRefunded = escrow.totalRefunded
        /\ d.refundsEnabled = escrow.refundsEnabled
    BY Books, Zenon DEF Vote, IndependentEscrow
  <1>3. Kept(d)
    <2>1. /\ Kept(escrow) /\ escrow.state = "Accepted" /\ f \in Funders
          /\ ballot \in {"yes", "no"} /\ escrow.votes[f] = "none"
      BY <1>1, Books
    <2> QED BY ONLY <2>1, VoteKept, Zenon
  <1> HIDE DEF d
  <1>4. BallotsAgree(d, cast)
    <2>1. escrow.votes \in [Funders -> Ballots] /\ NoEvidence \notin Evidence
      BY Books, Fields, Sizes
    <2>2. \A g \in Funders : d.votes[g] = IF g = f THEN ballot ELSE escrow.votes[g]
      BY <1>2, <2>1
    <2>3. \A g \in Funders, w \in Evidence : <<g, w>> \in cast <=>
             <<g, w>> \in ballots \/ (ballot = "yes" /\ g = f /\ w = v)
      OBVIOUS
    <2>4. /\ \A g \in Funders, w \in Evidence : <<g, w>> \in ballots => w \in escrow.usedEvidence
          /\ v \in escrow.usedEvidence
          /\ \A g \in Funders : escrow.votes[g] = "yes" <=> <<g, v>> \in ballots
      BY <1>1, <2>1, Books DEF BallotsAgree
    <2> HIDE DEF cast
    <2>5. \A g \in Funders, w \in Evidence : <<g, w>> \in cast => w \in d.usedEvidence
      BY <1>2, <2>3, <2>4
    <2>6. \A g \in Funders : d.votes[g] = "yes" <=> <<g, v>> \in cast
      BY <1>1, <2>2, <2>3, <2>4
    <2> QED BY <1>1, <1>2, <2>4, <2>5, <2>6 DEF BallotsAgree
  <1>5. cast \subseteq Funders \X Evidence
    BY Books
  <1> HIDE DEF cast
  <1>6. IndependentInv'
    BY <1>1, <1>2, <1>3, <1>4, <1>5, Books, Reestablished
  <1> QED BY <1>1, <1>2, <1>6 DEF Safe, Moves, Idle, ByRelease

\* Refunds are open, or a claim may open them: the escrow a claim is settled in.
LEMMA RefundsOpened ==
    ASSUME IndependentInv, escrow.refundsEnabled \/ Openable
    PROVE  LET o == OpenedForClaim
           IN /\ Kept(o) /\ o.refundsEnabled
              /\ o.totalDeposited = escrow.totalDeposited
              /\ o.totalReleased = escrow.totalReleased
              /\ o.totalRefunded = escrow.totalRefunded
              /\ o.contributions = escrow.contributions /\ o.ends = escrow.ends
              /\ o.refundedAmounts = escrow.refundedAmounts
              /\ o.evidence = escrow.evidence /\ o.usedEvidence = escrow.usedEvidence
              /\ o.votes = escrow.votes
  <1> DEFINE o == OpenedForClaim
  <1>1. CASE escrow.refundsEnabled
    BY <1>1, Books DEF OpenedForClaim
  <1>2. CASE ~escrow.refundsEnabled
    <2>1. escrow.state \in {"Open", "Accepted"} /\ o = Opened(escrow, ClosingState)
      BY <1>2 DEF Openable, Running, OpenedForClaim
    <2>2. ClosingState \in {"Declined", "Expired", "Cancelled"}
      BY DEF ClosingState
    <2>3. /\ o.contributions = escrow.contributions /\ o.ends = escrow.ends
          /\ o.refundedAmounts = escrow.refundedAmounts
      BY <2>1, Books, Zenon DEF Opened, IndependentEscrow
    <2> HIDE DEF o
    <2>4. /\ Kept(o) /\ o.refundsEnabled
          /\ o.totalDeposited = escrow.totalDeposited
          /\ o.totalReleased = escrow.totalReleased /\ o.totalRefunded = escrow.totalRefunded
          /\ o.evidence = escrow.evidence /\ o.usedEvidence = escrow.usedEvidence
          /\ o.votes = escrow.votes
      BY <2>1, <2>2, Books, OpenedKept
    <2> QED BY <2>3, <2>4 DEF o
  <1> QED BY <1>1, <1>2

\* A claim, which may be what opens the refunds.
LEMMA ClaimStep ==
    ASSUME IndependentInv, NEW f \in Funders, IndependentClaim(f)
    PROVE  Safe
  <1> DEFINE o == OpenedForClaim
             due == RefundDue(o, f)
             d == [o EXCEPT !.refundedAmounts = Credit(o.refundedAmounts, f, due),
                            !.totalRefunded = o.totalRefunded + due,
                            !.state = IF o.totalRefunded + due = o.refundPool
                                      THEN "Refunded" ELSE o.state]
  <1>1. /\ escrow.refundsEnabled \/ Openable
        /\ due # 0 /\ due <= custody /\ custody' = custody - due /\ Rest /\ ballots' = ballots
    BY DEF IndependentClaim, CanClaimRefund, ClaimDue, Covers, Rest
  <1>2. escrow' = d
    BY DEF IndependentClaim, ClaimDue
  <1>3. /\ Kept(o) /\ o.refundsEnabled
        /\ o.totalDeposited = escrow.totalDeposited
        /\ o.totalReleased = escrow.totalReleased /\ o.totalRefunded = escrow.totalRefunded
        /\ o.evidence = escrow.evidence /\ o.usedEvidence = escrow.usedEvidence
        /\ o.votes = escrow.votes
    BY <1>1, RefundsOpened
  <1> HIDE DEF o
  <1>4. Kept(d) /\ due \in 1..Target
    <2>1. /\ Kept(o) /\ o.refundsEnabled /\ f \in Funders /\ RefundDue(o, f) # 0
          /\ d = [o EXCEPT !.refundedAmounts = Credit(o.refundedAmounts, f, RefundDue(o, f)),
                           !.totalRefunded = o.totalRefunded + RefundDue(o, f),
                           !.state = IF o.totalRefunded + RefundDue(o, f) = o.refundPool
                                     THEN "Refunded" ELSE o.state]
      BY <1>1, <1>3
    <2> HIDE DEF d
    <2> QED BY ONLY <2>1, ClaimKept, Zenon DEF due
  <1>5. /\ d.totalRefunded = o.totalRefunded + due
        /\ d.totalDeposited = o.totalDeposited /\ d.totalReleased = o.totalReleased
        /\ d.refundsEnabled = o.refundsEnabled /\ d.state \in {o.state, "Refunded"}
        /\ d.evidence = o.evidence /\ d.usedEvidence = o.usedEvidence
        /\ d.votes = o.votes
    <2>1. o \in IndependentEscrow
      BY <1>3 DEF Kept
    <2> HIDE DEF due
    <2> QED BY <2>1, Zenon DEF IndependentEscrow
  <1> HIDE DEF d, due
  <1>6. d.state # "Released"
    BY <1>3, <1>5 DEF Kept, StageAgrees, Closed
  <1>7. BallotsAgree(d, ballots)
    BY <1>3, <1>5, Books, SameBallots
  <1>8. IndependentInv'
    <2>1. custody' = d.totalDeposited - d.totalReleased - d.totalRefunded
      BY <1>1, <1>3, <1>4, <1>5, Books, Sizes
    <2> QED BY <2>1, <1>1, <1>2, <1>4, <1>7, Books, Reestablished
  <1>9. Refunds(due)
    BY <1>1, <1>2, <1>3, <1>5 DEF Refunds
  <1> QED BY <1>2, <1>4, <1>6, <1>8, <1>9 DEF Safe, Moves, ByRelease

LEMMA IndependentStep ==
    ASSUME IndependentInv, [IndependentNext]_vars
    PROVE  Safe
  <1>1. CASE ListingNext \/ Tick \/ UNCHANGED vars
    BY <1>1, ListingStep
  <1>2. CASE EscrowNext
    <2>1. CASE AcceptFunding
      BY <2>1, AcceptStep
    <2>2. CASE DeclineFunding \/ AdminCancel \/ ExpireFunding
      BY <2>2, OpenStep
    <2>3. ASSUME NEW v \in Evidence, IndependentEvidence(v) \/ ReleaseCompletion(v)
          PROVE  Safe
      BY <2>3, EvidenceStep, ReleaseStep
    <2>4. ASSUME NEW f \in Funders, NEW a \in Amounts, IndependentDeposit(f, a)
          PROVE  Safe
      BY <2>4, DepositStep
    <2>5. ASSUME NEW f \in Funders, NEW v \in Evidence, NEW b \in {"yes", "no"},
                 VoteCompletion(f, v, b)
          PROVE  Safe
      BY <2>5, VoteStep
    <2>6. ASSUME NEW f \in Funders, IndependentClaim(f)
          PROVE  Safe
      BY <2>6, ClaimStep
    <2> QED BY <1>2, <2>1, <2>2, <2>3, <2>4, <2>5, <2>6 DEF EscrowNext
  <1> QED BY <1>1, <1>2 DEF IndependentNext

-----------------------------------------------------------------------------
(* The invariant and the properties *)

LEMMA IndependentInvIsInvariant == IndependentSpec => []IndependentInv
  <1>1. IndependentInv /\ [IndependentNext]_vars => IndependentInv'
    BY IndependentStep DEF Safe
  <1> QED BY <1>1, IndependentStart, PTL DEF IndependentSpec

\* The escrow's fields keep their types and their bounds: nothing it counts, holds or
\* owes ever passes the target (IndependentFundingEscrow's balances and tallies).
THEOREM IndependentTypeCorrect == IndependentSpec => []IndependentTypeOK
  <1>1. IndependentInv => IndependentTypeOK
    BY DEF IndependentInv
  <1> QED BY <1>1, IndependentInvIsInvariant, PTL

LEMMA OneChanges ==
    ASSUME NEW x, NEW y
    PROVE  /\ One(x)["escrow"] = x
           /\ [One(x) EXCEPT !["escrow"] = y] = One(y)
  BY DEF One

\* Each move is a step of the custody account, or none.
LEMMA AccountStep ==
    ASSUME IndependentInv, Safe
    PROVE  [Account!Next]_(Account!vars)
  <1>1. /\ escrow.totalDeposited \in Nat /\ escrow.totalReleased \in Nat
        /\ escrow.totalRefunded \in Nat /\ custody \in Nat /\ Target \in Nat
    BY Books, Sizes
  <1>2. CASE Idle
    <2>1. Phase' = Phase
      BY <1>2 DEF Idle, Phase
    <2> QED BY <1>2, <2>1 DEF Idle, Account!vars, One
  <1>3. CASE Opens
    <2>1. Phase # "refunding" /\ Phase' = "refunding"
      BY <1>3 DEF Opens, Phase
    <2>2. Account!OpenRefunds("escrow")
      BY <1>3, <2>1, OneChanges DEF Opens, Account!OpenRefunds
    <2> QED BY <2>2 DEF Account!Next
  <1>4. ASSUME NEW a \in 1..Target, Collects(a)
        PROVE  Account!Collect("escrow", a)
    <2>1. Phase = "collecting" /\ Phase' = "collecting"
      BY <1>4 DEF Collects, Phase
    <2> QED BY <1>4, <2>1, OneChanges DEF Collects, Account!Collect
  <1>5. ASSUME NEW a \in 1..Target, Pays(a)
        PROVE  Account!Pay("escrow", a)
    <2>1. Phase # "refunding" /\ Phase' = "paying"
      BY <1>1, <1>5 DEF Pays, Phase
    <2> QED BY <1>5, <2>1, OneChanges DEF Pays, Account!Pay
  <1>6. ASSUME NEW a \in 1..Target, Refunds(a)
        PROVE  Account!Refund("escrow", a)
    <2>1. Phase' = "refunding"
      BY <1>6 DEF Refunds, Phase
    <2> QED BY <1>6, <2>1, OneChanges DEF Refunds, Account!Refund
  <1>7. ASSUME NEW a \in 1..Target, Collects(a) \/ Pays(a) \/ Refunds(a)
        PROVE  Account!Next
    BY <1>4, <1>5, <1>6, <1>7 DEF Account!Next
  <1> QED BY <1>2, <1>3, <1>7 DEF Safe, Moves

\* The escrow is a custody account: it pays out of a complete collection only, gives
\* money back for good once it starts to, and holds what came in less what went out.
THEOREM CustodyRefined == IndependentSpec => ImplementsCustody
  <1>1. IndependentInit => Account!Init
    <2> SUFFICES ASSUME IndependentInit
                 PROVE  Account!Init
      OBVIOUS
    <2>1. /\ escrow.refundsEnabled = FALSE /\ escrow.totalDeposited = 0
          /\ escrow.totalReleased = 0 /\ escrow.totalRefunded = 0 /\ custody = 0
      BY DEF IndependentInit
    <2> QED BY <2>1 DEF Account!Init, One, Phase
  <1>2. IndependentInv /\ [IndependentNext]_vars => [Account!Next]_(Account!vars)
    BY IndependentStep, AccountStep
  <1> QED BY <1>1, <1>2, IndependentInvIsInvariant, PTL
          DEF IndependentSpec, ImplementsCustody, Account!Spec

\* The weight on record is the money of those whose ballots approve the evidence on
\* record.
LEMMA WeightOfBallots ==
    ASSUME IndependentInv, escrow.evidence \in Evidence
    PROVE  Total(escrow.contributions, {f \in Funders : <<f, escrow.evidence>> \in ballots})
              = escrow.yesWeight
  <1> DEFINE approving == {f \in Funders : <<f, escrow.evidence>> \in ballots}
             contributions == escrow.contributions
             yes == YesVotes(escrow.votes, contributions)
  <1>1. /\ IsFiniteSet(Funders) /\ NoEvidence \notin Evidence
        /\ contributions \in [Funders -> Nat]
    BY Books, Fields, EscrowAssumption
  <1>2. \A f \in Funders : escrow.votes[f] = "yes" <=> f \in approving
    BY <1>1, Books DEF BallotsAgree
  <1>3. \A f \in Funders :
           contributions[f] \in Int /\ yes[f] = IF f \in approving THEN contributions[f] ELSE 0
    BY <1>1, <1>2 DEF YesVotes
  <1>4. approving \in SUBSET Funders
    OBVIOUS
  <1>5. escrow.yesWeight = Total(yes, Funders)
    BY Books DEF Kept, SumsInv, VotesAddUp
  <1> HIDE DEF approving, yes, contributions
  <1>6. Total(contributions, approving) = Total(yes, Funders)
    BY <1>1, <1>3, <1>4, TotalOfPart
  <1> QED BY <1>5, <1>6 DEF approving, contributions

\* The completion half leaves only when funders of more than half of the target
\* approved the very evidence on record (releaseCompletion; hasVoted per version).
THEOREM MajorityApproves == IndependentSpec => CompletionHasMajority
  <1> DEFINE approved == FoldFunctionOnSet(+, 0, escrow.contributions,
                            {f \in Funders : <<f, escrow.evidence>> \in ballots})
  <1>1. ASSUME IndependentInv, [IndependentNext]_vars,
               escrow'.state = "Released", escrow.state # "Released"
        PROVE  2 * approved > Target
    <2>1. PICK v \in Evidence : ReleaseCompletion(v)
      BY <1>1, IndependentStep DEF Safe, ByRelease
    <2>2. /\ escrow.evidence \in Evidence /\ escrow.state = "Accepted"
          /\ escrow.yesWeight > escrow.totalDeposited \div 2
      BY <2>1 DEF ReleaseCompletion, CanReleaseCompletion, CompletionOpen, HasFunderMajority
    <2>3. escrow.totalDeposited = Target
      BY <1>1, <2>2, Books, HalfOfTarget DEF StageAgrees
    <2>4. approved = escrow.yesWeight
      BY <1>1, <2>2, WeightOfBallots DEF Total
    <2>5. Target \in Nat /\ escrow.yesWeight \in Nat
      BY <1>1, Books, Fields, Sizes
    <2> HIDE DEF approved
    <2> QED BY <2>2, <2>3, <2>4, <2>5
  <1>2. IndependentInv /\ [IndependentNext]_vars =>
           [escrow'.state = "Released" /\ escrow.state # "Released" => 2 * approved > Target]_vars
    BY <1>1
  <1> QED BY <1>2, IndependentInvIsInvariant, PTL DEF IndependentSpec, CompletionHasMajority

-----------------------------------------------------------------------------
(* The view *)

\* The state shown is the stored one, unless a window or the listing ended it.
LEMMA ShownState ==
    ASSUME IndependentInv
    PROVE  /\ Effective = "Open" /\ ShowsActive =>
                  escrow.state = "Open" /\ now < ExpiresAt /\ IsActive
           /\ Effective = "Open" => escrow.state = "Open" /\ now < ExpiresAt
           /\ Effective = "Accepted" /\ ShowsActive => CompletionOpen
  <1>1. now \in Nat /\ ExpiresAt \in Nat /\ escrow.completionDeadline \in Nat
    BY Books, EscrowAssumption DEF IndependentEscrow
  <1>2. Effective = "Open" =>
           escrow.state = "Open" /\ ~TimedOut /\ ~Invalidated
    BY DEF Effective, Running
  <1>3. Effective = "Accepted" =>
           escrow.state = "Accepted" /\ ~TimedOut /\ ~Invalidated
    BY DEF Effective, Running
  <1> QED BY <1>1, <1>2, <1>3 DEF TimedOut, ShowsActive, IsActive, CompletionOpen

\* While it runs, the escrow holds all that was deposited and not released.
LEMMA UnpaidIsHeld ==
    ASSUME IndependentInv, escrow.state \in {"Open", "Accepted"}
    PROVE  custody = escrow.totalDeposited - escrow.totalReleased
  <1>1. ~escrow.refundsEnabled
    BY Books DEF StageAgrees, Closed
  <1>2. escrow.totalRefunded = 0
    BY <1>1, Books DEF Kept, RefundsAreShares
  <1> QED BY <1>2, Books

\* A claim that owes anything pays what the view shows, and the escrow holds it.
LEMMA ClaimIsShown ==
    ASSUME IndependentInv, NEW f \in Funders, Refundable
    PROVE  /\ ShowsClaimable(f) = ClaimDue(f)
           /\ ClaimDue(f) # 0 => ClaimDue(f) \in 1..Target /\ Covers(ClaimDue(f))
  <1> DEFINE o == OpenedForClaim
             pool == escrow.totalDeposited - escrow.totalReleased
  <1>1. escrow.refundsEnabled \/ Openable
    BY DEF Refundable, Openable
  <1>2. /\ Kept(o) /\ o.refundsEnabled
        /\ o.totalDeposited = escrow.totalDeposited
        /\ o.totalReleased = escrow.totalReleased /\ o.totalRefunded = escrow.totalRefunded
        /\ o.contributions = escrow.contributions /\ o.ends = escrow.ends
        /\ o.refundedAmounts = escrow.refundedAmounts
    BY <1>1, RefundsOpened
  <1>3. ClaimDue(f) = RefundDue(o, f)
    BY DEF ClaimDue
  <1> HIDE DEF o
  <1>4. o.refundPool = pool
    BY <1>2 DEF Kept, RefundsAreShares
  <1>5. ShowsClaimable(f) = ClaimDue(f)
    BY <1>2, <1>3, <1>4 DEF ShowsClaimable, RefundDue, Share
  <1>6. ASSUME ClaimDue(f) # 0
        PROVE  ClaimDue(f) \in 1..Target /\ Covers(ClaimDue(f))
    <2> DEFINE due == RefundDue(o, f)
               d == [o EXCEPT !.refundedAmounts = Credit(o.refundedAmounts, f, due),
                              !.totalRefunded = o.totalRefunded + due,
                              !.state = IF o.totalRefunded + due = o.refundPool
                                        THEN "Refunded" ELSE o.state]
    <2>1. Kept(d) /\ due \in 1..Target
      <3>1. /\ Kept(o) /\ o.refundsEnabled /\ f \in Funders /\ RefundDue(o, f) # 0
            /\ d = [o EXCEPT !.refundedAmounts = Credit(o.refundedAmounts, f, RefundDue(o, f)),
                             !.totalRefunded = o.totalRefunded + RefundDue(o, f),
                             !.state = IF o.totalRefunded + RefundDue(o, f) = o.refundPool
                                       THEN "Refunded" ELSE o.state]
        BY <1>2, <1>3, <1>6
      <3> HIDE DEF d
      <3> QED BY ONLY <3>1, ClaimKept, Zenon DEF due
    <2>2. /\ d.totalRefunded = o.totalRefunded + due
          /\ d.totalDeposited = o.totalDeposited /\ d.totalReleased = o.totalReleased
      <3>1. o \in IndependentEscrow
        BY <1>2 DEF Kept
      <3> HIDE DEF due
      <3> QED BY <3>1, Zenon DEF IndependentEscrow
    <2> HIDE DEF d, due
    <2>3. d.totalRefunded \in 0..(d.totalDeposited - d.totalReleased)
      BY <2>1, KeptBounds
    <2>4. due <= custody
      BY <2>1, <2>2, <2>3, <1>2, Books, Sizes
    <2> QED BY <2>1, <2>4, <1>3 DEF Covers, due
  <1> QED BY <1>5, <1>6

\* What getState offers is what the contract accepts in the same block, and what it
\* shows as claimable is what claimRefund pays: the effective state it derives agrees
\* with the guards of every call, and the custody covers every payment offered.
THEOREM ViewAgreesWithGuards == IndependentSpec => []ViewIsHonest
  <1>1. ASSUME IndependentInv
        PROVE  ViewIsHonest
    <2>1. ShowsCanAccept => CanAccept
      <3> SUFFICES ASSUME ShowsCanAccept
                   PROVE  CanAccept
        OBVIOUS
      <3>1. /\ escrow.state = "Open" /\ now < ExpiresAt /\ IsActive /\ listed
            /\ escrow.totalDeposited = Target
        BY <1>1, ShownState DEF ShowsCanAccept
      <3>2. custody = Target
        BY <1>1, <3>1, UnpaidIsHeld, Books, HalfOfTarget DEF StageAgrees
      <3> QED BY <3>1, <3>2, HalfOfTarget DEF CanAccept, ResearcherDecides, Covers, Half
    <2>2. ShowsCanDecline => ResearcherDecides
      BY <1>1, ShownState DEF ShowsCanDecline, ResearcherDecides
    <2>3. ShowsDepositsOpen =>
             /\ escrow.state = "Open" /\ now < ExpiresAt /\ IsActive /\ listed
      BY <1>1, ShownState DEF ShowsDepositsOpen
    <2>4. ShowsCanSubmitEvidence => CompletionOpen
      BY <1>1, ShownState DEF ShowsCanSubmitEvidence
    <2>5. escrow.evidence # NoEvidence => escrow.evidence \in Evidence
      BY <1>1, Books DEF IndependentEscrow
    <2>6. ShowsCanRelease => \E v \in Evidence : CanReleaseCompletion(v)
      <3> SUFFICES ASSUME ShowsCanRelease
                   PROVE  CanReleaseCompletion(escrow.evidence) /\ escrow.evidence \in Evidence
        OBVIOUS
      <3>1. CompletionOpen /\ HasFunderMajority(escrow) /\ escrow.evidence \in Evidence
        BY <1>1, <2>5, ShownState DEF ShowsCanRelease
      <3>2. escrow.state = "Accepted"
        BY <3>1 DEF CompletionOpen
      <3>3. custody = Target - escrow.totalReleased
        BY <1>1, <3>2, UnpaidIsHeld, Books, HalfOfTarget DEF StageAgrees
      <3>4. Covers(Target - escrow.totalReleased)
        BY <1>1, <3>3, Books DEF Covers
      <3> QED BY <3>1, <3>4 DEF CanReleaseCompletion
    <2>7. ASSUME NEW f \in Funders
          PROVE  /\ ShowsCanVote(f) => \E v \in Evidence : CanVoteCompletion(f, v)
                 /\ ShowsClaimable(f) > 0 <=> CanClaimRefund(f)
                 /\ ShowsClaimable(f) > 0 => ShowsClaimable(f) = ClaimDue(f)
      <3>1. ShowsCanVote(f) => \E v \in Evidence : CanVoteCompletion(f, v)
        BY <1>1, <2>5, ShownState DEF ShowsCanVote, CanVoteCompletion
      <3>2. Refundable <=> (escrow.refundsEnabled \/ Openable)
        BY DEF Refundable, Openable
      <3>3. CASE Refundable
        <4>1. /\ ShowsClaimable(f) = ClaimDue(f)
              /\ ClaimDue(f) # 0 => ClaimDue(f) \in 1..Target /\ Covers(ClaimDue(f))
          BY <1>1, <3>3, ClaimIsShown
        <4>2. ClaimDue(f) > 0 <=> ClaimDue(f) # 0
          BY <4>1, Sizes
        <4> QED BY <3>1, <3>2, <3>3, <4>1, <4>2 DEF CanClaimRefund
      <3>4. CASE ~Refundable
        <4>1. ShowsClaimable(f) = 0
          BY <3>4 DEF ShowsClaimable
        <4> QED BY <3>1, <3>2, <3>4, <4>1 DEF CanClaimRefund
      <3> QED BY <3>3, <3>4
    <2> QED BY <2>1, <2>2, <2>3, <2>4, <2>6, <2>7 DEF ViewIsHonest
  <1> QED BY <1>1, IndependentInvIsInvariant, PTL

=============================================================================
