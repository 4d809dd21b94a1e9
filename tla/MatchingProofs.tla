--------------------------- MODULE MatchingProofs ---------------------------
(***************************************************************************)
(* The ledger of the mock market, for any number of proposals, contributions  *)
(* and units.  Every step but a contribution gives some records back and keeps *)
(* the others (Refunds); what is left is what the documents say of it.        *)
(***************************************************************************)
EXTENDS MatchingProperties, FiniteSetTheorems, TLAPS

Chosen == {"awaiting_confirmation", "confirmed"}
Ended == {"voided", "declined", "cancelled"}

Posting ==
    [status : {"open", "expired", "cancelled"}, expiresAt : Nat, removed : BOOLEAN,
     expirySource : Sources \cup {None}]
Matching ==
    [mode : BOOLEAN, status : Chosen \cup {"open", "invalidated"},
     proposalId : Proposals \cup {None}, deadlineAt : Nat \cup {None}, totalFunded : Nat]
Proposal ==
    [status : {"none", "submitted", "withdrawn"}, removed : BOOLEAN,
     state : Terminal \cup {"funding", "awaiting_confirmation"}, funded : 0..Target,
     evaluated : BOOLEAN, closedByModerator : BOOLEAN]
Contribution ==
    [status : {"none", "pledged", "locked", "refunded"}, proposalId : Proposals \cup {None},
     amount : 0..Target]

Types ==
    /\ now \in Nat /\ posting \in Posting /\ matching \in Matching
    /\ proposals \in [Proposals -> Proposal] /\ mockFunding \in [Requests -> Contribution]

\* A ledger l, the documents ps of the proposals and the matching map m
Open(l) == {r \in Requests : l[r].status \in {"pledged", "locked"}}
PledgedTo(l, p) == {r \in Open(l) : l[r].proposalId = p}
Units(l, S) == {unit \in S \X (1..Target) : unit[2] <= l[unit[1]].amount}
Funds(l, S) == Cardinality(Units(l, S))

Belongs(l) == \A r \in Requests : l[r].status # "none" => l[r].proposalId \in Proposals

Totals(m, l) == m.totalFunded = Funds(l, Open(l))

Funded(ps, l) ==
    \A p \in Proposals : IF ps[p].state \in Ended THEN PledgedTo(l, p) = {}
                         ELSE ps[p].funded = Funds(l, PledgedTo(l, p))

\* A proposal is selected or matched exactly when the posting says so.
SelectedOnce(m, ps) ==
    \A p \in Proposals, s \in Chosen :
        ps[p].state = s <=> m.status = s /\ m.proposalId = p

MatchIsFunded(m, l) ==
    m.status \in Chosen =>
        m.proposalId \in Proposals /\ Funds(l, PledgedTo(l, m.proposalId)) = Target

LockedForMatch(m, l) ==
    IF m.status = "confirmed"
    THEN \A r \in Open(l) : l[r].status = "locked" /\ l[r].proposalId = m.proposalId
    ELSE \A r \in Requests : l[r].status # "locked"

ClosedIsEnded(ps) ==
    \A p \in Proposals : ps[p].closedByModerator => ps[p].state \in {"voided", "cancelled", "declined"}

Ledger(m, ps, l) ==
    /\ Belongs(l) /\ Totals(m, l) /\ Funded(ps, l)
    /\ SelectedOnce(m, ps)
    /\ MatchIsFunded(m, l) /\ LockedForMatch(m, l)
    /\ ClosedIsEnded(ps)

ExpiryInv ==
    /\ matching.status # "open" => matching.mode
    /\ legacy # NoRun => legacy.source \in Sources /\ legacy.at \in Nat /\ legacy.at <= now
    /\ ExpiryIsRightful

MatchingInv == Types /\ Ledger(matching, proposals, mockFunding) /\ ExpiryInv

-----------------------------------------------------------------------------
(* Sums of money, counted in units *)

LEMMA Constants ==
    /\ IsFiniteSet(Requests) /\ Target \in Nat /\ Target > 0
    /\ \A a \in Amounts : a \in Nat /\ a > 0 /\ a <= Target
    /\ Window \in Nat /\ ExpiresAt \in Nat /\ MaxTime \in Nat /\ None \notin Proposals
  BY MatchingAssumption

LEMMA UnitsFinite ==
    ASSUME NEW l, NEW S \in SUBSET Requests
    PROVE  IsFiniteSet(Units(l, S)) /\ Funds(l, S) \in Nat
  <1>1. IsFiniteSet(S) /\ IsFiniteSet(1..Target)
    BY Constants, FS_Subset, FS_Interval
  <1>2. IsFiniteSet(S \X (1..Target))
    BY <1>1, FS_Product
  <1>3. Units(l, S) \in SUBSET (S \X (1..Target))
    BY DEF Units
  <1>4. IsFiniteSet(Units(l, S))
    BY <1>2, <1>3, FS_Subset
  <1> QED BY <1>4, FS_CardinalityType DEF Funds

LEMMA FundsOfNothing ==
    ASSUME NEW l
    PROVE  Funds(l, {}) = 0
  <1>1. Units(l, {}) = {}
    BY DEF Units
  <1> QED BY <1>1, FS_EmptySet DEF Funds

LEMMA FundsSplit ==
    ASSUME NEW l, NEW S \in SUBSET Requests, NEW R \in SUBSET S
    PROVE  Funds(l, S \ R) = Funds(l, S) - Funds(l, R)
  <1>1. Units(l, S \ R) = Units(l, S) \ Units(l, R)
    BY DEF Units
  <1>2. Units(l, S) \cap Units(l, R) = Units(l, R)
    BY DEF Units
  <1>3. IsFiniteSet(Units(l, S))
    BY UnitsFinite
  <1> DEFINE A == Units(l, S)
             B == Units(l, R)
  <1> HIDE DEF A, B
  <1>4. Cardinality(A \ B) = Cardinality(A) - Cardinality(A \cap B)
    BY <1>3, FS_Difference DEF A
  <1> QED BY <1>1, <1>2, <1>4 DEF Funds, A, B

LEMMA PairsWithOne ==
    ASSUME NEW r, NEW a \in Nat
    PROVE  Cardinality({r} \X (1..a)) = a
  <1>1. IsFiniteSet({r}) /\ Cardinality({r}) = 1
    BY FS_Singleton
  <1>2. IsFiniteSet(1..a) /\ Cardinality(1..a) = a
    BY FS_Interval
  <1> DEFINE S == {r}
             T == 1..a
  <1> HIDE DEF S, T
  <1>3. Cardinality(S \X T) = Cardinality(S) * Cardinality(T)
    BY <1>1, <1>2, FS_Product DEF S, T
  <1> QED BY <1>1, <1>2, <1>3 DEF S, T

LEMMA FundsOfOne ==
    ASSUME NEW l, NEW r \in Requests, l[r].amount \in 0..Target
    PROVE  Funds(l, {r}) = l[r].amount
  <1>1. PICK a \in Nat : a = l[r].amount /\ a <= Target
    BY Constants
  <1>2. Units(l, {r}) = {r} \X (1..a)
    BY <1>1, Constants DEF Units
  <1> QED BY <1>1, <1>2, PairsWithOne DEF Funds

LEMMA FundsAdd ==
    ASSUME NEW l, NEW S \in SUBSET Requests, NEW r \in Requests \ S, l[r].amount \in 0..Target
    PROVE  Funds(l, S \cup {r}) = Funds(l, S) + l[r].amount
  <1>1. /\ S \cup {r} \in SUBSET Requests /\ {r} \in SUBSET (S \cup {r})
        /\ (S \cup {r}) \ {r} = S
    OBVIOUS
  <1>2. Funds(l, S) = Funds(l, S \cup {r}) - Funds(l, {r})
    BY <1>1, FundsSplit
  <1>3. Funds(l, S \cup {r}) \in Nat /\ Funds(l, S) \in Nat
    BY <1>1, UnitsFinite
  <1> QED BY <1>2, <1>3, FundsOfOne, Constants

LEMMA FundsSame ==
    ASSUME NEW l, NEW k, NEW S, \A r \in S : k[r].amount = l[r].amount
    PROVE  Funds(k, S) = Funds(l, S)
  <1>1. Units(k, S) = Units(l, S)
    BY DEF Units
  <1> QED BY <1>1 DEF Funds

-----------------------------------------------------------------------------
(* Giving pledges back *)

\* k is l after the records R were given back; a pledge may have been locked.
Refunds(l, k, R) ==
    \A r \in Requests :
        /\ k[r].amount = l[r].amount /\ k[r].proposalId = l[r].proposalId
        /\ IF r \in R THEN k[r].status = "refunded"
           ELSE \/ k[r].status = l[r].status
                \/ l[r].status = "pledged" /\ k[r].status = "locked"

\* What becomes of a proposal: it is left alone, or its pledges go.
Follows(ps, qs, l, R, p) ==
    \/ /\ qs[p].state \in Ended <=> ps[p].state \in Ended
       /\ qs[p].funded = ps[p].funded
       /\ PledgedTo(l, p) \cap R = {}
    \/ /\ PledgedTo(l, p) \subseteq R
       /\ qs[p].state \in Ended \/ qs[p].funded = 0

LEMMA RefundShape ==
    ASSUME NEW l, NEW k, NEW R \in SUBSET Open(l), Refunds(l, k, R)
    PROVE  /\ Open(k) = Open(l) \ R
           /\ \A p : PledgedTo(k, p) = PledgedTo(l, p) \ R
           /\ \A S \in SUBSET Requests : Funds(k, S) = Funds(l, S)
           /\ Open(l) \in SUBSET Requests
           /\ \A p : PledgedTo(l, p) \in SUBSET Requests
           /\ Belongs(l) => Belongs(k)
  <1>1. Open(k) = Open(l) \ R
    BY DEF Open, Refunds
  <1>2. ASSUME NEW p
        PROVE  PledgedTo(k, p) = PledgedTo(l, p) \ R
    BY <1>1 DEF PledgedTo, Open, Refunds
  <1>3. ASSUME NEW S \in SUBSET Requests
        PROVE  Funds(k, S) = Funds(l, S)
    <2>1. \A r \in S : k[r].amount = l[r].amount
      BY DEF Refunds
    <2> QED BY <2>1, FundsSame
  <1>4. Open(l) \in SUBSET Requests /\ \A p : PledgedTo(l, p) \in SUBSET Requests
    BY DEF Open, PledgedTo
  <1>5. ASSUME Belongs(l)
        PROVE  Belongs(k)
    BY <1>5 DEF Belongs, Refunds, Open
  <1> QED BY <1>1, <1>2, <1>3, <1>4, <1>5

LEMMA RefundKeeps ==
    ASSUME NEW l, NEW k, NEW R \in SUBSET Open(l), Refunds(l, k, R),
           NEW m, NEW n, NEW ps, NEW qs,
           Belongs(l), Totals(m, l), Funded(ps, l),
           n.totalFunded = m.totalFunded - Funds(l, R),
           \A p \in Proposals : Follows(ps, qs, l, R, p)
    PROVE  Belongs(k) /\ Totals(n, k) /\ Funded(qs, k)
  <1>1. /\ Open(k) = Open(l) \ R
        /\ \A p : PledgedTo(k, p) = PledgedTo(l, p) \ R
        /\ \A S \in SUBSET Requests : Funds(k, S) = Funds(l, S)
        /\ Open(l) \in SUBSET Requests /\ \A p : PledgedTo(l, p) \in SUBSET Requests
        /\ Belongs(k)
    BY RefundShape
  <1>2. Totals(n, k)
    <2>1. Open(k) \in SUBSET Requests
      BY <1>1
    <2>2. Funds(k, Open(k)) = Funds(l, Open(k))
      BY <1>1, <2>1
    <2>3. Funds(l, Open(l) \ R) = Funds(l, Open(l)) - Funds(l, R)
      BY <1>1, FundsSplit
    <2> QED BY <1>1, <2>2, <2>3 DEF Totals
  <1>3. ASSUME NEW p \in Proposals
        PROVE  IF qs[p].state \in Ended THEN PledgedTo(k, p) = {}
               ELSE qs[p].funded = Funds(k, PledgedTo(k, p))
    <2>1. CASE /\ qs[p].state \in Ended <=> ps[p].state \in Ended
               /\ qs[p].funded = ps[p].funded
               /\ PledgedTo(l, p) \cap R = {}
      <3>1. PledgedTo(k, p) = PledgedTo(l, p)
        BY <1>1, <2>1
      <3>2. Funds(k, PledgedTo(k, p)) = Funds(l, PledgedTo(l, p))
        BY <1>1, <3>1
      <3> QED BY <1>3, <2>1, <3>1, <3>2 DEF Funded
    <2>2. CASE PledgedTo(l, p) \subseteq R /\ (qs[p].state \in Ended \/ qs[p].funded = 0)
      <3>1. PledgedTo(k, p) = {}
        BY <1>1, <2>2
      <3> QED BY <2>2, <3>1, FundsOfNothing
    <2> QED BY <1>3, <2>1, <2>2 DEF Follows
  <1> QED BY <1>1, <1>2, <1>3 DEF Funded

-----------------------------------------------------------------------------
(* Documents *)

LEMMA ProposalTypes ==
    ASSUME NEW x \in Proposal
    PROVE  /\ x.state \in Terminal \cup {"funding", "awaiting_confirmation"}
           /\ x.funded \in 0..Target /\ x.funded \in Nat /\ x.funded <= Target
           /\ x.state \notin Terminal => x.state \notin Ended
           /\ x.state \in Terminal => x.state \in Ended \/ x.state = "confirmed"
  <1>1. /\ x.state \in Terminal \cup {"funding", "awaiting_confirmation"}
        /\ x.funded \in 0..Target
    BY Zenon DEF Proposal
  <1> QED BY <1>1, Constants DEF Terminal, Ended

LEMMA Documents ==
    ASSUME Types
    PROVE  /\ \A p \in Proposals : proposals[p] \in Proposal
           /\ \A r \in Requests : mockFunding[r] \in Contribution
           /\ now \in Nat /\ posting \in Posting /\ matching \in Matching
           /\ matching.totalFunded \in Nat
           /\ matching.status \in Chosen \cup {"open", "invalidated"}
           /\ posting.expiresAt \in Nat
  <1>1. matching \in Matching /\ posting \in Posting
    BY DEF Types
  <1>2. /\ matching.totalFunded \in Nat
        /\ matching.status \in Chosen \cup {"open", "invalidated"}
    BY <1>1, Zenon DEF Matching
  <1>3. posting.expiresAt \in Nat
    BY <1>1, Zenon DEF Posting
  <1> QED BY <1>1, <1>2, <1>3 DEF Types

LEMMA Bridge ==
    /\ Outstanding = Open(mockFunding)
    /\ \A p : For(p, Outstanding) = PledgedTo(mockFunding, p)
    /\ \A S : Sum(S) = Funds(mockFunding, S)
  BY DEF Outstanding, Held, Open, For, PledgedTo, Sum, Funds, Units

LEMMA SettledShape ==
    ASSUME Types, NEW R \in SUBSET Open(mockFunding),
           mockFunding' = Settled(R, "refunded")
    PROVE  /\ mockFunding' \in [Requests -> Contribution]
           /\ Refunds(mockFunding, mockFunding', R)
           /\ \A r \in Requests : r \notin R => mockFunding'[r] = mockFunding[r]
  <1>1. ASSUME NEW r \in Requests
        PROVE  /\ mockFunding'[r] \in Contribution
               /\ mockFunding'[r].amount = mockFunding[r].amount
               /\ mockFunding'[r].proposalId = mockFunding[r].proposalId
               /\ r \in R => mockFunding'[r].status = "refunded"
               /\ r \notin R => mockFunding'[r] = mockFunding[r]
    <2>1. PICK x \in Contribution : x = mockFunding[r]
      BY Documents
    <2>2. mockFunding'[r] = IF r \in R THEN [x EXCEPT !.status = "refunded"] ELSE x
      BY <2>1 DEF Settled
    <2>3. /\ [x EXCEPT !.status = "refunded"] \in Contribution
          /\ [x EXCEPT !.status = "refunded"].amount = x.amount
          /\ [x EXCEPT !.status = "refunded"].proposalId = x.proposalId
          /\ [x EXCEPT !.status = "refunded"].status = "refunded"
      BY Zenon DEF Contribution
    <2> QED BY <2>1, <2>2, <2>3
  <1>2. mockFunding' = [r \in Requests |-> mockFunding'[r]]
    BY Zenon DEF Settled
  <1>3. mockFunding' \in [Requests -> Contribution]
    BY <1>1, <1>2, Zenon
  <1>4. Refunds(mockFunding, mockFunding', R)
    BY <1>1 DEF Refunds
  <1> QED BY <1>1, <1>3, <1>4

\* Nothing is given back when the ledger stays.
LEMMA NothingRefunded ==
    ASSUME NEW l
    PROVE  /\ Refunds(l, l, {}) /\ {} \in SUBSET Open(l) /\ Funds(l, {}) = 0
  BY FundsOfNothing DEF Refunds

\* No money is locked before a match, and a match holds all that is outstanding.
LEMMA AllPledged ==
    ASSUME Types, Ledger(matching, proposals, mockFunding), matching.status # "confirmed"
    PROVE  Held({"pledged"}) = Open(mockFunding)
  BY DEF Ledger, LockedForMatch, Held, Open

LEMMA MaxOfZero ==
    ASSUME NEW n \in Nat
    PROVE  Max({0, n}) = n
  <1>1. n \in {0, n} /\ \A y \in {0, n} : n >= y
    OBVIOUS
  <1> QED BY <1>1 DEF Max

LEMMA MinOfTwo ==
    ASSUME NEW a \in Nat, NEW b \in Nat
    PROVE  Min({a, b}) \in Nat
  <1>1. \E x \in {a, b} : \A y \in {a, b} : x <= y
    OBVIOUS
  <1>2. Min({a, b}) \in {a, b}
    BY <1>1 DEF Min
  <1> QED BY <1>2

\* The ledger stays, and every document keeps what it says of money.
LEMMA SameLedger ==
    ASSUME Ledger(matching, proposals, mockFunding), mockFunding' = mockFunding,
           matching'.totalFunded = matching.totalFunded,
           matching'.status = matching.status, matching'.proposalId = matching.proposalId,
           \A p \in Proposals : /\ proposals'[p].state = proposals[p].state
                                /\ proposals'[p].funded = proposals[p].funded
                                /\ proposals'[p].closedByModerator = proposals[p].closedByModerator
    PROVE  Ledger(matching', proposals', mockFunding')
  BY DEF Ledger, Belongs, Totals, Funded, SelectedOnce, MatchIsFunded, LockedForMatch, ClosedIsEnded

-----------------------------------------------------------------------------
(* Members and administrators *)

LEMMA InvalidateStep ==
    ASSUME Types, Ledger(matching, proposals, mockFunding), InvalidateContext,
           matching.status # "confirmed"
    PROVE  Types' /\ Ledger(matching', proposals', mockFunding') /\ matching'.mode = TRUE
  <1> DEFINE l == mockFunding
             k == mockFunding'
             R == Open(mockFunding)
             Stays(p) == ~(proposals[p].state \notin Terminal /\ (p = matching.proposalId \/ Live(p)))
  <1>1. /\ k = Settled(R, "refunded") /\ UNCHANGED <<now, posting, legacy>>
        /\ matching' = [matching EXCEPT !.mode = TRUE, !.status = "invalidated",
                                        !.deadlineAt = None, !.totalFunded = 0]
    BY AllPledged DEF InvalidateContext
  <1>2. k \in [Requests -> Contribution] /\ Refunds(l, k, R) /\ R \in SUBSET Open(l)
    BY <1>1, SettledShape
  <1>3. /\ matching' \in Matching /\ matching'.totalFunded = 0
        /\ matching'.status = "invalidated" /\ matching'.mode = TRUE
    <2>1. 0 \in Nat /\ matching \in Matching
      BY Documents
    <2> QED BY <1>1, <2>1, Zenon DEF Matching
  <1>4. ASSUME NEW p \in Proposals
        PROVE  /\ proposals'[p] \in Proposal
               /\ Stays(p) => proposals'[p] = proposals[p]
               /\ ~Stays(p) => /\ proposals'[p].state \in {"voided", "cancelled", "declined"}
                               /\ proposals'[p].closedByModerator = FALSE
    <2>1. PICK x \in Proposal : x = proposals[p]
      BY Documents
    <2> DEFINE state == IF p = matching.proposalId THEN "voided" ELSE "cancelled"
    <2>2. state \in {"voided", "cancelled"} /\ state \in Terminal
      BY DEF Terminal
    <2>3. proposals'[p] = IF Stays(p) THEN x
                          ELSE [x EXCEPT !.state = state, !.closedByModerator = FALSE]
      BY <2>1, Zenon DEF InvalidateContext
    <2> HIDE DEF state, Stays
    <2>4. CASE Stays(p)
      BY <2>1, <2>3, <2>4
    <2>5. CASE ~Stays(p)
      <3>1. proposals'[p] = [x EXCEPT !.state = state, !.closedByModerator = FALSE]
        BY <2>3, <2>5
      <3>2. /\ proposals'[p] \in Proposal /\ proposals'[p].state = state
            /\ proposals'[p].closedByModerator = FALSE
        BY <2>2, <3>1, Zenon DEF Proposal
      <3> QED BY <2>2, <2>5, <3>2
    <2> QED BY <2>4, <2>5
  <1>5. Types'
    <2>1. proposals' = [p \in Proposals |-> proposals'[p]]
      BY Zenon DEF InvalidateContext
    <2>2. proposals' \in [Proposals -> Proposal]
      BY <1>4, <2>1, Zenon
    <2> QED BY <1>1, <1>2, <1>3, <2>2 DEF Types
  <1> USE DEF Ledger
  <1>6. \A p \in Proposals : proposals[p].state # "confirmed"
    BY DEF SelectedOnce, Chosen
  <1>7. ASSUME NEW p \in Proposals
        PROVE  proposals'[p].state \in Ended \/ proposals'[p].funded = 0
    <2>1. PICK x \in Proposal : x = proposals[p]
      BY Documents
    <2>2. CASE Stays(p)
      <3>1. x.state \in Terminal => x.state \in Ended
        BY <1>6, <2>1, ProposalTypes
      <3>2. x.state \notin Terminal => x.funded = 0
        BY <2>1, <2>2, ProposalTypes DEF Live
      <3> QED BY <1>4, <2>1, <2>2, <3>1, <3>2
    <2>3. CASE ~Stays(p)
      BY <1>4, <2>3 DEF Ended
    <2> QED BY <2>2, <2>3
  <1>8. \A p \in Proposals : Follows(proposals, proposals', l, R, p)
    <2>1. \A p : PledgedTo(l, p) \subseteq R
      BY DEF PledgedTo
    <2> QED BY <1>7, <2>1 DEF Follows
  <1>9. matching'.totalFunded = matching.totalFunded - Funds(l, R)
    <2>1. matching.totalFunded = Funds(l, R) /\ matching.totalFunded \in Nat
      BY Documents DEF Totals
    <2> QED BY <1>3, <2>1
  <1>10. Belongs(k) /\ Totals(matching', k) /\ Funded(proposals', k)
    <2> HIDE DEF R
    <2> QED BY <1>2, <1>8, <1>9, RefundKeeps
  <1>11. SelectedOnce(matching', proposals')
    <2>1. ASSUME NEW p \in Proposals
          PROVE  proposals'[p].state \notin Chosen
      <3>1. CASE Stays(p)
        <4>1. proposals[p].state # "awaiting_confirmation"
          BY <3>1 DEF SelectedOnce, Terminal, Chosen
        <4> QED BY <1>4, <1>6, <3>1, <4>1 DEF Chosen
      <3>2. CASE ~Stays(p)
        BY <1>4, <3>2 DEF Chosen
      <3> QED BY <3>1, <3>2
    <2> QED BY <1>3, <2>1 DEF SelectedOnce, Chosen
  <1>12. MatchIsFunded(matching', k)
    BY <1>3 DEF MatchIsFunded, Chosen
  <1>13. LockedForMatch(matching', k)
    <2>1. \A r \in Requests : l[r].status # "locked"
      BY DEF LockedForMatch
    <2>2. \A r \in Requests : IF r \in R THEN k[r].status = "refunded" ELSE k[r] = l[r]
      BY <1>1, <1>2, SettledShape DEF Refunds
    <2> QED BY <1>3, <2>1, <2>2 DEF LockedForMatch
  <1>14. ClosedIsEnded(proposals')
    BY <1>4 DEF ClosedIsEnded
  <1> QED BY <1>3, <1>5, <1>10, <1>11, <1>12, <1>13, <1>14

LEMMA FundStep ==
    ASSUME Types, Ledger(matching, proposals, mockFunding),
           NEW p \in Proposals, NEW amount \in Amounts, NEW at, FundMockProposal(p, amount, at)
    PROVE  Types' /\ Ledger(matching', proposals', mockFunding') /\ posting.status = "open"
           /\ matching'.status = "open"
  <1> DEFINE l == mockFunding
             k == mockFunding'
  <1>1. /\ matching.status = "open" /\ posting.status = "open"
        /\ Fresh # {} /\ proposals[p].state = "funding"
        /\ amount <= Target - proposals[p].funded
        /\ proposals' = [proposals EXCEPT ![p].funded = @ + amount]
        /\ matching' = [matching EXCEPT !.mode = TRUE, !.totalFunded = @ + amount]
        /\ UNCHANGED <<now, posting, legacy>>
    BY DEF FundMockProposal, IsOpen
  <1>2. PICK r \in Fresh : k = [l EXCEPT ![r] =
                                  [status |-> "pledged", proposalId |-> p, amount |-> amount]]
    <2>1. (CHOOSE r \in Fresh : TRUE) \in Fresh
      BY <1>1
    <2> QED BY <2>1, Zenon DEF FundMockProposal
  <1>3. r \in Requests /\ l[r].status = "none"
    BY DEF Fresh, Held
  <1>4. /\ amount \in Nat /\ amount \in 0..Target /\ Target \in Nat
    BY Constants
  <1>5. /\ k \in [Requests -> Contribution]
        /\ \A q \in Requests : q # r => k[q] = l[q]
        /\ k[r].status = "pledged" /\ k[r].proposalId = p /\ k[r].amount = amount
    <2> DEFINE c == [status |-> "pledged", proposalId |-> p, amount |-> amount]
    <2>1. c \in Contribution /\ c.status = "pledged" /\ c.proposalId = p /\ c.amount = amount
      BY <1>4, Zenon DEF Contribution
    <2>2. l \in [Requests -> Contribution]
      BY DEF Types
    <2> HIDE DEF c
    <2>3. k = [l EXCEPT ![r] = c]
      BY <1>2 DEF c
    <2> QED BY <1>3, <2>1, <2>2, <2>3
  <1>6. /\ matching' \in Matching /\ matching'.totalFunded = matching.totalFunded + amount
        /\ matching'.status = matching.status /\ matching'.proposalId = matching.proposalId
    <2>1. matching.totalFunded + amount \in Nat /\ matching \in Matching
      BY <1>4, Documents
    <2> QED BY <1>1, <2>1, Zenon DEF Matching
  <1>7. ASSUME NEW q \in Proposals
        PROVE  /\ proposals'[q] \in Proposal
               /\ proposals'[q].state = proposals[q].state
               /\ proposals'[q].funded = IF q = p THEN proposals[p].funded + amount ELSE proposals[q].funded
               /\ proposals'[q].closedByModerator = proposals[q].closedByModerator
    <2>1. PICK x \in Proposal : x = proposals[q]
      BY Documents
    <2>2. CASE q = p
      <3>1. x.funded + amount \in 0..Target
        BY <1>1, <1>4, <2>1, <2>2, ProposalTypes
      <3>2. proposals'[q] = [x EXCEPT !.funded = x.funded + amount]
        BY <1>1, <2>1, <2>2, Zenon DEF Types
      <3>3. /\ proposals'[q] \in Proposal /\ proposals'[q].state = x.state
            /\ proposals'[q].funded = x.funded + amount
            /\ proposals'[q].closedByModerator = x.closedByModerator
        BY <3>1, <3>2, Zenon DEF Proposal
      <3> QED BY <2>1, <2>2, <3>3
    <2>3. CASE q # p
      <3>1. proposals'[q] = proposals[q]
        BY <1>1, <2>3, Zenon DEF Types
      <3> QED BY <2>1, <2>3, <3>1
    <2> QED BY <2>2, <2>3
  <1>8. Types'
    <2>1. proposals' = [q \in Proposals |-> proposals'[q]]
      BY <1>1 DEF Types
    <2>2. proposals' \in [Proposals -> Proposal]
      BY <1>7, <2>1, Zenon
    <2> QED BY <1>1, <1>5, <1>6, <2>2 DEF Types
  <1> USE DEF Ledger
  <1>9. \A S \in SUBSET Requests : r \notin S => Funds(k, S) = Funds(l, S)
    <2>1. ASSUME NEW S \in SUBSET Requests, r \notin S
          PROVE  Funds(k, S) = Funds(l, S)
      <3>1. \A q \in S : k[q].amount = l[q].amount
        BY <1>5, <2>1
      <3> QED BY <3>1, FundsSame
    <2> QED BY <2>1
  <1>10. \A S \in SUBSET Requests : r \notin S => Funds(k, S \cup {r}) = Funds(l, S) + amount
    <2>1. ASSUME NEW S \in SUBSET Requests, r \notin S
          PROVE  Funds(k, S \cup {r}) = Funds(l, S) + amount
      <3>1. Funds(k, S \cup {r}) = Funds(k, S) + k[r].amount
        BY <1>3, <1>4, <1>5, <2>1, FundsAdd
      <3> QED BY <1>5, <1>9, <2>1, <3>1
    <2> QED BY <2>1
  <1>11. /\ Open(l) \in SUBSET Requests /\ r \notin Open(l)
         /\ Open(k) = Open(l) \cup {r}
         /\ \A q : PledgedTo(l, q) \in SUBSET Requests /\ r \notin PledgedTo(l, q)
         /\ \A q : q # p => PledgedTo(k, q) = PledgedTo(l, q)
         /\ PledgedTo(k, p) = PledgedTo(l, p) \cup {r}
    BY <1>3, <1>5 DEF Open, PledgedTo
  <1>12. Belongs(k) /\ Totals(matching', k)
    BY <1>5, <1>6, <1>10, <1>11 DEF Belongs, Totals
  <1>13. Funded(proposals', k)
    <2>1. ASSUME NEW q \in Proposals
          PROVE  IF proposals'[q].state \in Ended THEN PledgedTo(k, q) = {}
                 ELSE proposals'[q].funded = Funds(k, PledgedTo(k, q))
      <3>1. CASE q = p
        <4>1. proposals[p].funded = Funds(l, PledgedTo(l, p)) /\ proposals[p].state \notin Ended
          BY <1>1 DEF Funded, Ended
        <4> QED BY <1>7, <1>10, <1>11, <3>1, <4>1
      <3>2. CASE q # p
        <4>1. PledgedTo(k, q) = PledgedTo(l, q) /\ Funds(k, PledgedTo(k, q)) = Funds(l, PledgedTo(l, q))
          BY <1>9, <1>11, <3>2
        <4> QED BY <1>7, <3>2, <4>1 DEF Funded
      <3> QED BY <3>1, <3>2
    <2> QED BY <2>1 DEF Funded
  <1>14. SelectedOnce(matching', proposals') /\ ClosedIsEnded(proposals')
    BY <1>6, <1>7 DEF SelectedOnce, ClosedIsEnded
  <1>15. MatchIsFunded(matching', k)
    BY <1>1, <1>6 DEF MatchIsFunded, Chosen
  <1>16. LockedForMatch(matching', k)
    BY <1>1, <1>5, <1>6 DEF LockedForMatch
  <1> QED BY <1>1, <1>6, <1>8, <1>12, <1>13, <1>14, <1>15, <1>16

LEMMA SelectStep ==
    ASSUME Types, Ledger(matching, proposals, mockFunding),
           NEW p \in Proposals, NEW at \in Stamps, SelectMockProposal(p, at)
    PROVE  Types' /\ Ledger(matching', proposals', mockFunding') /\ posting.status = "open"
           /\ matching'.mode = TRUE
  <1> DEFINE l == mockFunding
             deadline == Min({at + Window, posting.expiresAt})
  <1>1. /\ matching.status = "open" /\ posting.status = "open"
        /\ proposals[p].state = "funding" /\ proposals[p].funded >= Target
        /\ proposals' = Marked({p}, "awaiting_confirmation")
        /\ matching' = [matching EXCEPT !.mode = TRUE, !.proposalId = p,
                          !.status = "awaiting_confirmation", !.deadlineAt = deadline]
        /\ UNCHANGED <<now, posting, mockFunding, legacy>>
    BY DEF SelectMockProposal, IsOpen
  <1>2. deadline \in Nat
    <2>1. at + Window \in Nat /\ posting.expiresAt \in Nat
      BY Constants, Documents DEF Stamps
    <2> QED BY <2>1, MinOfTwo
  <1> HIDE DEF deadline
  <1>3. /\ matching' \in Matching /\ matching'.totalFunded = matching.totalFunded
        /\ matching'.status = "awaiting_confirmation" /\ matching'.proposalId = p
        /\ matching'.mode = TRUE
    <2>1. matching \in Matching /\ "awaiting_confirmation" \in Chosen
      BY Documents DEF Chosen
    <2> QED BY <1>1, <1>2, <2>1, Zenon DEF Matching
  <1>4. ASSUME NEW q \in Proposals
        PROVE  /\ proposals'[q] \in Proposal
               /\ proposals'[q].state = IF q = p THEN "awaiting_confirmation" ELSE proposals[q].state
               /\ proposals'[q].funded = proposals[q].funded
               /\ proposals'[q].closedByModerator = proposals[q].closedByModerator
    <2>1. PICK x \in Proposal : x = proposals[q]
      BY Documents
    <2>2. proposals'[q] = IF q = p THEN [x EXCEPT !.state = "awaiting_confirmation"] ELSE x
      BY <1>1, <2>1 DEF Marked
    <2>3. /\ [x EXCEPT !.state = "awaiting_confirmation"] \in Proposal
          /\ [x EXCEPT !.state = "awaiting_confirmation"].state = "awaiting_confirmation"
          /\ [x EXCEPT !.state = "awaiting_confirmation"].funded = x.funded
          /\ [x EXCEPT !.state = "awaiting_confirmation"].closedByModerator = x.closedByModerator
      BY Zenon DEF Proposal
    <2> QED BY <2>1, <2>2, <2>3
  <1>5. Types'
    <2>1. proposals' = [q \in Proposals |-> proposals'[q]]
      BY <1>1 DEF Marked
    <2>2. proposals' \in [Proposals -> Proposal]
      BY <1>4, <2>1, Zenon
    <2> QED BY <1>1, <1>3, <2>2 DEF Types
  <1> USE DEF Ledger
  <1>6. \A q \in Proposals : Follows(proposals, proposals', l, {}, q)
    BY <1>1, <1>4 DEF Follows, Ended
  <1>7. Belongs(l) /\ Totals(matching', l) /\ Funded(proposals', l)
    <2>1. matching'.totalFunded = matching.totalFunded - Funds(l, {})
      BY <1>3, NothingRefunded, Documents
    <2> QED BY <1>6, <2>1, NothingRefunded, RefundKeeps
  <1>8. SelectedOnce(matching', proposals')
    <2>1. \A q \in Proposals : proposals[q].state \notin Chosen
      BY <1>1 DEF SelectedOnce, Chosen
    <2>2. ASSUME NEW q \in Proposals, NEW s \in Chosen
          PROVE  proposals'[q].state = s <=> matching'.status = s /\ matching'.proposalId = q
      BY <1>3, <1>4, <2>1, <2>2 DEF Chosen
    <2> QED BY <2>2 DEF SelectedOnce
  <1>9. MatchIsFunded(matching', l)
    <2>1. proposals[p].funded = Funds(l, PledgedTo(l, p))
      BY <1>1 DEF Funded, Ended
    <2>2. proposals[p].funded = Target
      BY <1>1, ProposalTypes, Documents, Constants
    <2> QED BY <1>3, <2>1, <2>2 DEF MatchIsFunded
  <1>10. LockedForMatch(matching', l)
    BY <1>1, <1>3 DEF LockedForMatch
  <1>11. ClosedIsEnded(proposals')
    BY <1>1, <1>4 DEF ClosedIsEnded
  <1> QED BY <1>1, <1>3, <1>5, <1>7, <1>8, <1>9, <1>10, <1>11

LEMMA ConfirmStep ==
    ASSUME Types, Ledger(matching, proposals, mockFunding),
           NEW p \in Proposals, NEW at, ConfirmMockProposal(p, at)
    PROVE  Types' /\ Ledger(matching', proposals', mockFunding')
           /\ matching.status # "open" /\ matching'.mode = matching.mode
  <1> DEFINE l == mockFunding
             k == mockFunding'
             R == {r \in Open(mockFunding) : mockFunding[r].proposalId # p}
             Cancels(q) == q # p /\ Live(q)
  <1>1. /\ matching.status = "awaiting_confirmation" /\ matching.proposalId = p
        /\ matching' = [matching EXCEPT !.status = "confirmed", !.deadlineAt = None,
                                        !.totalFunded = proposals[p].funded]
        /\ UNCHANGED <<now, posting, legacy>>
    BY DEF ConfirmMockProposal
  <1> USE DEF Ledger
  <1>2. /\ proposals[p].state = "awaiting_confirmation"
        /\ \A q \in Proposals : q # p => proposals[q].state \notin Chosen
        /\ \A r \in Requests : l[r].status # "locked"
    BY <1>1 DEF SelectedOnce, LockedForMatch, Chosen
  <1>3. /\ matching' \in Matching /\ matching'.totalFunded = proposals[p].funded
        /\ matching'.status = "confirmed" /\ matching'.proposalId = p
        /\ matching'.mode = matching.mode
    <2>1. proposals[p].funded \in Nat /\ matching \in Matching /\ "confirmed" \in Chosen
      BY Documents, ProposalTypes DEF Chosen
    <2> QED BY <1>1, <2>1, Zenon DEF Matching
  <1>4. ASSUME NEW r \in Requests
        PROVE  /\ k[r] \in Contribution
               /\ k[r].amount = l[r].amount /\ k[r].proposalId = l[r].proposalId
               /\ IF l[r].status # "pledged" THEN k[r].status = l[r].status
                  ELSE k[r].status = IF l[r].proposalId = p THEN "locked" ELSE "refunded"
    <2>1. PICK x \in Contribution : x = l[r]
      BY Documents
    <2> DEFINE status == IF x.proposalId = p THEN "locked" ELSE "refunded"
    <2>2. k[r] = IF x.status # "pledged" THEN x ELSE [x EXCEPT !.status = status]
      BY <2>1, Zenon DEF ConfirmMockProposal
    <2>3. status \in {"locked", "refunded"}
      OBVIOUS
    <2>4. /\ [x EXCEPT !.status = status] \in Contribution
          /\ [x EXCEPT !.status = status].amount = x.amount
          /\ [x EXCEPT !.status = status].proposalId = x.proposalId
          /\ [x EXCEPT !.status = status].status = status
      <3> HIDE DEF status
      <3> QED BY <2>3, Zenon DEF Contribution
    <2> QED BY <2>1, <2>2, <2>4
  <1>5. ASSUME NEW q \in Proposals
        PROVE  /\ proposals'[q] \in Proposal
               /\ proposals'[q].funded = proposals[q].funded
               /\ proposals'[q].closedByModerator = proposals[q].closedByModerator
               /\ proposals'[q].state = IF q = p THEN "confirmed"
                                        ELSE IF Live(q) THEN "cancelled" ELSE proposals[q].state
    <2>1. PICK x \in Proposal : x = proposals[q]
      BY Documents
    <2> DEFINE state == IF q = p THEN "confirmed" ELSE "cancelled"
    <2>2. proposals'[q] = IF q = p \/ Live(q) THEN [x EXCEPT !.state = state] ELSE x
      BY <2>1, Zenon DEF ConfirmMockProposal
    <2>3. state \in Terminal
      BY DEF Terminal
    <2>4. /\ [x EXCEPT !.state = state] \in Proposal
          /\ [x EXCEPT !.state = state].state = state
          /\ [x EXCEPT !.state = state].funded = x.funded
          /\ [x EXCEPT !.state = state].closedByModerator = x.closedByModerator
      <3> HIDE DEF state
      <3> QED BY <2>3, Zenon DEF Proposal
    <2> QED BY <2>1, <2>2, <2>4
  <1>6. Types'
    <2>1. /\ proposals' = [q \in Proposals |-> proposals'[q]]
          /\ k = [r \in Requests |-> k[r]]
      BY Zenon DEF ConfirmMockProposal
    <2>2. proposals' \in [Proposals -> Proposal] /\ k \in [Requests -> Contribution]
      BY <1>4, <1>5, <2>1, Zenon
    <2> QED BY <1>1, <1>3, <2>2 DEF Types
  <1>7. Refunds(l, k, R) /\ R \in SUBSET Open(l)
    <2>1. ASSUME NEW r \in Requests
          PROVE  IF r \in R THEN k[r].status = "refunded"
                 ELSE \/ k[r].status = l[r].status
                      \/ l[r].status = "pledged" /\ k[r].status = "locked"
      BY <1>2, <1>4 DEF Open
    <2> QED BY <1>4, <2>1 DEF Refunds
  <1>8. PledgedTo(l, p) = Open(l) \ R /\ PledgedTo(l, p) \cap R = {}
    BY DEF PledgedTo
  <1>9. ASSUME NEW q \in Proposals
        PROVE  Follows(proposals, proposals', l, R, q)
    <2>1. CASE q = p
      <3>1. /\ proposals'[q].state \notin Ended /\ proposals[q].state \notin Ended
            /\ proposals'[q].funded = proposals[q].funded
        BY <1>2, <1>5, <2>1 DEF Ended
      <3> QED BY <1>8, <2>1, <3>1 DEF Follows
    <2>2. CASE q # p
      <3>1. PledgedTo(l, q) \subseteq R
        BY <2>2 DEF PledgedTo
      <3>2. PICK x \in Proposal : x = proposals[q]
        BY Documents
      <3>3. CASE Live(q)
        BY <1>5, <2>2, <3>1, <3>3 DEF Follows, Ended
      <3>4. CASE ~Live(q)
        <4>1. proposals'[q].state = x.state /\ proposals'[q].funded = x.funded
          BY <1>5, <2>2, <3>2, <3>4
        <4>2. x.state \in Terminal => x.state \in Ended
          BY <1>2, <2>2, <3>2, ProposalTypes DEF Chosen
        <4>3. x.state \notin Terminal => x.funded = 0
          BY <3>2, <3>4, ProposalTypes DEF Live
        <4> QED BY <3>1, <4>1, <4>2, <4>3 DEF Follows
      <3> QED BY <3>3, <3>4
    <2> QED BY <2>1, <2>2
  <1>10. matching'.totalFunded = matching.totalFunded - Funds(l, R)
    <2>1. proposals[p].funded = Funds(l, PledgedTo(l, p))
      BY <1>2 DEF Funded, Ended
    <2>2. Open(l) \in SUBSET Requests
      BY DEF Open
    <2>3. Funds(l, Open(l) \ R) = Funds(l, Open(l)) - Funds(l, R)
      BY <1>7, <2>2, FundsSplit
    <2> HIDE DEF R
    <2> QED BY <1>3, <1>8, <2>1, <2>3 DEF Totals
  <1>11. Belongs(k) /\ Totals(matching', k) /\ Funded(proposals', k)
    <2> HIDE DEF R
    <2> QED BY <1>7, <1>9, <1>10, RefundKeeps
  <1>12. SelectedOnce(matching', proposals')
    <2>1. ASSUME NEW q \in Proposals, NEW s \in Chosen
          PROVE  proposals'[q].state = s <=> matching'.status = s /\ matching'.proposalId = q
      BY <1>2, <1>3, <1>5, <2>1 DEF Chosen
    <2> QED BY <2>1 DEF SelectedOnce
  <1>13. MatchIsFunded(matching', k)
    <2>1. Funds(l, PledgedTo(l, p)) = Target
      BY <1>1 DEF MatchIsFunded, Chosen
    <2>2. PledgedTo(k, p) = PledgedTo(l, p) /\ Funds(k, PledgedTo(l, p)) = Funds(l, PledgedTo(l, p))
      <3>1. /\ PledgedTo(k, p) = PledgedTo(l, p) \ R /\ PledgedTo(l, p) \in SUBSET Requests
            /\ \A S \in SUBSET Requests : Funds(k, S) = Funds(l, S)
        <4> HIDE DEF R
        <4> QED BY <1>7, RefundShape
      <3> QED BY <1>8, <3>1
    <2> QED BY <1>3, <2>1, <2>2 DEF MatchIsFunded
  <1>14. LockedForMatch(matching', k)
    <2>1. ASSUME NEW r \in Open(k)
          PROVE  k[r].status = "locked" /\ k[r].proposalId = p
      BY <1>2, <1>4, <2>1 DEF Open
    <2> QED BY <1>3, <2>1 DEF LockedForMatch
  <1>15. ClosedIsEnded(proposals')
    <2>1. ASSUME NEW q \in Proposals, proposals'[q].closedByModerator
          PROVE  proposals'[q].state \in {"voided", "cancelled", "declined"}
      <3>1. proposals[q].state \in {"voided", "cancelled", "declined"}
        BY <1>5, <2>1 DEF ClosedIsEnded
      <3> QED BY <1>2, <1>5, <3>1 DEF Live, Terminal
    <2> QED BY <2>1 DEF ClosedIsEnded
  <1> QED BY <1>1, <1>3, <1>6, <1>11, <1>12, <1>13, <1>14, <1>15

\* The posting's total after a refund
LEMMA TotalAfter ==
    ASSUME Types, Ledger(matching, proposals, mockFunding), NEW R \in SUBSET Open(mockFunding)
    PROVE  /\ Max({0, matching.totalFunded - Sum(R)}) = matching.totalFunded - Funds(mockFunding, R)
           /\ Max({0, matching.totalFunded - Sum(R)}) \in Nat
  <1>1. Sum(R) = Funds(mockFunding, R) /\ matching.totalFunded = Funds(mockFunding, Open(mockFunding))
    BY Bridge DEF Ledger, Totals
  <1>2. Open(mockFunding) \in SUBSET Requests
    BY DEF Open
  <1>3. Funds(mockFunding, Open(mockFunding) \ R)
           = Funds(mockFunding, Open(mockFunding)) - Funds(mockFunding, R)
    BY <1>2, FundsSplit
  <1>4. Open(mockFunding) \ R \in SUBSET Requests
    BY <1>2
  <1>5. PICK n \in Nat : n = matching.totalFunded - Sum(R)
    BY <1>1, <1>3, <1>4, UnitsFinite
  <1>6. Max({0, n}) = n
    BY MaxOfZero
  <1> QED BY <1>1, <1>5, <1>6

LEMMA DeclineStep ==
    ASSUME Types, Ledger(matching, proposals, mockFunding),
           NEW p \in Proposals, NEW at, DeclineMockProposal(p, at)
    PROVE  Types' /\ Ledger(matching', proposals', mockFunding')
           /\ matching'.status = "open" /\ matching'.mode = matching.mode
  <1> DEFINE l == mockFunding
             k == mockFunding'
             R == PledgedTo(mockFunding, p)
  <1>1. /\ matching.status = "awaiting_confirmation" /\ matching.proposalId = p
        /\ UNCHANGED <<now, posting, legacy>>
    BY DEF DeclineMockProposal
  <1>2. For(p, Held({"pledged"})) = R
    <2>1. Held({"pledged"}) = Open(l)
      BY <1>1, AllPledged
    <2> QED BY <2>1 DEF For, PledgedTo
  <1>3. PICK b \in BOOLEAN :
              /\ k = Settled(R, "refunded") /\ matching' = Reopened(Sum(R))
              /\ proposals' = [proposals EXCEPT ![p].state = "declined", ![p].closedByModerator = b]
    BY <1>2 DEF DeclineMockProposal
  <1>4. R \in SUBSET Open(l)
    BY DEF PledgedTo
  <1>5. k \in [Requests -> Contribution] /\ Refunds(l, k, R)
        /\ \A r \in Requests : r \notin R => k[r] = l[r]
    BY <1>3, <1>4, SettledShape
  <1>6. /\ matching' \in Matching /\ matching'.totalFunded = matching.totalFunded - Funds(l, R)
        /\ matching'.status = "open" /\ matching'.mode = matching.mode
    <2> DEFINE total == Max({0, matching.totalFunded - Sum(R)})
    <2>1. total \in Nat /\ total = matching.totalFunded - Funds(l, R) /\ matching \in Matching
      BY <1>4, TotalAfter, Documents
    <2>2. matching' = [matching EXCEPT !.status = "open", !.proposalId = None, !.deadlineAt = None,
                                       !.totalFunded = total]
      BY <1>3, Zenon DEF Reopened
    <2> HIDE DEF total
    <2> QED BY <2>1, <2>2, Zenon DEF Matching
  <1>7. ASSUME NEW q \in Proposals
        PROVE  /\ proposals'[q] \in Proposal
               /\ q # p => proposals'[q] = proposals[q]
               /\ q = p => proposals'[q].state = "declined"
    <2>1. PICK x \in Proposal : x = proposals[q]
      BY Documents
    <2>2. CASE q = p
      <3>1. proposals'[q] = [x EXCEPT !.state = "declined", !.closedByModerator = b]
        BY <1>3, <2>1, <2>2, Zenon DEF Types
      <3>2. proposals'[q] \in Proposal /\ proposals'[q].state = "declined"
        BY <3>1, Zenon DEF Proposal, Terminal
      <3> QED BY <2>2, <3>2
    <2>3. CASE q # p
      BY <1>3, <2>1, <2>3, Zenon DEF Types
    <2> QED BY <2>2, <2>3
  <1>8. Types'
    <2>1. proposals' = [q \in Proposals |-> proposals'[q]]
      BY <1>3 DEF Types
    <2>2. proposals' \in [Proposals -> Proposal]
      BY <1>7, <2>1, Zenon
    <2> QED BY <1>1, <1>5, <1>6, <2>2 DEF Types
  <1> USE DEF Ledger
  <1>9. ASSUME NEW q \in Proposals
        PROVE  Follows(proposals, proposals', l, R, q)
    <2>1. CASE q = p
      BY <1>7, <2>1 DEF Follows, Ended
    <2>2. CASE q # p
      <3>1. PledgedTo(l, q) \cap R = {}
        BY <2>2 DEF PledgedTo
      <3> QED BY <1>7, <2>2, <3>1 DEF Follows
    <2> QED BY <2>1, <2>2
  <1>10. Belongs(k) /\ Totals(matching', k) /\ Funded(proposals', k)
    <2> HIDE DEF R
    <2> QED BY <1>4, <1>5, <1>6, <1>9, RefundKeeps
  <1>11. SelectedOnce(matching', proposals')
    <2>1. \A q \in Proposals : q # p => proposals[q].state \notin Chosen
      BY <1>1 DEF SelectedOnce, Chosen
    <2>2. \A q \in Proposals : proposals'[q].state \notin Chosen
      BY <1>7, <2>1 DEF Chosen
    <2> QED BY <1>6, <2>2 DEF SelectedOnce, Chosen
  <1>12. MatchIsFunded(matching', k)
    BY <1>6 DEF MatchIsFunded, Chosen
  <1>13. LockedForMatch(matching', k)
    <2>1. \A r \in Requests : l[r].status # "locked"
      BY <1>1 DEF LockedForMatch
    <2>2. \A r \in R : k[r].status = "refunded"
      BY <1>5 DEF Refunds, PledgedTo, Open
    <2> QED BY <1>5, <1>6, <2>1, <2>2 DEF LockedForMatch
  <1>14. ClosedIsEnded(proposals')
    BY <1>7 DEF ClosedIsEnded
  <1> QED BY <1>6, <1>8, <1>10, <1>11, <1>12, <1>13, <1>14

LEMMA EvaluateStep ==
    ASSUME Types, Ledger(matching, proposals, mockFunding),
           NEW p \in Proposals, NEW at, CompleteMockEvaluation(p, at)
    PROVE  Types' /\ Ledger(matching', proposals', mockFunding') /\ posting.status = "open"
           /\ matching'.mode = TRUE
  <1>1. /\ posting.status = "open"
        /\ proposals' = [proposals EXCEPT ![p].evaluated = TRUE]
        /\ matching' = [matching EXCEPT !.mode = TRUE]
        /\ UNCHANGED <<now, posting, mockFunding, legacy>>
    BY DEF CompleteMockEvaluation, IsOpen
  <1>2. /\ matching' \in Matching /\ matching'.totalFunded = matching.totalFunded
        /\ matching'.status = matching.status /\ matching'.proposalId = matching.proposalId
        /\ matching'.mode = TRUE
    <2>1. matching \in Matching
      BY Documents
    <2> QED BY <1>1, <2>1, Zenon DEF Matching
  <1>3. ASSUME NEW q \in Proposals
        PROVE  /\ proposals'[q] \in Proposal
               /\ proposals'[q].state = proposals[q].state
               /\ proposals'[q].funded = proposals[q].funded
               /\ proposals'[q].closedByModerator = proposals[q].closedByModerator
    <2>1. PICK x \in Proposal : x = proposals[q]
      BY Documents
    <2>2. proposals'[q] = IF q = p THEN [x EXCEPT !.evaluated = TRUE] ELSE x
      BY <1>1, <2>1, Zenon DEF Types
    <2>3. /\ [x EXCEPT !.evaluated = TRUE] \in Proposal
          /\ [x EXCEPT !.evaluated = TRUE].state = x.state
          /\ [x EXCEPT !.evaluated = TRUE].funded = x.funded
          /\ [x EXCEPT !.evaluated = TRUE].closedByModerator = x.closedByModerator
      BY Zenon DEF Proposal
    <2>4. CASE q = p
      BY <2>1, <2>2, <2>3, <2>4, Zenon
    <2>5. CASE q # p
      BY <2>1, <2>2, <2>5, Zenon
    <2> QED BY <2>4, <2>5
  <1>4. Types'
    <2>1. proposals' = [q \in Proposals |-> proposals'[q]]
      BY <1>1 DEF Types
    <2>2. proposals' \in [Proposals -> Proposal]
      BY <1>3, <2>1, Zenon
    <2> QED BY <1>1, <1>2, <2>2 DEF Types
  <1> QED BY <1>1, <1>2, <1>3, <1>4, SameLedger

-----------------------------------------------------------------------------
(* Moderation *)

\* Whatever else a moderator's action writes, it refunds and closes what is in scope.
LEMMA RemoveScope ==
    ASSUME Types, Ledger(matching, proposals, mockFunding), NEW scope \in SUBSET Proposals,
           Refund(scope),
           \A p \in Proposals : /\ proposals'[p].state = Closed(scope)[p].state
                                /\ proposals'[p].funded = Closed(scope)[p].funded
                                /\ proposals'[p].closedByModerator = Closed(scope)[p].closedByModerator
    PROVE  /\ mockFunding' \in [Requests -> Contribution] /\ matching' \in Matching
           /\ Ledger(matching', proposals', mockFunding')
           /\ matching'.mode = matching.mode
           /\ matching'.status \in {"open", matching.status}
  <1> DEFINE l == mockFunding
             k == mockFunding'
             R == {r \in Open(mockFunding) : mockFunding[r].proposalId \in scope}
             Touched(p) == \/ SelectionIn(scope) /\ p = matching.proposalId
                           \/ p \in Backers(R)
  <1>1. Refundable(scope) = R /\ R \in SUBSET Open(l)
    BY DEF Refundable, Held, Open
  <1>2. /\ k = Settled(R, "refunded")
        /\ matching' = IF SelectionIn(scope) THEN Reopened(Sum(R))
                       ELSE [matching EXCEPT !.totalFunded = Max({0, @ - Sum(R)})]
    BY <1>1, Zenon DEF Refund
  <1>3. /\ k \in [Requests -> Contribution] /\ Refunds(l, k, R)
        /\ \A r \in Requests : r \notin R => k[r] = l[r]
    <2> HIDE DEF R
    <2> QED BY <1>1, <1>2, SettledShape
  <1>4. /\ matching' \in Matching /\ matching'.totalFunded = matching.totalFunded - Funds(l, R)
        /\ matching'.mode = matching.mode
        /\ SelectionIn(scope) => matching'.status = "open"
        /\ ~SelectionIn(scope) => /\ matching'.status = matching.status
                                  /\ matching'.proposalId = matching.proposalId
    <2> DEFINE total == Max({0, matching.totalFunded - Sum(R)})
    <2>1. total \in Nat /\ total = matching.totalFunded - Funds(l, R) /\ matching \in Matching
      <3> HIDE DEF R
      <3> QED BY <1>1, TotalAfter, Documents
    <2>2. matching' = IF SelectionIn(scope)
                      THEN [matching EXCEPT !.status = "open", !.proposalId = None,
                                            !.deadlineAt = None, !.totalFunded = total]
                      ELSE [matching EXCEPT !.totalFunded = total]
      BY <1>2, Zenon DEF Reopened
    <2> HIDE DEF total, R
    <2>3. CASE SelectionIn(scope)
      <3>1. matching' = [matching EXCEPT !.status = "open", !.proposalId = None,
                                         !.deadlineAt = None, !.totalFunded = total]
        BY <2>2, <2>3
      <3>2. /\ matching' \in Matching /\ matching'.totalFunded = total
            /\ matching'.mode = matching.mode /\ matching'.status = "open"
        BY <2>1, <3>1, Zenon DEF Matching
      <3> QED BY <2>1, <2>3, <3>2
    <2>4. CASE ~SelectionIn(scope)
      <3>1. matching' = [matching EXCEPT !.totalFunded = total]
        BY <2>2, <2>4
      <3>2. /\ matching' \in Matching /\ matching'.totalFunded = total
            /\ matching'.mode = matching.mode /\ matching'.status = matching.status
            /\ matching'.proposalId = matching.proposalId
        BY <2>1, <3>1, Zenon DEF Matching
      <3> QED BY <2>1, <2>4, <3>2
    <2> QED BY <2>3, <2>4
  <1>5. ASSUME NEW p \in Proposals
        PROVE  /\ Touched(p) => /\ proposals'[p].state \in {"voided", "cancelled", "declined"}
               /\ ~Touched(p) => /\ proposals'[p].state = proposals[p].state
                                 /\ proposals'[p].funded = proposals[p].funded
                                 /\ proposals'[p].closedByModerator = proposals[p].closedByModerator
    <2>1. PICK x \in Proposal : x = proposals[p]
      BY Documents
    <2> DEFINE state == IF SelectionIn(scope) /\ p = matching.proposalId THEN "voided" ELSE "cancelled"
    <2>2. Closed(scope)[p] = IF Touched(p) THEN [x EXCEPT !.state = state, !.closedByModerator = TRUE]
                             ELSE x
      BY <1>1, <2>1 DEF Closed
    <2>3. [x EXCEPT !.state = state, !.closedByModerator = TRUE].state = state
      <3> HIDE DEF state
      <3> QED BY Zenon DEF Proposal
    <2>4. state \in {"voided", "cancelled", "declined"}
      OBVIOUS
    <2> HIDE DEF state, Touched
    <2> QED BY <2>1, <2>2, <2>3, <2>4
  <1> USE DEF Ledger
  <1>6. ASSUME NEW p \in Proposals
        PROVE  Follows(proposals, proposals', l, R, p)
    <2>1. CASE Touched(p)
      <3>1. p \in scope
        BY <2>1 DEF SelectionIn, Backers
      <3>2. PledgedTo(l, p) \subseteq R
        BY <3>1 DEF PledgedTo
      <3> QED BY <1>5, <2>1, <3>2 DEF Follows, Ended
    <2>2. CASE ~Touched(p)
      <3>1. PledgedTo(l, p) \cap R = {}
        BY <2>2 DEF PledgedTo, Backers
      <3> QED BY <1>5, <2>2, <3>1 DEF Follows
    <2> QED BY <2>1, <2>2
  <1>7. Belongs(k) /\ Totals(matching', k) /\ Funded(proposals', k)
    <2> HIDE DEF R
    <2> QED BY <1>1, <1>3, <1>4, <1>6, RefundKeeps
  <1>8. SelectedOnce(matching', proposals')
    <2>1. CASE SelectionIn(scope)
      <3>1. \A p \in Proposals : p # matching.proposalId => proposals[p].state \notin Chosen
        BY DEF SelectedOnce
      <3>2. \A p \in Proposals : proposals'[p].state \notin Chosen
        BY <1>5, <2>1, <3>1 DEF Chosen
      <3> QED BY <1>4, <2>1, <3>2 DEF SelectedOnce, Chosen
    <2>2. CASE ~SelectionIn(scope)
      <3>1. ASSUME NEW p \in Proposals, Touched(p)
            PROVE  proposals[p].state \notin Chosen /\ proposals'[p].state \notin Chosen
        <4>1. p \in scope
          BY <2>2, <3>1 DEF Backers
        <4>2. matching.status \in Chosen => matching.proposalId # p
          BY <2>2, <4>1 DEF SelectionIn, Chosen
        <4> QED BY <1>5, <3>1, <4>2 DEF SelectedOnce, Chosen
      <3>2. ASSUME NEW p \in Proposals, NEW s \in Chosen
            PROVE  proposals'[p].state = s <=> matching'.status = s /\ matching'.proposalId = p
        <4>1. CASE Touched(p)
          BY <1>4, <2>2, <3>1, <4>1 DEF SelectedOnce
        <4>2. CASE ~Touched(p)
          BY <1>4, <1>5, <2>2, <4>2 DEF SelectedOnce
        <4> QED BY <4>1, <4>2
      <3> QED BY <3>2 DEF SelectedOnce
    <2> QED BY <2>1, <2>2
  <1>9. MatchIsFunded(matching', k)
    <2>1. CASE SelectionIn(scope)
      BY <1>4, <2>1 DEF MatchIsFunded, Chosen
    <2>2. ASSUME ~SelectionIn(scope), matching.status \in Chosen
          PROVE  Funds(k, PledgedTo(k, matching.proposalId)) = Target
      <3> DEFINE p == matching.proposalId
      <3>1. p \notin scope
        BY <2>2 DEF SelectionIn, Chosen
      <3>2. PledgedTo(l, p) \cap R = {}
        BY <3>1 DEF PledgedTo
      <3>3. /\ PledgedTo(k, p) = PledgedTo(l, p) \ R /\ PledgedTo(l, p) \in SUBSET Requests
            /\ \A S \in SUBSET Requests : Funds(k, S) = Funds(l, S)
        <4> HIDE DEF R
        <4> QED BY <1>1, <1>3, RefundShape
      <3>4. Funds(l, PledgedTo(l, p)) = Target
        BY <2>2 DEF MatchIsFunded
      <3>5. PledgedTo(k, p) = PledgedTo(l, p)
        BY <3>2, <3>3
      <3> HIDE DEF p, R
      <3> QED BY <3>3, <3>4, <3>5 DEF p
    <2> QED BY <1>4, <2>1, <2>2 DEF MatchIsFunded
  <1>10. LockedForMatch(matching', k)
    <2>1. \A r \in R : k[r].status = "refunded"
      BY <1>3 DEF Refunds, Open
    <2>2. CASE SelectionIn(scope)
      <3>1. ASSUME NEW r \in Requests, k[r].status = "locked"
            PROVE  FALSE
        <4>1. r \notin R /\ l[r].status = "locked"
          BY <1>3, <2>1, <3>1
        <4>2. r \in Open(l) /\ l[r].proposalId \notin scope
          BY <4>1 DEF Open
        <4> QED BY <2>2, <4>1, <4>2 DEF LockedForMatch, SelectionIn
      <3> QED BY <1>4, <2>2, <3>1 DEF LockedForMatch
    <2>3. CASE ~SelectionIn(scope)
      <3>1. \A r \in Open(k) : r \in Open(l) /\ k[r] = l[r]
        BY <1>3, <2>1 DEF Open
      <3>2. CASE matching.status = "confirmed"
        BY <1>4, <2>3, <3>1, <3>2 DEF LockedForMatch
      <3>3. CASE matching.status # "confirmed"
        <4>1. \A r \in Requests : l[r].status # "locked"
          BY <3>3 DEF LockedForMatch
        <4>2. \A r \in Requests : k[r].status # "locked"
          BY <1>3, <2>1, <4>1
        <4> QED BY <1>4, <2>3, <3>3, <4>2 DEF LockedForMatch
      <3> QED BY <3>2, <3>3
    <2> QED BY <2>2, <2>3
  <1>11. ClosedIsEnded(proposals')
    <2>1. ASSUME NEW p \in Proposals, proposals'[p].closedByModerator
          PROVE  proposals'[p].state \in {"voided", "cancelled", "declined"}
      BY <1>5, <2>1 DEF ClosedIsEnded
    <2> QED BY <2>1 DEF ClosedIsEnded
  <1> QED BY <1>3, <1>4, <1>7, <1>8, <1>9, <1>10, <1>11

LEMMA ClosedType ==
    ASSUME Types, NEW scope
    PROVE  Closed(scope) \in [Proposals -> Proposal]
  <1>1. ASSUME NEW p \in Proposals
        PROVE  Closed(scope)[p] \in Proposal
    <2>1. PICK x \in Proposal : x = proposals[p]
      BY Documents
    <2> DEFINE state == IF SelectionIn(scope) /\ p = matching.proposalId THEN "voided" ELSE "cancelled"
    <2>2. \/ Closed(scope)[p] = [x EXCEPT !.state = state, !.closedByModerator = TRUE]
          \/ Closed(scope)[p] = x
      BY <2>1 DEF Closed
    <2>3. [x EXCEPT !.state = state, !.closedByModerator = TRUE] \in Proposal
      <3>1. state \in Terminal
        BY DEF Terminal
      <3> HIDE DEF state
      <3> QED BY <3>1, Zenon DEF Proposal
    <2> QED BY <2>2, <2>3
  <1>2. Closed(scope) = [p \in Proposals |-> Closed(scope)[p]]
    BY Zenon DEF Closed
  <1> QED BY <1>1, <1>2, Zenon

\* The documents f once p is removed or restored
Flagged(f, p, b) == [f EXCEPT ![p].removed = b]

LEMMA FlaggedKeeps ==
    ASSUME NEW f \in [Proposals -> Proposal], NEW p \in Proposals, NEW b \in BOOLEAN
    PROVE  /\ Flagged(f, p, b) \in [Proposals -> Proposal]
           /\ \A q \in Proposals :
                 /\ Flagged(f, p, b)[q].state = f[q].state
                 /\ Flagged(f, p, b)[q].funded = f[q].funded
                 /\ Flagged(f, p, b)[q].closedByModerator = f[q].closedByModerator
  <1> DEFINE g == [f EXCEPT ![p].removed = b]
  <1>1. ASSUME NEW q \in Proposals
        PROVE  /\ g[q] \in Proposal /\ g[q].state = f[q].state /\ g[q].funded = f[q].funded
               /\ g[q].closedByModerator = f[q].closedByModerator
    <2>1. PICK x \in Proposal : x = f[q]
      OBVIOUS
    <2>2. g[q] = IF q = p THEN [x EXCEPT !.removed = b] ELSE x
      BY <2>1, Zenon
    <2>3. /\ [x EXCEPT !.removed = b] \in Proposal
          /\ [x EXCEPT !.removed = b].state = x.state
          /\ [x EXCEPT !.removed = b].funded = x.funded
          /\ [x EXCEPT !.removed = b].closedByModerator = x.closedByModerator
      BY Zenon DEF Proposal
    <2> HIDE DEF g
    <2>4. CASE q = p
      BY <2>1, <2>2, <2>3, <2>4, Zenon
    <2>5. CASE q # p
      BY <2>1, <2>2, <2>5, Zenon
    <2> QED BY <2>4, <2>5
  <1>2. g = [q \in Proposals |-> g[q]]
    OBVIOUS
  <1> HIDE DEF g
  <1>3. g \in [Proposals -> Proposal]
    BY <1>1, <1>2, Zenon
  <1> QED BY <1>1, <1>3 DEF g, Flagged

\* A posting that is removed or restored keeps everything else.
LEMMA PostingRemoved ==
    ASSUME NEW x \in Posting, NEW b \in BOOLEAN
    PROVE  /\ [x EXCEPT !.removed = b] \in Posting
           /\ [x EXCEPT !.removed = b].status = x.status
           /\ [x EXCEPT !.removed = b].expirySource = x.expirySource
           /\ [x EXCEPT !.removed = b].expiresAt = x.expiresAt
  BY Zenon DEF Posting

LEMMA RemoveStep ==
    ASSUME Types, Ledger(matching, proposals, mockFunding),
           RemovePosting \/ \E p \in Proposals : RemoveProposal(p)
    PROVE  /\ Types' /\ Ledger(matching', proposals', mockFunding')
           /\ matching'.mode = matching.mode /\ matching'.status \in {"open", matching.status}
           /\ posting'.status = posting.status /\ posting'.expirySource = posting.expirySource
           /\ posting'.expiresAt = posting.expiresAt /\ UNCHANGED <<now, legacy>>
  <1>1. posting \in Posting /\ now \in Nat
    BY Documents
  <1>2. CASE RemovePosting
    <2>1. /\ Refund(Proposals) /\ proposals' = Closed(Proposals)
          /\ posting' = [posting EXCEPT !.removed = TRUE] /\ UNCHANGED <<now, legacy>>
      BY <1>2 DEF RemovePosting
    <2>2. proposals' \in [Proposals -> Proposal]
      BY <2>1, ClosedType
    <2>3. /\ mockFunding' \in [Requests -> Contribution] /\ matching' \in Matching
          /\ Ledger(matching', proposals', mockFunding') /\ matching'.mode = matching.mode
          /\ matching'.status \in {"open", matching.status}
      BY <2>1, RemoveScope
    <2>4. /\ posting' \in Posting /\ posting'.status = posting.status
          /\ posting'.expirySource = posting.expirySource /\ posting'.expiresAt = posting.expiresAt
      BY <1>1, <2>1, PostingRemoved
    <2> QED BY <1>1, <2>1, <2>2, <2>3, <2>4 DEF Types
  <1>3. ASSUME NEW p \in Proposals, RemoveProposal(p)
        PROVE  /\ Types' /\ Ledger(matching', proposals', mockFunding')
               /\ matching'.mode = matching.mode /\ matching'.status \in {"open", matching.status}
               /\ posting'.status = posting.status /\ posting'.expirySource = posting.expirySource
               /\ posting'.expiresAt = posting.expiresAt /\ UNCHANGED <<now, legacy>>
    <2>1. /\ Refund({p}) /\ proposals' = [Closed({p}) EXCEPT ![p].removed = TRUE]
          /\ UNCHANGED <<now, posting, legacy>>
      BY <1>3 DEF RemoveProposal
    <2>2. PICK f \in [Proposals -> Proposal] : f = Closed({p})
      BY ClosedType
    <2>3. /\ proposals' \in [Proposals -> Proposal]
          /\ \A q \in Proposals : /\ proposals'[q].state = f[q].state
                                  /\ proposals'[q].funded = f[q].funded
                                  /\ proposals'[q].closedByModerator = f[q].closedByModerator
      <3>1. proposals' = Flagged(f, p, TRUE) /\ TRUE \in BOOLEAN
        BY <2>1, <2>2 DEF Flagged
      <3>2. \A b \in BOOLEAN :
               /\ Flagged(f, p, b) \in [Proposals -> Proposal]
               /\ \A q \in Proposals :
                     /\ Flagged(f, p, b)[q].state = f[q].state
                     /\ Flagged(f, p, b)[q].funded = f[q].funded
                     /\ Flagged(f, p, b)[q].closedByModerator = f[q].closedByModerator
        BY <1>3, <2>2, FlaggedKeeps
      <3> QED BY <3>1, <3>2, Zenon
    <2>4. {p} \in SUBSET Proposals
      OBVIOUS
    <2>5. /\ mockFunding' \in [Requests -> Contribution] /\ matching' \in Matching
          /\ Ledger(matching', proposals', mockFunding') /\ matching'.mode = matching.mode
          /\ matching'.status \in {"open", matching.status}
      BY <2>1, <2>2, <2>3, <2>4, RemoveScope
    <2> QED BY <1>1, <2>1, <2>3, <2>5 DEF Types
  <1> QED BY <1>2, <1>3

LEMMA RestoreScope ==
    ASSUME Types, Ledger(matching, proposals, mockFunding), NEW scope \in SUBSET Proposals,
           UNCHANGED <<matching, mockFunding>>,
           \A p \in Proposals : /\ proposals'[p].state = Restored(scope)[p].state
                                /\ proposals'[p].funded = Restored(scope)[p].funded
                                /\ proposals'[p].closedByModerator = Restored(scope)[p].closedByModerator
    PROVE  Ledger(matching', proposals', mockFunding')
  <1> DEFINE l == mockFunding
             Back(p) == matching.status # "confirmed" /\ p \in scope /\ proposals[p].closedByModerator
  <1>1. ASSUME NEW p \in Proposals
        PROVE  /\ Back(p) => /\ proposals'[p].state = "funding" /\ proposals'[p].funded = 0
                             /\ proposals'[p].closedByModerator = FALSE
               /\ ~Back(p) => /\ proposals'[p].state = proposals[p].state
                              /\ proposals'[p].funded = proposals[p].funded
                              /\ proposals'[p].closedByModerator = proposals[p].closedByModerator
    <2>1. PICK x \in Proposal : x = proposals[p]
      BY Documents
    <2> DEFINE y == [x EXCEPT !.state = "funding", !.funded = 0, !.closedByModerator = FALSE]
    <2>2. Restored(scope)[p] = IF Back(p) THEN y ELSE x
      BY <2>1 DEF Restored
    <2>3. y.state = "funding" /\ y.funded = 0 /\ y.closedByModerator = FALSE
      BY Zenon DEF Proposal
    <2> HIDE DEF y, Back
    <2> QED BY <2>1, <2>2, <2>3
  <1> USE DEF Ledger
  <1>2. \A p \in Proposals : Back(p) => proposals[p].state \in {"voided", "cancelled", "declined"}
    BY DEF ClosedIsEnded
  <1>3. ASSUME NEW p \in Proposals
        PROVE  Follows(proposals, proposals', l, {}, p)
    <2>1. CASE Back(p)
      <3>1. PledgedTo(l, p) = {}
        BY <1>2, <2>1 DEF Funded, Ended
      <3> QED BY <1>1, <2>1, <3>1 DEF Follows
    <2>2. CASE ~Back(p)
      BY <1>1, <2>2 DEF Follows
    <2> QED BY <2>1, <2>2
  <1>4. Belongs(l) /\ Totals(matching', l) /\ Funded(proposals', l)
    <2>1. matching'.totalFunded = matching.totalFunded - Funds(l, {})
      BY NothingRefunded, Documents
    <2> QED BY <1>3, <2>1, NothingRefunded, RefundKeeps
  <1>5. SelectedOnce(matching', proposals')
    <2>1. ASSUME NEW p \in Proposals, NEW s \in Chosen
          PROVE  proposals'[p].state = s <=> proposals[p].state = s
      BY <1>1, <1>2, <2>1 DEF Chosen
    <2> QED BY <2>1 DEF SelectedOnce
  <1>6. ClosedIsEnded(proposals')
    <2>1. ASSUME NEW p \in Proposals, proposals'[p].closedByModerator
          PROVE  proposals'[p].state \in {"voided", "cancelled", "declined"}
      BY <1>1, <2>1 DEF ClosedIsEnded
    <2> QED BY <2>1 DEF ClosedIsEnded
  <1> QED BY <1>4, <1>5, <1>6

LEMMA RestoredType ==
    ASSUME Types, NEW scope
    PROVE  Restored(scope) \in [Proposals -> Proposal]
  <1>1. ASSUME NEW p \in Proposals
        PROVE  Restored(scope)[p] \in Proposal
    <2>1. PICK x \in Proposal : x = proposals[p]
      BY Documents
    <2>2. \/ Restored(scope)[p] = [x EXCEPT !.state = "funding", !.funded = 0, !.closedByModerator = FALSE]
          \/ Restored(scope)[p] = x
      BY <2>1 DEF Restored
    <2>3. [x EXCEPT !.state = "funding", !.funded = 0, !.closedByModerator = FALSE] \in Proposal
      <3>1. 0 \in 0..Target
        BY Constants
      <3> QED BY <3>1, Zenon DEF Proposal
    <2> QED BY <2>2, <2>3
  <1>2. Restored(scope) = [p \in Proposals |-> Restored(scope)[p]]
    BY Zenon DEF Restored
  <1> QED BY <1>1, <1>2, Zenon

LEMMA RestoreStep ==
    ASSUME Types, Ledger(matching, proposals, mockFunding),
           RestorePosting \/ \E p \in Proposals : RestoreProposal(p)
    PROVE  /\ Types' /\ Ledger(matching', proposals', mockFunding')
           /\ posting'.status = posting.status /\ posting'.expirySource = posting.expirySource
           /\ posting'.expiresAt = posting.expiresAt /\ UNCHANGED <<now, matching, legacy>>
  <1>1. posting \in Posting /\ now \in Nat
    BY Documents
  <1>2. CASE RestorePosting
    <2>1. /\ proposals' = Restored(Proposals) /\ posting' = [posting EXCEPT !.removed = FALSE]
          /\ UNCHANGED <<now, matching, mockFunding, legacy>>
      BY <1>2 DEF RestorePosting
    <2>2. proposals' \in [Proposals -> Proposal]
      BY <2>1, RestoredType
    <2>3. Ledger(matching', proposals', mockFunding')
      BY <2>1, RestoreScope
    <2>4. /\ posting' \in Posting /\ posting'.status = posting.status
          /\ posting'.expirySource = posting.expirySource /\ posting'.expiresAt = posting.expiresAt
      BY <1>1, <2>1, PostingRemoved
    <2> QED BY <1>1, <2>1, <2>2, <2>3, <2>4 DEF Types
  <1>3. ASSUME NEW p \in Proposals, RestoreProposal(p)
        PROVE  /\ Types' /\ Ledger(matching', proposals', mockFunding')
               /\ posting'.status = posting.status /\ posting'.expirySource = posting.expirySource
               /\ posting'.expiresAt = posting.expiresAt /\ UNCHANGED <<now, matching, legacy>>
    <2>1. /\ proposals' = [Restored({p}) EXCEPT ![p].removed = FALSE]
          /\ UNCHANGED <<now, posting, matching, mockFunding, legacy>>
      BY <1>3 DEF RestoreProposal
    <2>2. PICK f \in [Proposals -> Proposal] : f = Restored({p})
      BY RestoredType
    <2>3. /\ proposals' \in [Proposals -> Proposal]
          /\ \A q \in Proposals : /\ proposals'[q].state = f[q].state
                                  /\ proposals'[q].funded = f[q].funded
                                  /\ proposals'[q].closedByModerator = f[q].closedByModerator
      <3>1. proposals' = Flagged(f, p, FALSE) /\ FALSE \in BOOLEAN
        BY <2>1, <2>2 DEF Flagged
      <3>2. \A b \in BOOLEAN :
               /\ Flagged(f, p, b) \in [Proposals -> Proposal]
               /\ \A q \in Proposals :
                     /\ Flagged(f, p, b)[q].state = f[q].state
                     /\ Flagged(f, p, b)[q].funded = f[q].funded
                     /\ Flagged(f, p, b)[q].closedByModerator = f[q].closedByModerator
        BY <1>3, <2>2, FlaggedKeeps
      <3> QED BY <3>1, <3>2, Zenon
    <2>4. {p} \in SUBSET Proposals
      OBVIOUS
    <2>5. Ledger(matching', proposals', mockFunding')
      BY <2>1, <2>2, <2>3, <2>4, RestoreScope
    <2> QED BY <1>1, <2>1, <2>3, <2>5 DEF Types
  <1> QED BY <1>2, <1>3

-----------------------------------------------------------------------------
(* Writes that leave the ledger alone *)

\* An author submits or withdraws.
LEMMA AuthorStep ==
    ASSUME Types, Ledger(matching, proposals, mockFunding), NEW p \in Proposals,
           (\E at : SubmitProposal(p, at)) \/ WithdrawProposal(p)
    PROVE  /\ Types' /\ Ledger(matching', proposals', mockFunding')
           /\ UNCHANGED <<now, posting, matching, legacy>>
  <1>1. PICK s \in {"submitted", "withdrawn"} : proposals' = [proposals EXCEPT ![p].status = s]
    BY DEF SubmitProposal, WithdrawProposal
  <1>2. UNCHANGED <<now, posting, matching, mockFunding, legacy>>
    BY DEF SubmitProposal, WithdrawProposal
  <1>3. ASSUME NEW q \in Proposals
        PROVE  /\ proposals'[q] \in Proposal
               /\ proposals'[q].state = proposals[q].state
               /\ proposals'[q].funded = proposals[q].funded
               /\ proposals'[q].closedByModerator = proposals[q].closedByModerator
    <2>1. PICK x \in Proposal : x = proposals[q]
      BY Documents
    <2>2. proposals'[q] = IF q = p THEN [x EXCEPT !.status = s] ELSE x
      BY <1>1, <2>1, Zenon DEF Types
    <2>3. /\ [x EXCEPT !.status = s] \in Proposal
          /\ [x EXCEPT !.status = s].state = x.state
          /\ [x EXCEPT !.status = s].funded = x.funded
          /\ [x EXCEPT !.status = s].closedByModerator = x.closedByModerator
      BY Zenon DEF Proposal
    <2>4. CASE q = p
      BY <2>1, <2>2, <2>3, <2>4, Zenon
    <2>5. CASE q # p
      BY <2>1, <2>2, <2>5, Zenon
    <2> QED BY <2>4, <2>5
  <1>4. Types'
    <2>1. proposals' = [q \in Proposals |-> proposals'[q]]
      BY <1>1 DEF Types
    <2>2. proposals' \in [Proposals -> Proposal]
      BY <1>3, <2>1, Zenon
    <2> QED BY <1>2, <2>2 DEF Types
  <1> QED BY <1>2, <1>3, <1>4, SameLedger

\* The owner moves the deadline or gives the posting up, only while it is open.
LEMMA OwnerStep ==
    ASSUME Types, Ledger(matching, proposals, mockFunding), NEW at,
           ExtendExpiry(at) \/ CancelPosting(at)
    PROVE  /\ Types' /\ Ledger(matching', proposals', mockFunding')
           /\ posting'.status # "expired" /\ UNCHANGED <<now, matching, legacy>>
  <1>1. PICK x \in Posting : x = posting
    BY Documents
  <1>2. x.status = "open" /\ UNCHANGED <<now, matching, proposals, mockFunding, legacy>>
    BY <1>1 DEF ExtendExpiry, CancelPosting, OwnerMayWrite
  <1>3. PICK e \in Nat : e = x.expiresAt + 1
    BY <1>1, Documents
  <1>4. posting' = [x EXCEPT !.expiresAt = e] \/ posting' = [x EXCEPT !.status = "cancelled"]
    BY <1>1, <1>3 DEF ExtendExpiry, CancelPosting
  <1>5. /\ [x EXCEPT !.expiresAt = e] \in Posting
        /\ [x EXCEPT !.expiresAt = e].status = x.status
        /\ [x EXCEPT !.status = "cancelled"] \in Posting
        /\ [x EXCEPT !.status = "cancelled"].status = "cancelled"
    BY Zenon DEF Posting
  <1>6. posting' \in Posting /\ posting'.status # "expired"
    BY <1>2, <1>4, <1>5
  <1> QED BY <1>2, <1>6, SameLedger DEF Types

LEMMA ExpireStep ==
    ASSUME Types, Ledger(matching, proposals, mockFunding), ExpiryInv, ExpireOpportunity
    PROVE  /\ Types' /\ Ledger(matching', proposals', mockFunding')
           /\ UNCHANGED <<now, matching>> /\ legacy' = NoRun
           /\ \/ UNCHANGED posting
              \/ /\ ~matching.mode
                 /\ posting'.expirySource = "scheduled" => posting'.expiresAt <= now
  <1>1. /\ legacy # NoRun /\ legacy' = NoRun
        /\ UNCHANGED <<now, matching, proposals, mockFunding>>
        /\ posting' = IF StillExpirable(legacy)
                      THEN [posting EXCEPT !.status = "expired", !.expirySource = legacy.source]
                      ELSE posting
    BY DEF ExpireOpportunity
  <1>2. PICK x \in Posting : x = posting
    BY Documents
  <1>3. PICK s \in Sources : s = legacy.source
    BY <1>1 DEF ExpiryInv
  <1> DEFINE y == [x EXCEPT !.status = "expired", !.expirySource = s]
  <1>4. y \in Posting /\ y.expirySource = s /\ y.expiresAt = x.expiresAt
    BY Zenon DEF Posting
  <1>5. CASE StillExpirable(legacy)
    <2>1. posting' = y
      BY <1>1, <1>2, <1>3, <1>5
    <2>2. ~matching.mode /\ (s = "scheduled" => x.expiresAt <= legacy.at)
      BY <1>2, <1>3, <1>5 DEF StillExpirable, MayExpire, PostingDue
    <2>3. legacy.at \in Nat /\ legacy.at <= now /\ now \in Nat /\ x.expiresAt \in Nat
      BY <1>1, <1>2, Documents DEF ExpiryInv
    <2> HIDE DEF y
    <2>4. posting' \in Posting /\ (posting'.expirySource = "scheduled" => posting'.expiresAt <= now)
      BY <1>4, <2>1, <2>2, <2>3
    <2> QED BY <1>1, <2>2, <2>4, SameLedger DEF Types
  <1>6. CASE ~StillExpirable(legacy)
    <2>1. UNCHANGED posting
      BY <1>1, <1>6
    <2> QED BY <1>1, <2>1, SameLedger DEF Types
  <1> QED BY <1>5, <1>6

-----------------------------------------------------------------------------
(* The legacy expiry *)

\* A step that writes neither the deadline nor the expiry, and gives a posting a mock
\* match only while it is open, leaves an expiry as rightful as it was.
LEMMA ExpiryKept ==
    ASSUME ExpiryInv, UNCHANGED <<now, legacy>>,
           matching'.status # "open" => matching'.mode,
           posting.status = "expired" => matching'.mode = matching.mode,
           posting'.status = posting.status, posting'.expirySource = posting.expirySource,
           posting'.expiresAt = posting.expiresAt
    PROVE  ExpiryInv'
  BY DEF ExpiryInv, ExpiryIsRightful

LEMMA MatchingInit_Inv == MatchingInit => MatchingInv
  <1> SUFFICES ASSUME MatchingInit
               PROVE  MatchingInv
    OBVIOUS
  <1>1. 0 \in Nat /\ 0 \in 0..Target /\ ExpiresAt \in Nat
    BY Constants
  <1>2. posting \in Posting /\ posting.status = "open"
    BY <1>1, Zenon DEF MatchingInit, Posting, Sources
  <1>3. /\ matching \in Matching /\ matching.status = "open" /\ matching.totalFunded = 0
        /\ matching.proposalId = None
    BY <1>1, Zenon DEF MatchingInit, NoMatching, Matching
  <1>4. /\ proposals \in [Proposals -> Proposal]
        /\ \A p \in Proposals : /\ proposals[p].state = "funding" /\ proposals[p].funded = 0
                                /\ proposals[p].closedByModerator = FALSE
    <2> DEFINE x == [status |-> "none", removed |-> FALSE, state |-> "funding", funded |-> 0,
                     evaluated |-> FALSE, closedByModerator |-> FALSE]
    <2>1. /\ x \in Proposal /\ x.state = "funding" /\ x.funded = 0
          /\ x.closedByModerator = FALSE
      BY <1>1, Zenon DEF Proposal
    <2>2. proposals = [p \in Proposals |-> x]
      BY Zenon DEF MatchingInit
    <2> HIDE DEF x
    <2> QED BY <2>1, <2>2
  <1>5. /\ mockFunding \in [Requests -> Contribution]
        /\ \A r \in Requests : mockFunding[r].status = "none"
    <2> DEFINE x == [status |-> "none", proposalId |-> None, amount |-> 0]
    <2>1. x \in Contribution /\ x.status = "none"
      BY <1>1, Zenon DEF Contribution
    <2>2. mockFunding = [r \in Requests |-> x]
      BY Zenon DEF MatchingInit
    <2> HIDE DEF x
    <2> QED BY <2>1, <2>2
  <1>6. Open(mockFunding) = {} /\ \A p : PledgedTo(mockFunding, p) = {}
    BY <1>5 DEF Open, PledgedTo
  <1>7. Ledger(matching, proposals, mockFunding)
    BY <1>3, <1>4, <1>5, <1>6, FundsOfNothing
       DEF Ledger, Belongs, Totals, Funded, SelectedOnce, Chosen, Ended, MatchIsFunded,
           LockedForMatch, ClosedIsEnded
  <1>8. legacy = NoRun /\ now = 0
    BY DEF MatchingInit
  <1> QED BY <1>1, <1>2, <1>3, <1>4, <1>5, <1>7, <1>8
       DEF MatchingInv, Types, ExpiryInv, ExpiryIsRightful

LEMMA MatchingNext_Inv == MatchingInv /\ [MatchingNext]_vars => MatchingInv'
  <1> SUFFICES ASSUME MatchingInv, [MatchingNext]_vars
               PROVE  MatchingInv'
    OBVIOUS
  <1>1. Types /\ Ledger(matching, proposals, mockFunding) /\ ExpiryInv
    BY DEF MatchingInv
  <1>2. matching.mode \in BOOLEAN /\ now \in Nat
    <2>1. matching \in Matching /\ now \in Nat
      BY <1>1, Documents
    <2> QED BY <2>1, Zenon DEF Matching
  <1>3. matching.status # "open" => matching.mode = TRUE
    BY <1>1, <1>2 DEF ExpiryInv
  <1>4. matching.mode = TRUE => posting.status # "expired"
    BY <1>1 DEF ExpiryInv, ExpiryIsRightful
  <1>5. CASE Tick
    <2>1. /\ now' = now + 1 /\ UNCHANGED <<posting, matching, proposals, mockFunding>>
          /\ legacy' = NoRun \/ legacy' = legacy
      BY <1>5 DEF Tick
    <2>2. Types' /\ Ledger(matching', proposals', mockFunding')
      BY <1>1, <1>2, <2>1, SameLedger DEF Types
    <2>3. ExpiryInv'
      <3>1. posting.expiresAt \in Nat
        BY <1>1, Documents
      <3> QED BY <1>1, <1>2, <2>1, <3>1 DEF ExpiryInv, ExpiryIsRightful
    <2> QED BY <2>2, <2>3 DEF MatchingInv
  <1>6. CASE ForceExpireMockMatch \/ Sweep \/ \E at \in Stamps : Settle(at)
    <2>1. InvalidateContext /\ matching.status # "confirmed" /\ matching.mode = TRUE
      BY <1>2, <1>3, <1>6
         DEF ForceExpireMockMatch, Sweep, Settle, Expirable, ConfirmationDue
    <2>2. /\ Types' /\ Ledger(matching', proposals', mockFunding') /\ matching'.mode = TRUE
          /\ UNCHANGED <<now, posting, legacy>>
      BY <1>1, <2>1, InvalidateStep DEF InvalidateContext
    <2>3. ExpiryInv'
      BY <1>1, <2>1, <2>2, ExpiryKept
    <2> QED BY <2>2, <2>3 DEF MatchingInv
  <1>7. ASSUME NEW p \in Proposals, NEW amount \in Amounts, NEW at \in Stamps,
               FundMockProposal(p, amount, at)
        PROVE  MatchingInv'
    <2>1. /\ Types' /\ Ledger(matching', proposals', mockFunding') /\ posting.status = "open"
          /\ matching'.status = "open" /\ UNCHANGED <<now, posting, legacy>>
      BY <1>1, <1>7, FundStep DEF FundMockProposal
    <2>2. ExpiryInv'
      BY <1>1, <2>1, ExpiryKept
    <2> QED BY <2>1, <2>2 DEF MatchingInv
  <1>8. ASSUME NEW p \in Proposals, NEW at \in Stamps,
               SelectMockProposal(p, at) \/ CompleteMockEvaluation(p, at)
        PROVE  MatchingInv'
    <2>1. /\ Types' /\ Ledger(matching', proposals', mockFunding') /\ posting.status = "open"
          /\ matching'.mode = TRUE /\ UNCHANGED <<now, posting, legacy>>
      BY <1>1, <1>8, SelectStep, EvaluateStep DEF SelectMockProposal, CompleteMockEvaluation
    <2>2. ExpiryInv'
      BY <1>1, <2>1, ExpiryKept
    <2> QED BY <2>1, <2>2 DEF MatchingInv
  <1>9. ASSUME NEW p \in Proposals, NEW at \in Stamps,
               ConfirmMockProposal(p, at) \/ DeclineMockProposal(p, at)
        PROVE  MatchingInv'
    <2>1. /\ Types' /\ Ledger(matching', proposals', mockFunding')
          /\ matching.status # "open" /\ matching'.mode = matching.mode
          /\ UNCHANGED <<now, posting, legacy>>
      <3>1. CASE ConfirmMockProposal(p, at)
        BY <1>1, <3>1, ConfirmStep DEF ConfirmMockProposal
      <3>2. CASE DeclineMockProposal(p, at)
        BY <1>1, <3>2, DeclineStep DEF DeclineMockProposal
      <3> QED BY <1>9, <3>1, <3>2
    <2>2. ExpiryInv'
      BY <1>1, <1>3, <2>1, ExpiryKept
    <2> QED BY <2>1, <2>2 DEF MatchingInv
  <1>10. CASE RemovePosting \/ \E p \in Proposals : RemoveProposal(p)
    <2>1. /\ Types' /\ Ledger(matching', proposals', mockFunding')
          /\ matching'.mode = matching.mode /\ matching'.status \in {"open", matching.status}
          /\ posting'.status = posting.status /\ posting'.expirySource = posting.expirySource
          /\ posting'.expiresAt = posting.expiresAt /\ UNCHANGED <<now, legacy>>
      BY <1>1, <1>10, RemoveStep
    <2>2. ExpiryInv'
      BY <1>1, <1>3, <2>1, ExpiryKept
    <2> QED BY <2>1, <2>2 DEF MatchingInv
  <1>11. CASE RestorePosting \/ \E p \in Proposals : RestoreProposal(p)
    <2>1. /\ Types' /\ Ledger(matching', proposals', mockFunding')
          /\ posting'.status = posting.status /\ posting'.expirySource = posting.expirySource
          /\ posting'.expiresAt = posting.expiresAt /\ UNCHANGED <<now, matching, legacy>>
      BY <1>1, <1>11, RestoreStep
    <2>2. ExpiryInv'
      BY <1>1, <1>3, <2>1, ExpiryKept
    <2> QED BY <2>1, <2>2 DEF MatchingInv
  <1>12. ASSUME NEW p \in Proposals,
                (\E at \in Stamps : SubmitProposal(p, at)) \/ WithdrawProposal(p)
         PROVE  MatchingInv'
    <2>1. /\ Types' /\ Ledger(matching', proposals', mockFunding')
          /\ UNCHANGED <<now, posting, matching, legacy>>
      BY <1>1, <1>12, AuthorStep
    <2>2. ExpiryInv'
      BY <1>1, <1>3, <2>1, ExpiryKept
    <2> QED BY <2>1, <2>2 DEF MatchingInv
  <1>13. ASSUME NEW at \in Stamps, ExtendExpiry(at) \/ CancelPosting(at)
         PROVE  MatchingInv'
    <2>1. /\ Types' /\ Ledger(matching', proposals', mockFunding')
          /\ posting'.status # "expired" /\ UNCHANGED <<now, matching, legacy>>
      BY <1>1, <1>13, OwnerStep
    <2>2. ExpiryInv'
      BY <1>1, <2>1 DEF ExpiryInv, ExpiryIsRightful
    <2> QED BY <2>1, <2>2 DEF MatchingInv
  <1>14. CASE StartExpiry \/ AbandonExpiry
    <2>1. /\ UNCHANGED <<now, posting, matching, proposals, mockFunding>>
          /\ legacy' = NoRun \/ (legacy'.source \in Sources /\ legacy'.at = now)
      BY <1>14 DEF StartExpiry, AbandonExpiry
    <2>2. Types' /\ Ledger(matching', proposals', mockFunding')
      BY <1>1, <2>1, SameLedger DEF Types
    <2>3. ExpiryInv'
      BY <1>1, <1>2, <2>1 DEF ExpiryInv, ExpiryIsRightful
    <2> QED BY <2>2, <2>3 DEF MatchingInv
  <1>15. CASE ExpireOpportunity
    <2>1. /\ Types' /\ Ledger(matching', proposals', mockFunding')
          /\ UNCHANGED <<now, matching>> /\ legacy' = NoRun
          /\ \/ UNCHANGED posting
             \/ /\ ~matching.mode
                /\ posting'.expirySource = "scheduled" => posting'.expiresAt <= now
      BY <1>1, <1>15, ExpireStep
    <2>2. ExpiryInv'
      BY <1>1, <2>1 DEF ExpiryInv, ExpiryIsRightful
    <2> QED BY <2>1, <2>2 DEF MatchingInv
  <1>16. CASE UNCHANGED vars
    BY <1>1, <1>16
       DEF vars, MatchingInv, Types, Ledger, Belongs, Totals, Funded, SelectedOnce, MatchIsFunded,
           LockedForMatch, ClosedIsEnded, ExpiryInv, ExpiryIsRightful
  <1> QED BY <1>5, <1>6, <1>7, <1>8, <1>9, <1>10, <1>11, <1>12, <1>13, <1>14, <1>15, <1>16
       DEF MatchingNext, Members, Moderation, Expiry

-----------------------------------------------------------------------------
(* What members and owners rely on *)

LEMMA MatchingInvariant == MatchingSpec => []MatchingInv
  BY MatchingInit_Inv, MatchingNext_Inv, PTL DEF MatchingSpec

\* The posting's total and every open proposal's are what the ledger holds, a selected
\* proposal is funded to its target and nothing but its money is ever locked, for
\* any members, amounts, deadlines and moderators (matching.js).
THEOREM LedgerAgrees == MatchingSpec => []LedgerFollowsMatch
  <1>1. MatchingInv => LedgerFollowsMatch
    <2> SUFFICES ASSUME MatchingInv
                 PROVE  LedgerFollowsMatch
      OBVIOUS
    <2>1. Types /\ Ledger(matching, proposals, mockFunding)
      BY DEF MatchingInv
    <2> DEFINE l == mockFunding
    <2>2. matching.totalFunded = Sum(Outstanding)
      BY <2>1, Bridge DEF Ledger, Totals
    <2>3. ASSUME NEW p \in Proposals,
                 proposals[p].state \in {"funding", "awaiting_confirmation", "confirmed"}
          PROVE  proposals[p].funded = Sum(For(p, Outstanding))
      BY <2>1, <2>3, Bridge DEF Ledger, Funded, Ended
    <2>4. ASSUME matching.status \in {"awaiting_confirmation", "confirmed"}
          PROVE  Sum(For(matching.proposalId, Outstanding)) = Target
      BY <2>1, <2>4, Bridge DEF Ledger, MatchIsFunded, Chosen
    <2>5. IF matching.status = "confirmed"
          THEN Outstanding = For(matching.proposalId, Held({"locked"}))
          ELSE Held({"locked"}) = {}
      BY <2>1 DEF Ledger, LockedForMatch, Outstanding, Held, For, Open
    <2> QED BY <2>2, <2>3, <2>4, <2>5 DEF LedgerFollowsMatch
  <1> QED BY <1>1, MatchingInvariant, PTL

\* The legacy expiry never takes a posting that has a mock match, nor by its schedule
\* one whose deadline has not passed, whatever happened between its reads and its
\* transaction (opportunityExpiryService.js).
THEOREM ExpiryRightful == MatchingSpec => []ExpiryIsRightful
  <1>1. MatchingInv => ExpiryIsRightful
    BY DEF MatchingInv, ExpiryInv
  <1> QED BY <1>1, MatchingInvariant, PTL

=============================================================================
