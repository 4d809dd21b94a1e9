\* One proposal, three funders, three tranches with a vote, two versions of the
\* evidence: deposits, approvals, payments, rounding and every way into refunds;
\* and the tree of intervals with eight wallets.
SPECIFICATION MoneySpec
CONSTANTS
    f1 = f1  f2 = f2  f3 = f3  p1 = p1  p2 = p2  q1 = q1  v1 = v1  v2 = v2
    Funders = {f1, f2, f3}
    Evidence = {v1, v2}
    NoEvidence = NoEvidence
    None = None
    Proposals = {p1}
    Postings = {q1}
    PostingOf <- OnePosting
    Target = 35
    BpsScale = 100
    FeeBps = 15
    Tranches = 3
    CumulativeBps <- ThreePlan
    ReviewWindow <- Windows
    ApprovalWindow = 1
    Increment = 1
    Minimum = 10
    FunderVoting = TRUE
    ExpiresAt = 2
    Amounts = {11, 12}
    MaxTime = 2
    MaxRevision = 0
ACTION_CONSTRAINT DepositFollowsReview
SYMMETRY FunderSymmetry
INVARIANTS
    CustodyMatchesBooks
    RefundsAreExact
    PaymentsFollowPlan
PROPERTIES
    RefundsAreFinal
    PaidAsDecided
    OnlyPaymentsExtendDeadlines
    ImplementsDeposit
CHECK_DEADLOCK FALSE
