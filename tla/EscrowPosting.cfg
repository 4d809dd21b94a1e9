\* Two proposals compete for one posting; edits, withdrawals and pauses interleave
\* with deposits, selections and payments.
SPECIFICATION PostingSpec
CONSTANTS
    f1 = f1  f2 = f2  f3 = f3  p1 = p1  p2 = p2  q1 = q1  v1 = v1  v2 = v2
    NoEvidence = NoEvidence
    None = None
    PostingOf <- OnePosting
    Postings = {q1}
    BpsScale = 100
    Increment = 1
    Minimum = 10
    ReviewWindow <- Windows
    Funders = {f1}
    Evidence = {v1}
    Proposals = {p1, p2}
    Target = 10
    FeeBps = 15
    Tranches = 2
    CumulativeBps <- TwoPlan
    ApprovalWindow = 1
    FunderVoting = FALSE
    ExpiresAt = 1
    Amounts = {10}
    MaxTime = 1
    MaxRevision = 1
CONSTRAINT OneReviewAtATime
SYMMETRY ProposalSymmetry
INVARIANTS
    PendingIffLocked
    ExclusiveAward
    FundedIsBound
PROPERTIES
    FundedContentIsFrozen
    ImplementsAward
CHECK_DEADLOCK FALSE
