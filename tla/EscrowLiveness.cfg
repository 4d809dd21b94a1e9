\* The same postings under fairness: money leaves.
SPECIFICATION FairSpec
CONSTANTS
    f1 = f1  f2 = f2  f3 = f3  p1 = p1  p2 = p2  q1 = q1  v1 = v1  v2 = v2
    NoEvidence = NoEvidence
    None = None
    PostingOf <- OnePosting
    Postings = {q1}
    BpsScale = 100
    Increment = 1
    Minimum = 10
    ReviewWindow <- Windows
    Funders = {f1, f2}
    Evidence = {v1}
    Proposals = {p1}
    Target = 20
    FeeBps = 15
    Tranches = 2
    CumulativeBps <- TwoPlan
    ApprovalWindow = 1
    FunderVoting = TRUE
    ExpiresAt = 1
    Amounts = {10}
    MaxTime = 2
    MaxRevision = 0
PROPERTIES
    FundsLeaveEscrow
CHECK_DEADLOCK FALSE
