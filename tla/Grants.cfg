\* Two proposals compete for a pool that can fund one at first and two later.
SPECIFICATION FairGrantSpec
CONSTANTS
    p1 = p1  p2 = p2  v1 = v1
    Funders = {"owner"}
    Evidence = {v1}
    NoEvidence = NoEvidence
    None = None
    Proposals = {p1, p2}
    Target = 10
    BpsScale = 100
    FeeBps = 15
    Tranches = 2
    CumulativeBps <- TwoPlan
    ReviewWindow <- Windows
    ApprovalWindow = 1
    Increment = 1
    Minimum = 1
    FunderVoting = FALSE
    ExpiresAt = 1
    AcceptanceWindow = 1
    Amounts = {10}
    MaxPool = 20
    MaxTime = 2
    MaxRevision = 1
ACTION_CONSTRAINT DivisionOfLabour
INVARIANTS
    PoolMeetsItsOffers
    AwardIsAsReviewed
PROPERTIES
    GrantsAreIndependent
    GrantMoneyMovesOn
CHECK_DEADLOCK FALSE
