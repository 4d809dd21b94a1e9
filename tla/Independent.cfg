\* Two funders of an odd target, a fee that rounds, two versions of the evidence,
\* and the fairness of the schedule.
SPECIFICATION FairIndependentSpec
CONSTANTS
    f1 = f1  f2 = f2  v1 = v1  v2 = v2
    Funders = {f1, f2}
    Evidence = {v1, v2}
    NoEvidence = NoEvidence
    Target = 35
    BpsScale = 100
    FeeBps = 15
    Tranches = 2
    CumulativeBps <- Halves
    ReviewWindow <- Windows
    ApprovalWindow = 1
    Increment = 1
    Minimum = 10
    FunderVoting = TRUE
    ExpiresAt = 1
    ReviewTime = 1
    Amounts = {11, 12}
    MaxTime = 2
INVARIANTS
    ViewIsHonest
PROPERTIES
    ImplementsCustody
    CompletionHasMajority
    FundsLeave
CHECK_DEADLOCK FALSE
