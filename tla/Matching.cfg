\* Two proposals of one posting, two contributions, and the fairness of the sweep.
SPECIFICATION FairMatchingSpec
CONSTANTS
    p1 = p1  p2 = p2  r1 = r1  r2 = r2
    None = None
    Proposals = {p1, p2}
    Requests = {r1, r2}
    Amounts = {1, 2}
    Target = 2
    Window = 1
    ExpiresAt = 2
    MaxTime = 3
INVARIANTS
    LedgerFollowsMatch
    ExpiryIsRightful
PROPERTIES
    PledgesSettle
CHECK_DEADLOCK FALSE
