\* The sweep and a member's call share the signer for a payment and the request
\* that cancels its escrow.
SPECIFICATION FairSpec
CONSTANTS
    sweep = sweep  call = call  pay = pay  void = void
    Outside = Outside
    None = None
    Workers = {sweep, call}
    Sweeper = sweep
    Callers = {call}
    Void = void
    Actions = {pay, void}
    OneTime = {pay, void}
    Payments = {pay}
    Closers = {void}
    MayRevert = {void}
    MaxNonce = 1
    MaxFaults = 2
INVARIANTS
    OneOutstanding
    CompleteMeansFullRefund
PROPERTIES
    NeverSignedAgain
    OutboxDrains
    RequestResolves
CHECK_DEADLOCK FALSE
