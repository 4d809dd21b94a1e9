\* The sweep and a member's call synchronise one escrow, one event to a page.
SPECIFICATION FairSpec
CONSTANTS
    sweep = sweep  call = call
    None = None
    Callers = {call}
    Sweeper = sweep
    PageSize = 1
    Span = 2
    MaxHeight = 3
    MaxEvents = 4
    MaxSelections = 1
    MaxFaults = 1
INVARIANTS
    CheckpointIsExact
PROPERTIES
    RequestStandsUntilAnswered
    MirrorConverges
    OutcomeIsMirrored
CHECK_DEADLOCK FALSE
