\* The sweep beside a member's call that signs, resumes and confirms: decisions,
\* faults, and the fairness of the schedule.
SPECIFICATION FairPauseSpec
CONSTANTS
    sweeper = sweeper  call = call  pause = pause  unpause = unpause  pay = pay
    Outside = Outside
    None = None
    Workers = {sweeper, call}
    Sweeper = sweeper
    Actions = {pause, unpause, pay}
    OneTime = {pay}
    Payments = {pay}
    Closers = {}
    MayRevert = {}
    Pause = pause
    Unpause = unpause
    MaxNonce = 3
    MaxFaults = 1
    MaxEdits = 2
ACTION_CONSTRAINT UsefulCalls
INVARIANTS
    CompletedPauseIsMirrored
PROPERTIES
    PauseIsEventuallyMirrored
CHECK_DEADLOCK FALSE
