\* A member's call confirms and clears the outbox while the sweep holds a value it read.
SPECIFICATION PauseSpec
CONSTANTS
    sweeper = sweeper  call = call  pause = pause  unpause = unpause  pay = pay
    Outside = Outside
    None = None
    Workers = {sweeper, call}
    Sweeper = sweeper
    Actions = {pause, unpause, pay}
    OneTime = {}
    Payments = {}
    Closers = {}
    MayRevert = {}
    Pause = pause
    Unpause = unpause
    MaxNonce = 2
    MaxFaults = 0
    MaxEdits = 2
INVARIANTS
    CompletedPauseIsMirrored
CHECK_DEADLOCK FALSE
