\* A late reconciliation writes queued or pending over a blocked request, although a
\* payment was signed in between.
SPECIFICATION Spec
CONSTANTS
    sweep = sweep  call = call  pay = pay  void = void
    Outside = Outside
    None = None
    Workers = {sweep, call}
    Sweeper = sweep
    Callers = {call}
    Void = void
    Actions = {pay, void}
    OneTime = {pay, void}
    Payments = {pay}
    Closers = {void}
    MayRevert = {}
    MaxNonce = 1
    MaxFaults = 1
INVARIANTS
    CancellationExcludesPayment
CHECK_DEADLOCK FALSE
