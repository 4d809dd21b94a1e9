\* One new file and one from before the reservations, a removal and the sweep,
\* one killed invocation, a retirement of the registry.
SPECIFICATION FairSpec
CONSTANTS
    a1 = a1  l1 = l1
    None = None
    Attachments = {a1, l1}
    Legacy = {l1}
    Quota = 1
    FrozenOnceSubmitted = FALSE
    MaxFaults = 1
ACTION_CONSTRAINT UsualTiming
INVARIANTS
    PublishedBytesExist
    UsageIsExact
PROPERTIES
    StorageIsReclaimed
CHECK_DEADLOCK FALSE
