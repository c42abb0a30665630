SPECIFICATION FairSpec
CONSTANTS
    Events = {n1, e1}
    Announced = {n1}
    Actions = {1}
    NoEvent = NoEvent
    Lease = 1
    Retry = 1
    Hour = 1
    PendingLimit = 1
    MissedLimit = 2
    ChunkItems = 2
    Faults = TRUE
    MaxReminders = 1
    MaxReplays = 1
    n1 = n1
    e1 = e1
INVARIANT RowsAgree
PROPERTIES AttemptIsFinal Delivers RowsSettle
