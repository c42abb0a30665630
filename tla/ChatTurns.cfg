SPECIFICATION Spec
CONSTANTS
    p = p
    g = g
    Events <- MCEvents
    Private <- MCPrivate
    Images <- MCEvents
    MaxParts = 2
    PerConversation = 2
    AtOnce = 3
    MaxTurns = 2
    MaxUpsets = 1
INVARIANT PartsAreSafe
PROPERTY ClearedIsCleared
PROPERTY TurnsEnd
CHECK_DEADLOCK FALSE
