SPECIFICATION Spec
CONSTANTS
    chat = chat
    talk = talk
    intent = intent
    Callers <- MCCallers
    Business <- MCBusiness
    Chat <- MCChat
    Lanes <- MCLanes
    LaneOf <- MCLaneOf
    Available <- MCAvailable
    Total = 1
    MaxPending = 1
    MaxAttempts = 2
INVARIANT CallsBounded
INVARIANT ClosedIsQuiet
PROPERTY CallsEnd
CHECK_DEADLOCK FALSE
