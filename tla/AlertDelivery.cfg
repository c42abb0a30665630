SPECIFICATION Spec
CONSTANTS
    Alerts = {a1}
    Handlers = {h1}
    AlertOf <- MCAlertOf
    Services = {s1, s2}
    Home <- MCHome
    None = None
    Capacity = 2
    AttemptLimit = 2
    Lease = 1
    MaxDelay = 1
    Batch = 2
    MaxRestarts = 1
    MaxFlips = 1
    MaxStalls = 1
    MaxDecisions = 1
    a1 = a1
    h1 = h1
    s1 = s1
    s2 = s2
CHECK_DEADLOCK FALSE
INVARIANT LedgerTruthful
PROPERTY CallsAreSafe
PROPERTY AlertsSettle
