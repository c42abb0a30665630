SPECIFICATION Spec
CONSTANTS
    None = None
    w1 = w1
    w2 = w2
    o1 = o1
    Archive = Archive
    Workers <- MCWorkers
    Operators <- MCOperators
    Process <- MCProcess
    Cases <- EachJob
    Batch = 2
    Threshold = 2
    FactBatch = 2
    MaxMessages = 2
    MaxOperations = 1
    MaxUpsets = 1
INVARIANT SummaryIsHonest
INVARIANT MirrorIsCurrent
PROPERTY ClearedStaysCleared
PROPERTY DecisionsPrevail
PROPERTY MemorySettles
CHECK_DEADLOCK FALSE
