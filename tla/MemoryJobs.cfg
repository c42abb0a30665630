SPECIFICATION FairSpec
CONSTANTS
    PrivateScopes = {p1}
    GroupScopes = {}
    JobTypes = {"private_summary", "private_facts"}
    Workers = {w1, w2}
    NoOwner = NoOwner
    Concurrency = 1
    MaxAttempts = 2
    LeaseTime = 1
    Backoff <- MCBackoff
    Debounce = 0
    MaxWait = 0
    MemberDelay = 0
    MemberThreshold = 2
    MaxJobs = 2
    MaxWatermark = 2
    MaxStarts = 2
    MaxBatches = 2
    p1 = p1
    w1 = w1
    w2 = w2
INVARIANT QueueIsSafe
PROPERTY RowsMoveRightly
PROPERTY JobsSettle
