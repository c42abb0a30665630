SPECIFICATION IntakeSpec
CONSTANTS
    None = None
    Operators = {o1}
    Horizon = 1
    MaxRecords = 2
    MaxJobs = 2
    MaxPreviews = 4
    MaxUpsets = 0
INVARIANT ReviewsWait
CHECK_DEADLOCK FALSE
