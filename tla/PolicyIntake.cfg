SPECIFICATION IntakeSpec
CONSTANTS
    None = None
    Operators = {o1, o2}
    Horizon = 1
    MaxRecords = 2
    MaxJobs = 2
    MaxPreviews = 3
    MaxUpsets = 1
INVARIANT WithdrawalStands
INVARIANT RowFollowsCommands
PROPERTY DecisionIsCurrent
PROPERTY IntakeSettles
CHECK_DEADLOCK FALSE
