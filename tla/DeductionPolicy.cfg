SPECIFICATION MCSpec

CONSTANTS
    NormalLen = 2
    SlowStep = 1
    ExtendLen = 1
    StopLen = 2
    FinalLen = 3
    MaxOps = 2
    SlowAt = 2
    Severities = {"light", "severe", "unknown"}
    Targets = {"ok", "consulted", "warned", "gone"}
    Commands = {"stop", "clear", "renew", "reject"}
    Baselines = {1}
    Horizon = 6
    MaxMutes = 3
    MaxCycles = 3

INVARIANTS
    PolicyIsSound
    MutesAreJudged

PROPERTIES
    DecisionsAreFair
    CyclesSettle

CHECK_DEADLOCK FALSE
