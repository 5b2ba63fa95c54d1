\* A recovery whose only push loses a race reports a merge.
SPECIFICATION Spec
CONSTANTS
    a = a
    b = b
    Task = {a, b}
    Upkeep = Upkeep
    NoTip = NoTip
    Foes <- NoFoes
    Mode <- TwoMerges
    Gate <- InPlace
    MaxMergeRetries = 1
    RebaseRetries = 1
    MaxUpkeep = 1
    MaxRuns = 1
    MaxFaults = 1
INVARIANT MergedReportIsTrue
CHECK_DEADLOCK FALSE
