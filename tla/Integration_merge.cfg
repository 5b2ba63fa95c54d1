\* A build gated in place and a CI apply job, which conflict.
SPECIFICATION FairSpec
CONSTANTS
    a = a
    b = b
    Task = {a, b}
    Upkeep = Upkeep
    NoTip = NoTip
    Foes <- AB
    Mode <- TwoMerges
    Gate <- InPlaceAndApply
    MaxMergeRetries = 2
    RebaseRetries = 1
    MaxUpkeep = 3
    MaxRuns = 1
    MaxFaults = 2
INVARIANTS TypeOK WorkIsNeverLost  StampTells
PROPERTY EveryRunEnds
CHECK_DEADLOCK FALSE
