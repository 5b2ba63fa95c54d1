\* A merging build beside a proposed one, which conflict, with a forge that merges.
SPECIFICATION Spec
CONSTANTS
    a = a
    b = b
    Task = {a, b}
    Upkeep = Upkeep
    NoTip = NoTip
    Foes <- AB
    Mode <- OnePropose
    Gate <- InPlaceAndFresh
    MaxMergeRetries = 1
    RebaseRetries = 1
    MaxUpkeep = 1
    MaxRuns = 1
    MaxFaults = 1
INVARIANT LockCoversWork
PROPERTY ImplementsMainLog
CHECK_DEADLOCK FALSE
