SPECIFICATION Spec
CONSTANTS
    local = local
    ci = ci
    NoOne = NoOne
    NoTip = NoTip
    Tasker = {local, ci}
    Ci = {ci}
    MaxMergeRetries = 1
    MaxEdits = 1
    MaxOthers = 1
    MaxReruns = 1
    MaxFaults = 1
INVARIANTS
    TypeOK
    LocalTaskingIsFirst
    HeldForAReason
PROPERTIES
    OnlyTheHolderTasks
    PassedCheckFits
    OpenRequestKeepsItsBranch
CHECK_DEADLOCK FALSE
