\* Agents and claim sweeps, no operator.
CONSTANTS
    r1 = r1
    r2 = r2
    r3 = r3
    x = x
    Runner = {r1, r2, r3}
    Item = {x}
    Holder = {r1, r2, r3}
    HolderOf <- OwnNames
    Action = {"implement", "advance"}
    Leased = {}
    Operators = FALSE
    NoLock = NoLock
    MaxSince = 2
    MaxFaults = 1
SPECIFICATION Spec
SYMMETRY Symmetry
INVARIANTS TypeOK OneWorker HoldIsReal NoLockLeaks
CHECK_DEADLOCK FALSE
