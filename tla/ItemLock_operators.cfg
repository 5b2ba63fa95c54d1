\* Operators run release-lock, reap and resume at any time.
CONSTANTS
    r1 = r1
    r2 = r2
    r3 = r3
    x = x
    Runner = {r1, r2}
    Item = {x}
    Holder = {r1, r2, r3}
    HolderOf <- OwnNames
    Action = {"implement", "advance"}
    Leased = {r1}
    Operators = TRUE
    NoLock = NoLock
    MaxSince = 2
    MaxFaults = 1
SPECIFICATION FairSpec
PROPERTIES LeasedRunnerSparesOthers ImplementsRegister TerminalLocksDrain
CHECK_DEADLOCK FALSE
