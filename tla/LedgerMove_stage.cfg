SPECIFICATION Spec
CONSTANTS
    m1 = m1
    m2 = m2
    m3 = m3
    task = task
    note = note
    doc = doc
    red = red
    conflict = conflict
    NoOne = NoOne
    Item = {task, doc, note}
    Reason = {red}
    Mover = {m1, m2, m3}
    Kind <- PromoteAndCreate
    For <- OnTaskAndDoc
    Source <- FromNote
    Why <- ForRed
    Start <- StagedAndObservation
    MaxAttempts = 2
    MaxOthers = 1
    MaxFaults = 1
INVARIANTS
    LocksComeBack
PROPERTIES
    ImplementsLedger
CHECK_DEADLOCK FALSE
