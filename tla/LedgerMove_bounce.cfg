SPECIFICATION Spec
CONSTANTS
    m1 = m1
    m2 = m2
    m3 = m3
    task = task
    note = note
    doc = doc
    red = red
    conflict = conflict
    NoOne = NoOne
    Item = {task}
    Reason = {red, conflict}
    Mover = {m1, m2, m3}
    Kind <- SurfaceNoteAndDrain
    For <- OnTask
    Source <- OnTask
    Why <- ForRed
    Start <- ReadyTask
    MaxAttempts = 2
    MaxOthers = 3
    MaxFaults = 1
INVARIANTS
    TypeOK
    
    
    GiveUpNeedsRaces
PROPERTIES
    AnswersSurvive
CHECK_DEADLOCK FALSE
