\* One local tick and one CI run on one task or observation.
SPECIFICATION Spec
CONSTANTS
    Local = {l1}
    Ci = {c1}
    Slug = {s1, s2}
    MaxBuilds = 2
    MaxQuestions = 2
    MaxFaults = 1
INVARIANTS
    TypeOK
PROPERTIES
    NoAnswerIsLost
    ImplementsQuestionBook
    ActsOnAskedWork
    AnswersAreRecorded
CHECK_DEADLOCK FALSE
