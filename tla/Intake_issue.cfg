SPECIFICATION FairSpec
CONSTANTS
    local = local
    ci1 = ci1
    ci2 = ci2
    Person = Person
    Local = {local}
    Ci = {ci1, ci2}
    MaxComments = 1
    MaxReruns = 1
    MaxFaults = 1
INVARIANTS
    TypeOK
    SeenWasShown
    HeardOrExcused
    SecondDocumentNeedsRace

    
CHECK_DEADLOCK FALSE
