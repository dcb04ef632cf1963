CONSTANTS
    a = a
    b = b
    s = s
    Objs = {a, b, s}
    Archive = {a, b}
    Eager = TRUE
    MaxUpsets = 2
SPECIFICATION FairSpec
INVARIANTS
    TypeOK
    RestoredIsObserved
    
    WaitingIsAccepted
    
PROPERTIES
    PollEnds
