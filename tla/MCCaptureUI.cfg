SPECIFICATION FairSpec
CONSTANTS
    c1 = c1
    c2 = c2
    v1 = v1
    Clients = {c1, c2}
    MaxSessions = 2
    Views = {v1}
    MaxLoads = 1
INVARIANTS
    Inv
    ButtonsTellTheTruth
PROPERTIES
    StartIsAnswered
    ViewsCatchUp
CHECK_DEADLOCK FALSE
