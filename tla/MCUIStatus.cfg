SPECIFICATION Spec
CONSTANTS
    c1 = c1
    c2 = c2
    v1 = v1
    Clients = {c1, c2}
    MaxSessions = 1
    Views = {v1}
    MaxLoads = 1
INVARIANTS
    RunningIsShown
CHECK_DEADLOCK FALSE
