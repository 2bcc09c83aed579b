SPECIFICATION FairSpec
CONSTANTS
    c1 = c1
    c2 = c2
    Clients = {c1, c2}
    MaxSessions = 2
INVARIANTS
    Inv
    IdleMeansQuiet
    OnePipelineAtATime
    WritesGoToOwnSession
PROPERTIES
    StagesKeepContract
    ImplementsLifecycle
    StartSettles
    StopSettles
