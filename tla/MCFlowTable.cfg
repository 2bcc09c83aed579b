SPECIFICATION FairSpec
CONSTANTS
    Host = {inside, outside}
    Nobody = nobody
    Frames <- MCFrames
    Private = {inside}
    IdleTimeout = 1
    MaxLag = 1
    MaxGap = 1
    MaxPackets = 3
    WritesFail = TRUE
INVARIANTS Inv NothingMiscounted IntervalAddsUp FlowRowsAreHonest HostRowsAreHonest
PROPERTIES RemovalIsReported ClosedFlowsLeave SilentFlowsLeave
