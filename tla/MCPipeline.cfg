SPECIFICATION FairSpec
CONSTANTS
    Workers = {w1, w2}
    PacketChanCap = 1
    ParsedChanCap = 1
    MaxPackets = 3
    Replay = TRUE
INVARIANTS
    Inv
    EveryPacketAccountedFor
    NoPacketTwice
    FinalSnapshotIsComplete
    NoSendOnClosed
    QuiescentWhenDone
PROPERTIES
    ShutdownCompletes
    PacketsSettle
    ImplementsStageGroup
