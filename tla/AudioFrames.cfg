SPECIFICATION FramesSpec
CONSTANTS
    None = None
    QueueLimit = 2
    Modulus = 16
    FirstSeqno = 14
    Restarts <- OneRestart
    MaxPackets = 4
    MaxExtra = 1
    MaxCalls = 2
INVARIANTS
    LossExact
    OnlyOldRefused
    LocalLossIsLocal
CHECK_DEADLOCK FALSE
