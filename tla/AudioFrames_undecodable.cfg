SPECIFICATION FramesSpec
CONSTANTS
    None = None
    QueueLimit = 2
    Modulus = 16
    FirstSeqno = 14
    Restarts <- Never
    MaxPackets = 5
    MaxExtra = 0
    MaxCalls = 1
INVARIANTS
    DecodingLossReported
CHECK_DEADLOCK FALSE
