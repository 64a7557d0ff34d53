SPECIFICATION DriverSpec
CONSTANTS
    Devnode = {d1, d2}
    Handle = {h1}
    None = None
    MaxControls = 3
    MaxStarts = 4
    RingBytes = 2
    TicksPerMs = 2
    MsPerSec = 2
    Rate = 1
    BufferBytes = 2
    Packets = 2
    MaxWrite = 2
    MaxTime = 7
    MaxBytes = 3
    MaxSessions = 2
INVARIANTS
    RemovalLeavesNothing
    FailedStartLeavesNothing
    StartedCanBeFed
    HeardInOrder
    AudioWhereReported
    PacketsFilledSinceReset

    
CHECK_DEADLOCK FALSE
