SPECIFICATION RadioLifeSpec
CONSTANTS
    None = None
    m1 = m1
    a = a
    Manager = {m1}
    Device = {a}
    UsbDevice = a
    Attempts = 2
    Calls <- RemoteCalls
    ConcurrentCalls = FALSE
    HidMayFail = FALSE
    UnknownHid = FALSE
PROPERTIES
    ShutdownEnds
    LostLinkReported
    CableWins
    Reconnects
