SPECIFICATION LifeSpec
CONSTANTS
    None = None
    m1 = m1
    a = a
    b = b
    Manager = {m1}
    Device = {a, b}
    UsbDevice = a
    Attempts = 1
    Calls <- AllCalls
    ConcurrentCalls = TRUE
    HidMayFail = TRUE
    UnknownHid = TRUE
INVARIANTS
    LinkIsWatched
    BoundStopsBle
PROPERTIES
    ImplementsContract
