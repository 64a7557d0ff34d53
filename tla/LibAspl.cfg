SPECIFICATION LibSpec
CONSTANTS
    t1 = t1
    t2 = t2
    device = device
    in1 = in1
    out1 = out1
    vol1 = vol1
    mute1 = mute1
    Nothing = Nothing
    Thread = {t1, t2}
    Device = device
    Inputs = {in1}
    Outputs = {out1}
    Volumes = {vol1}
    Mutes = {mute1}
    UIntMod = 4
    Plays <- PlaysDef
    MaxCalls = 3
    MaxRequests = 4
    MaxMoves = 2
    MaxAborts = 1
    r1 = r1
    r2 = r2
    s1 = s1
    s2 = s2
    None = None
    Reader = {r1, r2}
    Setter = {s1, s2}
    Trivial = FALSE
    MaxIndex = 3
    MaxSets = 5
SYMMETRY Threads
INVARIANTS
    ChangesSettle
    
PROPERTIES
    ChangedOnlyWhenSafe
    ImplementsAtomicValue
    GetterReturns
CHECK_DEADLOCK FALSE
