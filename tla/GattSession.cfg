SPECIFICATION FairGattSpec
CONSTANTS
    None = None
    c1 = c1
    c2 = c2
    x = x
    Caller = {c1, c2}
    Cmd = {x}
    MaxEpoch = 2

    
    
PROPERTIES
    
    CallsEnd
