SPECIFICATION Spec
CONSTANTS
    plugin = plugin
    o1 = o1
    o2 = o2
    o3 = o3
    o4 = o4
    h1 = h1
    h2 = h2
    Driver = Driver
    None = None
    Obj = {plugin, o1, o2, o3, o4}
    PlugIn = plugin
    Caller = {h1, h2}
    BitsPerChunk = 2
    HintMaximum = 3
    Plays <- PlaysDef
    Custom <- CustomDef
    MaxElements = 2
INVARIANTS
    NoDanglingObject
    EveryObjectIsFound
    
CHECK_DEADLOCK FALSE
