SPECIFICATION Spec
CONSTANTS
    Capacity = 4
    HighWater = 2
    LowWater = 1
    Datagram = {0, 3, 4}
    Wanted = {1, 3}
    Bound <- MCBound
    Dev = Dev
    Gone = Gone
    Client = {c1, c2}
    Nobody = Nobody
    Operation <- MCOperation
    Rate <- MCRate
    TicksPerPeriod <- MCTicks
SYMMETRY Clients
INVARIANTS
    ReadIsWindow
PROPERTIES
    ClockAdvances
CHECK_DEADLOCK FALSE
