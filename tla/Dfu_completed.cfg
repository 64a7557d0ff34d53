SPECIFICATION DfuSpec
CONSTANTS
    Upgrade = {u1}
    Rescue = {r1}
    Nobody = Nobody
    Chunks = 2
    RecoveryLength = 9
    MaxDfuFaults = 1
PROPERTIES
    CompletedIsTrue
CHECK_DEADLOCK FALSE
