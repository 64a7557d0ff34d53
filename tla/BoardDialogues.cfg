SPECIFICATION DialogueSpec
CONSTANTS
    MaxFaults = 5
    u1 = u1
    r1 = r1
    Upgrade = {u1}
    Rescue = {r1}
    Nobody = Nobody
    Chunks = 2
    RecoveryLength = 9
    MaxDfuFaults = 3
INVARIANTS
    ClaimIsTrue
PROPERTIES
    FriendServed
    StrangerLeft
    InstallsOnlyFirmware
    ResetFreesBoard
CHECK_DEADLOCK FALSE
