SPECIFICATION MonSpec
CONSTANTS
    Source <- MCSource
    Config <- MCConfig
    Consumer <- MCConsumer
    Key <- MCKey
    Reportable <- MCReportable
    Knob <- MCKnob
    Voice = 6
    Endpoint <- MCEndpoint
    Chat = 11
    None = None
    AllUp = AllUp
    KnobUp = KnobUp
    Other = Other
    MaxWire = 2
    MaxStatus = 1
INVARIANTS
    HoldFollowsHand
    ModeFollowsSwitch
    ExitReleasesAll
PROPERTIES
    HeldStaysPressed
CHECK_DEADLOCK FALSE
