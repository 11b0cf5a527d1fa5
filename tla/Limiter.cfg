SPECIFICATION MCSpec
CONSTANTS
    here = here
    alice = alice
    NoIp = NoIp
    Ips <- MCIps
    Loopback <- MCHere
    Private <- MCHere
    Enabled = TRUE
    Whitelist = TRUE
    Requests <- MCRequests
    Minute = 3
    Rpm <- MCRpm
    MaxIdle = 3
    Watched <- MCWatched
    MaxWindow = 4
    NSlots = 2
    Half = 2
    MaxDigits = 3
    Rooms <- MCWireRooms
    Frames <- MCWireFrames
    Others <- MCWireOthers
    MaxPackets = 2
INVARIANTS
    WindowBound
    BilledToSender
    SurvivesTheWire
PROPERTIES
    LimiterIsSteady
CHECK_DEADLOCK FALSE
