SPECIFICATION FairSpec
CONSTANTS
    Gateways = {"g1", "g2"}
    Announce <- MCAnnounce
    VinLen = 2
    VinChars = {"A", "B"}
    Marker = "BMWVIN"
    Senders = {"r1", "keepalive"}
    Requests = {"r1"}
    Sends <- MCSends
    Replies <- MCReplies
    MaxFrameLen = 4
    Room = 6
    MaxCopies = 2
    MaxReplies = 2
    None = None
CHECK_DEADLOCK FALSE
INVARIANTS
    FramesArriveWhole
    DiscoveryIsUnambiguous
PROPERTIES
    EveryWriteEnds
