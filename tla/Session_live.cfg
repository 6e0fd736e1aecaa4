SPECIFICATION FairSpec
CONSTANTS
    r1 = r1
    r2 = r2
    zgw = zgw
    dme = dme
    Sids <- MCSids
    TesterPresent = "3E"
    Keepalive = Keepalive
    Nobody = Nobody
    NoSlot = NoSlot
    Gateway = zgw
    Requests = {r1, r2}
    Targets = {zgw}
    Calls <- GatewayRead
    Faults = {"cancel", "link", "reader"}
    MaxPendingTicks = 0
    EcuPendingLimit = 1
    KeepaliveLimit = 1
INVARIANTS
    TypeOK
    FinalIsLast
PROPERTIES
    EveryRequestReturns
