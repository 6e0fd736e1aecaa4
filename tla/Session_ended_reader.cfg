SPECIFICATION Spec
CONSTANTS
    r1 = r1
    r2 = r2
    zgw = zgw
    dme = dme
    Sids <- MCSids
    TesterPresent = "3E"
    Keepalive = Keepalive
    Nobody = Nobody
    NoSlot = NoSlot
    Gateway = zgw
    Requests = {r1}
    Targets = {zgw}
    Calls <- GatewayRead
    Faults = {"reader"}
    MaxPendingTicks = 0
    EcuPendingLimit = 0
    KeepaliveLimit = 0
PROPERTIES
    EndedReaderIsReported
