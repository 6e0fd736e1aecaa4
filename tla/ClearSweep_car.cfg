SPECIFICATION Spec
CONSTANTS
    zgw = zgw
    dme = dme
    oil = oil
    Nothing = Nothing
    Gateway = zgw
    Targets = {zgw, dme}
    Addresses <- GatewayAndEcu
    Reset = TRUE
    Faults = {oil}
    Faulty = {dme}
    Relevant = {oil}
    FaultLimit = 1
    SweepLimit = 2
    AskLimit = 20
INVARIANTS
    FailedClearIsNeverReset
    ErasedIsRecordedUnlessLate
    ReportsAreBacked
