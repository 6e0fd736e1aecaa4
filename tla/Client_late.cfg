SPECIFICATION Spec
CONSTANTS
    zgw = zgw
    dme = dme
    Nothing = Nothing
    Gateway = zgw
    Targets = {zgw, dme}
    Installed <- OneEcu
    IdentificationDids <- TwoDids
    Operations <- Mixed
    AskLimit = 18
    CallLimit = 3
INVARIANTS
    ComparedFieldsAreTheirs
    StaleOnlySinceGivenUp
    BlocksAreWhole
