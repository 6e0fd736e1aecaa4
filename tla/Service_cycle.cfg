SPECIFICATION Spec
CONSTANTS
    dme = dme
    Nothing = Nothing
    Null = Null
    Target = dme
    Targets = {dme}
    FunctionId = 2
    Category = "calibration"
    Catalog <- SharedJob
    Orders <- Shuffled
    CycleLimit = 2
    ChangeLimit = 1
    Droppable = TRUE
    AskLimit = 12
INVARIANTS
    OnlyTheRequestedFunction
    UnpreparedIsNotActuated
    SentOnlyIfAllowed
    TeardownIsHonest
