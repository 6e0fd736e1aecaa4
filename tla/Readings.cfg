SPECIFICATION Spec
CHECK_DEADLOCK FALSE
CONSTANTS
    Targets <- MCTargets
    AskLimit = 24
    Nothing = Nothing
    ZGW_ADDRESS = 16
    Tables <- MCTables
    Jobs <- MCJobs
    measurements <- MCMeasurements
    freeze_frame_defs <- MCFreezeFrameDefs
    service_functions <- MCServiceFunctions
    Plans <- MCPlans
    Car <- MCCar
    EcuSlots <- MCEcuSlots
    OddLimit = 1
    GiveUpLimit = 3
    HexDigits <- MCHexDigits
    Prefixed <- MCPrefixed
    Decimal <- MCDecimal
    Folded <- MCFolded
    Parts <- MCParts
    FloatOf <- MCFloatOf
    EnvLabels <- MCEnvLabels
INVARIANTS
    AnswersAreExact
    MeasurementIsItsOwn
    ChangesAreAskedFor
