SPECIFICATION FairSpec
CONSTANTS
    Target = 18
    Frames <- SomeFrames
    Responses <- SomeResponses
    MaxInstructions = 4
    Nothing = Nothing
INVARIANTS
    OnlyAdmittedServices
    RegisterIsOfTheLastExchange
PROPERTIES
    EveryJobReturns
