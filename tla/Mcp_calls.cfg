SPECIFICATION FairSpec
CONSTANTS
    Calls = {1, 2}
    Requests <- MCRequests
    Cars = {"a", "b"}
    Vin <- MCVin
    Ecus = {0, 1, 2}
    Configured <- MCConfigured
    Variants = {"v1", "v2", "gone"}
    Candidates <- MCCandidates
    Loadable = {"v1", "v2"}
    SgAdr <- MCSgAdr
    UseProfiles = TRUE
    Main = Main
    None = None
\* The process ends; EveryCallReturns says that nothing else stops.
CHECK_DEADLOCK FALSE
INVARIANTS
    ClearIsOfTheReadCar
    MemoryIsOfItsCar
PROPERTIES
    ProfileIsKept
    EveryCallReturns
