SPECIFICATION FairSpec
CONSTANTS
    a1 = a1
    a2 = a2
    a3 = a3
    a4 = a4
    APs <- TwoAPs
    Faults = {}
    SlotCount = 2
    WorkerArgs = {}
    BackendArgs = {}
    RowCounts = {3}
    BodyJobs = 2
INVARIANT
    NeverHalts
PROPERTIES
    DispatchSettles
    EngineSpec
