SPECIFICATION FairSpec
CONSTANTS
    a1 = a1
    a2 = a2
    a3 = a3
    a4 = a4
    APs <- ThreeAPs
    Faults = {"protocol", "allocation", "startup", "timeout", "callbacks", "not_ready", "not_restored"}
    SlotCount = 2
    WorkerArgs = {}
    BackendArgs = {}
    RowCounts = {3}
    BodyJobs = 1
INVARIANTS
    SlotsAgree
PROPERTIES
    ReturnMeansComplete
    DispatchSettles
CHECK_DEADLOCK FALSE
