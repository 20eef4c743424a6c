\* Slots that agree on their arguments and slots that do not; fewer rows than
\* slots, and a row count that does not divide.
SPECIFICATION WorkerSpec
CONSTANTS
    SlotCount = 3
    WorkerArgs = {1, 2, 3, 4}
    BackendArgs = {0, 1, 2}
    RowCounts = {1, 5}
    BodyJobs = 1
INVARIANTS
    ProductComplete
    CoordinatorExclusive
    ZeroMeansComplete
PROPERTY
    TerminalFreezesJob
CHECK_DEADLOCK FALSE
