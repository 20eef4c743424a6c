\* Two regions; memory for both, and room for them to overlap.
SPECIFICATION MCSpec
CONSTANTS
    MaxKeys = 2
    Modes = {"model_load_only", "model_first_token", "model_repl"}
    RegionCount = 2
    RegionPages <- MCRegionPages
    ReplPages = 2
    Pages = {1, 2, 3, 4}
    Total = 3
    MaxRead = 2
    FileSizes = {2, 3, 4}
INVARIANTS
    HeldIsNamed
    VerifiedIsWhole
    ServedFromMemory
    StatusIsTold
    InputLeavesClean
PROPERTY
    SessionEnds
    KeysAreTaken
CHECK_DEADLOCK FALSE
