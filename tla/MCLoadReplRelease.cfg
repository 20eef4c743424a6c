\* Pages given back after the prompt loop.
SPECIFICATION MCSpec
CONSTANTS
    MaxKeys = 1
    Modes = {"model_repl"}
    RegionCount = 2
    RegionPages <- MCRegionPages
    ReplPages = 2
    Pages = {1, 2, 3, 4}
    Total = 3
    MaxRead = 2
    FileSizes = {2, 3, 4}
INVARIANT
    OkMeansReleased
CHECK_DEADLOCK FALSE
