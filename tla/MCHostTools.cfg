\* Two processes of each tool, one kill or power failure; an image of eleven
\* clusters, a container of three tensors and six tokens, four disks.
SPECIFICATION ToolsSpec
CONSTANTS
    f1 = f1  f2 = f2  p1 = p1  p2 = p2  s1 = s1  s2 = s2  m1 = m1  m2 = m2  r1 = r1  r2 = r2
    d1 = d1  d2 = d2  d3 = d3  d4 = d4
    Fetchers = {f1, f2}
    Order <- MCOrder
    Pinned = {"base"}
    Pid <- MCPid
    Tries = 2
    Accidents = 1
    Packers = {p1, p2}
    Bare = {p2}
    Reporters = {s1, s2}
    Imagers = {m1, m2}
    Ordinals = 2
    Mishaps = 1
    Releasers = {r1, r2}
    Changes = 1
    Halts = 1
    ClusterBytes = 2
    U16Max = 15
    Limit = 13
    ModelBytes = 3
    Slots = 6
    Sizes = {0, 1, 3}
    Unit = 4
    HeaderUnits = 4
    Bytes = {"a", "b", "e", "t", "{"}
    Vocabulary <- MCVocabulary
    Types <- MCTypes
    Merges <- MCMerges
    Template <- MCTemplate
    Tensors <- MCTensors
    Regular = 5
    Disks = {d1, d2, d3, d4}
    Serial <- MCSerial
    Usb = {d1, d2, d3}
    DiskSize <- MCDiskSize
    ImageSize = 2
    Paths = {"sdb", "sdc"}
    Nothing = Nothing
    Upsets = 2
INVARIANTS
    CacheHoldsVerified
    PublishedIsWhole
    ReleaseIsWhole
    VerdictIsExact
    InspectedIsPacked
    OpenedIsUsable
PROPERTIES
    NothingReplaced
    OnlyConfirmedIsErased
CHECK_DEADLOCK FALSE
