SPECIFICATION Spec
CONSTANTS
    RowSizes = {0, 1, 2, 3, 4}
    Numbers = {0, 1, 2, 3, 4, 5, 7, 8}
    MaxInt = 7
    Chunk = 2
    BodySizes <- SmallSizes
    Limits <- SmallLimits
    Buffer = 2
    Ranks = {1, 2, 3, 4, 5}
    Low = 1
    High = 5
    Folder <- Folders
    Requests <- ListRequests
    BucketNames = {b1}
    Keys = {k1, k2}
    None = None
    Sizes = {1, 2}
    Clients = {c1, c2}
    MaxMarkers = 3
    s1 = s1
    s2 = s2
    Servers = {s1, s2}
    NodeIds = {1, 2, 3, 4}
    Listings <- AllListings
    IdSettings = {0, 2}
    Factors <- AnyNumber
    Quorums <- AnyNumber
    Scores = {0, 1, 2}
CHECK_DEADLOCK FALSE
INVARIANTS
    NodeTypeOK
    RangeAnswered
    PromiseKept
    UploadExact
    ListedOnce
    NoOrphanRows
    CountersExact
    StartedSound
    PlacementAgrees
    PlacementStable
