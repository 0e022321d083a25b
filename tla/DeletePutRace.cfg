SPECIFICATION Spec
CONSTANTS
    k1 = k1
    k2 = k2
    p1 = p1
    p2 = p2
    c1 = c1
    c2 = c2
    Keys = {k1, k2}
    Paths = {p1, p2}
    PathOf <- TwoPaths
    Clients = {c1, c2}
    Jobs = {}
    Ops = {"put", "delete"}
    Bytes = {a, b}
    NoFile = NoFile
    MaxVersion = 2
    MaxCrashes = 0
    MaxFailures = 0
    Parts = {1}
    PartBytes = {a}
    Small = {}
    Prior = Prior
    None = None
    Uploaders = {}
    Sweepers = {}
    MaxRestarts = 0
    MaxErrors = 0
CHECK_DEADLOCK FALSE
INVARIANTS
    LiveHasFile
