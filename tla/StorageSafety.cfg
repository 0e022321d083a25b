SPECIFICATION Spec
CONSTANTS
    k1 = k1
    k2 = k2
    p1 = p1
    p2 = p2
    c1 = c1
    c2 = c2
    Keys = {k1, k2}
    Paths = {p1, p2}
    PathOf <- TwoPaths
    Clients = {c0}
    Jobs = {}
    Ops = {"put", "get", "verify", "delete", "copy"}
    Bytes = {a, b}
    NoFile = NoFile
    MaxVersion = 3
    MaxCrashes = 2
    MaxFailures = 0
    Parts = {1, 2}
    PartBytes = {a, b}
    Small = {b}
    Prior = Prior
    None = None
    Uploaders = {c1, c2}
    Sweepers = {j1}
    MaxRestarts = 1
    MaxErrors = 0
SYMMETRY Symmetry
CHECK_DEADLOCK FALSE
INVARIANTS
    LiveHasFile
    VerifiedMatches
    ObjectWhole
    PartsGone
PROPERTIES
    ImplementsObjectMap
