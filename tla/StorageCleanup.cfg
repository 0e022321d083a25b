SPECIFICATION FairSpec
CONSTANTS
    k1 = k1
    k2 = k2
    p1 = p1
    p2 = p2
    c1 = c1
    c2 = c2
    Keys = {k1}
    Paths = {p1}
    PathOf <- OneKey
    Clients = {c1, c2}
    Jobs = {j1}
    Ops = {"put", "delete"}
    Bytes = {a, b}
    NoFile = NoFile
    MaxVersion = 2
    MaxCrashes = 1
    MaxFailures = 1
    Parts = {1}
    PartBytes = {a}
    Small = {}
    Prior = Prior
    None = None
    Uploaders = {c1, c2}
    Sweepers = {j1}
    MaxRestarts = 1
    MaxErrors = 1
CHECK_DEADLOCK FALSE
INVARIANTS
    StorageTypeOK
PROPERTIES
    OrphansRemoved
    DamageReported
    LeftoversRemoved
