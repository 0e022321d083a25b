SPECIFICATION FairSpec
CONSTANTS
    n2 = n2
    n3 = n3
    Nodes = {"A", "B", "C"}
    Keys = {"k1", "k2"}
    Values = {"v1"}
    None = None
    Views <- ThreeViews
    Ops = {"put", "get", "delete", "batch", "copy"}
    MaxRequests = 3
    MaxBreaks = 1
    Members = {1, 2, 3, 4}
    MaxCreates = 2
    MaxDeletes = 1
    MaxDrops = 1
    PeerList <- TwoPeers
    CfgFail = 0
    CfgRecover = 0
    CountCap = 3
    NoPeer = NoPeer
CHECK_DEADLOCK FALSE
INVARIANTS
    ReadsExplained
    OnlyPrimaryStores
    OneCreateSpreads
PROPERTIES
    ImplementsDetector
    RequestAnswered
    CreateAnswered
    ChangesNoticed
