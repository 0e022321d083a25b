SPECIFICATION FairSpec
CONSTANTS
    h1 = h1
    h2 = h2
    h3 = h3
    n2 = n2
    n3 = n3
    HintIds = {h1, h2, h3}
    Targets = {n2, n3}
    TargetOf <- TwoTargets
    BatchSize = 1
    MaxBackoff = 2
    MaxAttempts = 1
    Keys = {"a", "b"}
    Paths = {"a", "b"}
    PathOf <- OwnPaths
    Partial = Partial
    NoFile = NoFile
    MaxCrashes = 1
    MaxRefusals = 1
CHECK_DEADLOCK FALSE
INVARIANTS
    PipelineTypeOK
    NoStarvation
    
PROPERTIES
    DeliveredWhenUp
    
