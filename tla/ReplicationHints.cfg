SPECIFICATION Spec
CONSTANTS
    Primary = p
    Replicas = {r1, r2}
    W = 2
    R = 2
    Writers = {s1}
    Readers = {}
    Healers = {}
    Workers = {w1, w2}
    Bytes = {a, b}
    Tombstone = Tombstone
    NoBlob = NoBlob
    Nobody = Nobody
    MaxVersion = 2
    MaxFaults = 2
SYMMETRY Symmetry
CHECK_DEADLOCK FALSE
INVARIANTS
    HintCoverage
    StagedPayload
