SPECIFICATION Spec
CONSTANTS
    Primary = p
    Replicas = {r1, r2}
    W = 2
    R = 2
    Writers = {s1}
    Readers = {s2}
    Healers = {}
    Workers = {}
    Bytes = {a, b}
    Tombstone = Tombstone
    NoBlob = NoBlob
    Nobody = Nobody
    MaxVersion = 2
    MaxFaults = 1
SYMMETRY Symmetry
CHECK_DEADLOCK FALSE
INVARIANTS
    ReadFresh
PROPERTIES
    ImplementsObjectLog
