SPECIFICATION Spec
CONSTANTS
    Primary = p
    Replicas = {r1}
    W = 1
    R = 2
    Writers = {s1}
    Readers = {}
    Healers = {g1}
    Workers = {w1}
    Bytes = {a, b}
    Tombstone = Tombstone
    NoBlob = NoBlob
    Nobody = Nobody
    MaxVersion = 2
    MaxFaults = 2
SYMMETRY Symmetry
CHECK_DEADLOCK FALSE
INVARIANTS
    PrimaryNewest
    VersionUnique
