SPECIFICATION FairSpec
CONSTANTS
    Primary = p
    Replicas = {r1, r2}
    W = 2
    R = 2
    Writers = {s1}
    Readers = {}
    Healers = {}
    Workers = {w1}
    Bytes = {a}
    Tombstone = Tombstone
    NoBlob = NoBlob
    Nobody = Nobody
    MaxVersion = 2
    MaxFaults = 1
CHECK_DEADLOCK FALSE
PROPERTIES
    AckedReachesAll
