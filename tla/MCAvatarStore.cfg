CONSTANTS
    a = a
    b = b
    c = c
    d = d
    Workers = {1, 2}
    MaximumPrepared = 2
    MaximumAvatars = 3
    MaxPermits = 3
    Urls = {a, b, c, d}
    Snapshots <- MCSnapshots
    StoredCaches <- MCStoredCaches
    None = None
    MaxLoads = 2
SPECIFICATION FairSpec
INVARIANTS
    NoLostWakeup
    FacesAreOfSnapshot
    EveryFaceAccountedFor
PROPERTIES
    FacesSettle
    ShutdownEnds
