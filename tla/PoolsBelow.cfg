SPECIFICATION Spec
CONSTANTS
    Threads = {t1, t2}
    Ids = {o1, o2}
    Pools = {p1, p2}
    MaxRefs = 2
    MaxEntries = 2
    AnyPool = TRUE
    Elements = {"k1", "k2", "c"}
    Stored = {"k1"}
    IsEqual <- SomeEqual
    HashOf <- SomeHash
    Hashes = {1, 2}
    Kinds = {"array", "dictionary", "set", "cf_plain", "cf_types"}
    MaxItems = 2
    MaxHeld = 1
    MaxLeaks = 1
    BatchLen = 1
    Observers = {o1, o2}
    Names = {n1, n2}
    Posters = {q1}
    MaxRegistered = 2
    MaxNested = 2
    Units = {"u1", "u2"}
    MaxSources = 2
    MaxInLoop = 2
    MaxNow = 1
    MaxFrames = 1
    Parts = {"objects"}
INVARIANTS
    PoolsAboveGo
