SPECIFICATION FairSpec
CONSTANTS
    b1 = b1
    b2 = b2
    s = s
    t1 = t1
    t2 = t2
    m = m
    n = n
    Bindings = {b1, b2}
    Storages = {s, t1, t2}
    Names = {m, n}
    Specs <- Pairs
    InitialBuckets <- Sources
    Objects = {1}
    Versions = {1, 2}
    MaxFails = 1
    Recreated <- Again
    Open <- Writable
    None = None
INVARIANTS Inv BoundIsSynced GoneIsUnsynced PushedBeforeRemoved BoundHasService
PROPERTY DeletedBucketsGo
CHECK_DEADLOCK FALSE
