SPECIFICATION WorkSpec
CONSTANTS
    m1 = m1
    m2 = m2
    s1 = s1
    s2 = s2
    b1 = b1
    b2 = b2
    v1 = v1
    v2 = v2
    None = None
    Models = {m1}
    Storages = {s1, s2}
    Bindings = {b1}
    UniqueStorages = {}
    ModelSpecs = {v1}
    BindingSpecs <- AddSource
    Settled = {m1, s1, s2}
    Deletable = {}
    Claimed = {}
    InitialBuckets <- SourceBucket
    MaxUid <- Once
PROPERTY BoundBucketStays
