SPECIFICATION FairSpec
CONSTANTS
    m1 = m1
    s1 = s1
    b1 = b1
    c1 = c1
    dynamic = dynamic
    None = None
    Models = {m1}
    Storages = {s1}
    Bindings = {b1}
    Claims = {c1}
    UniqueStorages = {}
    ModelSpecs = {dynamic}
    Dynamic = dynamic
    BindingSpecs <- DeletedBinding
    ModelOf <- ClaimModel
    BindingOf <- ClaimBindings
    ClaimSpecs <- DeletingClaim
    Settled = {m1, s1}
    Deletable = {m1, b1}
    Claimed = {m1}
    Manual = {m1}
    InitialBuckets = {}
    MaxClaimUid = 1
    MaxUid <- Once
PROPERTY ClaimDeletionCompletes
CHECK_DEADLOCK FALSE
