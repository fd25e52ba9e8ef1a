SPECIFICATION ClaimsSpec
CONSTANTS
    m1 = m1
    s1 = s1
    b1 = b1
    c1 = c1
    dynamic = dynamic
    None = None
    Models = {m1}
    Storages = {s1}
    Bindings = {b1}
    Claims = {c1}
    UniqueStorages = {}
    ModelSpecs = {dynamic}
    Dynamic = dynamic
    BindingSpecs <- DeletedBinding
    ModelOf <- ClaimModel
    BindingOf <- ClaimBindings
    ClaimSpecs <- MovingClaim
    Settled = {s1}
    Deletable = {m1, b1}
    Claimed = {m1}
    Manual = {}
    InitialBuckets = {}
    MaxClaimUid = 1
    MaxUid <- Once
ACTION_CONSTRAINT IdleFirst
INVARIANTS ClaimInv ClaimWorkIsProtected
PROPERTY StorageSpec
