SPECIFICATION ClaimsSpec
CONSTANTS
    m1 = m1
    s1 = s1
    b1 = b1
    c1 = c1
    dynamic = dynamic
    None = None
    Models = {m1}
    Storages = {s1}
    Bindings = {b1}
    Claims = {c1}
    UniqueStorages = {}
    ModelSpecs = {dynamic}
    Dynamic = dynamic
    BindingSpecs <- RetainedBinding
    ModelOf <- ClaimModel
    BindingOf <- ClaimBindings
    ClaimSpecs <- RetainedClaim
    Settled = {m1, s1}
    Deletable = {m1, b1}
    Claimed = {m1}
    Manual = {m1}
    InitialBuckets = {}
    MaxClaimUid = 2
    MaxUid <- Twice
ACTION_CONSTRAINT IdleFirst
INVARIANT UnclaimedWhenReleased
PROPERTIES ReadyClaimKeepsModel ClaimLifecycle
