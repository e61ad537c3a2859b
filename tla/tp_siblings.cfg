SPECIFICATION Spec
CONSTANTS
    m1 = m1
    c1 = c1
    prod = prod
    dev = dev
    route = route
    Globs = {}
    Windows <- MCWindows
    AnyPod = AnyPod
    NoIdentity = NoIdentity
    Unset = Unset
    NoQuota = NoQuota
    NoGateway = NoGateway
    NoCred = NoCred
    NoTarget = NoTarget
    NoArtifact = NoArtifact
    NoPolicy = NoPolicy
    ClusterSpecs <- MCClusterSpecs
    ClusterNames = {1}
    TokenNames = {1, 2}
    NsLabels = {prod, dev}
    Pods = {}
    Names = {m1}
    TokenSpecs <- MCTokenSpecs
    MaxChurn = 3
INVARIANT EffectiveQuotaIsResolved
CHECK_DEADLOCK FALSE
