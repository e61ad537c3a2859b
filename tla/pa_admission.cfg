SPECIFICATION Spec
CONSTANTS
    m1 = m1
    m2 = m2
    star = star
    c1 = c1
    c2 = c2
    prod = prod
    dev = dev
    e1 = e1
    e2 = e2
    main = main
    Sidecar = sidecar
    Containers = {main, sidecar}
    EnvNames = {e1, e2}
    CredNames = {c1, c2}
    Globs <- MCGlobs
    Windows = {}
    AnyPod = AnyPod
    NoIdentity = NoIdentity
    Unset = Unset
    NoQuota = NoQuota
    NoGateway = NoGateway
    NoCred = NoCred
    Absent = Absent
    Own = Own
    Malformed = Malformed
    ClusterSpecs <- MCClusterSpecs
    TokenSpecs <- MCTokenSpecs
    ClusterNames = {1}
    TokenNames = {1, 2}
    NsLabels = {prod, dev}
    Pods <- MCPods
    Names <- MCNames
    ClaimNames = {1, 2}
    ClaimSpecs <- MCClaimSpecs
    CredSpecs <- MCCredSpecs
    Worlds <- MCWorlds
    MaxEdits = 1
    MaxRequests = 2
INVARIANTS TypeOK VerdictFollowsPolicy CredentialsAreEarned EveryContainerServed
    RecordMatchesPod
PROPERTY InjectionOnlyAdds
CHECK_DEADLOCK FALSE
