SPECIFICATION Spec
CONSTANTS
    m1 = m1
    m2 = m2
    star = star
    tpm = tpm
    rpm = rpm
    c0 = c0
    c1 = c1
    c2 = c2
    c3 = c3
    g1 = g1
    g2 = g2
    prod = prod
    dev = dev
    Globs <- MCGlobs
    Windows <- MCWindows
    AnyPod = AnyPod
    NoIdentity = NoIdentity
    Unset = Unset
    NoQuota = NoQuota
    NoGateway = NoGateway
    NoCred = NoCred
    ClusterSpecs <- MCClusterSpecs
    TokenSpecs <- MCTokenSpecs
    ClusterNames = {1, 2}
    TokenNames = {1, 2, 3}
    NsLabels = {prod, dev}
    Pods <- MCPods
    Names <- MCNames
INVARIANT HighestPriorityCredential
