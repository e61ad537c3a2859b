SPECIFICATION Spec
CONSTANTS
    m1 = m1
    m2 = m2
    c1 = c1
    c2 = c2
    prod = prod
    Globs = {}
    Windows = {}
    AnyPod = AnyPod
    NoIdentity = NoIdentity
    Unset = Unset
    NoQuota = NoQuota
    NoGateway = NoGateway
    NoCred = NoCred
    NoTarget = NoTarget
    Malformed = Malformed
    NoObject = NoObject
    NoLabels = NoLabels
    Absent = Absent
    ClusterSpecs <- MCClusterSpecs
    TokenSpecs <- MCTokenSpecs
    ClaimSpecs <- MCClaimSpecs
    ClusterNames = {1}
    TokenNames = {1}
    ClaimNames = {1}
    Namespaces = {1, 2}
    Home = 1
    NsLabels = {prod}
    Pods <- MCPods
    Names = {m1, m2}
    MaxChurn = 2
INVARIANTS TypeOK ValidatedMeansResolvable PreviewAgreesWithAdmission WarningsComeTrue
PROPERTIES ClusterStatusIsLevelTriggered ClaimStatusIsLevelTriggered WritesSubside
CHECK_DEADLOCK FALSE
