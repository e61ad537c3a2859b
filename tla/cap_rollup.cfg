SPECIFICATION Spec
CONSTANTS
    tpm = tpm
    rpm = rpm
    ClusterNames = {1}
    TokenNames = {2, 3}
    Windows <- MCWindows
    Quotas <- MCQuotas
    PolicySpecs <- MCPolicySpecs
    Unset = Unset
    NoQuota = NoQuota
    Absent = Absent
    MaxInt = 63
    MaxChurn = 4
INVARIANT AccurateWhenFresh
PROPERTY RollupConverges
