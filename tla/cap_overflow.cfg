SPECIFICATION Spec
CONSTANTS
    tpm = tpm
    rpm = rpm
    ClusterNames = {1}
    TokenNames = {2, 3}
    Windows <- MCWindows
    Quotas <- MCQuotas
    PolicySpecs <- MCPolicySpecs
    Unset = Unset
    NoQuota = NoQuota
    Absent = Absent
    MaxInt = 7
    MaxChurn = 3
INVARIANT OversubscriptionIsReported
