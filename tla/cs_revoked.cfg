SPECIFICATION Spec
CONSTANTS
    n1 = n1
    n2 = n2
    l1 = l1
    s1 = s1
    s2 = s2
    k1 = k1
    k2 = k2
    v1 = v1
    v2 = v2
    Namespaces = {n1}
    Labels = {l1}
    Specs <- GrantAndRevoke
    Secrets = {s1, s2}
    Keys = {k1, k2}
    Values = {v1, v2}
    Contents <- TwoValues
    NoNamespace = NoNamespace
    SecretNotFound = SecretNotFound
    KeyMissing = KeyMissing
    None = None
    MaxChurn = 3
PROPERTY RevokedReplicasPruned
CHECK_DEADLOCK FALSE
