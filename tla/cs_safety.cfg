SPECIFICATION Spec
CONSTANTS
    n1 = n1
    n2 = n2
    l1 = l1
    s1 = s1
    s2 = s2
    k1 = k1
    k2 = k2
    v1 = v1
    v2 = v2
    Namespaces = {n1, n2}
    Labels = {l1}
    Specs <- ListAndSelector
    Secrets = {s1}
    Keys = {k1, k2}
    Values = {v1}
    Contents <- OneValue
    NoNamespace = NoNamespace
    SecretNotFound = SecretNotFound
    KeyMissing = KeyMissing
    None = None
    MaxChurn = 4
INVARIANTS TypeOK NeverForgotten StatusFitsSpec QuietMeansSynced
PROPERTY WrongPruneIsRepaired
CHECK_DEADLOCK FALSE
