-------------------------- MODULE MCPolicyHierarchy --------------------------
(***************************************************************************)
(* Instances of PolicyHierarchy for TLC: a handful of specs that overlap,  *)
(* contradict and leave fields unset in every combination that matters.    *)
(***************************************************************************)
EXTENDS PolicyHierarchy

CONSTANTS m1, m2, star, tpm, rpm, c0, c1, c2, c3, g1, g2, prod, dev

MCNames == {m1, m2}
MCGlobs == {<<star, m1>>, <<star, m2>>}
MCWindows == {tpm, rpm}

R(name, action, cred) == [name |-> name, action |-> action, cred |-> cred]
Q(t, r) == (tpm :> t) @@ (rpm :> r)

CSpec(selector, models, quota, enforcement, gateway, cred) ==
    [namespaceSelector |-> selector, models |-> models, quota |-> quota,
     enforcement |-> enforcement, gateway |-> gateway, defaultCred |-> cred]

MCClusterSpecs ==
    {CSpec({prod, dev}, <<R(star, "", NoCred)>>, NoQuota, "Audit", NoGateway, c0),
     CSpec({prod}, <<R(m2, "Deny", NoCred)>>, Q(5, Unset), "", g1, NoCred),
     CSpec({prod}, <<R(m1, "Allow", c1)>>, Q(3, 7), "Enforce", NoGateway, c1)}

TSpec(sas, pods, priority, models, quota, enforcement, gateway) ==
    [selector |-> [serviceAccounts |-> sas, pods |-> pods],
     priority |-> priority, models |-> models, quota |-> quota,
     enforcement |-> enforcement, gateway |-> gateway]

MCTokenSpecs ==
    {TSpec({}, AnyPod, 0, <<R(star, "Allow", NoCred)>>, Q(2, Unset), "", NoGateway),
     TSpec({}, AnyPod, 1, <<R(m1, "", c2)>>, NoQuota, "Disabled", g2),
     TSpec({"sa"}, AnyPod, 1, <<R(star, "Allow", NoCred), R(m1, "Allow", c2), R(m2, "", NoCred)>>,
           Q(Unset, 6), "", g1),
     TSpec({}, {"app"}, 2, <<R(m1, "Allow", c3)>>, Q(9, 1), "Enforce", NoGateway),
     TSpec({"sa"}, {"app"}, 0, <<R(m1, "Allow", c0), R(m2, "Deny", NoCred)>>,
           NoQuota, "Audit", g2)}

MCPods == [serviceAccount : {"sa", "other"}, label : {"app", "none"}]

=============================================================================
