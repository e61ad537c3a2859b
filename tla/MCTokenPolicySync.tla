------------------------- MODULE MCTokenPolicySync -------------------------
(***************************************************************************)
(* Instances of TokenPolicySync for TLC.                                   *)
(***************************************************************************)
EXTENDS TokenPolicySync

CONSTANTS m1, c1, prod, dev, route

MCWindows == {"tokensPerMinute", "requestsPerMinute", "tokensPerDay"}

Q(tpm, rpm, tpd) ==
    [w \in MCWindows |-> CASE w = "tokensPerMinute" -> tpm
                           [] w = "requestsPerMinute" -> rpm
                           [] w = "tokensPerDay" -> tpd]

GW(type, target) == [type |-> type, target |-> target]
Envoy    == GW("EnvoyAIGateway", route)
Kuadrant == GW("Kuadrant", route)

R(name, action, cred) == [name |-> name, action |-> action, cred |-> cred]

CSpec(selector, quota, gateway) ==
    [namespaceSelector |-> selector, models |-> <<R(m1, "Allow", c1)>>, quota |-> quota,
     enforcement |-> "", gateway |-> gateway, defaultCred |-> NoCred]

TSpec(sas, models, quota, gateway) ==
    [selector |-> [serviceAccounts |-> sas, pods |-> AnyPod], priority |-> 0,
     models |-> models, quota |-> quota, enforcement |-> "", gateway |-> gateway]

MCClusterSpecs == {CSpec({prod}, Q(5, Unset, 8), Envoy)}

MCTokenSpecs ==
    {TSpec({}, <<>>, Q(3, 4, Unset), Kuadrant),
     TSpec({"sa"}, <<R(m1, "Deny", NoCred)>>, NoQuota, NoGateway)}

\* The same with an integration that lacks its target.
MCTokenSpecsInvalid ==
    MCTokenSpecs \cup {TSpec({"sa"}, <<>>, Q(2, Unset, Unset), GW("Kuadrant", NoTarget)),
                       TSpec({}, <<>>, NoQuota, GW("None", NoTarget)),
                       TSpec({}, <<>>, NoQuota, Envoy)}

=============================================================================
