---------------------------- MODULE MCStatusSync ----------------------------
(***************************************************************************)
(* Instances of StatusSync for TLC.                                        *)
(***************************************************************************)
EXTENDS StatusSync

CONSTANTS m1, m2, c1, c2, prod

R(name, action, cred) == [name |-> name, action |-> action, cred |-> cred]

CSpec(selector, models) ==
    [namespaceSelector |-> selector, models |-> models, quota |-> NoQuota,
     enforcement |-> "", gateway |-> NoGateway, defaultCred |-> NoCred]

TSpec(sas, pods, models) ==
    [selector |-> [serviceAccounts |-> sas, pods |-> pods], priority |-> 0,
     models |-> models, quota |-> NoQuota, enforcement |-> "", gateway |-> NoGateway]

Claim(sas, labels, pods, models) ==
    [selector |-> [serviceAccounts |-> sas, matchLabels |-> labels, pods |-> pods],
     models |-> models]

Want(name, cred) == [name |-> name, cred |-> cred]

\* An allowlist for labelled namespaces; a selector that does not parse.
MCClusterSpecs ==
    {CSpec({prod}, <<R(m1, "Allow", NoCred)>>),
     CSpec({Malformed}, <<R(m2, "Deny", NoCred)>>)}

\* By service account, by pod label; a selector that does not parse.
MCTokenSpecs ==
    {TSpec({"sa2"}, AnyPod, <<R(m1, "Deny", NoCred)>>),
     TSpec({}, {"app"}, <<R(m1, "Allow", c1)>>),
     TSpec({"sa2"}, {Malformed}, <<R(m1, "Deny", NoCred)>>)}

MCClaimSpecs ==
    {Claim(<<"sa1", "sa2">>, NoLabels, AnyPod, <<Want(m1, c2)>>),
     Claim(<<>>, "app", {"app"}, <<Want(m1, c2), Want(m2, NoCred)>>)}

MCPods == [serviceAccount : {"sa1", "sa2", "other"}, label : {"app", NoLabels}]

=============================================================================
