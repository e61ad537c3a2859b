--------------------------- MODULE MCPodAdmission ---------------------------
(***************************************************************************)
(* Instances of PodAdmission for TLC: a few configurations of the API      *)
(* server, the edits that lead from one to another, and four pods.         *)
(***************************************************************************)
EXTENDS PodAdmission

CONSTANTS m1, m2, star, c1, c2, prod, dev, e1, e2, main

MCNames == {m1, m2}
MCGlobs == {<<star, m1>>, <<star, m2>>}

R(name, action, cred) == [name |-> name, action |-> action, cred |-> cred]
D(name, cred) == [name |-> name, cred |-> cred]
Sel(sas, pods) == [serviceAccounts |-> sas, pods |-> pods]

CSpec(selector, models, enforcement, cred) ==
    [namespaceSelector |-> selector, models |-> models, quota |-> NoQuota,
     enforcement |-> enforcement, gateway |-> NoGateway, defaultCred |-> cred]

TSpec(selector, models, enforcement) ==
    [selector |-> selector, priority |-> 0, models |-> models, quota |-> NoQuota,
     enforcement |-> enforcement, gateway |-> NoGateway]

AllowAll  == CSpec({prod}, <<R(star, "Allow", NoCred)>>, "", c1)
AuditOnly == CSpec({prod, dev}, <<R(m1, "Allow", NoCred)>>, "Audit", NoCred)
MCClusterSpecs == {AllowAll, AuditOnly}

OnlyM1   == TSpec(Sel({}, AnyPod), <<R(m1, "", c2)>>, "Enforce")
NoM2     == TSpec(Sel({"sa"}, AnyPod), <<R(m2, "Deny", NoCred)>>, "")
Disabled == TSpec(Sel({}, {"app"}), <<R(m1, "Allow", c2)>>, "Disabled")
MCTokenSpecs == {OnlyM1, NoM2, Disabled}

WantM1 == [selector |-> Sel({}, AnyPod), models |-> <<D(m1, c2), D(m1, c1)>>]
WantM2 == [selector |-> Sel({"sa"}, AnyPod), models |-> <<D(m2, c1), D(m1, NoCred)>>]
MCClaimSpecs == {WantM1, WantM2}

Cred(allowed, selector, mode, env) ==
    [allowed |-> allowed, selector |-> selector, mode |-> mode, env |-> env]

EnvKey  == Cred(TRUE, {}, "Env", e1)
ProdKey == Cred(FALSE, {prod}, "Env", e2)
Mounted == Cred(FALSE, {prod}, "ProjectedVolume", e1)
NotInjected == Cred(TRUE, {}, "None", e1)
MCCredSpecs == {EnvKey, ProdKey, Mounted, NotInjected}

W(cl, to, label, cms, cr1, cr2, ex) ==
    [cluster |-> cl, tokens |-> to, nsLabel |-> label, claims |-> cms,
     creds |-> (c1 :> cr1) @@ (c2 :> cr2), exempt |-> ex]

MCWorlds ==
    {W(1 :> AllowAll, <<>>, prod, 1 :> WantM1, EnvKey, ProdKey, FALSE),
     W(1 :> AllowAll, 1 :> OnlyM1, prod, <<>>, EnvKey, Mounted, FALSE),
     W(1 :> AuditOnly, (1 :> OnlyM1) @@ (2 :> NoM2), dev, 1 :> WantM2, Mounted, EnvKey, FALSE),
     W(1 :> AuditOnly, 1 :> NoM2, prod, (1 :> WantM2) @@ (2 :> WantM1), EnvKey, EnvKey, FALSE),
     W(<<>>, (1 :> NoM2) @@ (2 :> Disabled), prod, 1 :> WantM2, ProdKey, Mounted, FALSE),
     W(<<>>, <<>>, dev, 1 :> WantM1, EnvKey, NotInjected, FALSE),
     W(1 :> AllowAll, 1 :> OnlyM1, prod, 1 :> WantM1, EnvKey, Absent, TRUE)}

Pod(sa, label, models, optOut, own) ==
    [serviceAccount |-> sa, label |-> label, models |-> models, optOut |-> optOut,
     containers |-> {main}, volumes |-> {}, bound |-> {}, policies |-> {},
     env |-> [k \in Containers |-> [e \in EnvNames |->
                 IF k = main /\ e \in own THEN Own ELSE NoCred]],
     mounts |-> [k \in Containers |-> {}]]

MCPods ==
    {Pod("sa", "app", <<>>, FALSE, {}),
     Pod("sa", "none", <<m2, Malformed>>, FALSE, {e1}),
     Pod("other", "app", <<m1, m2>>, FALSE, {e2}),
     Pod("other", "none", <<m1>>, TRUE, {})}

=============================================================================
