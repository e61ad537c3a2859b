------------------------------ MODULE Resolver ------------------------------
(***************************************************************************)
(* The policy resolver (internal/policy/resolver.go): how the cluster,     *)
(* namespace-default and workload-scoped policies of a scope combine into  *)
(* one effective decision. Pure operators, in the order of the code's own  *)
(* loops; PolicyHierarchy drives them and says what they must compute.     *)
(*                                                                         *)
(* A policy is a record [name, spec]; names are compared, so they are      *)
(* numbers. Every spec has models (a sequence of rules), quota,            *)
(* enforcement and gateway. A cluster policy's also has namespaceSelector, *)
(* the set of namespace labels it matches (all of them when nil),          *)
(* and defaultCred. A token policy's also has priority and selector, a     *)
(* record of the service accounts and the pod labels it asks for.          *)
(*                                                                         *)
(* A provider/model pair, or a pattern for such pairs, is one name. Names  *)
(* that globMatch's ToLower and TrimSpace make equal are one name.         *)
(***************************************************************************)
EXTENDS Integers, Sequences, SequencesExt

CONSTANTS
    Globs,      \* pairs <<pattern, name>> that path.Match accepts
    Windows,    \* the fields of TokenQuota
    AnyPod,     \* a nil podSelector, or one without requirements
    NoIdentity, \* no pod labels and no service account are supplied
    Unset,      \* a nil quota field
    NoQuota,    \* a nil TokenQuota
    NoGateway,  \* a nil GatewayIntegration
    NoCred      \* no credentialRef

-----------------------------------------------------------------------------
(* What the schema of the policies admits *)

\* An action left out is stored as empty when the default does not apply.
PermissionAction == {"", "Allow", "Deny"}

TokenQuota == [Windows -> Nat \cup {Unset}]

ASSUME NilAssumption == Unset \notin Nat /\ NoQuota \notin TokenQuota

PolicySpec(spec) ==
    /\ spec.models \in Seq({r \in ToSet(spec.models) : r.action \in PermissionAction})
    /\ spec.quota \in TokenQuota \cup {NoQuota}

TokenPolicySpec(spec) == PolicySpec(spec) /\ spec.priority \in Int

-----------------------------------------------------------------------------
(* One tier *)

normAction(a) == IF a = "" THEN "Allow" ELSE a

modelMatches(rule, m) == rule.name = m \/ <<rule.name, m>> \in Globs

\* An explicit Deny wins; else the first matching Allow supplies the
\* credential; else an allowlist denies by omission and a pure denylist
\* permits.
evalTier(rules, m) ==
    LET Acts(act, r) == normAction(r.action) = act
        Hits(act, r) == Acts(act, r) /\ modelMatches(r, m)
        deny     == SelectInSeq(rules, LAMBDA r : Hits("Deny", r))
        allow    == SelectInSeq(rules, LAMBDA r : Hits("Allow", r))
        hasAllow == \E i \in DOMAIN rules : Acts("Allow", rules[i])
    IN  IF rules = <<>> THEN [decision |-> "Abstain", cred |-> NoCred]
        ELSE IF deny # 0 THEN [decision |-> "Deny", cred |-> NoCred]
        ELSE IF allow # 0
             THEN [decision |-> "Allow", cred |-> rules[allow].cred]
        ELSE [decision |-> IF hasAllow THEN "Deny" ELSE "Allow", cred |-> NoCred]

-----------------------------------------------------------------------------
(* Which policies apply, and in which order *)

byName(a, b) == a.name < b.name

\* Mutant: highest priority first.
byPriorityDescending(a, b) ==
    \/ a.spec.priority > b.spec.priority
    \/ a.spec.priority = b.spec.priority /\ a.name < b.name

\* Ascending: the highest priority is applied last.
byPriority(a, b) ==
    \/ a.spec.priority < b.spec.priority
    \/ a.spec.priority = b.spec.priority /\ a.name < b.name

\* What sort.Slice leaves behind when no two elements are tied.
Sorted(S, less(_, _)) ==
    CHOOSE s \in SetToSeqs(S) : \A i, j \in DOMAIN s : i < j => less(s[i], s[j])

sortByName(policies) == Sorted(policies, byName)

sortByPriority(policies) == Sorted(policies, byPriority)

IsEmpty(sel) == sel.serviceAccounts = {} /\ sel.pods = AnyPod

\* Mutant: the service-account list is not looked at.
workloadMatchesPodsOnly(sel, pod) == sel.pods = AnyPod \/ pod.label \in sel.pods

workloadMatches(sel, pod) ==
    /\ sel.serviceAccounts # {} => pod.serviceAccount \in sel.serviceAccounts
    /\ sel.pods # AnyPod => pod.label \in sel.pods

clusterMatched(clusterPolicies, nsLabel) ==
    sortByName({p \in clusterPolicies : nsLabel \in p.spec.namespaceSelector})

nsDefaults(policies) == sortByPriority({p \in policies : IsEmpty(p.spec.selector)})

\* Without a pod identity no workload-scoped policy is considered.
wlMatched(policies, pod) ==
    sortByPriority({p \in policies : /\ ~IsEmpty(p.spec.selector)
                                     /\ pod # NoIdentity
                                     /\ workloadMatches(p.spec.selector, pod)})

-----------------------------------------------------------------------------
(* Combining the tiers *)

\* Mutant: a nil field wins over a set one.
minPtrNil(a, b) == IF a = Unset \/ b = Unset THEN Unset ELSE IF a <= b THEN a ELSE b

minPtr(a, b) ==
    IF a = Unset THEN b
    ELSE IF b = Unset \/ a <= b THEN a
    ELSE b

minQuota(a, b) ==
    IF a = NoQuota THEN b
    ELSE IF b = NoQuota THEN a
    ELSE [w \in Windows |-> minPtr(a[w], b[w])]

\* The rules of a tier, in the order its policies are applied.
Rules(policies) == FlattenSeq([i \in DOMAIN policies |-> policies[i].spec.models])

\* A scalar field: every policy that sets it overwrites what came before.
Overwrite(policies, Field(_), unset, initial) ==
    FoldLeft(LAMBDA acc, p : IF Field(p) = unset THEN acc ELSE Field(p),
             initial, policies)

enforcementOf(policies) == Overwrite(policies, LAMBDA p : p.spec.enforcement, "", "Enforce")

gatewayOf(policies) == Overwrite(policies, LAMBDA p : p.spec.gateway, NoGateway, NoGateway)

defaultCredOf(policies) == Overwrite(policies, LAMBDA p : p.spec.defaultCred, NoCred, NoCred)

quotaOf(policies) ==
    FoldLeft(LAMBDA acc, p : minQuota(acc, p.spec.quota), NoQuota, policies)

\* Effective.Sources: the policies that contribute rules or a quota.
Sources(kind, policies) ==
    {<<kind, p.name>> : p \in {q \in ToSet(policies) : \/ q.spec.models # <<>>
                                                     \/ q.spec.quota # NoQuota}}

\* The Effective built from the matched policies of the three tiers.
Combine(cluster, ns, wl) ==
    LET applied == cluster \o ns \o wl
    IN  [governed      |-> applied # <<>>,
         modelGoverned |-> Rules(applied) # <<>>,
         enforcement   |-> enforcementOf(applied),
         gateway       |-> gatewayOf(applied),
         quota         |-> quotaOf(applied),
         defaultCred   |-> defaultCredOf(cluster),
         cluster       |-> Rules(cluster),
         ns            |-> Rules(ns),
         wl            |-> Rules(wl),
         sources       |-> Sources("ClusterTokenPolicy", cluster)
                               \cup Sources("TokenPolicy", ns \o wl)]

\* (Sets with one element name the tiers, so that TLC selects them once.)
Resolve(clusterPolicies, policies, nsLabel, pod) ==
    CHOOSE eff \in {Combine(cluster, ns, wl) :
                      cluster \in {clusterMatched(clusterPolicies, nsLabel)},
                      ns \in {nsDefaults(policies)},
                      wl \in {wlMatched(policies, pod)}} : TRUE

\* Mutant: a workload-scoped target is folded into the namespace tier.
ResolveForPolicyWrongTier(clusterPolicies, policies, nsLabel, target) ==
    Combine(clusterMatched(clusterPolicies, nsLabel),
            nsDefaults({p \in policies : p.name # target.name}) \o <<target>>,
            <<>>)

\* The scope of one policy, for its status: a namespace default is resolved
\* with the other defaults; a workload policy alone forms the workload tier.
ResolveForPolicy(clusterPolicies, policies, nsLabel, target) ==
    LET rest == {p \in policies : p.name # target.name}
    IN  IF IsEmpty(target.spec.selector)
           THEN Resolve(clusterPolicies, rest \cup {target}, nsLabel, NoIdentity)
           ELSE Combine(clusterMatched(clusterPolicies, nsLabel),
                        nsDefaults(rest), <<target>>)

\* Mutant: the cluster tier's verdict is forgotten.
PermitWithoutCluster(eff, m) ==
    LET dc == evalTier(eff.cluster, m)
        dn == evalTier(eff.ns, m)
        dw == evalTier(eff.wl, m)
        tiers == <<dw, dn, dc>>
        named == SelectInSeq(tiers, LAMBDA d : d.cred # NoCred)
    IN  IF "Deny" \in {dn.decision, dw.decision}
           THEN [allowed |-> FALSE, cred |-> NoCred]
           ELSE [allowed |-> TRUE,
                 cred |-> IF named = 0 THEN eff.defaultCred ELSE tiers[named].cred]

\* Mutant: the broadest tier's credential wins.
PermitBroadestCredential(eff, m) ==
    LET dc == evalTier(eff.cluster, m)
        dn == evalTier(eff.ns, m)
        dw == evalTier(eff.wl, m)
        tiers == <<dc, dn, dw>>
        named == SelectInSeq(tiers, LAMBDA d : d.cred # NoCred)
    IN  IF "Deny" \in {dc.decision, dn.decision, dw.decision}
           THEN [allowed |-> FALSE, cred |-> NoCred]
           ELSE [allowed |-> TRUE,
                 cred |-> IF named = 0 THEN eff.defaultCred ELSE tiers[named].cred]

\* Any tier's Deny wins. The credential is the narrowest tier's, else the
\* cluster default.
Permit(eff, m) ==
    LET dc == evalTier(eff.cluster, m)
        dn == evalTier(eff.ns, m)
        dw == evalTier(eff.wl, m)
        tiers == <<dw, dn, dc>>
        named == SelectInSeq(tiers, LAMBDA d : d.cred # NoCred)
    IN  IF "Deny" \in {dc.decision, dn.decision, dw.decision}
           THEN [allowed |-> FALSE, cred |-> NoCred]
           ELSE [allowed |-> TRUE,
                 cred |-> IF named = 0 THEN eff.defaultCred ELSE tiers[named].cred]

\* What status lists: every name an Allow rule of the hierarchy mentions, a
\* pattern included, with the verdict on it. Order and source are left out.
EffectiveModels(eff) ==
    LET rules == ToSet(eff.cluster \o eff.ns \o eff.wl)
    IN  {[name |-> r.name, allowed |-> Permit(eff, r.name).allowed,
          cred |-> Permit(eff, r.name).cred] :
            r \in {x \in rules : normAction(x.action) = "Allow"}}

=============================================================================
