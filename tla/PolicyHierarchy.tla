-------------------------- MODULE PolicyHierarchy --------------------------
(***************************************************************************)
(* The policies that govern one namespace, as administrators write them,   *)
(* and what the resolver must make of them at every moment. The state is   *)
(* what the API server stores (ClusterTokenPolicies, the namespace's       *)
(* TokenPolicies, the namespace's label); the resolver keeps no state.     *)
(*                                                                         *)
(* The properties compare Resolver's loops with definitions that speak of  *)
(* the stored policies only: no sorting, no folding, no tiers of rules.    *)
(***************************************************************************)
EXTENDS Resolver, FiniteSets, FiniteSetsExt

CONSTANTS
    ClusterSpecs,   \* contents of a cluster policy, all fields but name
    TokenSpecs,     \* contents of a token policy, all fields but name
    ClusterNames,   \* names of cluster policies
    TokenNames,     \* names of token policies
    NsLabels,       \* labels the namespace may have
    Pods,           \* identities a pod may have: [serviceAccount, label]
    Names           \* provider/model names a workload may ask for

ASSUME NamesAssumption == ClusterNames \subseteq Nat /\ TokenNames \subseteq Nat
ASSUME IdentityAssumption == NoIdentity \notin Pods
ASSUME SchemaAssumption ==
    /\ \A spec \in ClusterSpecs : PolicySpec(spec)
    /\ \A spec \in TokenSpecs : TokenPolicySpec(spec)
    /\ ClusterSpecs \cap TokenSpecs = {}

VARIABLES
    cluster,    \* name -> spec, for the existing ClusterTokenPolicies
    tokens,     \* name -> spec, for the existing TokenPolicies
    nsLabel     \* label of the namespace

vars == <<cluster, tokens, nsLabel>>

\* The objects of a store.
Named(store) == {[name |-> n, spec |-> store[n]] : n \in DOMAIN store}

Put(store, n, spec) == [m \in DOMAIN store \cup {n} |-> IF m = n THEN spec ELSE store[m]]

Drop(store, n) == [m \in DOMAIN store \ {n} |-> store[m]]

Init ==
    /\ cluster = <<>>
    /\ tokens = <<>>
    /\ nsLabel \in NsLabels

ApplyCluster(n, spec) ==
    /\ cluster' = Put(cluster, n, spec)
    /\ UNCHANGED <<tokens, nsLabel>>

DeleteCluster(n) ==
    /\ n \in DOMAIN cluster
    /\ cluster' = Drop(cluster, n)
    /\ UNCHANGED <<tokens, nsLabel>>

ApplyToken(n, spec) ==
    /\ tokens' = Put(tokens, n, spec)
    /\ UNCHANGED <<cluster, nsLabel>>

DeleteToken(n) ==
    /\ n \in DOMAIN tokens
    /\ tokens' = Drop(tokens, n)
    /\ UNCHANGED <<cluster, nsLabel>>

Relabel(l) ==
    /\ l # nsLabel
    /\ nsLabel' = l
    /\ UNCHANGED <<cluster, tokens>>

Next ==
    \/ \E n \in ClusterNames : DeleteCluster(n) \/ \E s \in ClusterSpecs : ApplyCluster(n, s)
    \/ \E n \in TokenNames : DeleteToken(n) \/ \E s \in TokenSpecs : ApplyToken(n, s)
    \/ \E l \in NsLabels : Relabel(l)

Spec == Init /\ [][Next]_vars

Effective(pod) == Resolve(Named(cluster), Named(tokens), nsLabel, pod)

EffectiveOf(n) ==
    ResolveForPolicy(Named(cluster), Named(tokens), nsLabel, [name |-> n, spec |-> tokens[n]])

\* What the webhook warns of, given the effective policy of the others.
WarnedRules(n, base) ==
    {r \in ToSet(tokens[n].models) :
        base.modelGoverned /\ r.action # "Deny" /\ ~Permit(base, r.name).allowed}

\* Mutant: the labels of another namespace are used.
hierarchyWarningsMislabelled(n) ==
    WarnedRules(n, Resolve(Named(cluster), Named(Drop(tokens, n)),
                           CHOOSE l \in NsLabels : l # nsLabel, NoIdentity))

\* The rules of token policy n of which its author is told that they are
\* already denied by a broader scope.
hierarchyWarnings(n) ==
    WarnedRules(n, Resolve(Named(cluster), Named(Drop(tokens, n)), nsLabel, NoIdentity))

-----------------------------------------------------------------------------
(* What the documents promise, in terms of the stored policies *)

\* The three tiers that apply to a pod, broad to narrow, as sets of policies.
ClusterTier == {p \in Named(cluster) : nsLabel \in p.spec.namespaceSelector}

Untargeted(spec) == spec.selector.serviceAccounts = {} /\ spec.selector.pods = AnyPod

Targets(spec, pod) ==
    /\ spec.selector.serviceAccounts = {} \/ pod.serviceAccount \in spec.selector.serviceAccounts
    /\ spec.selector.pods = AnyPod \/ pod.label \in spec.selector.pods

NamespaceTier == {p \in Named(tokens) : Untargeted(p.spec)}

WorkloadTier(pod) == {p \in Named(tokens) : ~Untargeted(p.spec) /\ Targets(p.spec, pod)}

Applicable(pod) == ClusterTier \cup NamespaceTier \cup WorkloadTier(pod)

\* The rules of a tier, and those that speak of model m.
RulesFor(tier, m) == {r \in UNION {ToSet(p.spec.models) : p \in tier} : modelMatches(r, m)}

AllRules(tier) == UNION {ToSet(p.spec.models) : p \in tier}

Allows(r) == r.action # "Deny"

\* DESIGN.md:86-92: an explicit deny, or an allowlist the model is not on.
Refuses(tier, m) ==
    \/ \E r \in RulesFor(tier, m) : ~Allows(r)
    \/ /\ \E r \in AllRules(tier) : Allows(r)
       /\ ~\E r \in RulesFor(tier, m) : Allows(r)

\* Narrow, never widen: Permit admits a model exactly when no tier of the
\* pod refuses it, whatever mix of allowlists, denylists and rule-less
\* policies, in whatever order they were created.
PermitIsConjunction ==
    \A pod \in Pods, m \in Names :
        Permit(Effective(pod), m).allowed <=>
            \A tier \in {ClusterTier, NamespaceTier, WorkloadTier(pod)} :
                ~Refuses(tier, m)

\* The loop over minQuota yields, for every window, the smallest limit any
\* applicable policy sets; a policy without a limit never lifts another's.
QuotaIsTightest ==
    \A pod \in Pods, w \in Windows :
        LET limits == {p.spec.quota[w] : p \in {q \in Applicable(pod) : q.spec.quota # NoQuota}}
                          \ {Unset}
            quota  == Effective(pod).quota
        IN  IF limits = {} THEN quota = NoQuota \/ quota[w] = Unset
                           ELSE quota # NoQuota /\ quota[w] = Min(limits)

\* p overrules q: a narrower tier, then a higher priority, then a later name.
Overrules(p, q, pod) ==
    LET Rank(x) == IF x \in WorkloadTier(pod) THEN 2
                   ELSE IF x \in NamespaceTier THEN 1 ELSE 0
    IN  \/ Rank(p) > Rank(q)
        \/ /\ Rank(p) = Rank(q)
           /\ \/ Rank(p) > 0 /\ p.spec.priority > q.spec.priority
              \/ (Rank(p) > 0 => p.spec.priority = q.spec.priority) /\ p.name > q.name

\* DESIGN.md:102,105-106: the enforcement mode and the gateway come from the
\* most specific policy that sets them, the highest priority among equals;
\* without one the mode is Enforce and there is no gateway.
ScalarsFromMostSpecific ==
    \A pod \in Pods :
        LET eff == Effective(pod)
            Decisive(S, p) == p \in S /\ \A q \in S \ {p} : Overrules(p, q, pod)
            modes    == {p \in Applicable(pod) : p.spec.enforcement # ""}
            gateways == {p \in Applicable(pod) : p.spec.gateway # NoGateway}
        IN  /\ IF modes = {} THEN eff.enforcement = "Enforce"
               ELSE \E p \in modes : Decisive(modes, p) /\ eff.enforcement = p.spec.enforcement
            /\ IF gateways = {} THEN eff.gateway = NoGateway
               ELSE \E p \in gateways : Decisive(gateways, p) /\ eff.gateway = p.spec.gateway

\* The credentials a tier's Allow rules name for a model, NoCred included.
Credentials(tier, m) == {r.cred : r \in {x \in RulesFor(tier, m) : Allows(x)}}

\* DESIGN.md:103-104. A permitted model is given the credential of the
\* narrowest tier that names one, where that tier is unanimous; when no tier
\* names any it is given the cluster default; and a credential is never given
\* on behalf of a policy that does not apply to the pod.
CredentialIsNarrowest ==
    \A pod \in Pods, m \in Names :
        LET perm     == Permit(Effective(pod), m)
            tiers    == <<WorkloadTier(pod), NamespaceTier, ClusterTier>>
            cred(i)  == Credentials(tiers[i], m)
            defaults == {p \in ClusterTier : p.spec.defaultCred # NoCred}
            Default  == CHOOSE p \in defaults : \A q \in defaults : p.name >= q.name
        IN  perm.allowed =>
              /\ \A i \in 1..3 :
                    /\ Cardinality(cred(i)) = 1
                    /\ cred(i) # {NoCred}
                    /\ \A j \in 1..(i - 1) : cred(j) \subseteq {NoCred}
                    => perm.cred \in cred(i)
              /\ (\A i \in 1..3 : cred(i) \subseteq {NoCred}) =>
                    perm.cred = IF defaults = {} THEN NoCred
                                                 ELSE Default.spec.defaultCred
              /\ perm.cred = NoCred
                 \/ perm.cred \in UNION {cred(i) : i \in 1..3}
                 \/ perm.cred \in {p.spec.defaultCred : p \in ClusterTier}

\* The two entry points agree: what ResolveForPolicy writes into a policy's
\* status is what Resolve decides at admission for a pod to which no other
\* workload-scoped policy applies.
StatusAgreesWithAdmission ==
    \A n \in DOMAIN tokens, pod \in Pods :
        WorkloadTier(pod) = {p \in Named(tokens) : p.name = n /\ ~Untargeted(p.spec)}
            => EffectiveOf(n) = Effective(pod)

\* The TokenPolicy webhook warns of a rule by resolving the other policies for
\* no workload in particular, and admission resolves all of them for one: a
\* model a workload-scoped policy is told it cannot have is refused to every
\* pod, targeted or not. (A second namespace default may widen the first, and
\* the refusal of a pattern says nothing of the names it matches.)
WarnedRulesAreDead ==
    \A n \in DOMAIN tokens : ~Untargeted(tokens[n]) =>
        \A r \in {x \in hierarchyWarnings(n) : x.name \in Names}, pod \in Pods :
            ~Permit(Effective(pod), r.name).allowed

\* Blast radius: writing or deleting a workload-scoped policy, under any name,
\* changes nothing for the pods that neither its old nor its new selector
\* targets.
WorkloadEditsAreLocal ==
    [][\A n \in TokenNames, pod \in Pods :
          LET Scoped(store) ==
                n \in DOMAIN store => /\ ~Untargeted(store[n])
                                      /\ ~Targets(store[n], pod)
          IN  /\ cluster' = cluster /\ nsLabel' = nsLabel
              /\ \A k \in TokenNames \ {n} :
                    /\ (k \in DOMAIN tokens) <=> (k \in DOMAIN tokens')
                    /\ k \in DOMAIN tokens => tokens'[k] = tokens[k]
              /\ Scoped(tokens) /\ Scoped(tokens')
              => Effective(pod)' = Effective(pod)]_vars

-----------------------------------------------------------------------------
(* Promises the code does not keep *)

\* tokenpolicy_types.go:34-35: "Priority resolves overlapping policies that
\* target the same workload; the highest value wins." When the credential is
\* that of a workload policy, no policy of higher priority names another one.
HighestPriorityCredential ==
    \A pod \in Pods, m \in Names :
        LET perm == Permit(Effective(pod), m)
            Named1(p) == Credentials({p}, m) \ {NoCred}
        IN  \A p, q \in WorkloadTier(pod) :
              perm.allowed /\ p.spec.priority > q.spec.priority /\ Named1(q) = {perm.cred}
                  => Named1(p) \subseteq {perm.cred}

=============================================================================
