------------------------ MODULE PolicyHierarchyProofs ------------------------
(***************************************************************************)
(* Theorems about PolicyHierarchy, for any names, specs, labels, pods and  *)
(* models: the resolver keeps, in every set of stored policies, each       *)
(* promise that a run of PolicyHierarchy checks and finds kept.            *)
(***************************************************************************)
EXTENDS PolicyHierarchy, ResolverProofs

\* What every edit preserves, and all that the resolver needs: finitely many
\* policies, which the API server admitted.
Stored ==
    /\ StoreOK(cluster, ClusterNames, ClusterSpecs)
    /\ StoreOK(tokens, TokenNames, TokenSpecs)
    /\ nsLabel \in NsLabels

\* Applying a policy keeps a store a store,
LEMMA PutOK ==
  ASSUME NEW store, NEW names, NEW specs, StoreOK(store, names, specs),
         NEW n \in names, NEW spec \in specs
  PROVE  StoreOK(Put(store, n, spec), names, specs)
BY StoreExtended DEF Put

\* and so does deleting one.
LEMMA DropOK ==
  ASSUME NEW store, NEW names, NEW specs, StoreOK(store, names, specs), NEW n
  PROVE  StoreOK(Drop(store, n), names, specs)
BY StoreReduced DEF Drop

\* Hence the stores are stores at every moment.
LEMMA StoredInvariant == Spec => []Stored
<1>1. Init => Stored BY StoreEmpty DEF Init, Stored
<1>2. Stored /\ [Next]_vars => Stored'
  <2> SUFFICES ASSUME Stored, [Next]_vars PROVE Stored'
    OBVIOUS
  <2>1. ASSUME NEW n \in ClusterNames, DeleteCluster(n) PROVE Stored'
    BY <2>1, DropOK DEF DeleteCluster, Stored
  <2>2. ASSUME NEW n \in ClusterNames, NEW s \in ClusterSpecs, ApplyCluster(n, s) PROVE Stored'
    BY <2>2, PutOK DEF ApplyCluster, Stored
  <2>3. ASSUME NEW n \in TokenNames, DeleteToken(n) PROVE Stored'
    BY <2>3, DropOK DEF DeleteToken, Stored
  <2>4. ASSUME NEW n \in TokenNames, NEW s \in TokenSpecs, ApplyToken(n, s) PROVE Stored'
    BY <2>4, PutOK DEF ApplyToken, Stored
  <2>5. ASSUME NEW l \in NsLabels, Relabel(l) PROVE Stored'
    BY <2>5 DEF Relabel, Stored
  <2>6. CASE UNCHANGED vars BY <2>6 DEF vars, Stored
  <2> QED BY <2>1, <2>2, <2>3, <2>4, <2>5, <2>6 DEF Next
<1> QED BY <1>1, <1>2, PTL DEF Spec

\* What the resolver lists are then policies.
LEMMA StoredPolicies ==
  ASSUME Stored
  PROVE  Policies(Named(cluster), Named(tokens))
<1>1. Listed(Named(cluster)) /\ \A p \in Named(cluster) : p.spec \in ClusterSpecs
  BY NamesAssumption, StoreListed DEF Stored, Named
<1>2. Listed(Named(tokens)) /\ \A p \in Named(tokens) : p.spec \in TokenSpecs
  BY NamesAssumption, StoreListed DEF Stored, Named
<1> QED BY <1>1, <1>2, SchemaAssumption DEF Policies

\* The tiers of the documents are the sets that the resolver selects.
LEMMA SameTiers ==
  /\ ClusterTier = MatchingPolicies(Named(cluster), nsLabel)
  /\ NamespaceTier = DefaultPolicies(Named(tokens))
  /\ \A pod \in Pods : WorkloadTier(pod) = WorkloadPolicies(Named(tokens), pod)
<1>1. \A spec : Untargeted(spec) <=> IsEmpty(spec.selector) BY DEF Untargeted, IsEmpty
<1>2. \A spec, pod : Targets(spec, pod) <=> workloadMatches(spec.selector, pod)
  BY DEF Targets, workloadMatches
<1> QED BY <1>1, <1>2, IdentityAssumption
        DEF ClusterTier, MatchingPolicies, NamespaceTier, DefaultPolicies,
            WorkloadTier, WorkloadPolicies

\* A tier refuses a model exactly when its rules forbid it.
LEMMA RefusesIsForbids ==
  ASSUME NEW tier, NEW m
  PROVE  Refuses(tier, m) <=> Forbids(RulesOf(tier), m)
BY DEF Refuses, Forbids, RulesFor, AllRules, Allows, RulesOf

\* Narrow, never widen: in every set of stored policies, Permit allows a model
\* to a pod exactly when none of the three tiers that apply to it refuses the
\* model.
THEOREM PermitIsConjunctionHolds == Spec => []PermitIsConjunction
<1>1. ASSUME Stored PROVE PermitIsConjunction
  <2> SUFFICES ASSUME NEW pod \in Pods, NEW m \in Names
               PROVE  Permit(Effective(pod), m).allowed <=>
                        \A tier \in {ClusterTier, NamespaceTier, WorkloadTier(pod)} :
                           ~Refuses(tier, m)
    BY DEF PermitIsConjunction
  <2>1. Policies(Named(cluster), Named(tokens)) BY <1>1, StoredPolicies
  <2>2. Permit(Effective(pod), m).allowed <=>
             /\ ~Forbids(RulesOf(ClusterTier), m)
             /\ ~Forbids(RulesOf(NamespaceTier), m)
             /\ ~Forbids(RulesOf(WorkloadTier(pod)), m)
    BY <2>1, SameTiers, ResolvedVerdict DEF Effective
  <2> QED BY <2>2, RefusesIsForbids
<1> QED BY <1>1, StoredInvariant, PTL

\* The objects of a store, and of a store without one of them.
LEMMA NamedOf ==
  ASSUME NEW store, NEW n
  PROVE  /\ Named(Drop(store, n)) = {p \in Named(store) : p.name # n}
         /\ \A p \in Named(store) : p.name \in DOMAIN store /\ p.spec = store[p.name]
         /\ \A k \in DOMAIN store : [name |-> k, spec |-> store[k]] \in Named(store)
BY DEF Named, Drop

\* A model of which hierarchyWarnings tells the author of a workload-scoped
\* policy that a broader scope denies it is refused to every pod of the
\* namespace.
THEOREM WarnedRulesAreDeadHolds == Spec => []WarnedRulesAreDead
<1>1. ASSUME Stored PROVE WarnedRulesAreDead
  <2> SUFFICES ASSUME NEW n \in DOMAIN tokens, ~Untargeted(tokens[n]),
                      NEW r \in hierarchyWarnings(n), NEW pod \in Pods
               PROVE  ~Permit(Effective(pod), r.name).allowed
    BY DEF WarnedRulesAreDead
  <2> DEFINE C == Named(cluster)
             T == Named(tokens)
             others == Named(Drop(tokens, n))
             m == r.name
  <2>1. ~Permit(Resolve(C, others, nsLabel, NoIdentity), m).allowed
    BY DEF hierarchyWarnings, WarnedRules
  <2>2. Policies(C, T) BY <1>1, StoredPolicies
  <2>3. Policies(C, others)
    <3>1. others \in SUBSET T BY NamedOf
    <3> HIDE DEF others, T, C
    <3> QED BY <3>1, <2>2, ListedSubset DEF Policies
  <2>4. DefaultPolicies(others) = DefaultPolicies(T)
    <3>1. \A p \in T : p.name = n => ~IsEmpty(p.spec.selector)
      BY NamedOf DEF Untargeted, IsEmpty
    <3>2. others = {p \in T : p.name # n} BY NamedOf
    <3> HIDE DEF others, T
    <3> QED BY <3>1, <3>2 DEF DefaultPolicies
  <2>5. ~Forbids(RulesOf(WorkloadPolicies(others, NoIdentity)), m)
    BY DEF WorkloadPolicies, RulesOf, Forbids
  <2> HIDE DEF C, T, others, m
  <2>6. \/ Forbids(RulesOf(MatchingPolicies(C, nsLabel)), m)
        \/ Forbids(RulesOf(DefaultPolicies(T)), m)
    BY <2>1, <2>3, <2>4, <2>5, ResolvedVerdict
  <2> QED BY <2>2, <2>6, ResolvedVerdict DEF Effective, C, T, m
<1> QED BY <1>1, StoredInvariant, PTL

\* ResolveForPolicy, which writes status, and Resolve, which decides at
\* admission, return the same for a pod to which no other workload-scoped
\* policy applies.
THEOREM StatusAgreesWithAdmissionHolds == Spec => []StatusAgreesWithAdmission
<1>1. ASSUME Stored PROVE StatusAgreesWithAdmission
  <2> SUFFICES ASSUME NEW n \in DOMAIN tokens, NEW pod \in Pods,
                      WorkloadTier(pod) = {p \in Named(tokens) : p.name = n /\ ~Untargeted(p.spec)}
               PROVE  EffectiveOf(n) = Effective(pod)
    BY DEF StatusAgreesWithAdmission
  <2> DEFINE C == Named(cluster)
             T == Named(tokens)
             target == [name |-> n, spec |-> tokens[n]]
             rest == {p \in T : p.name # n}
  <2>1. Policies(C, T) BY <1>1, StoredPolicies
  <2>2. target \in T /\ \A p \in T : p.name = n => p = target
    <3>1. target \in T /\ target.name = n BY NamedOf
    <3> HIDE DEF target, T
    <3> QED BY <3>1, <2>1 DEF Policies, Listed
  <2>3. rest \cup {target} = T
    <3> HIDE DEF target, T
    <3> QED BY <2>2
  <2>4. wlMatched(T, pod) = sortByPriority({p \in {target} : ~IsEmpty(p.spec.selector)})
    <3>1. wlMatched(T, pod) = sortByPriority(WorkloadPolicies(T, pod))
      BY DEF wlMatched, WorkloadPolicies
    <3>2. WorkloadPolicies(T, pod) = {p \in T : p.name = n /\ ~IsEmpty(p.spec.selector)}
      BY SameTiers DEF Untargeted, IsEmpty
    <3>3. {p \in T : p.name = n /\ ~IsEmpty(p.spec.selector)}
            = {p \in {target} : ~IsEmpty(p.spec.selector)}
      <4>1. target.name = n OBVIOUS
      <4> HIDE DEF target, T
      <4> QED BY <2>2, <4>1
    <3> QED BY <3>1, <3>2, <3>3
  <2>5. EffectiveOf(n) = IF IsEmpty(target.spec.selector)
                            THEN Resolve(C, rest \cup {target}, nsLabel, NoIdentity)
                            ELSE Combine(clusterMatched(C, nsLabel), nsDefaults(rest), <<target>>)
    BY DEF EffectiveOf, ResolveForPolicy
  <2>6. Effective(pod) = Combine(clusterMatched(C, nsLabel), nsDefaults(T), wlMatched(T, pod))
    BY ResolveIsCombine DEF Effective
  <2>7. CASE IsEmpty(target.spec.selector)
    <3>1. wlMatched(T, NoIdentity) = sortByPriority({})
      <4>1. {p \in T : /\ ~IsEmpty(p.spec.selector)
                       /\ NoIdentity # NoIdentity
                       /\ workloadMatches(p.spec.selector, NoIdentity)} = {}
        OBVIOUS
      <4> QED BY <4>1 DEF wlMatched
    <3>2. wlMatched(T, pod) = sortByPriority({})
      <4>1. {p \in {target} : ~IsEmpty(p.spec.selector)} = {} BY <2>7
      <4> QED BY <2>4, <4>1
    <3> HIDE DEF target, T, C, rest
    <3>3. EffectiveOf(n) = Resolve(C, T, nsLabel, NoIdentity) BY <2>3, <2>5, <2>7
    <3> QED BY <3>1, <3>2, <3>3, <2>6, ResolveIsCombine
  <2>8. CASE ~IsEmpty(target.spec.selector)
    <3> HIDE DEF target
    <3>1. nsDefaults(rest) = nsDefaults(T)
      <4>1. {p \in rest : IsEmpty(p.spec.selector)} = {p \in T : IsEmpty(p.spec.selector)}
        BY <2>2, <2>8
      <4> QED BY <4>1 DEF nsDefaults
    <3>2. wlMatched(T, pod) = <<target>>
      <4>1. {p \in {target} : ~IsEmpty(p.spec.selector)} = {target} BY <2>8
      <4>2. target.name \in Nat /\ target.spec.priority \in Int
        BY <2>1, <2>2 DEF Policies, Listed, TokenPolicySpec
      <4> QED BY <2>4, <4>1, <4>2, SortSingleton
    <3> HIDE DEF T, C, rest
    <3> QED BY <3>1, <3>2, <2>5, <2>6, <2>8
  <2> QED BY <2>7, <2>8
<1> QED BY <1>1, StoredInvariant, PTL

\* Two stores that agree but for entries that are neither defaults nor for the
\* pod resolve to the same decision for it.
LEMMA SameTokens ==
  ASSUME NEW T, NEW U, NEW C, NEW l, NEW pod,
         DefaultPolicies(T) = DefaultPolicies(U),
         WorkloadPolicies(T, pod) = WorkloadPolicies(U, pod)
  PROVE  Resolve(C, T, l, pod) = Resolve(C, U, l, pod)
<1>1. nsDefaults(T) = nsDefaults(U) BY DEF nsDefaults, DefaultPolicies
<1>2. wlMatched(T, pod) = wlMatched(U, pod) BY DEF wlMatched, WorkloadPolicies
<1> QED BY <1>1, <1>2, ResolveIsCombine

\* Writing or deleting a workload-scoped policy changes no decision about a pod
\* that neither its old nor its new selector targets.
THEOREM WorkloadEditsAreLocalHolds == Spec => WorkloadEditsAreLocal
<1> DEFINE Local ==
      \A n \in TokenNames, pod \in Pods :
          LET Scoped(store) ==
                n \in DOMAIN store => /\ ~Untargeted(store[n])
                                      /\ ~Targets(store[n], pod)
          IN  /\ cluster' = cluster /\ nsLabel' = nsLabel
              /\ \A k \in TokenNames \ {n} :
                    /\ (k \in DOMAIN tokens) <=> (k \in DOMAIN tokens')
                    /\ k \in DOMAIN tokens => tokens'[k] = tokens[k]
              /\ Scoped(tokens) /\ Scoped(tokens')
              => Effective(pod)' = Effective(pod)
<1>1. ASSUME Stored, Stored' PROVE Local
  <2> SUFFICES ASSUME NEW n \in TokenNames, NEW pod \in Pods,
                      cluster' = cluster, nsLabel' = nsLabel,
                      \A k \in TokenNames \ {n} :
                         /\ (k \in DOMAIN tokens) <=> (k \in DOMAIN tokens')
                         /\ k \in DOMAIN tokens => tokens'[k] = tokens[k],
                      n \in DOMAIN tokens => /\ ~Untargeted(tokens[n])
                                             /\ ~Targets(tokens[n], pod),
                      n \in DOMAIN tokens' => /\ ~Untargeted(tokens'[n])
                                              /\ ~Targets(tokens'[n], pod)
               PROVE  Effective(pod)' = Effective(pod)
    OBVIOUS
  <2> DEFINE T == Named(tokens)
             U == Named(tokens')
  <2>1. \A spec : /\ Untargeted(spec) <=> IsEmpty(spec.selector)
                  /\ Targets(spec, pod) <=> workloadMatches(spec.selector, pod)
    BY DEF Untargeted, IsEmpty, Targets, workloadMatches
  <2>2. DOMAIN tokens \subseteq TokenNames /\ DOMAIN tokens' \subseteq TokenNames
    BY <1>1 DEF Stored, StoreOK
  <2>3. \A p : p.name # n => (p \in T <=> p \in U)
    BY <2>2 DEF Named
  <2>4. \A p \in T \cup U : p.name = n => /\ ~IsEmpty(p.spec.selector)
                                          /\ ~workloadMatches(p.spec.selector, pod)
    BY <2>1 DEF Named
  <2> HIDE DEF T, U
  <2>5. DefaultPolicies(T) = DefaultPolicies(U) BY <2>3, <2>4 DEF DefaultPolicies
  <2>6. WorkloadPolicies(T, pod) = WorkloadPolicies(U, pod) BY <2>3, <2>4 DEF WorkloadPolicies
  <2> QED BY <2>5, <2>6, SameTokens DEF Effective, T, U
<1>2. Spec => [][Local]_vars BY <1>1, StoredInvariant, PTL DEF Spec
<1> QED BY <1>2 DEF WorkloadEditsAreLocal

-----------------------------------------------------------------------------
(* Quotas, scalars and credentials *)

\* The policies of a pod, in the order in which they are applied.
Applied(pod) ==
    clusterMatched(Named(cluster), nsLabel) \o nsDefaults(Named(tokens))
        \o wlMatched(Named(tokens), pod)

\* They are the applicable ones, and what Resolve returns is computed from
\* them.
LEMMA AppliedIsApplicable ==
  ASSUME Stored, NEW pod \in Pods
  PROVE  /\ Applied(pod) \in Seq(Named(cluster) \cup Named(tokens))
         /\ ToSet(Applied(pod)) = Applicable(pod)
         /\ Effective(pod).quota = quotaOf(Applied(pod))
         /\ Effective(pod).enforcement = enforcementOf(Applied(pod))
         /\ Effective(pod).gateway = gatewayOf(Applied(pod))
         /\ Effective(pod).governed = (Applied(pod) # <<>>)
         /\ Effective(pod).defaultCred = defaultCredOf(clusterMatched(Named(cluster), nsLabel))
<1>1. /\ Applied(pod) \in Seq(Named(cluster) \cup Named(tokens))
      /\ ToSet(Applied(pod)) = Applicable(pod)
  <2> DEFINE C == Named(cluster)
             T == Named(tokens)
  <2>1. Policies(C, T) BY StoredPolicies
  <2> HIDE DEF C, T
  <2>2. /\ clusterMatched(C, nsLabel) \o nsDefaults(T) \o wlMatched(T, pod) \in Seq(C \cup T)
        /\ ToSet(clusterMatched(C, nsLabel) \o nsDefaults(T) \o wlMatched(T, pod))
              = MatchingPolicies(C, nsLabel) \cup DefaultPolicies(T) \cup WorkloadPolicies(T, pod)
    BY <2>1, AppliedPolicies
  <2> QED BY <2>2, SameTiers DEF Applied, Applicable, C, T
<1> QED BY <1>1, ResolveIsCombine, CombineFields DEF Effective, Applied

\* The loop over minQuota yields, for every window, the smallest limit that any
\* applicable policy sets.
THEOREM QuotaIsTightestHolds == Spec => []QuotaIsTightest
<1>1. ASSUME Stored PROVE QuotaIsTightest
  <2> SUFFICES ASSUME NEW pod \in Pods, NEW w \in Windows
               PROVE  LET quota == Effective(pod).quota
                      IN  IF Limits(Applicable(pod), w) = {}
                             THEN quota = NoQuota \/ quota[w] = Unset
                             ELSE quota # NoQuota /\ quota[w] = Min(Limits(Applicable(pod), w))
    BY DEF QuotaIsTightest, Limits
  <2> DEFINE quota == Effective(pod).quota
             L == Limits(Applicable(pod), w)
             S == Named(cluster) \cup Named(tokens)
  <2>1. \A p \in S : p.spec.quota \in TokenQuota \cup {NoQuota}
    BY <1>1, StoredPolicies DEF Policies, PolicySpec, TokenPolicySpec
  <2>2. Applied(pod) \in Seq(S) /\ ToSet(Applied(pod)) = Applicable(pod)
        /\ quota = quotaOf(Applied(pod))
    BY <1>1, AppliedIsApplicable
  <2>3. Applicable(pod) \subseteq S BY <2>2, ToSetTyped
  <2>4. L \subseteq Nat BY <2>1, <2>3, NilAssumption DEF Limits, TokenQuota
  <2> HIDE DEF S, quota, L
  <2>5. Tightest(quota, Applicable(pod), w) BY <2>1, <2>2, QuotaOf
  <2>6. IF L = {} THEN quota = NoQuota \/ quota[w] = Unset
        ELSE /\ quota # NoQuota
             /\ quota[w] \in L
             /\ \A x \in L : quota[w] <= x
    BY <2>5 DEF Tightest, L
  <2>7. L # {} => Min(L) = quota[w]
    <3> SUFFICES ASSUME L # {} PROVE Min(L) = quota[w] OBVIOUS
    <3>1. Min(L) \in L /\ \A y \in L : Min(L) <= y BY <2>4, MinOf
    <3>2. quota[w] \in L /\ quota[w] <= Min(L) /\ Min(L) <= quota[w] BY <3>1, <2>6
    <3>3. quota[w] \in Nat /\ Min(L) \in Nat BY <3>1, <3>2, <2>4
    <3> QED BY <3>2, <3>3
  <2> QED BY <2>6, <2>7 DEF quota, L
<1> QED BY <1>1, StoredInvariant, PTL

\* Every element of s is an element of a, b or c, at its place in their
\* concatenation.
InParts(s, a, b, c) ==
    \A i \in 1..Len(s) :
        \/ i \in 1..Len(a) /\ s[i] = a[i]
        \/ \E k \in 1..Len(b) : i = Len(a) + k /\ s[i] = b[k]
        \/ \E k \in 1..Len(c) : i = Len(a) + Len(b) + k /\ s[i] = c[k]

\* So it is: the loops run over the tiers one after the other.
LEMMA ConcatIndices ==
  ASSUME NEW S, NEW a \in Seq(S), NEW b \in Seq(S), NEW c \in Seq(S)
  PROVE  InParts(a \o b \o c, a, b, c)
<1> SUFFICES ASSUME NEW i \in 1..Len(a \o b \o c)
             PROVE  \/ i \in 1..Len(a) /\ (a \o b \o c)[i] = a[i]
                    \/ \E k \in 1..Len(b) : i = Len(a) + k /\ (a \o b \o c)[i] = b[k]
                    \/ \E k \in 1..Len(c) : i = Len(a) + Len(b) + k /\ (a \o b \o c)[i] = c[k]
  BY DEF InParts
<1>1. /\ Len(a) \in Nat /\ Len(b) \in Nat /\ Len(c) \in Nat
      /\ Len(a \o b) = Len(a) + Len(b) /\ a \o b \in Seq(S)
      /\ Len(a \o b \o c) = Len(a) + Len(b) + Len(c)
  OBVIOUS
<1>2. CASE i <= Len(a)
  BY <1>1, <1>2
<1>3. CASE i > Len(a) /\ i <= Len(a) + Len(b)
  <2>1. i - Len(a) \in 1..Len(b) /\ i = Len(a) + (i - Len(a)) BY <1>1, <1>3
  <2>2. (a \o b \o c)[i] = (a \o b)[i] BY <1>1, <1>3
  <2>3. (a \o b)[i] = b[i - Len(a)] BY <1>1, <1>3
  <2> QED BY <2>1, <2>2, <2>3
<1>4. CASE i > Len(a) + Len(b)
  <2> DEFINE k == i - (Len(a) + Len(b))
  <2>1. k \in 1..Len(c) /\ i = Len(a) + Len(b) + k BY <1>1, <1>4
  <2>2. (a \o b \o c)[i] = c[k] BY <1>1, <1>4
  <2> QED BY <2>1, <2>2
<1> QED BY <1>1, <1>2, <1>3, <1>4

\* A policy that is applied later overrules one that is applied earlier.
LEMMA AppliedOrder ==
  ASSUME Stored, NEW pod \in Pods
  PROVE  \A i, j \in 1..Len(Applied(pod)) :
            i < j => Overrules(Applied(pod)[j], Applied(pod)[i], pod)
<1> DEFINE C == Named(cluster)
           T == Named(tokens)
           a == clusterMatched(C, nsLabel)
           b == nsDefaults(T)
           c == wlMatched(T, pod)
           S == C \cup T
<1>1. Policies(C, T) BY StoredPolicies
<1>2. /\ ClusterTier = MatchingPolicies(C, nsLabel)
      /\ NamespaceTier = DefaultPolicies(T)
      /\ WorkloadTier(pod) = WorkloadPolicies(T, pod)
  BY SameTiers
<1>3. /\ \A p \in ClusterTier : p \notin NamespaceTier /\ p \notin WorkloadTier(pod)
      /\ \A p \in NamespaceTier : p \notin WorkloadTier(pod)
  <2>1. \A p \in C : p.spec \in ClusterSpecs BY NamesAssumption, StoreListed DEF Stored, Named
  <2>2. \A p \in T : p.spec \in TokenSpecs BY NamesAssumption, StoreListed DEF Stored, Named
  <2> HIDE DEF C, T
  <2>3. C \cap T = {} BY <2>1, <2>2, SchemaAssumption
  <2> QED BY <2>3, <1>2 DEF MatchingPolicies, DefaultPolicies, WorkloadPolicies
<1> HIDE DEF C, T
<1>4. /\ a \in Seq(S) /\ \A i \in 1..Len(a) : a[i] \in ClusterTier
      /\ \A i, j \in 1..Len(a) : i < j => byName(a[i], a[j])
  <2>1. a \in Seq(ClusterTier) BY <1>1, <1>2, MatchedTiers
  <2>2. ClusterTier \subseteq S BY <1>2 DEF MatchingPolicies
  <2>3. Listed(ClusterTier) BY <1>1, <1>2, ListedSubset DEF MatchingPolicies, Policies
  <2>4. a = sortByName(ClusterTier) BY <1>2 DEF clusterMatched, MatchingPolicies
  <2> HIDE DEF a, S
  <2> QED BY <2>1, <2>2, <2>3, <2>4, SortByName, SeqSubset
<1>5. /\ b \in Seq(S) /\ \A i \in 1..Len(b) : b[i] \in NamespaceTier
      /\ \A i, j \in 1..Len(b) : i < j => byPriority(b[i], b[j])
  <2>1. b \in Seq(NamespaceTier) BY <1>1, <1>2, MatchedTiers
  <2>2. NamespaceTier \subseteq S BY <1>2 DEF DefaultPolicies
  <2>3. Listed(NamespaceTier) /\ \A p \in NamespaceTier : p.spec.priority \in Int
    BY <1>1, <1>2, ListedSubset DEF DefaultPolicies, Policies, TokenPolicySpec
  <2>4. b = sortByPriority(NamespaceTier) BY <1>2 DEF nsDefaults, DefaultPolicies
  <2> HIDE DEF b, S
  <2> QED BY <2>1, <2>2, <2>3, <2>4, SortByPriority, SeqSubset
<1>6. /\ c \in Seq(S) /\ \A i \in 1..Len(c) : c[i] \in WorkloadTier(pod)
      /\ \A i, j \in 1..Len(c) : i < j => byPriority(c[i], c[j])
  <2>1. c \in Seq(WorkloadTier(pod)) BY <1>1, <1>2, MatchedTiers
  <2>2. WorkloadTier(pod) \subseteq S BY <1>2 DEF WorkloadPolicies
  <2>3. Listed(WorkloadTier(pod)) /\ \A p \in WorkloadTier(pod) : p.spec.priority \in Int
    BY <1>1, <1>2, ListedSubset DEF WorkloadPolicies, Policies, TokenPolicySpec
  <2>4. c = sortByPriority(WorkloadTier(pod)) BY <1>2 DEF wlMatched, WorkloadPolicies
  <2> HIDE DEF c, S
  <2> QED BY <2>1, <2>2, <2>3, <2>4, SortByPriority, SeqSubset
<1>7. \A p \in S : p.name \in Nat BY <1>1 DEF Policies, Listed
<1>8. \A p \in T : p.spec.priority \in Int BY <1>1 DEF Policies, TokenPolicySpec
<1>9. /\ \A p \in NamespaceTier \cup WorkloadTier(pod) : p \in T
      /\ \A p \in ClusterTier : p \in C
  BY <1>2 DEF MatchingPolicies, DefaultPolicies, WorkloadPolicies
<1>10. Applied(pod) = a \o b \o c BY DEF Applied, C, T
<1> DEFINE Rank(x) == IF x \in WorkloadTier(pod) THEN 2
                      ELSE IF x \in NamespaceTier THEN 1 ELSE 0
<1>11. ASSUME NEW p, NEW q, Rank(p) > Rank(q) PROVE Overrules(p, q, pod)
  BY <1>11 DEF Overrules
<1>12. ASSUME NEW p \in ClusterTier, NEW q \in ClusterTier, byName(q, p)
       PROVE  Overrules(p, q, pod)
  <2>1. Rank(p) = 0 /\ Rank(q) = 0 BY <1>3
  <2>2. p.name > q.name BY <1>12, <1>7, <1>9 DEF byName, S
  <2> QED BY <2>1, <2>2 DEF Overrules
<1>13. ASSUME NEW p \in T, NEW q \in T, Rank(p) = Rank(q), Rank(p) > 0, byPriority(q, p)
       PROVE  Overrules(p, q, pod)
  <2>1. \/ p.spec.priority > q.spec.priority
        \/ p.spec.priority = q.spec.priority /\ p.name > q.name
    BY <1>13, <1>7, <1>8 DEF byPriority, S
  <2> QED BY <2>1, <1>13 DEF Overrules
<1>14. /\ \A p \in ClusterTier : Rank(p) = 0
       /\ \A p \in NamespaceTier : Rank(p) = 1
       /\ \A p \in WorkloadTier(pod) : Rank(p) = 2
  BY <1>3
<1> HIDE DEF a, b, c, S, Rank
<1> SUFFICES ASSUME NEW i \in 1..Len(a \o b \o c), NEW j \in 1..Len(a \o b \o c), i < j
             PROVE  Overrules((a \o b \o c)[j], (a \o b \o c)[i], pod)
  BY <1>10
<1>15. Len(a) \in Nat /\ Len(b) \in Nat /\ Len(c) \in Nat /\ i \in Nat /\ j \in Nat
  BY <1>4, <1>5, <1>6
<1>0. \A x \in 1..Len(a \o b \o c) :
          \/ x \in 1..Len(a) /\ (a \o b \o c)[x] = a[x]
          \/ \E k \in 1..Len(b) : x = Len(a) + k /\ (a \o b \o c)[x] = b[k]
          \/ \E k \in 1..Len(c) : x = Len(a) + Len(b) + k /\ (a \o b \o c)[x] = c[k]
  <2>1. a \in Seq(S) /\ b \in Seq(S) /\ c \in Seq(S) BY <1>4, <1>5, <1>6
  <2>2. InParts(a \o b \o c, a, b, c) BY ONLY <2>1, ConcatIndices
  <2> QED BY ONLY <2>2 DEF InParts
<1> DEFINE p == (a \o b \o c)[j]
           q == (a \o b \o c)[i]
<1>16. \/ j \in 1..Len(a) /\ p = a[j]
       \/ \E k \in 1..Len(b) : j = Len(a) + k /\ p = b[k]
       \/ \E k \in 1..Len(c) : j = Len(a) + Len(b) + k /\ p = c[k]
  BY <1>0
<1>17. \/ i \in 1..Len(a) /\ q = a[i]
       \/ \E k \in 1..Len(b) : i = Len(a) + k /\ q = b[k]
       \/ \E k \in 1..Len(c) : i = Len(a) + Len(b) + k /\ q = c[k]
  BY <1>0
<1> HIDE DEF p, q
<1>18. CASE j \in 1..Len(a) /\ p = a[j]
  <2>1. i \in 1..Len(a) /\ q = a[i] BY <1>15, <1>17, <1>18
  <2>2. p \in ClusterTier /\ q \in ClusterTier /\ byName(q, p) BY <2>1, <1>18, <1>4
  <2> QED BY <2>2, <1>12 DEF p, q
<1>19. CASE \E k \in 1..Len(b) : j = Len(a) + k /\ p = b[k]
  <2> PICK k \in 1..Len(b) : j = Len(a) + k /\ p = b[k] BY <1>19
  <2>1. p \in NamespaceTier /\ Rank(p) = 1 BY <1>5, <1>14
  <2>2. CASE i \in 1..Len(a) /\ q = a[i]
    <3>1. Rank(q) = 0 BY <2>2, <1>4, <1>14
    <3> QED BY <2>1, <3>1, <1>11 DEF p, q
  <2>3. CASE \E h \in 1..Len(b) : i = Len(a) + h /\ q = b[h]
    <3> PICK h \in 1..Len(b) : i = Len(a) + h /\ q = b[h] BY <2>3
    <3>1. h < k BY <1>15
    <3>2. byPriority(q, p) /\ q \in NamespaceTier /\ Rank(q) = 1 BY <3>1, <1>5, <1>14
    <3> QED BY <2>1, <3>2, <1>9, <1>13 DEF p, q
  <2> QED BY <2>2, <2>3, <1>15, <1>17
<1>20. CASE \E k \in 1..Len(c) : j = Len(a) + Len(b) + k /\ p = c[k]
  <2> PICK k \in 1..Len(c) : j = Len(a) + Len(b) + k /\ p = c[k] BY <1>20
  <2>1. p \in WorkloadTier(pod) /\ Rank(p) = 2 BY <1>6, <1>14
  <2>2. CASE i \in 1..Len(a) /\ q = a[i]
    <3>1. Rank(q) = 0 BY <2>2, <1>4, <1>14
    <3> QED BY <2>1, <3>1, <1>11 DEF p, q
  <2>3. CASE \E h \in 1..Len(b) : i = Len(a) + h /\ q = b[h]
    <3>1. Rank(q) = 1 BY <2>3, <1>5, <1>14
    <3> QED BY <2>1, <3>1, <1>11 DEF p, q
  <2>4. CASE \E h \in 1..Len(c) : i = Len(a) + Len(b) + h /\ q = c[h]
    <3> PICK h \in 1..Len(c) : i = Len(a) + Len(b) + h /\ q = c[h] BY <2>4
    <3>1. h < k BY <1>15
    <3>2. byPriority(q, p) /\ q \in WorkloadTier(pod) /\ Rank(q) = 2 BY <3>1, <1>6, <1>14
    <3> QED BY <2>1, <3>2, <1>9, <1>13 DEF p, q
  <2> QED BY <2>2, <2>3, <2>4, <1>17
<1> QED BY <1>16, <1>18, <1>19, <1>20 DEF p, q

\* The last policy of a set to be applied is the one the documents call most
\* specific.
LEMMA LastIsDecisive ==
  ASSUME Stored, NEW pod \in Pods, NEW M \in SUBSET Applicable(pod),
         NEW i \in 1..Len(Applied(pod)), Applied(pod)[i] \in M,
         \A j \in (i + 1)..Len(Applied(pod)) : Applied(pod)[j] \notin M
  PROVE  \A q \in M \ {Applied(pod)[i]} : Overrules(Applied(pod)[i], q, pod)
<1> SUFFICES ASSUME NEW q \in M, q # Applied(pod)[i]
             PROVE  Overrules(Applied(pod)[i], q, pod)
  OBVIOUS
<1> DEFINE s == Applied(pod)
<1>1. s \in Seq(Named(cluster) \cup Named(tokens)) /\ ToSet(s) = Applicable(pod)
  BY AppliedIsApplicable
<1> HIDE DEF s
<1>2. Len(s) \in Nat /\ DOMAIN s = 1..Len(s) BY <1>1
<1>3. PICK j \in 1..Len(s) : s[j] = q
  <2>1. q \in ToSet(s) BY <1>1
  <2> QED BY <2>1, <1>2 DEF ToSet
<1>4. j # i /\ ~(j \in (i + 1)..Len(s)) BY <1>3 DEF s
<1>5. j < i
  <2>1. i \in Nat /\ j \in Nat /\ j <= Len(s) BY <1>2 DEF s
  <2> QED BY <2>1, <1>2, <1>4
<1> QED BY <1>3, <1>5, AppliedOrder DEF s

\* x is what the last member of M in the sequence wrote, base if there is none.
WrittenLast(x, base, s, M, v) ==
    \/ x = base /\ \A i \in 1..Len(s) : s[i] \notin M
    \/ \E i \in 1..Len(s) :
          /\ s[i] \in M
          /\ \A j \in (i + 1)..Len(s) : s[j] \notin M
          /\ x = v[s[i]]

\* A scalar is the last word of the sequence, and the last word is the most
\* specific policy's.
LEMMA LastWord ==
  ASSUME Stored, NEW pod \in Pods, NEW M \in SUBSET Applicable(pod), NEW x, NEW v, NEW unset,
         WrittenLast(x, unset, Applied(pod), M, v)
  PROVE  IF M = {} THEN x = unset
         ELSE \E p \in M : (\A q \in M \ {p} : Overrules(p, q, pod)) /\ x = v[p]
<1> DEFINE s == Applied(pod)
<1>1. s \in Seq(Named(cluster) \cup Named(tokens)) /\ ToSet(s) = Applicable(pod)
  BY AppliedIsApplicable
<1>2. CASE x = unset /\ \A i \in 1..Len(s) : s[i] \notin M
  <2> HIDE DEF s
  <2>1. \A p \in ToSet(s) : \E i \in 1..Len(s) : p = s[i] BY <1>1 DEF ToSet
  <2>2. M = {} BY <1>1, <1>2, <2>1
  <2> QED BY <2>2, <1>2
<1>3. CASE \E i \in 1..Len(s) :
               /\ s[i] \in M
               /\ \A j \in (i + 1)..Len(s) : s[j] \notin M
               /\ x = v[s[i]]
  <2> PICK i \in 1..Len(s) :
               /\ s[i] \in M
               /\ \A j \in (i + 1)..Len(s) : s[j] \notin M
               /\ x = v[s[i]]
    BY <1>3
  <2>1. \A q \in M \ {s[i]} : Overrules(s[i], q, pod) BY LastIsDecisive
  <2> QED BY <2>1
<1> QED BY <1>2, <1>3 DEF WrittenLast

\* The enforcement mode and the gateway are those of the most specific
\* applicable policy that sets them: narrowest tier, then highest priority,
\* then last name.
THEOREM ScalarsFromMostSpecificHolds == Spec => []ScalarsFromMostSpecific
<1>1. ASSUME Stored PROVE ScalarsFromMostSpecific
  <2> SUFFICES ASSUME NEW pod \in Pods
               PROVE  LET eff == Effective(pod)
                          Decisive(S, p) == p \in S /\ \A q \in S \ {p} : Overrules(p, q, pod)
                          modes    == {p \in Applicable(pod) : p.spec.enforcement # ""}
                          gateways == {p \in Applicable(pod) : p.spec.gateway # NoGateway}
                      IN  /\ IF modes = {} THEN eff.enforcement = "Enforce"
                             ELSE \E p \in modes : Decisive(modes, p) /\ eff.enforcement = p.spec.enforcement
                          /\ IF gateways = {} THEN eff.gateway = NoGateway
                             ELSE \E p \in gateways : Decisive(gateways, p) /\ eff.gateway = p.spec.gateway
    BY DEF ScalarsFromMostSpecific
  <2> DEFINE s == Applied(pod)
             A == Applicable(pod)
             modes == {p \in A : p.spec.enforcement # ""}
             gateways == {p \in A : p.spec.gateway # NoGateway}
             mode == Effective(pod).enforcement
             gateway == Effective(pod).gateway
             vm == [p \in A |-> p.spec.enforcement]
             vg == [p \in A |-> p.spec.gateway]
  <2>1. /\ s \in Seq(Named(cluster) \cup Named(tokens)) /\ ToSet(s) = A
        /\ mode = enforcementOf(s)
        /\ gateway = gatewayOf(s)
    BY <1>1, AppliedIsApplicable
  <2> HIDE DEF s, mode, gateway, A
  <2>2. \A i \in 1..Len(s) : s[i] \in A BY <2>1 DEF ToSet
  <2>3. \A i \in 1..Len(s) : \A j \in (i + 1)..Len(s) : j \in 1..Len(s) BY <2>1
  <2>4. \A p \in A : /\ vm[p] = p.spec.enforcement /\ vg[p] = p.spec.gateway
                     /\ p \in modes <=> p.spec.enforcement # ""
                     /\ p \in gateways <=> p.spec.gateway # NoGateway
    OBVIOUS
  <2> HIDE DEF modes, gateways, vm, vg
  <2>5. \/ mode = "Enforce" /\ \A i \in 1..Len(s) : s[i] \notin modes
        \/ \E i \in 1..Len(s) : /\ s[i] \in modes
                                /\ \A j \in (i + 1)..Len(s) : s[j] \notin modes
                                /\ mode = vm[s[i]]
    <3>1. \/ mode = "Enforce" /\ \A i \in 1..Len(s) : s[i].spec.enforcement = ""
          \/ \E i \in 1..Len(s) : /\ s[i].spec.enforcement # ""
                                  /\ \A j \in (i + 1)..Len(s) : s[j].spec.enforcement = ""
                                  /\ mode = s[i].spec.enforcement
      BY <2>1, EnforcementOf
    <3> QED BY <3>1, <2>2, <2>3, <2>4
  <2>6. \/ gateway = NoGateway /\ \A i \in 1..Len(s) : s[i] \notin gateways
        \/ \E i \in 1..Len(s) : /\ s[i] \in gateways
                                /\ \A j \in (i + 1)..Len(s) : s[j] \notin gateways
                                /\ gateway = vg[s[i]]
    <3>1. \/ gateway = NoGateway /\ \A i \in 1..Len(s) : s[i].spec.gateway = NoGateway
          \/ \E i \in 1..Len(s) : /\ s[i].spec.gateway # NoGateway
                                  /\ \A j \in (i + 1)..Len(s) : s[j].spec.gateway = NoGateway
                                  /\ gateway = s[i].spec.gateway
      BY <2>1, GatewayOf
    <3> QED BY <3>1, <2>2, <2>3, <2>4
  <2>7. modes \in SUBSET A /\ gateways \in SUBSET A BY DEF modes, gateways
  <2>8. IF modes = {} THEN mode = "Enforce"
        ELSE \E p \in modes : (\A q \in modes \ {p} : Overrules(p, q, pod)) /\ mode = vm[p]
    <3>1. WrittenLast(mode, "Enforce", s, modes, vm) BY <2>5 DEF WrittenLast
    <3> QED BY <3>1, <1>1, <2>7, LastWord DEF s, A
  <2>9. IF gateways = {} THEN gateway = NoGateway
        ELSE \E p \in gateways : (\A q \in gateways \ {p} : Overrules(p, q, pod))
                                 /\ gateway = vg[p]
    <3>1. WrittenLast(gateway, NoGateway, s, gateways, vg) BY <2>6 DEF WrittenLast
    <3> QED BY <3>1, <1>1, <2>7, LastWord DEF s, A
  <2>10. /\ IF modes = {} THEN mode = "Enforce"
            ELSE \E p \in modes : /\ p \in modes /\ \A q \in modes \ {p} : Overrules(p, q, pod)
                                 /\ mode = p.spec.enforcement
         /\ IF gateways = {} THEN gateway = NoGateway
            ELSE \E p \in gateways : /\ p \in gateways /\ \A q \in gateways \ {p} : Overrules(p, q, pod)
                                    /\ gateway = p.spec.gateway
    BY <2>4, <2>7, <2>8, <2>9
  <2> QED BY <2>10 DEF modes, gateways, mode, gateway, A
<1> QED BY <1>1, StoredInvariant, PTL

\* The credentials of a tier are those of its rules.
LEMMA CredentialsAreCredsFor ==
  ASSUME NEW tier, NEW m
  PROVE  Credentials(tier, m) = CredsFor(RulesOf(tier), m)
BY DEF Credentials, RulesFor, Allows, CredsFor, RulesOf

\* A permitted model is given the credential of the narrowest tier that names
\* one, else the default of the last cluster policy that sets one; never one of
\* a policy that does not apply.
THEOREM CredentialIsNarrowestHolds == Spec => []CredentialIsNarrowest
<1>1. ASSUME Stored PROVE CredentialIsNarrowest
  <2> SUFFICES ASSUME NEW pod \in Pods, NEW m \in Names, Permit(Effective(pod), m).allowed
               PROVE  LET perm     == Permit(Effective(pod), m)
                          tiers    == <<WorkloadTier(pod), NamespaceTier, ClusterTier>>
                          cred(i)  == Credentials(tiers[i], m)
                          defaults == {p \in ClusterTier : p.spec.defaultCred # NoCred}
                          Default  == CHOOSE p \in defaults : \A q \in defaults : p.name >= q.name
                      IN  /\ \A i \in 1..3 :
                                /\ Cardinality(cred(i)) = 1
                                /\ cred(i) # {NoCred}
                                /\ \A j \in 1..(i - 1) : cred(j) \subseteq {NoCred}
                                => perm.cred \in cred(i)
                          /\ (\A i \in 1..3 : cred(i) \subseteq {NoCred}) =>
                                perm.cred = IF defaults = {} THEN NoCred
                                                             ELSE Default.spec.defaultCred
                          /\ perm.cred = NoCred
                             \/ perm.cred \in UNION {cred(i) : i \in 1..3}
                             \/ perm.cred \in {p.spec.defaultCred : p \in ClusterTier}
    BY DEF CredentialIsNarrowest
  <2> DEFINE x == Permit(Effective(pod), m).cred
             Kw == Credentials(WorkloadTier(pod), m)
             Kn == Credentials(NamespaceTier, m)
             Kc == Credentials(ClusterTier, m)
             d == defaultCredOf(clusterMatched(Named(cluster), nsLabel))
             defaults == {p \in ClusterTier : p.spec.defaultCred # NoCred}
             Default  == CHOOSE p \in defaults : \A q \in defaults : p.name >= q.name
  <2>1. Policies(Named(cluster), Named(tokens)) BY <1>1, StoredPolicies
  <2>2. /\ NarrowestCred(x, Kw, Kn, Kc, d)
        /\ IsFiniteSet(Kw) /\ IsFiniteSet(Kn) /\ IsFiniteSet(Kc)
    BY <2>1, SameTiers, CredentialsAreCredsFor, ResolvedCredential DEF Effective
  <2>3. d = IF defaults = {} THEN NoCred ELSE Default.spec.defaultCred
    BY <2>1, SameTiers, ClusterDefault
  <2>4. d = NoCred \/ d \in {p.spec.defaultCred : p \in ClusterTier}
    <3>1. DefaultCredFrom(Named(cluster), nsLabel, d) BY <2>1, DefaultIsFromTier
    <3> QED BY <3>1, SameTiers DEF DefaultCredFrom
  <2> HIDE DEF x, Kw, Kn, Kc, d, defaults, Default
  <2>5. PICK w, n, c :
          /\ Supplied(w, Kw) /\ Supplied(n, Kn) /\ Supplied(c, Kc)
          /\ x = IF w # NoCred THEN w ELSE IF n # NoCred THEN n
                 ELSE IF c # NoCred THEN c ELSE d
    BY <2>2 DEF NarrowestCred
  <2>6. /\ Cardinality(Kw) = 1 => \E y : Kw = {y}
        /\ Cardinality(Kn) = 1 => \E y : Kn = {y}
        /\ Cardinality(Kc) = 1 => \E y : Kc = {y}
    BY <2>2, FS_Singleton
  <2>7. Cardinality(Kw) = 1 /\ Kw # {NoCred} => x \in Kw
    BY <2>5, <2>6 DEF Supplied
  <2>8. Cardinality(Kn) = 1 /\ Kn # {NoCred} /\ Kw \subseteq {NoCred} => x \in Kn
    BY <2>5, <2>6 DEF Supplied
  <2>9. Cardinality(Kc) = 1 /\ Kc # {NoCred} /\ Kw \subseteq {NoCred} /\ Kn \subseteq {NoCred}
          => x \in Kc
    BY <2>5, <2>6 DEF Supplied
  <2>10. Kw \subseteq {NoCred} /\ Kn \subseteq {NoCred} /\ Kc \subseteq {NoCred} => x = d
    BY <2>5 DEF Supplied
  <2>11. x = NoCred \/ x \in Kw \cup Kn \cup Kc \/ x = d
    BY <2>5 DEF Supplied
  <2> DEFINE tiers == <<WorkloadTier(pod), NamespaceTier, ClusterTier>>
             cred(i) == Credentials(tiers[i], m)
  <2>12. cred(1) = Kw /\ cred(2) = Kn /\ cred(3) = Kc BY DEF Kw, Kn, Kc
  <2> HIDE DEF cred
  <2>13. \A i \in 1..3 : i = 1 \/ i = 2 \/ i = 3 OBVIOUS
  <2>14. 1 \in 1..(2 - 1) /\ 1 \in 1..(3 - 1) /\ 2 \in 1..(3 - 1) OBVIOUS
  <2>15. \A i \in 1..3 : /\ Cardinality(cred(i)) = 1
                         /\ cred(i) # {NoCred}
                         /\ \A j \in 1..(i - 1) : cred(j) \subseteq {NoCred}
                         => x \in cred(i)
    <3> SUFFICES ASSUME NEW i \in 1..3,
                        Cardinality(cred(i)) = 1, cred(i) # {NoCred},
                        \A j \in 1..(i - 1) : cred(j) \subseteq {NoCred}
                 PROVE  x \in cred(i)
      OBVIOUS
    <3>1. CASE i = 1 BY <3>1, <2>7, <2>12
    <3>2. CASE i = 2 BY <3>2, <2>8, <2>12, <2>14
    <3>3. CASE i = 3 BY <3>3, <2>9, <2>12, <2>14
    <3> QED BY <2>13, <3>1, <3>2, <3>3
  <2>16. (\A i \in 1..3 : cred(i) \subseteq {NoCred}) => x = d
    <3>1. 1 \in 1..3 /\ 2 \in 1..3 /\ 3 \in 1..3 OBVIOUS
    <3> QED BY <3>1, <2>10, <2>12
  <2>17. x = NoCred \/ x \in UNION {cred(i) : i \in 1..3} \/ x = d
    <3>1. 1 \in 1..3 /\ 2 \in 1..3 /\ 3 \in 1..3 OBVIOUS
    <3> QED BY <3>1, <2>11, <2>12
  <2> QED BY <2>3, <2>4, <2>15, <2>16, <2>17 DEF x, cred, defaults, Default
<1> QED BY <1>1, StoredInvariant, PTL

=============================================================================
