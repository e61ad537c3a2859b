------------------------ MODULE TokenPolicySyncProofs ------------------------
(***************************************************************************)
(* Theorems about TokenPolicySync, for any policies and number of          *)
(* disturbances: its types, and that a quiet policy shows what its scope   *)
(* resolves to. What EffectiveModels and For compute stays closed, except  *)
(* that For chooses a known kind of artifact.                              *)
(***************************************************************************)
EXTENDS TokenPolicySync, ResolverProofs

\* The stored policies.
Stores ==
    /\ StoreOK(cluster, ClusterNames, ClusterSpecs)
    /\ StoreOK(tokens, TokenNames, TokenSpecs)

\* The fields of a status.
Fields == {"models", "quota", "ref", "synced"}

\* The worker's locals and the objects it writes: which are meaningful at which
\* pc, and that a fresh copy equals the stored policy.
Types ==
    /\ DOMAIN status = TokenNames /\ \A n \in TokenNames : DOMAIN status[n] = Fields
    /\ \A n \in TokenNames \ DOMAIN tokens : status[n] = NoStatus
    /\ DOMAIN artifacts = Kinds /\ \A k \in Kinds : DOMAIN artifacts[k] = TokenNames
    /\ queue \subseteq TokenNames
    /\ pc \in {"idle", "cluster", "tokens", "gateway", "status"}
    /\ cur \in TokenNames \cup {0}
    /\ pc = "idle" <=> cur = 0
    /\ fresh => cur \in DOMAIN tokens /\ tp = tokens[cur]
    /\ cur # 0 => tp \in TokenSpecs /\ DOMAIN new = Fields
    /\ pc = "tokens" => Listed(seen) /\ \A p \in seen : p.spec \in ClusterSpecs
    /\ desired.kind \in Kinds \cup {"None"}
    /\ desired.kind \notin stale
    /\ churn \in 0..MaxChurn

\* The type invariant, strengthened: the policies themselves are well-formed.
TypeInv == Stores /\ Types

\* Edits, deletions and everything else keep the stores stores.
LEMMA StoresStep ==
  ASSUME Stores, [Next]_vars PROVE Stores'
<1> USE DEF Stores
<1>1. CASE UNCHANGED <<cluster, tokens>> BY <1>1
<1>2. CASE EditCluster
  <2>1. ASSUME NEW n \in ClusterNames, P!DeleteCluster(n) PROVE Stores'
    BY <2>1, StoreReduced DEF P!DeleteCluster, P!Drop
  <2>2. ASSUME NEW n \in ClusterNames, NEW s \in ClusterSpecs, P!ApplyCluster(n, s) PROVE Stores'
    BY <2>2, StoreExtended DEF P!ApplyCluster, P!Put
  <2> QED BY <1>2, <2>1, <2>2 DEF EditCluster
<1>3. ASSUME NEW n \in TokenNames, EditToken(n) PROVE Stores'
  <2>1. CASE P!DeleteToken(n)
    BY <2>1, StoreReduced DEF P!DeleteToken, P!Drop
  <2>2. ASSUME NEW s \in TokenSpecs, P!ApplyToken(n, s) PROVE Stores'
    BY <2>2, StoreExtended DEF P!ApplyToken, P!Put
  <2> QED BY <1>3, <2>1, <2>2 DEF EditToken
<1> QED
  BY <1>1, <1>2, <1>3
  DEF Next, vars, policies, RelabelNamespace, P!Relabel, GarbageCollect, Resync, CrashRestart,
      Worker, Start, ListClusterPolicies, ListTokenPolicies, DeleteArtifact, DeleteFails,
      NoGatewayConfigured, ApplyArtifact, ApplyFails, UpdateStatus, Abort

\* The gateway of the scope of a policy that was read is of a known type.
LEMMA ScopeKind ==
  ASSUME Stores, NEW C, Listed(C), \A p \in C : p.spec \in ClusterSpecs,
         NEW n \in TokenNames, NEW spec \in TokenSpecs
  PROVE  LET eff == ResolveForPolicy(C, P!Named(tokens), nsLabel, [name |-> n, spec |-> spec])
         IN  For(eff.gateway, eff.quota).kind \in Kinds \cup {"None"}
<1> DEFINE T == P!Named(tokens)
           target == [name |-> n, spec |-> spec]
           rest == {p \in T : p.name # target.name}
           eff == ResolveForPolicy(C, T, nsLabel, target)
<1>1. Listed(T) /\ \A p \in T : p.spec \in TokenSpecs
  BY KeysAssumption, StoreListed DEF Stores, P!Named
<1>2. target.name \in Nat /\ target.name = n /\ target.spec \in TokenSpecs
  BY KeysAssumption
<1> HIDE DEF T, target
<1>3. Listed(rest \cup {target})
  <2>1. Listed(rest) BY <1>1, ListedSubset
  <2>2. IsFiniteSet(rest \cup {target}) BY <2>1, FS_AddElement DEF Listed
  <2> QED BY <1>1, <1>2, <2>2 DEF Listed
<1>4. Policies(C, rest \cup {target})
  BY <1>1, <1>2, <1>3, SpecsAssumption DEF Policies
<1>5. \A p \in C \cup rest \cup {target} :
         p.spec.gateway = NoGateway \/ p.spec.gateway.type \in Kinds \cup {"None"}
  BY <1>1, <1>2, SpecsAssumption
<1>6. GatewayFrom(eff.gateway, C \cup rest \cup {target})
  BY <1>4, ScopeGateway
<1> HIDE DEF rest, eff
<1>7. eff.gateway = NoGateway \/ eff.gateway.type \in Kinds \cup {"None"}
  BY <1>5, <1>6 DEF GatewayFrom
<1>8. For(eff.gateway, eff.quota).kind \in Kinds \cup {"None"}
  BY <1>7 DEF For, GatewayOff, Nothing
<1> QED BY <1>8 DEF eff, T, target

\* The strengthened types hold at first
LEMMA TypesInit == Init => TypeInv
<1> SUFFICES ASSUME Init PROVE TypeInv OBVIOUS
<1>1. Stores BY StoreEmpty DEF Init, P!Init, Stores
<1>2. DOMAIN tokens = {} BY DEF Init, P!Init
<1>3. Types
  BY <1>2, ChurnAssumption, KeysAssumption DEF Init, Idle, Types, NoStatus, Nothing, Fields, Kinds
<1> QED BY <1>1, <1>3 DEF TypeInv

\* and are preserved by every step: the worker only writes artifacts of kinds
\* that the schema of the gateway field knows.
LEMMA TypesStep ==
  ASSUME TypeInv, [Next]_vars PROVE TypeInv'
<1>0. Stores /\ Types /\ Stores' BY StoresStep DEF TypeInv
<1> USE DEF Types
<1> SUFFICES Types' BY <1>0 DEF TypeInv
<1>00. DOMAIN tokens \subseteq TokenNames /\ DOMAIN tokens' \subseteq TokenNames /\ 0 \notin TokenNames
  BY <1>0, KeysAssumption DEF Stores, StoreOK
<1>c. Disturb => churn' \in 0..MaxChurn
  BY <1>0, ChurnAssumption DEF Disturb
<1>1. CASE UNCHANGED vars
  BY <1>0, <1>1 DEF vars, policies, pass
<1>2. CASE EditCluster
  BY <1>0, <1>00, <1>c, <1>2 DEF EditCluster, pass, P!DeleteCluster, P!ApplyCluster
<1>3. ASSUME NEW n \in TokenNames, EditToken(n) PROVE Types'
  <2>1. /\ UNCHANGED <<artifacts, cur, pc, tp, seen, new, desired, stale>>
        /\ churn' \in 0..MaxChurn /\ queue' = queue \cup {n}
        /\ fresh' = (fresh /\ cur # n)
        /\ status' = IF n \in DOMAIN tokens' THEN status ELSE [status EXCEPT ![n] = NoStatus]
    BY <1>0, <1>c, <1>3 DEF EditToken
  <2>2. /\ \A m \in DOMAIN tokens \ {n} : m \in DOMAIN tokens' /\ tokens'[m] = tokens[m]
        /\ \A m \in DOMAIN tokens' \ {n} : m \in DOMAIN tokens
    BY <1>3 DEF EditToken, P!DeleteToken, P!ApplyToken, P!Put, P!Drop
  <2>3. DOMAIN NoStatus = Fields BY DEF NoStatus, Fields
  <2>4. DOMAIN status' = TokenNames /\ \A m \in TokenNames : DOMAIN status'[m] = Fields
    BY <1>0, <2>1, <2>3
  <2>5. \A m \in TokenNames \ DOMAIN tokens' : status'[m] = NoStatus
    BY <1>0, <2>1, <2>2
  <2>6. fresh' => cur' \in DOMAIN tokens' /\ tp' = tokens'[cur']
    BY <1>0, <2>1, <2>2
  <2> QED BY <1>0, <2>1, <2>4, <2>5, <2>6
<1>4. CASE RelabelNamespace
  BY <1>0, <1>c, <1>4 DEF RelabelNamespace, pass, P!Relabel
<1>5. ASSUME NEW n \in TokenNames, GarbageCollect(n) PROVE Types'
  BY <1>0, <1>5 DEF GarbageCollect, policies, pass
<1>6. ASSUME NEW n \in TokenNames, Resync(n) PROVE Types'
  BY <1>0, <1>6 DEF Resync, policies, pass
<1>7. CASE CrashRestart
  BY <1>0, <1>00, <1>c, <1>7 DEF CrashRestart, Return, policies, Nothing
<1>8. ASSUME NEW n \in TokenNames, Start(n) PROVE Types'
  <2>1. n \in DOMAIN tokens => tokens[n] \in TokenSpecs
    BY <1>0 DEF Stores, StoreOK
  <2> QED BY <1>0, <1>00, <1>8, <2>1 DEF Start, policies, pass
<1>9. CASE ListClusterPolicies
  <2>1. Listed(P!Named(cluster)) /\ \A p \in P!Named(cluster) : p.spec \in ClusterSpecs
    BY <1>0, KeysAssumption, StoreListed DEF Stores, P!Named
  <2> QED BY <1>0, <1>9, <2>1 DEF ListClusterPolicies, policies
<1>10. CASE ListTokenPolicies
  <2> DEFINE eff == ResolveForPolicy(seen, P!Named(tokens), nsLabel, [name |-> cur, spec |-> tp])
             st == [new EXCEPT !.models = EffectiveModels(eff), !.quota = eff.quota]
  <2>1. For(eff.gateway, eff.quota).kind \in Kinds \cup {"None"}
    <3>1. cur \in TokenNames /\ tp \in TokenSpecs BY <1>0, <1>10 DEF ListTokenPolicies
    <3>2. Listed(seen) /\ \A p \in seen : p.spec \in ClusterSpecs
      BY <1>0, <1>10 DEF ListTokenPolicies
    <3> QED BY <1>0, <3>1, <3>2, ScopeKind
  <2>2. IF InvalidConfig(eff.gateway)
              THEN /\ new' = [st EXCEPT !.synced = "InvalidConfig"]
                   /\ pc' = "status"
                   /\ UNCHANGED <<desired, stale>>
              ELSE /\ new' = st
                   /\ desired' = For(eff.gateway, eff.quota)
                   /\ stale' = Kinds \ {desired'.kind}
                   /\ pc' = "gateway"
    BY <1>10 DEF ListTokenPolicies
  <2>3. pc = "tokens" /\ UNCHANGED <<policies, status, artifacts, queue, cur, tp, fresh, seen, churn, excused>>
    BY <1>10 DEF ListTokenPolicies
  <2> HIDE DEF eff
  <2>4. DOMAIN st = Fields /\ DOMAIN [st EXCEPT !.synced = "InvalidConfig"] = Fields
    BY <1>0, <2>3
  <2> HIDE DEF st
  <2>5. DOMAIN new' = Fields /\ desired'.kind \in Kinds \cup {"None"} /\ desired'.kind \notin stale'
        /\ pc' \in {"gateway", "status"}
    BY <1>0, <2>1, <2>2, <2>4
  <2> QED BY <1>0, <2>3, <2>5 DEF policies
<1>11. ASSUME NEW k \in Kinds, DeleteArtifact(k) PROVE Types'
  BY <1>0, <1>11 DEF DeleteArtifact, policies
<1>12. ASSUME NEW k \in Kinds, DeleteFails(k) PROVE Types'
  BY <1>0, <1>c, <1>12 DEF DeleteFails, policies
<1>13. CASE NoGatewayConfigured
  BY <1>0, <1>13 DEF NoGatewayConfigured, policies
<1>14. CASE ApplyArtifact
  BY <1>0, <1>14 DEF ApplyArtifact, policies
<1>15. CASE ApplyFails
  BY <1>0, <1>c, <1>15 DEF ApplyFails, policies
<1>16. CASE UpdateStatus
  <2>1. cur \in TokenNames /\ DOMAIN new = Fields BY <1>0, <1>16 DEF UpdateStatus
  <2>2. /\ DOMAIN status' = TokenNames /\ \A n \in TokenNames : DOMAIN status'[n] = Fields
        /\ \A n \in TokenNames \ DOMAIN tokens : status'[n] = NoStatus
    BY <1>0, <1>16, <2>1 DEF UpdateStatus
  <2> QED BY <1>0, <1>00, <1>16, <2>1, <2>2 DEF UpdateStatus, Return, policies, Nothing
<1>17. CASE Abort
  BY <1>0, <1>00, <1>c, <1>17 DEF Abort, Return, policies, Nothing
<1> QED
  BY <1>1, <1>2, <1>3, <1>4, <1>5, <1>6, <1>7, <1>8, <1>9, <1>10, <1>11, <1>12, <1>13, <1>14,
     <1>15, <1>16, <1>17
  DEF Next, Worker

\* The controller's state and the objects it writes are well typed at every
\* moment.
THEOREM TokenPolicyTypes == Spec => []TypeOK
<1>1. TypeInv => TypeOK BY DEF TypeInv, Types, TypeOK
<1> QED BY <1>1, TypesInit, TypesStep, PTL DEF Spec

-----------------------------------------------------------------------------
(* The resolver of the module and that of PolicyHierarchy are the same *)

\* sortByName and sortByPriority,
LEMMA SameSorted ==
  \A S : /\ P!sortByName(S) = sortByName(S)
         /\ P!sortByPriority(S) = sortByPriority(S)
BY Zenon DEF sortByName, P!sortByName, sortByPriority, P!sortByPriority, Sorted, P!Sorted, SetToSeqs, P!SetToSeqs, Cardinality, P!Cardinality, byName, P!byName, byPriority, P!byPriority

\* the loops over a tier,
LEMMA SameFolds ==
  \A s : /\ P!enforcementOf(s) = enforcementOf(s)
         /\ P!gatewayOf(s) = gatewayOf(s)
         /\ P!quotaOf(s) = quotaOf(s)
         /\ P!defaultCredOf(s) = defaultCredOf(s)
         /\ P!Rules(s) = Rules(s)
BY Zenon DEF enforcementOf, P!enforcementOf, gatewayOf, P!gatewayOf, quotaOf, P!quotaOf,
   defaultCredOf, P!defaultCredOf, Overwrite, P!Overwrite, FoldLeft, P!FoldLeft, MapThenFoldSet, P!MapThenFoldSet, Max, P!Max,
   minQuota, P!minQuota, minPtr, P!minPtr, Rules, P!Rules, FlattenSeq, P!FlattenSeq

\* their combination,
LEMMA SameCombine ==
  ASSUME NEW a, NEW b, NEW c PROVE P!Combine(a, b, c) = Combine(a, b, c)
BY SameFolds DEF Combine, P!Combine, Sources, P!Sources, ToSet, P!ToSet

\* the policies matched,
LEMMA SameMatches ==
  ASSUME NEW C, NEW T, NEW l, NEW pod
  PROVE  /\ P!clusterMatched(C, l) = clusterMatched(C, l)
         /\ P!nsDefaults(T) = nsDefaults(T)
         /\ P!wlMatched(T, pod) = wlMatched(T, pod)
<1>1. P!clusterMatched(C, l) = clusterMatched(C, l)
  BY SameSorted DEF clusterMatched, P!clusterMatched
<1>2. P!nsDefaults(T) = nsDefaults(T)
  BY SameSorted DEF nsDefaults, P!nsDefaults, IsEmpty, P!IsEmpty
<1>3. P!wlMatched(T, pod) = wlMatched(T, pod)
  <2> DEFINE W == {p \in T : /\ ~IsEmpty(p.spec.selector)
                            /\ pod # NoIdentity
                            /\ workloadMatches(p.spec.selector, pod)}
  <2>1. wlMatched(T, pod) = sortByPriority(W) BY DEF wlMatched
  <2>2. P!wlMatched(T, pod) = P!sortByPriority(W)
    BY Zenon DEF P!wlMatched, IsEmpty, P!IsEmpty, workloadMatches, P!workloadMatches
  <2> QED BY <2>1, <2>2, SameSorted
<1> QED BY <1>1, <1>2, <1>3

\* Resolve
LEMMA SameResolve ==
  ASSUME NEW C, NEW T, NEW l, NEW pod
  PROVE  P!Resolve(C, T, l, pod) = Resolve(C, T, l, pod)
<1> DEFINE v == P!Combine(P!clusterMatched(C, l), P!nsDefaults(T), P!wlMatched(T, pod))
           V == {P!Combine(cl, ns, wl) : cl \in {P!clusterMatched(C, l)},
                      ns \in {P!nsDefaults(T)}, wl \in {P!wlMatched(T, pod)}}
<1>1. P!Resolve(C, T, l, pod) = CHOOSE eff \in V : TRUE BY DEF P!Resolve
<1>2. v \in V /\ \A x \in V : x = v OBVIOUS
<1>3. v = Combine(clusterMatched(C, l), nsDefaults(T), wlMatched(T, pod))
  BY SameMatches, SameCombine
<1> HIDE DEF V, v
<1>4. P!Resolve(C, T, l, pod) = v BY <1>1, <1>2, Zenon
<1> QED BY <1>3, <1>4, ResolveIsCombine

\* and ResolveForPolicy.
LEMMA SameScope ==
  ASSUME NEW C, NEW T, NEW l, NEW target
  PROVE P!ResolveForPolicy(C, T, l, target) = ResolveForPolicy(C, T, l, target)
BY SameResolve, SameCombine, SameMatches
   DEF ResolveForPolicy, P!ResolveForPolicy, IsEmpty, P!IsEmpty

-----------------------------------------------------------------------------
(* A quiet policy shows the truth *)

\* Exact, for policy n with status st when artifacts are arts and its scope
\* resolves to eff.
Shows(st, arts, n, eff) ==
    LET want == For(eff.gateway, eff.quota)
    IN  /\ st.models = EffectiveModels(eff)
        /\ st.quota = eff.quota
        /\ IF InvalidConfig(eff.gateway) THEN st.synced = "InvalidConfig"
           ELSE /\ \A k \in Kinds :
                      arts[k][n] = IF k = want.kind THEN want.body ELSE NoArtifact
                /\ st.ref = IF want = Nothing THEN NoArtifact ELSE want.kind
                /\ st.synced = IF want = Nothing THEN "Disabled" ELSE "Synced"

\* In the middle of the gateway step: the wanted artifact is known, and what is
\* not to be deleted any more is gone.
Prepared(st, want, left, arts, n, eff) ==
    /\ st.models = EffectiveModels(eff)
    /\ st.quota = eff.quota
    /\ ~InvalidConfig(eff.gateway)
    /\ want = For(eff.gateway, eff.quota)
    /\ \A k \in Kinds \ left : k # want.kind => arts[k][n] = NoArtifact

\* A pass that nothing has disturbed since it started works on current data.
PassIsCurrent ==
    cur # 0 /\ cur \notin queue \cup excused =>
        /\ fresh
        /\ pc \notin {"idle", "cluster"} => seen = P!Named(cluster)
        /\ pc = "gateway" => Prepared(new, desired, stale, artifacts, cur, P!EffectiveOf(cur))
        /\ pc = "status" => Shows(new, artifacts, cur, P!EffectiveOf(cur))

\* A policy that is not queued, in a pass or excused shows the truth.
Quiet == \A n \in DOMAIN tokens \ (queue \cup excused) :
            n # cur => Shows(status[n], artifacts, n, P!EffectiveOf(n))

\* The inductive invariant.
SyncInv == TypeInv /\ PassIsCurrent /\ Quiet

\* Quiet is the property of the run.
LEMMA ExactIsShows == QuietMeansApplied <=> Quiet
BY DEF QuietMeansApplied, Quiet, Exact, Shows

\* What a scope resolves to depends on the stored policies and the label only.
LEMMA ScopeStable == ASSUME UNCHANGED policies PROVE \A n : P!EffectiveOf(n)' = P!EffectiveOf(n)
BY DEF policies, P!EffectiveOf, P!Named

\* Artifacts of other policies do not matter to a policy.
LEMMA ShowsElsewhere ==
  ASSUME NEW st, NEW arts, NEW brts, NEW n, NEW eff,
         \A k \in Kinds : brts[k][n] = arts[k][n], Shows(st, arts, n, eff)
  PROVE  Shows(st, brts, n, eff)
BY DEF Shows

\* Steps that concern neither the policies nor the artifacts and statuses of
\* quiet ones keep them quiet.
LEMMA QuietKept ==
  ASSUME Quiet, UNCHANGED policies,
         \A n \in DOMAIN tokens \ (queue' \cup excused') : n # cur' =>
            /\ n \notin queue \cup excused
            /\ n # cur
            /\ status'[n] = status[n]
            /\ \A k \in Kinds : artifacts'[k][n] = artifacts[k][n]
  PROVE  Quiet'
<1>1. tokens' = tokens BY DEF policies
<1>2. \A n : P!EffectiveOf(n)' = P!EffectiveOf(n) BY ScopeStable
<1> SUFFICES ASSUME NEW n \in DOMAIN tokens \ (queue' \cup excused'), n # cur'
             PROVE  Shows(status'[n], artifacts', n, P!EffectiveOf(n))
  BY <1>1, <1>2 DEF Quiet
<1>3. Shows(status[n], artifacts, n, P!EffectiveOf(n)) BY DEF Quiet
<1> QED BY <1>3, ShowsElsewhere

\* Without policies everything is quiet
LEMMA SyncInit == Init => SyncInv
<1> SUFFICES ASSUME Init PROVE SyncInv OBVIOUS
<1>1. TypeInv BY TypesInit
<1>2. PassIsCurrent BY DEF Init, Idle, PassIsCurrent
<1>3. Quiet BY DEF Init, P!Init, Quiet
<1> QED BY <1>1, <1>2, <1>3 DEF SyncInv

\* and every step keeps it so: an edit of anything a policy's scope depends on
\* enqueues or excuses it, and a pass nothing disturbed writes what it has
\* read.
LEMMA SyncStep ==
  ASSUME SyncInv, [Next]_vars PROVE SyncInv'
<1>0. TypeInv /\ Stores /\ Types /\ PassIsCurrent /\ Quiet /\ TypeInv' /\ Stores' /\ Types'
  BY TypesStep DEF SyncInv, TypeInv
<1> SUFFICES PassIsCurrent' /\ Quiet' BY <1>0 DEF SyncInv
<1>00. DOMAIN tokens \subseteq TokenNames /\ DOMAIN tokens' \subseteq TokenNames /\ 0 \notin TokenNames
  BY <1>0, KeysAssumption DEF Stores, StoreOK
<1>s. ASSUME UNCHANGED policies
      PROVE  /\ \A n : P!EffectiveOf(n)' = P!EffectiveOf(n)
             /\ P!Named(cluster)' = P!Named(cluster)
             /\ cluster' = cluster /\ tokens' = tokens
  BY <1>s, ScopeStable DEF policies, P!Named
<1>1. CASE UNCHANGED vars
  <2>1. UNCHANGED <<policies, status, artifacts, queue, cur, pc, tp, fresh, seen, new, desired,
                    stale, excused>>
    BY <1>1 DEF vars, pass
  <2>2. PassIsCurrent' BY <1>0, <1>s, <2>1 DEF PassIsCurrent
  <2>3. Quiet' BY <1>0, <2>1, QuietKept
  <2> QED BY <2>2, <2>3
<1>2. CASE EditCluster
  <2>1. /\ queue' = queue \cup DOMAIN tokens /\ tokens' = tokens
        /\ UNCHANGED <<cur, fresh, excused>>
    BY <1>2 DEF EditCluster, pass, P!DeleteCluster, P!ApplyCluster
  <2>2. cur' # 0 => cur' \in queue' \cup excused'
    BY <1>0, <2>1 DEF PassIsCurrent, Types
  <2> QED BY <2>1, <2>2 DEF PassIsCurrent, Quiet
<1>3. ASSUME NEW n \in TokenNames, EditToken(n) PROVE PassIsCurrent' /\ Quiet'
  <2>1. TokenNames \subseteq queue' \cup excused' /\ cur' = cur
    BY <1>3 DEF EditToken
  <2> QED BY <1>0, <1>00, <2>1 DEF PassIsCurrent, Quiet, Types
<1>4. CASE RelabelNamespace
  <2>1. excused' = TokenNames /\ cur' = cur
    BY <1>4 DEF RelabelNamespace, pass
  <2> QED BY <1>0, <1>00, <2>1 DEF PassIsCurrent, Quiet, Types
<1>5. ASSUME NEW n \in TokenNames, GarbageCollect(n) PROVE PassIsCurrent' /\ Quiet'
  <2>1. /\ UNCHANGED <<policies, status, queue, cur, pc, tp, fresh, seen, new, desired, stale, excused>>
        /\ n \notin DOMAIN tokens
        /\ \A m \in TokenNames \ {n}, k \in Kinds : artifacts'[k][m] = artifacts[k][m]
    BY <1>0, <1>5 DEF GarbageCollect, pass, Types
  <2>2. PassIsCurrent'
    <3> SUFFICES ASSUME cur' # 0, cur' \notin queue' \cup excused'
                 PROVE  /\ fresh'
                        /\ pc' \notin {"idle", "cluster"} => seen' = P!Named(cluster)'
                        /\ pc' = "gateway" => Prepared(new', desired', stale', artifacts', cur', P!EffectiveOf(cur)')
                        /\ pc' = "status" => Shows(new', artifacts', cur', P!EffectiveOf(cur)')
      BY DEF PassIsCurrent
    <3>1. fresh /\ cur \in DOMAIN tokens /\ cur \in TokenNames \ {n}
      BY <1>0, <1>00, <2>1 DEF PassIsCurrent, Types
    <3>2. \A k \in Kinds : artifacts'[k][cur] = artifacts[k][cur] BY <2>1, <3>1
    <3>3. P!EffectiveOf(cur)' = P!EffectiveOf(cur) BY <1>s, <2>1
    <3>4. Prepared(new, desired, stale, artifacts, cur, P!EffectiveOf(cur))
            => Prepared(new, desired, stale, artifacts', cur, P!EffectiveOf(cur))
      BY <3>2 DEF Prepared
    <3>5. Shows(new, artifacts, cur, P!EffectiveOf(cur))
            => Shows(new, artifacts', cur, P!EffectiveOf(cur))
      BY <3>2, ShowsElsewhere
    <3> QED BY <1>0, <1>s, <2>1, <3>1, <3>3, <3>4, <3>5 DEF PassIsCurrent
  <2>3. Quiet' BY <1>0, <1>00, <2>1, QuietKept
  <2> QED BY <2>2, <2>3
<1>6. ASSUME NEW n \in TokenNames, Resync(n) PROVE PassIsCurrent' /\ Quiet'
  <2>1. /\ UNCHANGED <<policies, status, artifacts, cur, pc, tp, fresh, seen, new, desired, stale, excused>>
        /\ queue' = queue \cup {n}
    BY <1>6 DEF Resync, pass
  <2>2. PassIsCurrent' BY <1>0, <1>s, <2>1 DEF PassIsCurrent
  <2>3. Quiet' BY <1>0, <2>1, QuietKept
  <2> QED BY <2>2, <2>3
<1>7. CASE CrashRestart
  <2>1. UNCHANGED <<policies, status, artifacts, excused>> /\ queue' = DOMAIN tokens /\ cur' = 0
    BY <1>7 DEF CrashRestart, Return
  <2>2. PassIsCurrent' BY <2>1 DEF PassIsCurrent
  <2>3. Quiet' BY <1>0, <2>1, QuietKept
  <2> QED BY <2>2, <2>3
<1>8. ASSUME NEW n \in TokenNames, Start(n) PROVE PassIsCurrent' /\ Quiet'
  <2>1. /\ UNCHANGED <<policies, status, artifacts>> /\ queue' = queue \ {n}
        /\ excused' = excused \ {n} /\ cur = 0
        /\ IF n \notin DOMAIN tokens THEN cur' = 0
           ELSE cur' = n /\ pc' = "cluster" /\ fresh' = TRUE
    BY <1>0, <1>8 DEF Start, pass, Types
  <2>2. PassIsCurrent' BY <2>1 DEF PassIsCurrent
  <2>3. Quiet' BY <1>0, <1>00, <2>1, QuietKept
  <2> QED BY <2>2, <2>3
<1>9. CASE ListClusterPolicies
  <2>1. /\ UNCHANGED <<policies, status, artifacts, queue, cur, fresh, excused>>
        /\ seen' = P!Named(cluster) /\ pc' = "tokens"
    BY <1>9 DEF ListClusterPolicies
  <2>2. PassIsCurrent' BY <1>0, <1>s, <2>1 DEF PassIsCurrent
  <2>3. Quiet' BY <1>0, <2>1, QuietKept
  <2> QED BY <2>2, <2>3
<1>10. CASE ListTokenPolicies
  <2> DEFINE eff == ResolveForPolicy(seen, P!Named(tokens), nsLabel, [name |-> cur, spec |-> tp])
             st == [new EXCEPT !.models = EffectiveModels(eff), !.quota = eff.quota]
  <2>1. pc = "tokens" /\ UNCHANGED <<policies, status, artifacts, queue, cur, tp, fresh, seen, churn, excused>>
    BY <1>10 DEF ListTokenPolicies
  <2>2. IF InvalidConfig(eff.gateway)
              THEN /\ new' = [st EXCEPT !.synced = "InvalidConfig"]
                   /\ pc' = "status"
              ELSE /\ new' = st
                   /\ desired' = For(eff.gateway, eff.quota)
                   /\ stale' = Kinds \ {desired'.kind}
                   /\ pc' = "gateway"
    BY <1>10 DEF ListTokenPolicies
  <2>3. ASSUME cur \notin queue \cup excused PROVE eff = P!EffectiveOf(cur) /\ fresh /\ seen = P!Named(cluster)
    <3>1. cur # 0 BY <1>0, <2>1 DEF Types
    <3>2. fresh /\ seen = P!Named(cluster) BY <1>0, <2>1, <2>3, <3>1 DEF PassIsCurrent
    <3>3. tp = tokens[cur] BY <1>0, <3>2 DEF Types
    <3> QED BY <3>2, <3>3, SameScope DEF P!EffectiveOf
  <2>4. DOMAIN new = Fields BY <1>0, <2>1 DEF Types
  <2> HIDE DEF eff
  <2>5. IF InvalidConfig(eff.gateway)
           THEN /\ new'.models = EffectiveModels(eff) /\ new'.quota = eff.quota
                /\ new'.synced = "InvalidConfig" /\ pc' = "status"
           ELSE /\ new'.models = EffectiveModels(eff) /\ new'.quota = eff.quota
                /\ desired' = For(eff.gateway, eff.quota)
                /\ stale' = Kinds \ {desired'.kind}
                /\ pc' = "gateway"
    BY <2>2, <2>4 DEF Fields
  <2>6. IF InvalidConfig(eff.gateway) THEN pc' = "status" /\ Shows(new', artifacts', cur', eff)
        ELSE pc' = "gateway" /\ Prepared(new', desired', stale', artifacts', cur', eff)
    BY <2>5 DEF Shows, Prepared
  <2>7. PassIsCurrent'
    BY <1>s, <2>1, <2>3, <2>6 DEF PassIsCurrent
  <2>8. Quiet' BY <1>0, <2>1, QuietKept
  <2> QED BY <2>7, <2>8
<1>11. ASSUME NEW k \in Kinds, DeleteArtifact(k) PROVE PassIsCurrent' /\ Quiet'
  <2>1. /\ UNCHANGED <<policies, status, queue, cur, pc, fresh, seen, new, desired, excused>>
        /\ pc = "gateway" /\ stale' = stale \ {k}
        /\ artifacts' = [artifacts EXCEPT ![k][cur] = NoArtifact]
    BY <1>11 DEF DeleteArtifact
  <2>2. cur \in TokenNames /\ artifacts'[k][cur] = NoArtifact
    BY <1>0, <2>1 DEF Types
  <2>3. \A h \in Kinds, m \in TokenNames : (h # k \/ m # cur) => artifacts'[h][m] = artifacts[h][m]
    BY <1>0, <2>1 DEF Types
  <2>4. PassIsCurrent'
    <3>1. Prepared(new, desired, stale, artifacts, cur, P!EffectiveOf(cur))
            => Prepared(new', desired', stale', artifacts', cur', P!EffectiveOf(cur))
      BY <2>1, <2>2, <2>3 DEF Prepared
    <3> QED BY <1>0, <1>s, <2>1, <3>1 DEF PassIsCurrent
  <2>5. Quiet' BY <1>0, <1>00, <2>1, <2>3, QuietKept
  <2> QED BY <2>4, <2>5
<1>12. ASSUME NEW k \in Kinds, DeleteFails(k) PROVE PassIsCurrent' /\ Quiet'
  <2>1. /\ UNCHANGED <<policies, status, artifacts, queue, cur>> /\ excused' = excused \cup {cur}
    BY <1>12 DEF DeleteFails
  <2>2. PassIsCurrent' BY <2>1 DEF PassIsCurrent
  <2>3. Quiet' BY <1>0, <2>1, QuietKept
  <2> QED BY <2>2, <2>3
<1>13. CASE NoGatewayConfigured
  <2>1. /\ UNCHANGED <<policies, status, artifacts, queue, cur, fresh, seen, excused>>
        /\ pc = "gateway" /\ stale = {} /\ desired = Nothing /\ pc' = "status"
        /\ new' = [new EXCEPT !.ref = NoArtifact, !.synced = "Disabled"]
    BY <1>13 DEF NoGatewayConfigured
  <2>2. /\ new'.models = new.models /\ new'.quota = new.quota
        /\ new'.ref = NoArtifact /\ new'.synced = "Disabled"
    <3>1. DOMAIN new = Fields BY <1>0, <2>1 DEF Types
    <3> QED BY <2>1, <3>1 DEF Fields
  <2>3. Prepared(new, desired, stale, artifacts, cur, P!EffectiveOf(cur))
          => Shows(new', artifacts', cur', P!EffectiveOf(cur))
    BY <2>1, <2>2 DEF Prepared, Shows, Nothing, Kinds
  <2>4. PassIsCurrent' BY <1>0, <1>s, <2>1, <2>3 DEF PassIsCurrent
  <2>5. Quiet' BY <1>0, <2>1, QuietKept
  <2> QED BY <2>4, <2>5
<1>14. CASE ApplyArtifact
  <2>1. /\ UNCHANGED <<policies, status, queue, cur, fresh, seen, desired, excused>>
        /\ pc = "gateway" /\ stale = {} /\ desired # Nothing /\ pc' = "status"
        /\ new' = [new EXCEPT !.ref = desired.kind, !.synced = "Synced"]
        /\ artifacts' = [artifacts EXCEPT ![desired.kind][cur] = desired.body]
    BY <1>14 DEF ApplyArtifact
  <2>2. /\ new'.models = new.models /\ new'.quota = new.quota
        /\ new'.ref = desired.kind /\ new'.synced = "Synced"
    <3>1. DOMAIN new = Fields BY <1>0, <2>1 DEF Types
    <3> QED BY <2>1, <3>1 DEF Fields
  <2>3. /\ \A h \in Kinds, m \in TokenNames : (h # desired.kind \/ m # cur) => artifacts'[h][m] = artifacts[h][m]
        /\ desired.kind \in Kinds => artifacts'[desired.kind][cur] = desired.body
        /\ cur \in TokenNames
    BY <1>0, <2>1 DEF Types
  <2>4. Prepared(new, desired, stale, artifacts, cur, P!EffectiveOf(cur))
          => Shows(new', artifacts', cur', P!EffectiveOf(cur))
    BY <2>1, <2>2, <2>3 DEF Prepared, Shows
  <2>5. PassIsCurrent' BY <1>0, <1>s, <2>1, <2>4 DEF PassIsCurrent
  <2>6. Quiet' BY <1>0, <1>00, <2>1, <2>3, QuietKept
  <2> QED BY <2>5, <2>6
<1>15. CASE ApplyFails
  <2>1. /\ UNCHANGED <<policies, status, artifacts, queue, cur>> /\ excused' = excused \cup {cur}
    BY <1>15 DEF ApplyFails
  <2>2. PassIsCurrent' BY <2>1 DEF PassIsCurrent
  <2>3. Quiet' BY <1>0, <2>1, QuietKept
  <2> QED BY <2>2, <2>3
<1>16. CASE UpdateStatus
  <2>1. /\ UNCHANGED <<policies, artifacts, excused>> /\ pc = "status" /\ cur' = 0
        /\ status' = IF fresh THEN [status EXCEPT ![cur] = new] ELSE status
        /\ queue' = IF fresh /\ new = status[cur] THEN queue ELSE queue \cup {cur}
    BY <1>16 DEF UpdateStatus, Return
  <2>2. PassIsCurrent' BY <2>1 DEF PassIsCurrent
  <2>3. cur \in TokenNames /\ \A m \in TokenNames : m # cur => status'[m] = status[m]
    BY <1>0, <2>1 DEF Types
  <2>4. ASSUME cur \notin queue' \cup excused'
        PROVE  Shows(status'[cur], artifacts', cur, P!EffectiveOf(cur))
    <3>1. fresh /\ new = status[cur] /\ status'[cur] = new /\ cur \notin queue \cup excused
      BY <1>0, <2>1, <2>3, <2>4 DEF Types
    <3>2. cur # 0 BY <1>00, <2>3
    <3> QED BY <1>0, <2>1, <3>1, <3>2 DEF PassIsCurrent
  <2>5. Quiet'
    <3> SUFFICES ASSUME NEW n \in DOMAIN tokens \ (queue' \cup excused')
                 PROVE  Shows(status'[n], artifacts', n, P!EffectiveOf(n))
      BY <1>s, <2>1 DEF Quiet
    <3>1. CASE n = cur BY <2>4, <3>1
    <3>2. CASE n # cur
      <4>1. n \notin queue \cup excused /\ status'[n] = status[n] /\ artifacts' = artifacts
        BY <1>00, <2>1, <2>3, <3>2
      <4> QED BY <1>0, <3>2, <4>1 DEF Quiet
    <3> QED BY <3>1, <3>2
  <2> QED BY <2>2, <2>5
<1>17. CASE Abort
  <2>1. UNCHANGED <<policies, status, artifacts, excused>> /\ queue' = queue \cup {cur} /\ cur' = 0
    BY <1>17 DEF Abort, Return
  <2>2. PassIsCurrent' BY <2>1 DEF PassIsCurrent
  <2>3. Quiet' BY <1>0, <2>1, QuietKept
  <2> QED BY <2>2, <2>3
<1> QED
  BY <1>1, <1>2, <1>3, <1>4, <1>5, <1>6, <1>7, <1>8, <1>9, <1>10, <1>11, <1>12, <1>13, <1>14,
     <1>15, <1>16, <1>17
  DEF Next, Worker

\* Whenever a policy is neither queued nor in a pass, and no failed call or
\* change it is not told of is pending, its status and its gateway artifacts
\* are what its scope resolves to at that moment.
THEOREM AppliedWhenQuiet == Spec => []QuietMeansApplied
<1>1. SyncInv => QuietMeansApplied BY ExactIsShows DEF SyncInv
<1> QED BY <1>1, SyncInit, SyncStep, PTL DEF Spec

=============================================================================
