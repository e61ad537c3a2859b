----------------------------- MODULE StatusSync -----------------------------
(***************************************************************************)
(* The two controllers that only write status, and the validating webhooks *)
(* in front of the objects they read: the ClusterTokenPolicy controller    *)
(* (internal/controller/clustertokenpolicy_controller.go) records which    *)
(* namespaces a policy governs, the ModelClaim controller                  *)
(* (modelclaim_controller.go) records whether the models a claim asks for  *)
(* are permitted to the workloads it covers. Claims and token policies are *)
(* those of the namespace Home.                                            *)
(*                                                                         *)
(* Each controller has its own workqueue and one worker; passes are cut at *)
(* their reads and at the status write. A write of one controller is an    *)
(* event for the other and for itself. An edit is modelled at the moment   *)
(* the informer cache shows it. Reasons and messages of conditions and the *)
(* denying source of a model are left out.                                 *)
(***************************************************************************)
EXTENDS Resolver

CONSTANTS
    ClusterSpecs, TokenSpecs, ClusterNames, TokenNames, NsLabels, Pods, Names,
                    \* as in PolicyHierarchy
    ClaimSpecs,     \* contents of a ModelClaim: [selector, models]
    ClaimNames,     \* names of claims
    Namespaces,     \* names of namespaces
    Home,           \* the namespace of the claims and token policies
    NoLabels,       \* the label of an object without labels
    Absent,         \* "label" of a namespace that does not exist
    NoTarget,       \* a gateway integration without targetRef
    Malformed,      \* a selector or glob that does not parse
    NoObject,       \* no object has been read
    MaxChurn        \* bound: edits, failed calls and crashes

ASSUME NamespacesAssumption ==
    Namespaces \subseteq Nat /\ IsFiniteSet(Namespaces) /\ Home \in Namespaces
ASSUME NobodyAssumption == 0 \notin ClaimNames \cup ClusterNames
ASSUME KeysAssumption == ClusterNames \cup TokenNames \subseteq Nat
ASSUME SpecsAssumption ==
    /\ \A spec \in ClusterSpecs : PolicySpec(spec)
    /\ \A spec \in TokenSpecs : TokenPolicySpec(spec) /\ "" \notin spec.selector.serviceAccounts
    /\ \A spec \in ClaimSpecs :
          /\ spec.models \in Seq(ToSet(spec.models))
          /\ spec.selector.serviceAccounts \in Seq(ToSet(spec.selector.serviceAccounts) \ {""})
ASSUME ChurnAssumption == MaxChurn \in Nat

\* What may be stored: finitely many objects.
Stores(names, specs) == UNION {[N -> specs] : N \in {M \in SUBSET names : IsFiniteSet(M)}}

\* A pod may run as any service account, with any labels: as one a claim lists,
\* and as one that no stored policy lists.
ASSUME PodsAssumption ==
    \A spec \in ClaimSpecs :
        LET sel == spec.selector
        IN  /\ \A i \in DOMAIN sel.serviceAccounts :
                  [serviceAccount |-> sel.serviceAccounts[i], label |-> sel.matchLabels] \in Pods
            /\ \A store \in Stores(TokenNames, TokenSpecs) : \E pod \in Pods :
                  /\ pod.label = sel.matchLabels
                  /\ \A n \in DOMAIN store :
                        pod.serviceAccount \notin store[n].selector.serviceAccounts

VARIABLES
    cluster, tokens, claims,    \* name -> spec, for the objects that exist
    namespaces, \* label of every namespace
    cstatus,    \* status of every cluster policy
    status,     \* status of every claim
    cqueue, queue,  \* the two workqueues
    ccur, cpc, ctp, cfresh, cnew,   \* pass of the ClusterTokenPolicy worker
    cur, pc, mcl, fresh, ctpl, tpl, new,    \* pass of the ModelClaim worker
    churn       \* disturbances so far

objects == <<cluster, tokens, claims, namespaces>>
cpass   == <<ccur, cpc, ctp, cfresh, cnew>>
pass    == <<cur, pc, mcl, fresh, ctpl, tpl, new>>
vars    == <<objects, cstatus, status, cqueue, queue, cpass, pass, churn>>

\* A namespace that is not found has no labels.
namespaceLabels(ns) == IF namespaces[ns] = Absent THEN NoLabels ELSE namespaces[ns]

P == INSTANCE PolicyHierarchy WITH nsLabel <- namespaceLabels(Home)

\* observed: observedGeneration is the current generation. valid: the Valid
\* condition, "Unknown" when it was not set for the current generation. Ready
\* follows Valid in a claim, and in a cluster policy it stays True once set.
\* Gone is the status of an object that does not exist.
Gone == [valid |-> "Gone"]

NoClusterStatus == [observed |-> FALSE, valid |-> "Unknown", ready |-> FALSE,
                    modelCount |-> 0, applied |-> <<>>]

NoClaimStatus == [observed |-> FALSE, valid |-> "Unknown", phase |-> "",
                  models |-> <<>>, bound |-> <<>>]

\* An edit of the spec starts a new generation.
NextGeneration(st) == [st EXCEPT !.observed = FALSE, !.valid = "Unknown"]

-----------------------------------------------------------------------------
(* Validating webhooks: what they let through. They can be switched off     *)
(* (enable-webhooks), so edits below do not depend on them.                *)

ValidRules(rules) == \A i \in DOMAIN rules : rules[i].name # Malformed

ValidGateway(gw) == gw = NoGateway \/ gw.type \in {"None", ""} \/ gw.target # NoTarget

ValidPods(sel) == sel.pods = AnyPod \/ Malformed \notin sel.pods

\* Mutant: the selector is not parsed.
validateClusterRulesOnly(spec) == ValidRules(spec.models) /\ ValidGateway(spec.gateway)

validateCluster(spec) ==
    /\ Malformed \notin spec.namespaceSelector
    /\ ValidRules(spec.models)
    /\ ValidGateway(spec.gateway)

validateToken(spec) ==
    /\ ValidPods(spec.selector)
    /\ ValidRules(spec.models)
    /\ ValidGateway(spec.gateway)

validateClaim(spec) == ValidPods(spec.selector) /\ ValidRules(spec.models)

\* Requested models of which the author is told that they will not bind: the
\* cluster and namespace tiers deny them. An error means no warnings.
permitWarnings(spec) ==
    LET eff == P!Effective(NoIdentity)
    IN  {m \in {spec.models[i].name : i \in DOMAIN spec.models} :
            /\ \A n \in DOMAIN cluster : Malformed \notin cluster[n].namespaceSelector
            /\ eff.modelGoverned
            /\ ~Permit(eff, m).allowed}

-----------------------------------------------------------------------------
(* What a pass computes *)

\* Mutant: the list is recorded as it comes.
sortStringsNot(list) == list

\* Names of namespaces: no two are the same.
sortStrings(list) == Sorted(ToSet(list), <)

\* The listed namespaces that the selector selects.
matched(spec, list) ==
    FoldLeft(LAMBDA acc, ns : IF namespaces[ns] \in spec.namespaceSelector
                                 THEN Append(acc, ns) ELSE acc, <<>>, list)

\* The outcome of a pass that met a selector which does not parse.
Invalid == [valid |-> "Invalid"]

\* The selector is parsed for every listed namespace, so without any nothing
\* fails.
Applied(spec, list) ==
    IF Malformed \in spec.namespaceSelector /\ list # <<>> THEN Invalid
    ELSE [observed |-> TRUE, valid |-> "True", ready |-> TRUE,
          modelCount |-> Len(spec.models),
          applied |-> sortStrings(matched(spec, list))]

Existing == {ns \in Namespaces : namespaces[ns] # Absent}

\* Mutant: the first identity decides.
claimIdentitiesFirst(sel) ==
    <<IF sel.serviceAccounts # <<>>
         THEN [serviceAccount |-> Head(sel.serviceAccounts), label |-> sel.matchLabels]
      ELSE IF sel.matchLabels = NoLabels THEN NoIdentity
      ELSE [serviceAccount |-> "", label |-> sel.matchLabels]>>

\* One representative per service account, with exactly the labels of
\* matchLabels; matchExpressions are not looked at.
claimIdentities(sel) ==
    IF sel.serviceAccounts = <<>>
       THEN <<IF sel.matchLabels = NoLabels THEN NoIdentity
              ELSE [serviceAccount |-> "", label |-> sel.matchLabels]>>
       ELSE [i \in DOMAIN sel.serviceAccounts |->
                [serviceAccount |-> sel.serviceAccounts[i], label |-> sel.matchLabels]]

\* Resolve parses every cluster policy's selector, and the pod selector of the
\* workload policies whose service accounts match.
ResolveFails(clusterPolicies, policies, id) ==
    \/ \E p \in clusterPolicies : Malformed \in p.spec.namespaceSelector
    \/ /\ id # NoIdentity
       /\ \E p \in policies :
            /\ ~ValidPods(p.spec.selector)
            /\ \/ p.spec.selector.serviceAccounts = {}
               \/ id.serviceAccount \in p.spec.selector.serviceAccounts

\* The verdict on one request: every identity must permit it, the first
\* credential an identity is given wins over the claim's preference.
resolveModel(request, effs) ==
    IF \E i \in DOMAIN effs : ~Permit(effs[i], request.name).allowed
       THEN [name |-> request.name, action |-> "Deny", cred |-> NoCred]
       ELSE [name |-> request.name, action |-> "Allow",
             cred |-> FoldRight(LAMBDA eff, rest :
                          IF Permit(eff, request.name).cred = NoCred THEN rest
                          ELSE Permit(eff, request.name).cred, effs, request.cred)]

distinctAllowedCredentials(models) ==
    FoldLeft(LAMBDA acc, m : IF m.action = "Deny" \/ m.cred \in ToSet(acc) \cup {NoCred}
                                THEN acc ELSE Append(acc, m.cred),
             <<>>, models)

\* Mutant: a claim is denied when all of its models are.
VerdictAllDenied(models) ==
    [observed |-> TRUE, valid |-> "True",
     phase |-> IF \A i \in DOMAIN models : models[i].action = "Deny" THEN "Denied" ELSE "Bound",
     models |-> models, bound |-> distinctAllowedCredentials(models)]

Verdict(models) ==
    [observed |-> TRUE, valid |-> "True",
     phase |-> IF \E i \in DOMAIN models : models[i].action = "Deny" THEN "Denied" ELSE "Bound",
     models |-> models, bound |-> distinctAllowedCredentials(models)]

\* (Sets with one element name intermediate values, so that TLC computes each
\* of them once.)
resolveClaim(spec, clusterPolicies, policies, label) ==
    LET ids    == claimIdentities(spec.selector)
        effs   == {[i \in DOMAIN ids |-> Resolve(clusterPolicies, policies, label, ids[i])]}
        models == {[i \in DOMAIN spec.models |-> resolveModel(spec.models[i], e)] : e \in effs}
    IN  IF \E i \in DOMAIN ids : ResolveFails(clusterPolicies, policies, ids[i])
           THEN Invalid
           ELSE CHOOSE v \in {Verdict(m) : m \in models} : TRUE

\* A failed resolution only sets the conditions.
Outcome(old, result) ==
    IF result = Invalid THEN [old EXCEPT !.valid = "False"] ELSE result

-----------------------------------------------------------------------------
(* Edits, with the events they cause *)

CIdle == ccur = 0 /\ cpc = "idle" /\ ctp = NoObject /\ cfresh = FALSE /\ cnew = Gone

Idle ==
    /\ cur = 0 /\ pc = "idle" /\ mcl = NoObject /\ fresh = FALSE
    /\ ctpl = {} /\ tpl = {} /\ new = Gone

\* The manager starts for the first time, on objects without status.
Init ==
    /\ cluster \in Stores(ClusterNames, ClusterSpecs)
    /\ tokens \in Stores(TokenNames, TokenSpecs)
    /\ claims \in Stores(ClaimNames, ClaimSpecs)
    /\ namespaces \in [Namespaces -> NsLabels \cup {Absent}]
    /\ Home \in Existing
    /\ cstatus = [n \in ClusterNames |-> IF n \in DOMAIN cluster THEN NoClusterStatus ELSE Gone]
    /\ status = [n \in ClaimNames |-> IF n \in DOMAIN claims THEN NoClaimStatus ELSE Gone]
    /\ cqueue = DOMAIN cluster /\ queue = DOMAIN claims
    /\ CIdle /\ Idle
    /\ churn = 0

Disturb == churn < MaxChurn /\ churn' = churn + 1

\* For(&ClusterTokenPolicy{}), and claimsForAll of the other controller.
EditCluster(n) ==
    /\ Disturb
    /\ \/ \E s \in ClusterSpecs :
            /\ cluster' = P!Put(cluster, n, s)
            /\ cluster' # cluster
            /\ cstatus' = [cstatus EXCEPT ![n] =
                 IF n \in DOMAIN cluster THEN NextGeneration(@) ELSE NoClusterStatus]
       \/ /\ n \in DOMAIN cluster
          /\ cluster' = P!Drop(cluster, n)
          /\ cstatus' = [cstatus EXCEPT ![n] = Gone]
    /\ cfresh' = (cfresh /\ ccur # n)
    /\ cqueue' = cqueue \cup {n}
    /\ queue' = queue \cup DOMAIN claims
    /\ UNCHANGED <<tokens, claims, namespaces, status, ccur, cpc, ctp, cnew, pass>>

\* Watches(&TokenPolicy{}, claimsForAll).
EditToken(n) ==
    /\ Disturb
    /\ \/ \E s \in TokenSpecs :
            tokens' = P!Put(tokens, n, s) /\ tokens' # tokens
       \/ n \in DOMAIN tokens /\ tokens' = P!Drop(tokens, n)
    /\ queue' = queue \cup DOMAIN claims
    /\ UNCHANGED <<cluster, claims, namespaces, cstatus, status, cqueue, cpass, pass>>

\* For(&ModelClaim{}).
EditClaim(n) ==
    /\ Disturb
    /\ \/ \E s \in ClaimSpecs :
            /\ claims' = P!Put(claims, n, s)
            /\ claims' # claims
            /\ status' = [status EXCEPT ![n] =
                 IF n \in DOMAIN claims THEN NextGeneration(@) ELSE NoClaimStatus]
       \/ /\ n \in DOMAIN claims
          /\ claims' = P!Drop(claims, n)
          /\ status' = [status EXCEPT ![n] = Gone]
    /\ fresh' = (fresh /\ cur # n)
    /\ queue' = queue \cup {n}
    /\ UNCHANGED <<cluster, tokens, namespaces, cstatus, cqueue, cpass, cur, pc,
                   mcl, ctpl, tpl, new>>

\* Watches(&Namespace{}, ...) of both controllers.
EditNamespace(ns, label) ==
    /\ Disturb
    /\ label # namespaces[ns]
    /\ namespaces' = [namespaces EXCEPT ![ns] = label]
    /\ cqueue' = cqueue \cup DOMAIN cluster
    /\ queue' = queue \cup DOMAIN claims
    /\ UNCHANGED <<cluster, tokens, claims, cstatus, status, cpass, pass>>

\* An event that changes nothing a pass reads: of a ModelCredential, of the
\* status of a TokenPolicy, or the informers' resync.
OtherEvent ==
    /\ Disturb
    /\ queue' = queue \cup DOMAIN claims
    /\ UNCHANGED <<objects, cstatus, status, cqueue, cpass, pass>>

-----------------------------------------------------------------------------
(* The ClusterTokenPolicy worker *)

CReturn == ccur' = 0 /\ cpc' = "idle" /\ ctp' = NoObject /\ cfresh' = FALSE /\ cnew' = Gone

GetClusterPolicy(n) ==
    /\ cpc = "idle"
    /\ n \in cqueue
    /\ cqueue' = cqueue \ {n}
    /\ IF n \notin DOMAIN cluster THEN UNCHANGED cpass
       ELSE /\ ccur' = n
            /\ cpc' = "namespaces"
            /\ ctp' = cluster[n]
            /\ cfresh' = TRUE
            /\ cnew' = cstatus[n]
    /\ UNCHANGED <<objects, cstatus, status, queue, pass, churn>>

\* The cache lists in no particular order.
ListNamespaces ==
    /\ cpc = "namespaces"
    /\ \E list \in SetToSeqs(Existing) : cnew' = Outcome(cnew, Applied(ctp, list))
    /\ cpc' = "status"
    /\ UNCHANGED <<objects, cstatus, status, cqueue, queue, ccur, ctp, cfresh, pass, churn>>

\* A copy that is out of date is refused and requeued. A write that changes
\* something is an event for this controller and for the claims.
UpdateClusterStatus ==
    /\ cpc = "status"
    /\ IF cfresh /\ cnew = cstatus[ccur]
          THEN UNCHANGED <<cstatus, cqueue, queue>>
          ELSE /\ cqueue' = cqueue \cup {ccur}
               /\ IF cfresh
                     THEN /\ cstatus' = [cstatus EXCEPT ![ccur] = cnew]
                          /\ queue' = queue \cup DOMAIN claims
                     ELSE UNCHANGED <<cstatus, queue>>
    /\ CReturn
    /\ UNCHANGED <<objects, status, pass, churn>>

\* Returned errors of List and Update; the server may be ahead of the cache.
AbortCluster ==
    /\ Disturb
    /\ cpc # "idle"
    /\ cqueue' = cqueue \cup {ccur}
    /\ CReturn
    /\ UNCHANGED <<objects, cstatus, status, queue, pass>>

-----------------------------------------------------------------------------
(* The ModelClaim worker *)

Return ==
    /\ cur' = 0 /\ pc' = "idle" /\ mcl' = NoObject /\ fresh' = FALSE
    /\ ctpl' = {} /\ tpl' = {} /\ new' = Gone

GetClaim(n) ==
    /\ pc = "idle"
    /\ n \in queue
    /\ queue' = queue \ {n}
    /\ IF n \notin DOMAIN claims THEN UNCHANGED pass
       ELSE /\ cur' = n
            /\ pc' = "cluster"
            /\ mcl' = claims[n]
            /\ fresh' = TRUE
            /\ new' = status[n]
            /\ UNCHANGED <<ctpl, tpl>>
    /\ UNCHANGED <<objects, cstatus, status, cqueue, cpass, churn>>

ListClusterPolicies ==
    /\ pc = "cluster"
    /\ ctpl' = P!Named(cluster)
    /\ pc' = "tokens"
    /\ UNCHANGED <<objects, cstatus, status, cqueue, queue, cpass, cur, mcl, fresh, tpl, new,
                   churn>>

ListTokenPolicies ==
    /\ pc = "tokens"
    /\ tpl' = P!Named(tokens)
    /\ pc' = "namespace"
    /\ UNCHANGED <<objects, cstatus, status, cqueue, queue, cpass, cur, mcl, fresh, ctpl, new,
                   churn>>

\* Mutant: a failed resolution leaves the conditions alone.
GetNamespaceKeepsConditions ==
    /\ pc = "namespace"
    /\ \E result \in {resolveClaim(mcl, ctpl, tpl, namespaceLabels(Home))} :
          new' = IF result = Invalid THEN new ELSE result
    /\ pc' = "status"
    /\ UNCHANGED <<objects, cstatus, status, cqueue, queue, cpass, cur, mcl, fresh, ctpl, tpl,
                   churn>>

\* The namespace is read and the claim resolved.
GetNamespace ==
    /\ pc = "namespace"
    /\ \E result \in {resolveClaim(mcl, ctpl, tpl, namespaceLabels(Home))} :
          new' = Outcome(new, result)
    /\ pc' = "status"
    /\ UNCHANGED <<objects, cstatus, status, cqueue, queue, cpass, cur, mcl, fresh, ctpl, tpl,
                   churn>>

\* Mutant: the status is written without a resourceVersion.
UpdateClaimStatusUnversioned ==
    /\ pc = "status"
    /\ IF new = status[cur] THEN UNCHANGED <<status, queue>>
       ELSE /\ queue' = queue \cup {cur}
            /\ status' = [status EXCEPT ![cur] = new]
    /\ Return
    /\ UNCHANGED <<objects, cstatus, cqueue, cpass, churn>>

\* Mutant: every write differs from the last (a fresh timestamp, say).
UpdateClaimStatusStamped ==
    /\ pc = "status"
    /\ queue' = queue \cup {cur}
    /\ status' = IF fresh THEN [status EXCEPT ![cur] = new] ELSE status
    /\ Return
    /\ UNCHANGED <<objects, cstatus, cqueue, cpass, churn>>

UpdateClaimStatus ==
    /\ pc = "status"
    /\ IF fresh /\ new = status[cur] THEN UNCHANGED <<status, queue>>
       ELSE /\ queue' = queue \cup {cur}
            /\ status' = IF fresh THEN [status EXCEPT ![cur] = new] ELSE status
    /\ Return
    /\ UNCHANGED <<objects, cstatus, cqueue, cpass, churn>>

AbortClaim ==
    /\ Disturb
    /\ pc # "idle"
    /\ queue' = queue \cup {cur}
    /\ Return
    /\ UNCHANGED <<objects, cstatus, status, cqueue, cpass>>

\* The manager restarts and enqueues what it lists.
CrashRestart ==
    /\ Disturb
    /\ cqueue' = DOMAIN cluster
    /\ queue' = DOMAIN claims
    /\ CReturn /\ Return
    /\ UNCHANGED <<objects, cstatus, status>>

ClusterWorker ==
    \/ \E n \in ClusterNames : GetClusterPolicy(n)
    \/ ListNamespaces
    \/ UpdateClusterStatus

ClaimWorker ==
    \/ \E n \in ClaimNames : GetClaim(n)
    \/ ListClusterPolicies
    \/ ListTokenPolicies
    \/ GetNamespace
    \/ UpdateClaimStatus

Next ==
    \/ \E n \in ClusterNames : EditCluster(n)
    \/ \E n \in TokenNames : EditToken(n)
    \/ \E n \in ClaimNames : EditClaim(n)
    \/ \E ns \in Namespaces, l \in NsLabels \cup {Absent} : EditNamespace(ns, l)
    \/ OtherEvent
    \/ ClusterWorker \/ AbortCluster
    \/ ClaimWorker \/ AbortClaim
    \/ CrashRestart

\* Both workers run, and their queues are first in, first out: no object is
\* passed over for ever.
Fairness ==
    /\ WF_vars(ClusterWorker) /\ WF_vars(ClaimWorker)
    /\ \A n \in ClusterNames : SF_vars(GetClusterPolicy(n))
    /\ \A n \in ClaimNames : SF_vars(GetClaim(n))

Spec == Init /\ [][Next]_vars /\ Fairness

-----------------------------------------------------------------------------
(* Properties *)

\* Objects and their status exist together, and a worker has an object
\* exactly while it is in a pass.
TypeOK ==
    /\ DOMAIN cluster \subseteq ClusterNames /\ DOMAIN cstatus = ClusterNames
    /\ DOMAIN claims \subseteq ClaimNames /\ DOMAIN status = ClaimNames
    /\ \A n \in ClusterNames : cstatus[n] = Gone <=> n \notin DOMAIN cluster
    /\ \A n \in ClaimNames : status[n] = Gone <=> n \notin DOMAIN claims
    /\ cqueue \subseteq ClusterNames /\ queue \subseteq ClaimNames
    /\ cpc \in {"idle", "namespaces", "status"}
    /\ pc \in {"idle", "cluster", "tokens", "namespace", "status"}
    /\ ccur \in ClusterNames \cup {0} /\ cur \in ClaimNames \cup {0}
    /\ cpc = "idle" <=> ccur = 0
    /\ pc = "idle" <=> cur = 0
    /\ churn \in 0..MaxChurn

\* What a status tells: after a failed pass only that it failed.
Shown(st) == IF st.valid = "False" THEN Invalid ELSE st

\* What the objects as they are now ask to be recorded.
WantedCluster(n) ==
    IF n \in DOMAIN cluster THEN Applied(cluster[n], Sorted(Existing, <)) ELSE Gone

WantedClaim(n) ==
    IF n \in DOMAIN claims
       THEN resolveClaim(claims[n], P!Named(cluster), P!Named(tokens), namespaceLabels(Home))
       ELSE Gone

ClusterPolicies == INSTANCE LevelTriggered WITH
    Keys <- ClusterNames,
    want <- [n \in ClusterNames |-> WantedCluster(n)],
    have <- [n \in ClusterNames |-> Shown(cstatus[n])],
    due  <- cqueue \cup ({ccur} \ {0})

Claims == INSTANCE LevelTriggered WITH
    Keys <- ClaimNames,
    want <- [n \in ClaimNames |-> WantedClaim(n)],
    have <- [n \in ClaimNames |-> Shown(status[n])],
    due  <- queue \cup ({cur} \ {0})

\* Both controllers are level-triggered: an object that is neither queued nor
\* in a pass has the status that the policies, namespaces and labels of this
\* moment ask for, however edits, conflicts, failed calls and restarts fell
\* between the reads of its passes.
ClusterStatusIsLevelTriggered == ClusterPolicies!Spec

ClaimStatusIsLevelTriggered == Claims!Spec

\* Every status write is an event that starts another pass, here and in the
\* other controller; once nothing is edited the two fall silent for good.
WritesSubside == <>[](cqueue = {} /\ queue = {} /\ cpc = "idle" /\ pc = "idle")

\* The validating webhooks refuse whatever the controllers would choke on:
\* where all that is stored passes them, as it does unless they are switched
\* off, no status that is up to date reports an unparsable selector.
ValidatedMeansResolvable ==
    LET clean == /\ \A n \in DOMAIN cluster : validateCluster(cluster[n])
                 /\ \A n \in DOMAIN tokens : validateToken(tokens[n])
    IN  clean => /\ \A n \in DOMAIN cluster \ (cqueue \cup {ccur}) : cstatus[n].valid = "True"
                 /\ \A n \in DOMAIN claims \ (queue \cup {cur}) : status[n].valid = "True"

\* A claim nobody has work for, and the pods it covers at admission.
Settled(n) == n \in DOMAIN claims \ (queue \cup {cur}) /\ status[n].valid = "True"

Sel(spec) == [serviceAccounts |-> ToSet(spec.selector.serviceAccounts),
              pods |-> spec.selector.pods]

Covers(spec, pod) == workloadMatches(Sel(spec), pod)

\* The pod selector is matchLabels alone.
Plain(spec) == spec.selector.pods = IF spec.selector.matchLabels = NoLabels THEN AnyPod
                                    ELSE {spec.selector.matchLabels}

\* The identities a claim is judged by, and the workload policies they match.
Representatives(spec) ==
    IF spec.selector.serviceAccounts = <<>> /\ spec.selector.matchLabels = NoLabels
       THEN {NoIdentity}
       ELSE [serviceAccount : IF spec.selector.serviceAccounts = <<>> THEN {""}
                              ELSE ToSet(spec.selector.serviceAccounts),
             label : {spec.selector.matchLabels}]

TierOf(id) == IF id = NoIdentity THEN {} ELSE P!WorkloadTier(id)

Refused(pod, m) ==
    \E tier \in {P!ClusterTier, P!NamespaceTier, P!WorkloadTier(pod)} : P!Refuses(tier, m)

\* The preview and admission agree as far as representatives can tell. A model
\* marked Deny is refused by admission to some pod the claim covers; a model
\* marked Allow is permitted to every covered pod that matches the same
\* workload policies as one of the representatives.
PreviewAgreesWithAdmission ==
    \A n \in ClaimNames : Settled(n) /\ Plain(claims[n]) =>
        LET covered == {pod \in Pods : Covers(claims[n], pod)}
        IN  \A i \in DOMAIN status[n].models :
              LET m == status[n].models[i]
              IN  IF m.action = "Deny" THEN \E pod \in covered : Refused(pod, m.name)
                  ELSE \A pod \in covered :
                          (\E id \in Representatives(claims[n]) :
                              TierOf(id) = P!WorkloadTier(pod)) => ~Refused(pod, m.name)

\* What permitWarnings tells the author of a claim comes true: while the
\* policies stay as they were, a model that "will not bind" is denied to the
\* claim, whatever workload policies its identities match, and the claim is.
WarningsComeTrue ==
    \A n \in ClaimNames : Settled(n) =>
        \A m \in permitWarnings(claims[n]) :
            /\ status[n].phase = "Denied"
            /\ \A i \in DOMAIN status[n].models :
                  status[n].models[i].name = m => status[n].models[i].action = "Deny"

=============================================================================
