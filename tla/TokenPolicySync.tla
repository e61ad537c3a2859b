-------------------------- MODULE TokenPolicySync --------------------------
(***************************************************************************)
(* The TokenPolicy controller (internal/controller/                        *)
(* tokenpolicy_controller.go) and the gateway artifacts it generates       *)
(* (internal/gateway/gateway.go), for the policies of one namespace.       *)
(*                                                                         *)
(* A pass reads the policy, the cluster policies and the namespace's       *)
(* policies, resolves them, deletes the artifacts of the gateway kinds not *)
(* selected, applies the selected one and writes the policy's status.      *)
(* Failing artifact calls are logged or dropped and never retried by the   *)
(* pass itself. The controller watches TokenPolicies and cluster policies; *)
(* a policy is not enqueued when a sibling or the namespace changes.       *)
(*                                                                         *)
(* An edit is modelled at the moment the informer cache shows it. The      *)
(* status keeps what the properties compare: conditions other than         *)
(* GatewaySynced and the observed generation are left out, selectors are   *)
(* well formed. A gateway integration is a record [type, target].          *)
(***************************************************************************)
EXTENDS Resolver

CONSTANTS
    ClusterSpecs, TokenSpecs, ClusterNames, TokenNames, NsLabels, Pods, Names,
                    \* as in PolicyHierarchy
    NoTarget,       \* a gateway integration without targetRef
    NoArtifact,     \* the artifact does not exist; GatewayRef is empty
    NoPolicy,       \* no policy has been read
    MaxChurn        \* bound: edits, failed calls and crashes

Kinds == {"EnvoyAIGateway", "Kuadrant"}

ASSUME ChurnAssumption == MaxChurn \in Nat
ASSUME KeysAssumption == ClusterNames \subseteq Nat /\ TokenNames \subseteq Nat \ {0}
ASSUME SpecsAssumption ==
    /\ \A spec \in ClusterSpecs : PolicySpec(spec)
    /\ \A spec \in TokenSpecs : TokenPolicySpec(spec)
    /\ \A spec \in ClusterSpecs \cup TokenSpecs :
          spec.gateway = NoGateway \/ spec.gateway.type \in Kinds \cup {"None"}

VARIABLES
    cluster, tokens, nsLabel,   \* the policies, as in PolicyHierarchy
    status,     \* status of every policy, NoStatus when it has none
    artifacts,  \* artifacts[kind][n]: the object of that kind for policy n
    queue,      \* policies in the workqueue
    cur,        \* the policy being reconciled, 0 when none is
    pc,         \* the next step of the running pass
    tp,         \* the spec it has read
    fresh,      \* its copy of the policy is still current
    seen,       \* the cluster policies it has read
    new,        \* the status it is going to write
    desired,    \* the artifact it wants: [kind, body]
    stale,      \* kinds whose artifact it has still to delete
    churn,      \* disturbances so far
    excused     \* history: policies that missed a change they are not told of

policies == <<cluster, tokens, nsLabel>>
pass     == <<cur, pc, tp, fresh, seen, new, desired, stale>>
vars     == <<policies, status, artifacts, queue, pass, churn, excused>>

P == INSTANCE PolicyHierarchy

NoStatus == [models |-> {}, quota |-> NoQuota, ref |-> NoArtifact,
             synced |-> "Unknown"]

Nothing == [kind |-> "None", body |-> NoArtifact]

-----------------------------------------------------------------------------
(* Gateway artifacts *)

\* The windows a kind of artifact can express; without any it states a limit
\* of zero.
limits(kind, quota) ==
    LET wins == IF kind = "Kuadrant" THEN {"tokensPerMinute", "tokensPerDay"}
                                     ELSE {"requestsPerMinute", "tokensPerMinute"}
        set  == IF quota = NoQuota THEN {} ELSE {w \in wins : quota[w] # Unset}
        zero == IF kind = "Kuadrant" THEN "tokensPerMinute" ELSE "requestsPerMinute"
    IN  IF set = {} THEN {<<zero, 0>>} ELSE {<<w, quota[w]>> : w \in set}

GatewayOff(gw) == gw = NoGateway \/ gw.type = "None"

InvalidConfig(gw) == ~GatewayOff(gw) /\ gw.target = NoTarget

\* The artifact for an integration that is valid.
For(gw, quota) ==
    IF GatewayOff(gw) THEN Nothing
    ELSE [kind |-> gw.type,
          body |-> [target |-> gw.target, limits |-> limits(gw.type, quota)]]

-----------------------------------------------------------------------------
(* Edits *)

Idle ==
    /\ cur = 0
    /\ pc = "idle"
    /\ tp = NoPolicy
    /\ fresh = FALSE
    /\ seen = {}
    /\ new = NoStatus
    /\ desired = Nothing
    /\ stale = {}

Init ==
    /\ P!Init
    /\ status = [n \in TokenNames |-> NoStatus]
    /\ artifacts = [k \in Kinds |-> [n \in TokenNames |-> NoArtifact]]
    /\ queue = {}
    /\ Idle
    /\ churn = 0
    /\ excused = {}

Disturb == churn < MaxChurn /\ churn' = churn + 1

\* Watches(&ClusterTokenPolicy{}, tokenPoliciesForAll).
EditCluster ==
    /\ Disturb
    /\ \E n \in ClusterNames : P!DeleteCluster(n) \/ \E s \in ClusterSpecs : P!ApplyCluster(n, s)
    /\ queue' = queue \cup DOMAIN tokens
    /\ UNCHANGED <<status, artifacts, pass, excused>>

\* For(&TokenPolicy{}): the policy itself is enqueued, its siblings are not.
EditToken(n) ==
    /\ Disturb
    /\ P!DeleteToken(n) \/ \E s \in TokenSpecs : P!ApplyToken(n, s)
    /\ queue' = queue \cup {n}
    /\ fresh' = (fresh /\ cur # n)
    /\ status' = IF n \in DOMAIN tokens' THEN status ELSE [status EXCEPT ![n] = NoStatus]
    /\ excused' = excused \cup (TokenNames \ {n})
    /\ UNCHANGED <<artifacts, cur, pc, tp, seen, new, desired, stale>>

\* Namespaces are not watched.
RelabelNamespace ==
    /\ Disturb
    /\ \E l \in NsLabels : P!Relabel(l)
    /\ excused' = TokenNames
    /\ UNCHANGED <<status, artifacts, queue, pass>>

\* Artifacts are owned by their policy.
GarbageCollect(n) ==
    /\ n \notin DOMAIN tokens
    /\ \E k \in Kinds : artifacts[k][n] # NoArtifact
    /\ artifacts' = [k \in Kinds |-> [artifacts[k] EXCEPT ![n] = NoArtifact]]
    /\ UNCHANGED <<policies, status, queue, pass, churn, excused>>

\* The informers' periodic resync delivers every object again.
Resync(n) ==
    /\ n \in DOMAIN tokens \ queue
    /\ queue' = queue \cup {n}
    /\ UNCHANGED <<policies, status, artifacts, pass, churn, excused>>

-----------------------------------------------------------------------------
(* Reconcile *)

Return ==
    /\ cur' = 0
    /\ pc' = "idle"
    /\ tp' = NoPolicy
    /\ fresh' = FALSE
    /\ seen' = {}
    /\ new' = NoStatus
    /\ desired' = Nothing
    /\ stale' = {}

Start(n) ==
    /\ pc = "idle"
    /\ n \in queue
    /\ queue' = queue \ {n}
    /\ excused' = excused \ {n}
    /\ IF n \notin DOMAIN tokens
          THEN UNCHANGED pass
          ELSE /\ cur' = n
               /\ pc' = "cluster"
               /\ tp' = tokens[n]
               /\ fresh' = TRUE
               /\ new' = status[n]
               /\ UNCHANGED <<seen, desired, stale>>
    /\ UNCHANGED <<policies, status, artifacts, churn>>

ListClusterPolicies ==
    /\ pc = "cluster"
    /\ seen' = P!Named(cluster)
    /\ pc' = "tokens"
    /\ UNCHANGED <<policies, status, artifacts, queue, cur, tp, fresh, new, desired, stale,
                   churn, excused>>

\* A policy edited or deleted since it was read is listed as it is now but
\* resolved for the selector that was read.
ListTokenPolicies ==
    /\ pc = "tokens"
    /\ \E eff \in {ResolveForPolicy(seen, P!Named(tokens), nsLabel,
                                    [name |-> cur, spec |-> tp])} :
       LET st == [new EXCEPT !.models = EffectiveModels(eff), !.quota = eff.quota]
       IN  IF InvalidConfig(eff.gateway)
              THEN /\ new' = [st EXCEPT !.synced = "InvalidConfig"]
                   /\ pc' = "status"
                   /\ UNCHANGED <<desired, stale>>
              ELSE /\ new' = st
                   /\ desired' = For(eff.gateway, eff.quota)
                   /\ stale' = Kinds \ {desired'.kind}
                   /\ pc' = "gateway"
    /\ UNCHANGED <<policies, status, artifacts, queue, cur, tp, fresh, seen, churn, excused>>

\* The kind to delete next; they are tried in a fixed order.
NextStale(k) == k \in stale /\ ("EnvoyAIGateway" \in stale => k = "EnvoyAIGateway")

\* Mutant: the other kinds are left where they are.
DeleteArtifactNever(k) ==
    /\ pc = "gateway"
    /\ NextStale(k)
    /\ stale' = stale \ {k}
    /\ UNCHANGED <<policies, status, artifacts, queue, cur, pc, tp, fresh, seen, new,
                   desired, churn, excused>>

DeleteArtifact(k) ==
    /\ pc = "gateway"
    /\ NextStale(k)
    /\ stale' = stale \ {k}
    /\ artifacts' = [artifacts EXCEPT ![k][cur] = NoArtifact]
    /\ UNCHANGED <<policies, status, queue, cur, pc, tp, fresh, seen, new, desired, churn,
                   excused>>

\* The error of a failing Delete is dropped.
DeleteFails(k) ==
    /\ Disturb
    /\ pc = "gateway"
    /\ NextStale(k)
    /\ stale' = stale \ {k}
    /\ excused' = excused \cup {cur}
    /\ UNCHANGED <<policies, status, artifacts, queue, cur, pc, tp, fresh, seen, new, desired>>

NoGatewayConfigured ==
    /\ pc = "gateway"
    /\ stale = {}
    /\ desired = Nothing
    /\ new' = [new EXCEPT !.ref = NoArtifact, !.synced = "Disabled"]
    /\ pc' = "status"
    /\ UNCHANGED <<policies, status, artifacts, queue, cur, tp, fresh, seen, desired, stale,
                   churn, excused>>

\* Mutant: an artifact that exists is taken for the wanted one.
ApplyArtifactOnce ==
    /\ pc = "gateway"
    /\ stale = {}
    /\ desired # Nothing
    /\ artifacts' = IF artifacts[desired.kind][cur] # NoArtifact THEN artifacts
                    ELSE [artifacts EXCEPT ![desired.kind][cur] = desired.body]
    /\ new' = [new EXCEPT !.ref = desired.kind, !.synced = "Synced"]
    /\ pc' = "status"
    /\ UNCHANGED <<policies, status, queue, cur, tp, fresh, seen, desired, stale, churn,
                   excused>>

ApplyArtifact ==
    /\ pc = "gateway"
    /\ stale = {}
    /\ desired # Nothing
    /\ artifacts' = [artifacts EXCEPT ![desired.kind][cur] = desired.body]
    /\ new' = [new EXCEPT !.ref = desired.kind, !.synced = "Synced"]
    /\ pc' = "status"
    /\ UNCHANGED <<policies, status, queue, cur, tp, fresh, seen, desired, stale, churn,
                   excused>>

\* Reported in a condition and logged; GatewayRef stays as it was and the
\* pass does not ask for another one.
ApplyFails ==
    /\ Disturb
    /\ pc = "gateway"
    /\ stale = {}
    /\ desired # Nothing
    /\ new' = [new EXCEPT !.synced = "ApplyFailed"]
    /\ excused' = excused \cup {cur}
    /\ pc' = "status"
    /\ UNCHANGED <<policies, status, artifacts, queue, cur, tp, fresh, seen, desired, stale>>

\* Mutant: the status is patched without a resourceVersion.
UpdateStatusUnversioned ==
    /\ pc = "status"
    /\ status' = [status EXCEPT ![cur] = new]
    /\ queue' = IF new # status[cur] THEN queue \cup {cur} ELSE queue
    /\ Return
    /\ UNCHANGED <<policies, artifacts, churn, excused>>

\* A copy that is out of date is refused and the key requeued; a write that
\* changes something comes back as an event.
UpdateStatus ==
    /\ pc = "status"
    /\ status' = IF fresh THEN [status EXCEPT ![cur] = new] ELSE status
    /\ queue' = IF fresh /\ new = status[cur] THEN queue ELSE queue \cup {cur}
    /\ Return
    /\ UNCHANGED <<policies, artifacts, churn, excused>>

\* A failed read or status update is returned; the key is requeued.
Abort ==
    /\ Disturb
    /\ pc \in {"cluster", "tokens", "status"}
    /\ queue' = queue \cup {cur}
    /\ Return
    /\ UNCHANGED <<policies, status, artifacts, excused>>

CrashRestart ==
    /\ Disturb
    /\ queue' = DOMAIN tokens
    /\ Return
    /\ UNCHANGED <<policies, status, artifacts, excused>>

Worker ==
    \/ \E n \in TokenNames : Start(n)
    \/ ListClusterPolicies
    \/ ListTokenPolicies
    \/ \E k \in Kinds : DeleteArtifact(k) \/ DeleteFails(k)
    \/ NoGatewayConfigured
    \/ ApplyArtifact
    \/ ApplyFails
    \/ UpdateStatus
    \/ Abort

Next ==
    \/ EditCluster
    \/ \E n \in TokenNames : EditToken(n)
    \/ RelabelNamespace
    \/ \E n \in TokenNames : GarbageCollect(n) \/ Resync(n)
    \/ CrashRestart
    \/ Worker

\* The queue is first in, first out, so no policy waits for ever.
Fairness ==
    /\ WF_vars(Worker)
    /\ WF_vars(\E n \in TokenNames : GarbageCollect(n))
    /\ \A n \in TokenNames : SF_vars(Start(n)) /\ WF_vars(Resync(n))

Spec == Init /\ [][Next]_vars /\ Fairness

-----------------------------------------------------------------------------
(* Properties *)

\* Statuses belong to policies that exist, and a pass has the locals its step
\* asks for.
TypeOK ==
    /\ \A n \in TokenNames \ DOMAIN tokens : status[n] = NoStatus
    /\ queue \subseteq TokenNames
    /\ pc \in {"idle", "cluster", "tokens", "gateway", "status"}
    /\ pc = "idle" <=> cur = 0
    /\ desired.kind \in Kinds \cup {"None"}
    /\ desired.kind \notin stale
    /\ churn \in 0..MaxChurn

\* Status and artifacts of a policy are what the hierarchy says now.
Exact(n) ==
    LET eff  == P!EffectiveOf(n)
        want == For(eff.gateway, eff.quota)
    IN  /\ status[n].models = EffectiveModels(eff)
        /\ status[n].quota = eff.quota
        /\ IF InvalidConfig(eff.gateway) THEN status[n].synced = "InvalidConfig"
           ELSE /\ \A k \in Kinds :
                      artifacts[k][n] = IF k = want.kind THEN want.body ELSE NoArtifact
                /\ status[n].ref = IF want = Nothing THEN NoArtifact ELSE want.kind
                /\ status[n].synced = IF want = Nothing THEN "Disabled" ELSE "Synced"

\* A policy that is neither queued nor in a pass, that no failed call and no
\* change of a sibling or of the namespace has passed by, has exactly one
\* artifact, of the selected kind and with the effective limits, and a status
\* that names it, however edits of it and of cluster policies, conflicts,
\* aborted passes and restarts interleaved with its passes.
QuietMeansApplied ==
    \A n \in DOMAIN tokens \ (queue \cup excused) : n # cur => Exact(n)

\* Whatever was missed or failed, once edits and failures stop the periodic
\* resync brings every policy to its exact state for good, and the artifacts
\* of deleted policies are gone.
PoliciesConverge ==
    <>[](\A n \in TokenNames :
            IF n \in DOMAIN tokens THEN Exact(n)
            ELSE \A k \in Kinds : artifacts[k][n] = NoArtifact)

-----------------------------------------------------------------------------
(* Promises the code does not keep *)

Settled(n) == n \in DOMAIN tokens \ queue /\ n # cur

\* tokenpolicy_types.go:56: "EffectiveQuota is the resolved (most restrictive)
\* quota across the hierarchy." No event follows a change of a sibling.
EffectiveQuotaIsResolved ==
    \A n \in TokenNames : Settled(n) => status[n].quota = P!EffectiveOf(n).quota

=============================================================================
