---------------------------- MODULE PodAdmission ----------------------------
(***************************************************************************)
(* Pod admission (internal/webhook/v1alpha1/pod_webhook.go and             *)
(* webhook_common.go): the mutating webhook binds credentials into a pod   *)
(* of a governed namespace, the validating webhook admits or refuses it.   *)
(*                                                                         *)
(* One namespace and one request at a time: the webhooks keep no state     *)
(* between requests. Each reads ModelClaims, cluster policies, token       *)
(* policies, the namespace and the credentials one after the other, and    *)
(* administrators may write any of them in between. The API server calls   *)
(* the mutating webhook a second time (reinvocationPolicy IfNeeded) when   *)
(* another webhook changed the pod. failurePolicy Ignore lets a pod go on  *)
(* without a webhook that cannot be called or does not answer in time; an  *)
(* answer that denies the pod is final.                                    *)
(*                                                                         *)
(* A container's environment maps a variable to its origin: Own when the   *)
(* author set it, a credential when it was injected, NoCred when unset.    *)
(* Containers and init containers are treated alike.                       *)
(***************************************************************************)
EXTENDS Resolver, FiniteSets

CONSTANTS
    ClusterSpecs, TokenSpecs, ClusterNames, TokenNames, NsLabels, Pods, Names,
                \* as in PolicyHierarchy; here a pod has more fields
    ClaimNames,     \* names of ModelClaims
    ClaimSpecs,     \* contents of a ModelClaim: [selector, models]
    CredNames,      \* names of ModelCredentials
    CredSpecs,      \* contents of a ModelCredential, as CredType
    Worlds,         \* what the API server may hold when the first pod comes
    Containers,     \* containers a pod may have
    Sidecar,        \* the one that another webhook may add
    EnvNames,       \* environment variables
    Absent,         \* a credential that does not exist
    Own,            \* a variable set by the pod's author
    Malformed,      \* a token of the annotation without provider or model
    MaxEdits,       \* bound: edits of the stored objects
    MaxRequests     \* bound: requests

\* spec.allowedNamespaces names the namespace; the labels the selector
\* matches, none when nil; how it is delivered and as which variable.
CredType == [allowed : BOOLEAN, selector : SUBSET NsLabels,
             mode : {"None", "Env", "ProjectedVolume"}, env : EnvNames]

\* A credential that a rule, a default or a claim may name, or none.
CredRef == CredNames \cup {NoCred}

\* The pods of requests: their identities and annotations are those of Pods,
\* the rest is what other webhooks and this one can make of them.
PodType == [serviceAccount : {p.serviceAccount : p \in Pods},
            label : {p.label : p \in Pods},
            models : {p.models : p \in Pods},
            optOut : BOOLEAN,
            containers : SUBSET Containers,
            env : [Containers -> [EnvNames -> CredNames \cup {Own, NoCred}]],
            mounts : [Containers -> SUBSET CredNames],
            volumes : SUBSET CredNames,
            bound : SUBSET CredNames,
            policies : SUBSET ({"ClusterTokenPolicy", "TokenPolicy"} \X Nat)]

\* Mounts have their volume, and what is not there holds nothing.
Consistent(p) ==
    \A k \in Containers :
        /\ p.mounts[k] \subseteq p.volumes
        /\ k \notin p.containers =>
              p.mounts[k] = {} /\ \A e \in EnvNames : p.env[k][e] = NoCred

\* Objects under their names.
Store(store, names, specs) ==
    DOMAIN store \subseteq names /\ store \in [DOMAIN store -> specs]
        /\ IsFiniteSet(DOMAIN store)

ASSUME BoundsAssumption == MaxEdits \in Nat /\ MaxRequests \in Nat
ASSUME KeysAssumption == ClusterNames \cup TokenNames \cup ClaimNames \subseteq Nat
ASSUME MarkersAssumption ==
    Malformed \notin Names /\ NoIdentity \notin PodType /\ {Own, NoCred} \cap CredNames = {}
ASSUME PoliciesAssumption ==
    /\ \A spec \in ClusterSpecs : PolicySpec(spec) /\ spec.defaultCred \in CredRef
    /\ \A spec \in TokenSpecs : TokenPolicySpec(spec)
    /\ \A spec \in ClusterSpecs \cup TokenSpecs : \A r \in ToSet(spec.models) : r.cred \in CredRef
ASSUME ClaimsAssumption ==
    \A spec \in ClaimSpecs : spec.models \in Seq([name : Names, cred : CredRef])
ASSUME CredsAssumption == CredSpecs \subseteq CredType
ASSUME SidecarAssumption == Sidecar \in Containers
ASSUME PodsAssumption ==
    \A p \in Pods : /\ p \in PodType /\ Consistent(p)
                    /\ p.models \in Seq(Names \cup {Malformed})
ASSUME WorldsAssumption ==
    \A w \in Worlds : /\ Store(w.cluster, ClusterNames, ClusterSpecs)
                      /\ Store(w.tokens, TokenNames, TokenSpecs)
                      /\ Store(w.claims, ClaimNames, ClaimSpecs)
                      /\ w.creds \in [CredNames -> CredSpecs \cup {Absent}]

VARIABLES
    cluster, tokens, nsLabel,   \* the policies, as in PolicyHierarchy
    claims,     \* name -> spec, for the existing ModelClaims
    creds,      \* name -> spec, or Absent
    exempt,     \* the namespace is excluded from governance
    pod,        \* the pod of the request, as the API server holds it
    before,     \* history: the pod as its author sent it
    phase,      \* what the API server is doing with the request
    reads,      \* the read the running webhook does next
    declared,   \* declaredModelsForPod
    seen,       \* the policies read so far: [cluster, tokens]
    order,      \* credentials still to bind
    work,       \* the webhook's copy of the pod
    bound,      \* credentials it has injected
    sources,    \* the policies it will name in the annotation
    calls,      \* mutating calls of this request
    edits,      \* edits so far
    requests,   \* requests so far
    calm,       \* history: nothing the webhooks read was written since the request came
    steady,     \* history: nor, with no failure, since the last webhook call began
    failed      \* history: a call of this request failed

policies == <<cluster, tokens, nsLabel>>
stored   == <<policies, claims, creds, exempt>>
local    == <<reads, declared, seen, order, work, bound, sources>>
history  == <<before, calls, edits, requests, calm, steady, failed>>
vars     == <<stored, pod, phase, local, history>>

P == INSTANCE PolicyHierarchy

-----------------------------------------------------------------------------
(* What a pod declares *)

\* A model is declared once; its first credential preference is kept.
add(out, d) ==
    LET i == SelectInSeq(out, LAMBDA x : x.name = d.name)
    IN  IF i = 0 THEN Append(out, d)
        ELSE IF out[i].cred = NoCred THEN [out EXCEPT ![i].cred = d.cred]
        ELSE out

\* The annotation carries no credential preference.
parseModels(p) ==
    FlattenSeq([i \in DOMAIN p.models |->
        IF p.models[i] = Malformed THEN <<>>
        ELSE <<[name |-> p.models[i], cred |-> NoCred]>>])

byClaimName(m, n) == m < n

\* The claims that select the pod, by name, then the annotation.
declaredModelsForPod(p) ==
    LET matching == {n \in DOMAIN claims : workloadMatches(claims[n].selector, p)}
        inOrder  == Sorted(matching, byClaimName)
        wanted   == FlattenSeq([i \in DOMAIN inOrder |-> claims[inOrder[i]].models])
    IN  FoldLeft(add, <<>>, wanted \o parseModels(p))

-----------------------------------------------------------------------------
(* Delivering a credential *)

credentialAuthorizes(c) == creds[c].allowed \/ nsLabel \in creds[c].selector

\* Mutant: an existing variable is replaced.
injectEnvOverwrites(p, c) ==
    [p EXCEPT !.env = [k \in Containers |->
        IF k \in p.containers THEN [@[k] EXCEPT ![creds[c].env] = c] ELSE @[k]]]

\* Mutant: a pod with one container that has the variable is left alone.
injectEnvOnce(p, c) ==
    LET e == creds[c].env
    IN  IF \E k \in p.containers : p.env[k][e] # NoCred THEN p
        ELSE [p EXCEPT !.env = [k \in Containers |->
                IF k \in p.containers THEN [@[k] EXCEPT ![e] = c] ELSE @[k]]]

\* Every container without the variable gets it.
injectEnv(p, c) ==
    LET e == creds[c].env
    IN  [p EXCEPT !.env = [k \in Containers |->
            IF k \in p.containers /\ p.env[k][e] = NoCred
               THEN [@[k] EXCEPT ![e] = c] ELSE @[k]]]

\* Mutant: the mount is added without its volume.
injectVolumeUnlisted(p, c) ==
    [p EXCEPT !.mounts = [k \in Containers |->
                            IF k \in p.containers THEN @[k] \cup {c} ELSE @[k]]]

\* The volume is added once and mounted in every container.
injectVolume(p, c) ==
    [p EXCEPT !.volumes = @ \cup {c},
              !.mounts = [k \in Containers |->
                            IF k \in p.containers THEN @[k] \cup {c} ELSE @[k]]]

injectCredential(p, c) ==
    CASE creds[c].mode = "None" -> p
      [] creds[c].mode = "ProjectedVolume" -> injectVolume(p, c)
      [] creds[c].mode = "Env" -> injectEnv(p, c)

-----------------------------------------------------------------------------
(* Init and edits *)

\* No webhook is running.
Idle ==
    /\ reads = "none"
    /\ declared = <<>>
    /\ seen = [cluster |-> {}, tokens |-> {}]
    /\ order = <<>>
    /\ work = pod
    /\ bound = {}
    /\ sources = {}

Init ==
    /\ \E w \in Worlds :
          /\ cluster = w.cluster
          /\ tokens = w.tokens
          /\ nsLabel = w.nsLabel
          /\ claims = w.claims
          /\ creds = w.creds
          /\ exempt = w.exempt
    /\ pod \in Pods
    /\ before = pod
    /\ phase = "none"
    /\ Idle
    /\ calls = 0
    /\ edits = 0
    /\ requests = 0
    /\ calm = TRUE
    /\ steady = TRUE
    /\ failed = FALSE

Edit ==
    /\ edits < MaxEdits
    /\ edits' = edits + 1
    /\ calm' = FALSE
    /\ steady' = FALSE
    /\ UNCHANGED <<exempt, pod, before, phase, local, calls, requests, failed>>

EditPolicies == Edit /\ P!Next /\ UNCHANGED <<claims, creds>>

EditClaims ==
    /\ Edit
    /\ \E n \in ClaimNames :
          \/ \E spec \in ClaimSpecs : claims' = P!Put(claims, n, spec)
          \/ n \in DOMAIN claims /\ claims' = P!Drop(claims, n)
    /\ UNCHANGED <<policies, creds>>

EditCredentials ==
    /\ Edit
    /\ \E c \in CredNames, spec \in CredSpecs \cup {Absent} :
          creds' = [creds EXCEPT ![c] = spec]
    /\ UNCHANGED <<policies, claims>>

-----------------------------------------------------------------------------
(* The API server *)

Receive(p, firstPhase) ==
    /\ phase \in {"none", "admitted", "refused"}
    /\ requests < MaxRequests
    /\ requests' = requests + 1
    /\ pod' = p
    /\ before' = p
    /\ work' = p
    /\ phase' = firstPhase
    /\ reads' = "claims"
    /\ calls' = 0
    /\ calm' = TRUE
    /\ steady' = TRUE
    /\ failed' = FALSE
    /\ UNCHANGED <<stored, declared, seen, order, bound, sources, edits>>

CreatePod(p) == Receive(p, "mutate")

\* Labels and annotations of an admitted pod may change; only the validating
\* webhook is registered for updates.
UpdatePod(p) ==
    /\ phase = "admitted"
    /\ Receive([pod EXCEPT !.label = p.label, !.models = p.models], "validate")

\* The webhook returns p, and the API server goes on to the next phase.
Respond(p, next) ==
    /\ pod' = p
    /\ phase' = next
    /\ reads' = "none"
    /\ declared' = <<>>
    /\ seen' = [cluster |-> {}, tokens |-> {}]
    /\ order' = <<>>
    /\ work' = p
    /\ bound' = {}
    /\ sources' = {}
    /\ calls' = IF phase = "mutate" THEN calls + 1 ELSE calls
    /\ UNCHANGED <<stored, before, edits, requests>>

\* What happens to a pod a webhook has nothing to say about.
PassPhase == IF phase = "mutate" THEN "others" ELSE "admitted"

Pass == Respond(pod, PassPhase) /\ UNCHANGED <<calm, steady, failed>>

\* A webhook called after this one adds a sidecar or changes the pod's label.
OtherWebhook(p) ==
    /\ phase = "others"
    /\ calls = 1
    /\ p # pod
    /\ pod' = p
    /\ work' = p
    /\ phase' = "mutate"
    /\ reads' = "claims"
    /\ calm' = (calm /\ p.label = pod.label)
    /\ steady' = TRUE
    /\ UNCHANGED <<stored, before, declared, seen, order, bound, sources, calls,
                   edits, requests, failed>>

StartValidation ==
    /\ phase = "others"
    /\ phase' = "validate"
    /\ reads' = "claims"
    /\ steady' = TRUE
    /\ UNCHANGED <<stored, pod, declared, seen, order, work, bound, sources,
                   before, calls, edits, requests, calm, failed>>

-----------------------------------------------------------------------------
(* What both webhooks do first *)

Running == phase \in {"mutate", "validate"}

\* Exempt namespaces, pods that opt out of injection and pods that declare
\* nothing are left alone.
ListClaims ==
    /\ Running
    /\ reads = "claims"
    /\ IF exempt \/ (phase = "mutate" /\ pod.optOut) \/ declaredModelsForPod(pod) = <<>>
          THEN Pass
          ELSE /\ declared' = declaredModelsForPod(pod)
               /\ reads' = "cluster"
               /\ UNCHANGED <<stored, pod, phase, seen, order, work, bound, sources,
                              history>>

ListClusterPolicies ==
    /\ Running
    /\ reads = "cluster"
    /\ seen' = [seen EXCEPT !.cluster = P!Named(cluster)]
    /\ reads' = "tokens"
    /\ UNCHANGED <<stored, pod, phase, declared, order, work, bound, sources, history>>

ListTokenPolicies ==
    /\ Running
    /\ reads = "tokens"
    /\ seen' = [seen EXCEPT !.tokens = P!Named(tokens)]
    /\ reads' = "namespace"
    /\ UNCHANGED <<stored, pod, phase, declared, order, work, bound, sources, history>>

\* resolveEffective, once the namespace's labels are read.
resolveEffective == Resolve(seen.cluster, seen.tokens, nsLabel, pod)

-----------------------------------------------------------------------------
(* The validating webhook *)

\* Mutant: every mode but Audit refuses.
RefusesPodNotAudit(eff) ==
    /\ eff.governed
    /\ eff.enforcement # "Audit"
    /\ \E i \in DOMAIN declared : ~Permit(eff, declared[i].name).allowed

RefusesPod(eff) ==
    /\ eff.governed
    /\ eff.enforcement = "Enforce"
    /\ \E i \in DOMAIN declared : ~Permit(eff, declared[i].name).allowed

Validate ==
    /\ phase = "validate"
    /\ reads = "namespace"
    /\ Respond(pod, IF RefusesPod(resolveEffective) THEN "refused" ELSE "admitted")
    /\ UNCHANGED <<calm, steady, failed>>

-----------------------------------------------------------------------------
(* The mutating webhook *)

\* Mutant: the models' verdicts are not looked at.
credOrderUnchecked(eff) ==
    LET want == [i \in DOMAIN declared |->
                    LET perm == Permit(eff, declared[i].name)
                    IN  IF perm.cred # NoCred THEN perm.cred ELSE declared[i].cred]
    IN  SelectSeq(want, LAMBDA c : c # NoCred)

\* The credential to bind for a declared model: none when it is refused, else
\* the hierarchy's, else the claim's preference.
credWanted(eff, d) ==
    LET perm == Permit(eff, d.name)
    IN  IF ~perm.allowed THEN NoCred
        ELSE IF perm.cred # NoCred THEN perm.cred
        ELSE d.cred

addCred(out, c) == IF c = NoCred \/ c \in ToSet(out) THEN out ELSE Append(out, c)

\* The credentials of the permitted models, each once.
credOrder(eff) ==
    FoldLeft(addCred, <<>>, [i \in DOMAIN declared |-> credWanted(eff, declared[i])])

\* Only an ungoverned scope is left alone: the enforcement mode is not asked.
StartBinding ==
    /\ phase = "mutate"
    /\ reads = "namespace"
    /\ IF ~resolveEffective.governed
          THEN Pass
          ELSE /\ order' = credOrder(resolveEffective)
               /\ sources' = resolveEffective.sources
               /\ reads' = "credential"
               /\ UNCHANGED <<stored, pod, phase, declared, seen, work, bound, history>>

\* A credential that does not exist or that the namespace may not bind is
\* skipped. It is recorded as bound when a container received it.
BindCredential ==
    /\ reads = "credential"
    /\ order # <<>>
    /\ LET c == Head(order)
           p == IF creds[c] # Absent /\ credentialAuthorizes(c)
                   THEN injectCredential(work, c) ELSE work
       IN  /\ work' = p
           /\ bound' = IF p.env # work.env \/ p.mounts # work.mounts
                         THEN bound \cup {c} ELSE bound
    /\ order' = Tail(order)
    /\ UNCHANGED <<stored, pod, phase, reads, declared, seen, sources, history>>

\* The annotations are set, replacing what they held.
FinishMutate ==
    /\ reads = "credential"
    /\ order = <<>>
    /\ Respond([work EXCEPT !.bound = IF bound = {} THEN @ ELSE bound,
                            !.policies = IF sources = {} THEN @ ELSE sources],
               "others")
    /\ UNCHANGED <<calm, steady, failed>>

\* Mutant: the pod bound so far is sent on, without the annotations.
CallFailsHalfway ==
    /\ Running
    /\ Respond(work, PassPhase)
    /\ failed' = TRUE
    /\ steady' = FALSE
    /\ UNCHANGED calm

\* Reading what a pod declares or resolving its policies fails, which both
\* webhooks log and answer with "allowed", or the call itself fails or times
\* out at any read, which failurePolicy Ignore passes over. The pod goes on
\* as it was.
CallFails ==
    /\ Running
    /\ Respond(pod, PassPhase)
    /\ failed' = TRUE
    /\ steady' = FALSE
    /\ UNCHANGED calm

\* Reading a credential, or the namespace it is to be authorised for, fails.
\* Default returns the error, which reaches the API server as an answer that
\* denies the pod.
BindFails ==
    /\ reads = "credential"
    /\ order # <<>>
    /\ Respond(pod, "refused")
    /\ failed' = TRUE
    /\ steady' = FALSE
    /\ UNCHANGED calm

Webhook ==
    \/ ListClaims
    \/ ListClusterPolicies
    \/ ListTokenPolicies
    \/ Validate
    \/ StartBinding
    \/ BindCredential
    \/ FinishMutate
    \/ CallFails
    \/ BindFails

Next ==
    \/ EditPolicies
    \/ EditClaims
    \/ EditCredentials
    \/ \E p \in Pods : CreatePod(p) \/ UpdatePod(p)
    \/ OtherWebhook([pod EXCEPT !.containers = @ \cup {Sidecar}])
    \/ \E p \in Pods : OtherWebhook([pod EXCEPT !.label = p.label])
    \/ StartValidation
    \/ Webhook

Spec == Init /\ [][Next]_vars

-----------------------------------------------------------------------------
(* Properties *)

Carried(p) ==
    (UNION {{p.env[k][e] : e \in EnvNames} \cup p.mounts[k] : k \in p.containers})
        \ {Own, NoCred}

\* The request and everything in it has the shape of the Go types.
TypeOK ==
    /\ creds \in [CredNames -> CredSpecs \cup {Absent}]
    /\ \A p \in {pod, before, work} : p \in PodType /\ Consistent(p)
    /\ phase \in {"none", "mutate", "others", "validate", "admitted", "refused"}
    /\ reads \in {"none", "claims", "cluster", "tokens", "namespace", "credential"}
    /\ Running <=> reads # "none"
    /\ ToSet(order) \subseteq CredNames
    /\ calls \in 0..2

\* What is declared for a pod, as sets: by which claims, and at all.
Claiming(p, m) ==
    {n \in DOMAIN claims : /\ P!Targets(claims[n], p)
                           /\ \E r \in ToSet(claims[n].models) : r.name = m}

DeclaredSet(p) ==
    {m \in Names : m \in ToSet(p.models) \/ Claiming(p, m) # {}}

Tiers(p) == {P!ClusterTier, P!NamespaceTier, P!WorkloadTier(p)}

Permitted(p, m) == \A tier \in Tiers(p) : ~P!Refuses(tier, m)

\* DESIGN.md:117-121. A pod, created or updated, is refused exactly when its
\* namespace is not exempt, some policy applies, the mode is Enforce and some
\* tier refuses a model that a claim or the annotation declares - as things
\* stand when the last webhook call begins, whatever was edited or failed
\* before that call. Only what is written during that call may be missed, or
\* all of it when that call fails.
VerdictFollowsPolicy ==
    phase \in {"admitted", "refused"} /\ steady =>
        (phase = "refused" <=>
            /\ ~exempt
            /\ P!Applicable(pod) # {}
            /\ P!Effective(pod).enforcement = "Enforce"
            /\ \E m \in DeclaredSet(pod) : ~Permitted(pod, m))

\* The place of the first credential that a claim names for a model, or 0.
Preference(n, m) ==
    SelectInSeq(claims[n].models, LAMBDA r : r.name = m /\ r.cred # NoCred)

\* The credential a declared model should be served with: the hierarchy's,
\* else the preference of the first claim that has one.
ServedBy(p, m) ==
    LET policyCred == Permit(P!Effective(p), m).cred
        naming     == {n \in Claiming(p, m) : Preference(n, m) # 0}
        first      == CHOOSE n \in naming : \A k \in naming : n <= k
    IN  IF policyCred # NoCred THEN {policyCred}
        ELSE IF naming = {} THEN {} ELSE {claims[first].models[Preference(first, m)].cred}

Bindable(c) == creds[c] # Absent /\ credentialAuthorizes(c)

\* A pod whose creation ended carries no credential it has no title to: each
\* is one its namespace may bind and serves a declared model that no tier
\* refuses. Reinvocation is included, and so are calls that fail half-way:
\* whether Default gave up or its answer was lost, what it had bound by then
\* is in no pod.
CredentialsAreEarned ==
    phase \in {"admitted", "refused"} /\ calm /\ calls > 0 =>
        \A c \in Carried(pod) \ Carried(before) :
            /\ Bindable(c)
            /\ \E m \in DeclaredSet(pod) : Permitted(pod, m) /\ c \in ServedBy(pod, m)

\* No container is forgotten: whatever other webhooks add, each container of
\* a governed pod that does not opt out ends up with the variable or the
\* mount of every credential that serves it.
EveryContainerServed ==
    /\ phase \in {"admitted", "refused"}
    /\ calm /\ ~failed /\ calls > 0
    /\ ~exempt /\ ~pod.optOut /\ P!Applicable(pod) # {}
    =>
    \A m \in DeclaredSet(pod) :
        Permitted(pod, m) =>
            \A c \in {x \in ServedBy(pod, m) : Bindable(x)}, k \in pod.containers :
                /\ creds[c].mode = "Env" => pod.env[k][creds[c].env] # NoCred
                /\ creds[c].mode = "ProjectedVolume" => c \in pod.mounts[k]

\* common_types.go:22-24. The record of bound credentials is true of the pod:
\* it names no credential that no container holds, and after the first
\* mutating call no container holds an injected one that it does not name,
\* whatever was edited, and whichever calls failed, before, during and after.
RecordMatchesPod ==
    /\ pod.bound \ before.bound \subseteq Carried(pod)
    /\ calls = 1 => Carried(pod) \ Carried(before) \subseteq pod.bound

\* DESIGN.md:145: "Existing env/volumes of the same name are never
\* overwritten." No call, the second included, replaces or removes a variable
\* or a mount, the author's or an injected one.
InjectionOnlyAdds ==
    [][Running \/ phase = "others" =>
          \A k \in Containers :
              /\ pod.mounts[k] \subseteq pod'.mounts[k]
              /\ \A e \in EnvNames : pod.env[k][e] \in {NoCred, pod'.env[k][e]}]_vars

=============================================================================
