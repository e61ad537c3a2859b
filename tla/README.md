# A TLA+ model of token-control

token-control is a Kubernetes operator. Administrators declare which models the
pods of a cluster may use (`ClusterTokenPolicy`, `TokenPolicy`), with which
credentials (`ModelCredential`) and within which token budgets; the operator
resolves the policy hierarchy, replicates credential Secrets, writes gateway
configuration and decides about pods at admission. This directory holds TLA+
modules that model it, TLC configurations that check them on small instances and
TLAPS proofs of the properties that matter most. `PROJECT.json` maps every
definition to the lines it models and lists runs, hazards and findings.

## 1. Inventory

| Part (source) | State | Operations | Interacts with |
|---|---|---|---|
| ModelCredential controller (`internal/controller/modelcredential_controller.go`) | replicas `tc-cred-<name>` in the namespaces; status of the credential | Reconcile: read source Secret, list namespaces, write replicas, prune, roll up capacity, update status; 10-minute requeue | watches ModelCredentials and Namespaces; reads Secrets uncached; reads both policy kinds from the cache without watching them |
| Policy resolver (`internal/policy/resolver.go`) | none | `Resolve`, `ResolveForPolicy`, `Permit`, `EffectiveModels` | called by the TokenPolicy and ModelClaim controllers and by pod admission |
| TokenPolicy controller (`tokenpolicy_controller.go`, `internal/gateway`) | status of the policy; its `BackendTrafficPolicy` or `TokenRateLimitPolicy` object | Reconcile: resolve, delete artifacts of other kinds, apply the selected one, update status; deletion through owner references | watches TokenPolicies, ClusterTokenPolicies and ModelCredentials, neither siblings nor namespaces |
| ClusterTokenPolicy controller (`clustertokenpolicy_controller.go`) | matched namespaces and model count in status | Reconcile: list namespaces, match, sort, update status | watches ClusterTokenPolicies and Namespaces; its writes are events for the claims |
| ModelClaim controller (`modelclaim_controller.go`) | phase and effective models in status | Reconcile: resolve for the identities of the claim's selector | resolver; watches claims, policies, credentials and namespaces |
| Pod webhooks (`internal/webhook/v1alpha1/pod_webhook.go`, `webhook_common.go`) | the pod's annotations, environment and volumes | mutate (bind credentials; reinvoked if needed), validate on create and update | resolver; ModelClaims; ModelCredentials; Secrets written by the credential controller |
| Resource webhooks (`internal/webhook/v1alpha1/*_webhook.go`) | none | validate each kind on create and update: refuse what does not parse, warn of rules and requests a broader scope denies | API server; resolver. They can be switched off in the chart |
| API types, metrics, `cmd/main.go` | types; gauges; start-up | - | - |

What is hard here:

* Every decision is taken on cached, hence stale, objects, and written back
  later. Edits, relabelling, deletion and re-creation interleave with each API
  call of a pass (hazards `stale_state`, `interleaving`, `protocol_sequence`).
* Errors of single calls are logged and skipped; the repair is a later pass that
  something has to cause (`partial_failure`, `liveness`).
* The manager may stop anywhere in a pass (`crash_recovery`). The garbage
  collector runs beside it.
* Precedence is spread over sorts and folds that run in one direction for
  scalars and in the other for credentials (`ordering`).
* Budgets are summed in `int64` with nil meaning "no limit" (`numeric_edge`).
* Status writes are events that start further passes, in the same controller and
  in others; they have to die out (`liveness`).
* One question - may these pods use this model? - is answered by admission, by the
  claim's preview, by two webhook warnings and by the policy's status, each from
  inputs of its own (`other`).

What makes each part correct: a credential's key material is in the authorised
namespaces and nowhere else, and status says so; the resolver narrows and never
widens, and status and admission resolve alike; the rollup equals the demand of
the stored policies; gateway artifacts and claim status follow the policies; an
admitted pod is permitted and its Secret exists.

## 2. Modules

| Module | Models | Notes |
|---|---|---|
| `CredentialSync` | replication half of the ModelCredential controller, informers, workqueue, garbage collector, crash | state machine |
| `CredentialSyncProofs` | - | inductive invariant, carried over to `CredentialDelivery`; six theorems |
| `CredentialDelivery` | the pods that refer to the replicas: admission, kubelet | composes pod admission with `CredentialSync` |
| `SeqFacts` | - | what folds, sums over sets, flattening and sorts compute, for every input |
| `Resolver` | `internal/policy/resolver.go` | pure operators |
| `ResolverProofs` | - | lemmas: what each operator of `Resolver` returns, for every input |
| `PolicyHierarchy` | the stored policies of one namespace, under every sequence of edits, resolved by `Resolver` | extends `Resolver`; reference definitions |
| `PolicyHierarchyProofs` | - | seven theorems |
| `CapacityRollup` | the capacity half of the ModelCredential controller | state machine with wrapping integers |
| `CapacityRollupProofs` | - | inductive invariant and one theorem |
| `PodAdmission` | both pod webhooks and the API server's admission chain around them | composes `PolicyHierarchy` (its edits) and `Resolver` |
| `PodAdmissionProofs` | - | what admission computes is what its reference definitions say; six invariants and six theorems |
| `TokenPolicySync` | the TokenPolicy controller and `internal/gateway` | composes `PolicyHierarchy` and `Resolver`; state machine |
| `TokenPolicySyncProofs` | - | inductive invariant and two theorems |
| `LevelTriggered` | - | abstract specification of a status controller |
| `StatusSync` | the ClusterTokenPolicy and ModelClaim controllers, and what the validating webhooks let through | two interacting state machines; composes `PolicyHierarchy` and `Resolver`; implements `LevelTriggered` twice |
| `StatusSyncProofs` | - | two inductive invariants and six theorems, two of them refinements |
| `MC*` | constants for TLC | |

### CredentialSync

One credential name: the controller keeps nothing between names and its
workqueue never runs one name twice at once. `mc` is the object on the server
(uid 0: absent); `namespaces`, `source` and `replicas` are the other server
objects; `mcCache`/`nsCache` with `mcEvent`/`nsEvents` are the informer caches
and their undelivered events; `queued`/`delayed` the workqueue and its timer;
`pc`, `cur`, `data`, `authorized`, `todo`, `synced`, `doomed` the local state of
a running Reconcile. Reconcile is cut at its calls to the API server, so each
other actor may act between any two of them; only the Get and the Create or Update
of `CreateOrUpdate` are one step (`SyncSecret`). That loses nothing: Create is refused
when the Secret exists by then and Update when its resourceVersion is no longer the
one read, so a write that succeeds found the replica as the Get had left it, and one
that is refused is `SyncFails`.

| Action | Code (`modelcredential_controller.go`) |
|---|---|
| `StartReconcile` | the cached Get and its NotFound return |
| `GetSecret` with `ReadSource` | source Secret, `SecretNotFound` and `KeyMissing` branches |
| `ListNamespaces` | `authorizedNamespaces` |
| `SyncSecret` with `Managed`, `SyncFails` | `syncSecret` and the log-and-continue of the loop |
| `StartPrune`, `PruneSecret`, `PruneFails` | `pruneSecrets` and its swallowed error |
| `FinishPrune` | status fields and Ready |
| `UpdateStatus` | `Status().Update` with optimistic locking, then `RequeueAfter` |
| `AbortReconcile` | every returned error, with back-off |
| `DeliverCredential`, `DeliverNamespace` | `For` and `Watches(..., credentialsForAll)` |
| `CrashRestart` | process death; caches relisted and everything enqueued |
| `GarbageCollect` | external: Kubernetes garbage collection by owner uid |

Abstractions. A namespace's labels are one label and a selector is the set of
labels it matches. `spec.secretRef` is a Secret, namespace and name in one, and a key
of it; a source Secret is a function from keys to key material or `KeyMissing`. A
replica is its owner uid and the one key it holds, named as in the source, with its
material; its labels, annotations and type decide nothing. The two `observedGeneration`
fields are Booleans "is the current generation", reset by an edit. Namespace
deletion removes its contents in the same step. Secret watch events do not exist
in the code, nor here. Ready and SecretResolved keep their values across passes
where the code does not set them.

### CredentialDelivery

`pods` is, per namespace, a pod whose policies permit it a model of the credential:
its phase, `none`, `waiting` (admitted, with a reference to the replica) or `running`,
and the key of the replica that it names, which stays what it was at admission.
`Default` is the end of the mutating webhook, where the credential and the
namespace are read from the caches and `credentialAuthorizes` decides (its other
reads are in `PodAdmission`); `StartPod` is the kubelet, which retries until the
Secret is there and has the key; `Sync` is any step of `CredentialSync`, where a deleted namespace
takes its pod along. Pod steps count as disturbances. A namespace that is not
found has no labels, as in the code. The delivery mode is not modelled: a credential
with mode None gives a pod nothing to wait for.

Two kinds of pods may wait for ever, and `WaitingPodsStart` does not speak of them: one
bound from a cache that does not show a revocation yet, since its Secret will not come,
and one that names a key other than the credential's present one, since an edit of
`spec.secretRef.key` renames the key in the replica and not in the pod
(`credential_key_edit`, section 3).

### Resolver and PolicyHierarchy

`Resolver` follows the loops of the Go code: `clusterMatched` sorted by name,
`nsDefaults` and `wlMatched` sorted by ascending priority, rules concatenated,
quotas folded with `minQuota`, scalars overwritten, `evalTier` per tier, `Permit`
over the tiers. A provider/model pair is one name and glob matching a relation
`Globs` between patterns and names. `PolicyHierarchy` keeps the
policies as an administrator edits them; its properties speak of the stored
policies as sets and know nothing of sorting or folding, so each one compares
the loops with an independent definition in every reachable set of policies.
`hierarchyWarnings` is the warning of the TokenPolicy webhook, computed for every
stored policy.

### CapacityRollup

One credential that resolves. Reconcile reads the credential and the cluster
policies in one step, the token policies in the next, then writes. An edit counts
from the moment the informer cache shows it, so an edit between two steps is one
the pass sees half. `Wrap` is `int64` arithmetic at a width scaled by `MaxInt`.

### PodAdmission

One namespace and one request at a time, since the webhooks keep nothing between
requests. `cluster`, `tokens`, `nsLabel`, `claims`, `creds` and `exempt` are what
the webhooks read; `pod` is the pod in the admission chain and `before` the pod
its author sent; `phase` is the API server's step, `reads` the webhook's next
read; `declared`, `seen`, `order`, `work`, `bound` and `sources` are its locals.

| Action | Code (`pod_webhook.go`, `webhook_common.go`) |
|---|---|
| `ListClaims` | exemption, opt-out, `declaredModelsForPod` and the empty return |
| `ListClusterPolicies`, `ListTokenPolicies`, `resolveEffective` | `resolveEffective`, cut at its reads |
| `Validate` with `RefusesPod` | the verdict of `validate` by enforcement mode |
| `StartBinding` with `credOrder`, `credWanted`, `addCred` | the governed test and the ordered, unique credentials |
| `BindCredential` | Get, `credentialAuthorizes`, `injectCredential` for the next one |
| `FinishMutate` | the two annotations |
| `CallFails` | errors of `declaredModelsForPod` and `resolveEffective`, which both webhooks log and answer with "allowed"; a call that cannot be made or times out at any read, passed over under failurePolicy Ignore. The pod goes on as it was |
| `BindFails` | errors of the credential's Get and of `credentialAuthorizes`: `Default` returns them, controller-runtime answers with a denial, and the pod is refused |
| `CreatePod`, `UpdatePod`, `OtherWebhook`, `StartValidation` | external: order of webhooks, reinvocation, failurePolicy Ignore |
| `EditPolicies`, `EditClaims`, `EditCredentials` | external: writes of administrators, at the moment the cache shows them |

`steady`, `calm` and `failed` are history variables: nothing was written and no call
failed since the last webhook call began; nothing was written since the request came;
a call of this request failed. failurePolicy Ignore is the default of the chart and
what the comments of the code assume.

Abstractions. Containers and init containers are treated alike, as in the code.
A credential names its variable, whether by `envName` or by provider default. An
environment records who set each variable; the key that an injected one refers to is
followed in `CredentialDelivery`. Tokens of the annotation that do not
parse are one value, `Malformed`. The Get of a credential and the namespace read
of `credentialAuthorizes` are one step. Mount paths, warnings and counters are
left out.

### TokenPolicySync

The policies of one namespace, one worker. `status` and `artifacts` are the
objects the controller writes; `queue` its workqueue; `cur`, `pc`, `tp`, `fresh`,
`seen`, `new`, `desired` and `stale` the running pass, cut at its API calls.
`excused` is a history variable: the policies that a failed call or a change they
are not told of has passed by since their last pass began.

| Action | Code (`tokenpolicy_controller.go`) |
|---|---|
| `Start` | the cached Get and its NotFound return |
| `ListClusterPolicies` | the first list |
| `ListTokenPolicies` | the second list, the namespace, `ResolveForPolicy`, status fields, `gateway.For` |
| `DeleteArtifact`, `DeleteFails` | the loop over the kinds not kept; the error is dropped |
| `NoGatewayConfigured`, `ApplyArtifact`, `ApplyFails` | the three ends of `reconcileGateway` |
| `UpdateStatus` | `Status().Update` with optimistic locking; its own event |
| `Abort` | returned errors, requeued |
| `EditCluster`, `EditToken` | the watches: all policies, the policy itself |
| `RelabelNamespace`, `GarbageCollect`, `Resync`, `CrashRestart` | external |

Abstractions. An artifact is its target and its set of (window, limit) rules. The
status keeps effective models, effective quota, gatewayRef and the GatewaySynced
reason. A policy deleted and created again takes over artifacts of its name:
server-side apply by one field manager replaces the owner reference. The watch on
ModelCredentials only adds passes. The resource webhooks refuse malformed
selectors, so `ResolveError` is left out; `InvalidConfig`, which they refuse as
well, is kept because they can be switched off in the chart.

### StatusSync

Claims and token policies of one namespace `Home`, any namespaces and cluster
policies. `cluster`, `tokens`, `claims` and `namespaces` are the objects; `cstatus`
and `status` what the controllers record; `cqueue` and `queue` their workqueues;
the other variables are the running pass of each worker. `cfresh`/`fresh`: the copy
that was read still has the server's resourceVersion.

| Action | Code |
|---|---|
| `GetClusterPolicy`, `ListNamespaces`, `UpdateClusterStatus` | `clustertokenpolicy_controller.go` Reconcile, with the BadSelector return |
| `GetClaim`, `ListClusterPolicies`, `ListTokenPolicies`, `GetNamespace`, `UpdateClaimStatus` | `modelclaim_controller.go` Reconcile; `GetNamespace` includes `resolveClaim` and the ResolveError return |
| `AbortCluster`, `AbortClaim` | returned errors, requeued |
| `EditCluster`, `EditToken`, `EditClaim`, `EditNamespace`, `OtherEvent` | `SetupWithManager`, `claimsForAll`, `clusterPoliciesForAll` of both |
| `CrashRestart` | external: everything listed is enqueued again |

A write that changes nothing is no event, since the API server does not store it;
one that does is an event for the controller itself and, for a cluster policy, for
every claim. `validateCluster`, `validateToken` and `validateClaim` are the
refusals of the webhooks and `permitWarnings` their warning about a claim; edits
are not restricted by them, because they can be switched off.

Abstractions. An edit is modelled at the moment the cache shows it; a server that
is ahead of the cache shows as an update that fails (`Abort...`). `valid` stands
for the Valid condition of the current generation, and `Shown` reads a status the
way a client must: after a failed pass only the failure counts, the models beside
it are those of an earlier pass. Reasons, messages and the denying source of a
model are left out. A selector is a set of labels in which `Malformed` stands for a
part that does not parse. A claim's `matchLabels` is kept apart from its whole pod
selector because `claimIdentities` looks at the former only.

`LevelTriggered` says what a status controller promises: for every object it
relates what the inputs ask for now, what is recorded, and whether work is due.
An object that is not due shows the truth; anything touched becomes due; work is
dropped only with its object. `StatusSync` implements it for claims
(`ClaimStatusIsLevelTriggered`) and for cluster policies
(`ClusterStatusIsLevelTriggered`), with `due` mapped to the queue and the running
pass, and `want` to what the resolver makes of the objects of the moment.

## 3. Runs

| Run | Bounds | Shows |
|---|---|---|
| `credential_safety` | 2 namespaces, 3 specs (by name, by label under another key, revoking), 4 disturbances | `NeverForgotten`, `StatusFitsSpec`, `QuietMeansSynced`, `WrongPruneIsRepaired` |
| `credential_delivery` | 1 namespace and its pod, 3 specs over 2 keys, 2 key values, 4 disturbances | `Convergence`, `WaitingPodsStart`, `NoKeyAfterRevocation` |
| `hierarchy_resolution` | 2 cluster and 3 token policies over 3 and 5 specs, 4 pod identities, 2 models | `PermitIsConjunction`, `QuotaIsTightest`, `ScalarsFromMostSpecific`, `CredentialIsNarrowest`, `StatusAgreesWithAdmission`, `WarnedRulesAreDead`, `WorkloadEditsAreLocal` |
| `pod_admission` | 2 requests, 1 edit anywhere, one reinvocation, a container and a sidecar, Env and volume credentials, a claim that lists one model twice with different credentials, any call failing | `VerdictFollowsPolicy`, `CredentialsAreEarned`, `EveryContainerServed`, `RecordMatchesPod`, `InjectionOnlyAdds` |
| `policy_sync` | 2 policies over 5 specs, 1 cluster policy, 3 disturbances | `QuietMeansApplied`, `PoliciesConverge` |
| `capacity_rollup` | 3 policies, 2 windows, 4 edits, sums within the width | `AccurateWhenFresh`, `RollupConverges` |
| `status_sync` | 1 cluster policy, 1 token policy, 1 claim over 2, 3 and 2 specs, 2 namespaces, every initial store, 2 disturbances | `ClusterStatusIsLevelTriggered`, `ClaimStatusIsLevelTriggered`, `WritesSubside`, `PreviewAgreesWithAdmission`, `WarningsComeTrue`, `ValidatedMeansResolvable` |

Bounds. A disturbance is an edit, a namespace change, a rotation, drift, an API
error or a crash. Four of them reach the scenarios behind the hazards (create,
revoke, re-authorise while pruning; create, delete, create again with a crash).
Every safety property of the passing runs is proved without the bounds (section 4). Two
namespaces separate "the namespace being written" from "another one". The source
Secret holds both keys or only the first, or does not exist; two source Secrets are in
`credential_revocation` only, since another name is to the controller another content,
with the event of an edit, as another key is. The hierarchy has no bound but its sets of names and specs: two policies in the
cluster tier and three below it give every tier two members and every pair of
specs a common scope. The specs set and leave out each field, contradict each
other, and share a wildcard. Budgets below `MaxInt = 63` never wrap; `MaxInt = 7`
makes two of them wrap. In `PodAdmission` one edit falls between any two reads of
a request; a second request adds an update of the pod the first one admitted.
What may be written when differs by property. `InjectionOnlyAdds` and `RecordMatchesPod`
hold whatever is written and whichever calls fail. `VerdictFollowsPolicy` speaks of
every request whose last call met neither an edit nor a failure (`steady`), so edits and
failures between and during the earlier calls, where the mutating and the validating
webhook see different policies, are included; a verdict on what was read before an edit
during the same call is of neither policy and nothing is claimed of it. A credential
earned by the policies of one moment has no title by those of the next, and no later
call takes it away: `CredentialsAreEarned` and `EveryContainerServed` are stated for
requests during which nothing was written (`calm`), the first with failed calls, the
second without. In
`TokenPolicySync` two policies give every edit a sibling, and three disturbances
allow an edit, a concurrent edit and a failure of the same pass. `StatusSync` starts
from every combination of objects, so two disturbances are an edit and a second
edit, failure or crash inside the pass it caused; two namespaces give the list an
order, and a claim with two service accounts of which a policy targets one gives
its identities different verdicts.

Fairness. Watch events are delivered, armed timers fire, the worker goroutine
takes its next step, the garbage collector runs: weak fairness on each, all of
which hold while a manager is running, and a crash is followed by a restart at
once. The environment is not fair. In `CapacityRollup`, passes keep coming
because every return of Reconcile asks for another (`RequeueAfter`); this is
`NeverForgotten` of `CredentialSync`. In `TokenPolicySync` the worker is weakly fair, no
queued policy is passed over for ever (the queue is first in, first out: strong
fairness of `Start`), and the informers deliver every object again after
controller-runtime's default period of ten hours (weak fairness of `Resync`):
nothing else repairs a policy whose sibling changed or whose artifact call
failed, because such a pass returns no error. In `StatusSync` both workers are weakly
fair and no queued object is passed over for ever; no resync is needed. In
`CredentialDelivery` the kubelet's retry is weakly fair besides. Disturbances are finitely many; without
that no convergence could be asked for. `CHECK_DEADLOCK FALSE` in the credential,
status and policy runs: with no object and no event left the controller is idle for good;
and in the admission runs, where requests are bounded.

### Where code and documents disagree

Five runs check a sentence of the documents and find it violated:

| Run | What happens |
|---|---|
| `credential_revocation` | Reconcile returns before `pruneSecrets` while the source Secret or its key is missing; a de-authorised namespace keeps its replica (DESIGN.md:142). |
| `credential_key_edit` | An edit of `spec.secretRef.key` renames the key in the replicas; a pod admitted before, and not started yet, names the old one and waits for ever (DESIGN.md:200). |
| `hierarchy_priority_credential` | The lowest priority supplies the credential (tokenpolicy_types.go:34). |
| `capacity_overflow` | Summed budgets wrap and hide oversubscription (DESIGN.md:177). |
| `policy_siblings` | effectiveQuota goes stale when a sibling or the namespace changes (tokenpolicy_types.go:56). |

Smaller disagreements have no run of their own; the modules do in each case what
the code does:

* `Default` returns the error of reading a credential, or the namespace it is to be
  authorised for, and controller-runtime makes that a denial, which failurePolicy
  Ignore does not pass over: the pod is refused, where
  mutatingwebhookconfiguration.yaml:17 says "Fail-open" (`BindFails`);
* the mutating webhook asks only whether a policy applies, so a Disabled scope gets
  credentials injected (DESIGN.md:121; `StartBinding`);
* the KeyMissing branch leaves Ready at the True of an earlier pass
  (common_types.go:240);
* a matching Allow rule without a credential hides a later one of the same tier
  that names one (DESIGN.md:103);
* several namespace defaults are merged into one tier instead of the highest
  priority winning (tokenpolicy_types.go:14);
* Deny rules that name a credential count as binding it
  (modelcredential_controller.go:181);
* a reinvoked mutating webhook replaces the credentials-bound record of its first
  call (common_types.go:22), which is why the second half of `RecordMatchesPod` speaks
  of the first call only;
* `spec.models` of a credential is never read (modelcredential_types.go:57);
* a quota with no window that the gateway can express becomes a limit of zero
  (DESIGN.md:101);
* gatewayRef names a deleted artifact after a switch of gateway kind whose apply
  failed (tokenpolicy_types.go:68);
* widening rules are not rejected, as tokenpolicy_types.go:18-20 says, but only
  warned of;
* the warning "has no effect" (tokenpolicy_webhook.go:104) is wrong for a second
  namespace default, which is merged with the first and may widen it, and for a
  pattern, whose refusal says nothing of the names it matches; and even a dead
  Allow rule turns its tier into an allowlist. `WarnedRulesAreDead` states what
  is left: the model itself stays refused;
* the phase Pending of a claim (modelclaim_types.go:12, :70) is never written; an
  unresolved claim has no phase;
* a cluster policy whose selector no longer parses keeps Ready at True.

`QuietMeansSynced` is restricted to credentials whose status says Resolved and
`Convergence` to what the code intends in the other branches: revocation with a
missing source and Ready with a missing key are exactly what lies outside.
`PermitIsConjunction` takes the merged namespace tier as the code builds it and
`Accurate` the code's own notion of a binding policy, so neither shows the two
disagreements listed above.

## 4. Proofs

Six modules (`CredentialSyncProofs`, `PolicyHierarchyProofs`,
`TokenPolicySyncProofs`, `PodAdmissionProofs`, `StatusSyncProofs` and
`CapacityRollupProofs`) prove the 28 theorems listed in `PROJECT.json`; two more
(`SeqFacts`, `ResolverProofs`) prove what they rest on. Every theorem holds for all
values of the constants that satisfy the named assumptions of its module, and TLC
evaluates those assumptions in the runs. With them every safety property the runs
check, invariant, action property or refinement, is proved; what is left to TLC
alone is liveness.

### Credentials

`CredentialSyncProofs` proves, for any set of namespaces, labels, specs, source
Secrets and key values, any selector and any number of disturbances, `TypeCorrect`,
`NothingForgotten`, `StatusIsOfItsSpec`, `QuiescentExact` and `PruneRepaired`.
Assumptions: `SpecsAssumption` and `ContentsAssumption` (specs and the contents of
Secrets are well typed), `SentinelAssumption` (the markers for what is absent are no
labels, keys or values), `MaxChurnAssumption`.

None of the properties is inductive. What a quiet controller has written depends
on what the last pass read, so the invariant `IInv` follows a pass from read to
write:

* `CacheInv`: a cache entry without an undelivered event equals the server;
* `ReplicaInv`: replicas live in existing namespaces;
* `StatusInv`: a status, on the server, in the cache or in the running pass, that
  claims the generation of the spec beside it fits that spec;
* `PassInv`: which locals are meaningful at which `pc`;
* `FreshInv`: a copy with the server's resourceVersion has the server's uid and
  spec, and a pass with nothing queued behind it works on such a copy;
* `AuthInv`: `authorized` is what the spec and the labels grant now, unless an
  event is pending that will start another pass;
* `SyncInv`: every namespace handled so far and still existing holds the
  replica of this incarnation, unless a pass is pending or a call failed;
* `PruneInv`: every replica outside `authorized` is doomed or gone, likewise.

Each step of `Next` preserves each part: an environment step either leaves what a
part speaks of alone or raises the event that excuses it, and a worker step
extends the part by what it wrote. At `UpdateStatus` the parts combine to
`QuietMeansSynced`; at `PruneSecret` `AuthInv` is `WrongPruneIsRepaired`. `IInv`
itself was checked with TLC before it was proved.

In `CredentialDelivery` a pod step leaves everything `IInv` speaks of alone or
only counts as a disturbance, so `IInv` is an invariant of the composition too
(`ComposedIInv`), and with it `RevocationReachesPods`: at a step of `StartPod` in a
controller that is quiet and undisturbed, `QuietMeansSynced` leaves no replica in a
namespace that is not entitled. Assumption: `UnlabelledAssumption`, and those above.

### Loops, folds and sorts

The Go code loops over slices where the models say `FoldLeft`, `FlattenSeq` and a
choice from `SetToSeqs`. `SeqFacts` proves what these return. A loop body is a
function `step` from what has been computed and the next element to what is computed
then, and a comparison a relation `R`, both bound like any other value, so each
lemma is cited with the loop it is about:

* a fold obeys the equations of a loop (`LoopExists`, `LoopRounds`), and whatever the
  rounds keep holds at the end (`RoundInduction`);
* a fold that overwrites ends with the last element that had something to say
  (`LastWins`);
* a flattened list holds what its parts hold, in turn (`FlattenSeqContents`,
  `FlattenInTurn`), and a list chosen from a set holds the set (`SetToSeqsContents`);
* every finite set has a list sorted by a strict total order (`SortExists`), so
  that the models' choices are never empty;
* a fold over a finite set, whose order `CHOOSE` picks, exists and is unique
  (`IterExists`, `IterUnique`), and when it adds it is a sum: the element taken out
  first does not matter (`SumSplit`), disjoint parts add up (`SumDisjoint`), and a
  part is at most the whole (`SumMonotone`).

The induction theorems of the library take an operator as a parameter, which the
provers cannot instantiate; each induction is done by a least counterexample
instead, in `Nat` (`NatMin`) or among finite sets (`FiniteMin`).

`ResolverProofs` applies this to `Resolver`: `evalTier` decides by the existence
of a Deny or an Allow (`EvalTier`), `Permit` refuses exactly when a tier does
(`PermitVerdict`), folded quotas are the least limit per window (`QuotaOf`), each
scalar is the last one set (`EnforcementOf`, `GatewayOf`, `DefaultCredOf`).

### The policy hierarchy

`PolicyHierarchyProofs` proves all seven properties of the `hierarchy_resolution`
run, for any policies, names and pods. The invariant (`Stored`) says only that
finitely many schema-valid policies are stored under their names; the work is in
comparing the loops with the reference definitions. `PermitIsConjunction` and
`WarnedRulesAreDead` follow from `PermitVerdict`; `QuotaIsTightest` from `QuotaOf`;
`ScalarsFromMostSpecific` needs the order in which the policies are concatenated
(`AppliedOrder`) and that the last one with an opinion is the most specific
(`LastIsDecisive`); `CredentialIsNarrowest` and `StatusAgreesWithAdmission` go
through the tiers one by one. `WorkloadEditsAreLocal` is an action property.
Assumptions: `NamesAssumption` (names are totally ordered),
`IdentityAssumption`, `NilAssumption` (the markers are no values) and
`SchemaAssumption` (specs are records of the CRD schemas: the enumerations,
minima and defaults of common_types.go, which the API server enforces whether or
not the webhooks run).

### TokenPolicy controller

`TokenPolicySyncProofs` proves `TokenPolicyTypes` and `AppliedWhenQuiet`
(`QuietMeansApplied`), for any policies and number of disturbances.
`QuietMeansApplied` is not inductive: what a pass writes depends on what it read
three API calls ago. `SyncInv` adds

* `TypeInv`: types, and which locals are meaningful at which `pc`;
* `PassIsCurrent`: a pass that is neither queued again nor excused has read what
  is stored; in the gateway step the wanted artifact is known and every kind
  already handled is clean (`Prepared`); before the status update the artifacts
  and the status to be written show the truth;
* `Quiet`: the property itself, for every policy but the one in the pass.

Each edit enqueues or excuses the policies whose resolution it may change, which
is where the watch on siblings is missing and `excused` earns its place. What
`ResolveForPolicy` and `gateway.For` return is used only through its kind; that
the copies of `Resolver` in the controller and in `PolicyHierarchy` agree is
`SameScope`. Assumptions: `KeysAssumption` (names are totally ordered; 0
means no policy), `SpecsAssumption` (schema), `NilAssumption`,
`ChurnAssumption`.

### Pod admission

The first half of `PodAdmissionProofs` relates the webhooks' loops to the definitions
the properties use. `declaredModelsForPod` collects each model once, with the credential of the
first claim, by name, that gives one (`ClaimsInOrder`, `PreferenceIsFirst`,
`FirstNamed`, `AskedFor`); the webhook refuses exactly what a tier refuses
(`PermittedIsAllowed`); `credOrder` holds exactly the credentials that serve a
declared and permitted model (`OrderServes`, `ServesAsPromised`).

The second half follows a request with six invariants:

* `TypeInv`: types, and the webhook's copy of the pod `Extends` the pod: it has all
  of its variables, mounts and volumes, and equals it until credentials are bound;
* `Record`: what the running call has noted as bound is what its copy carries beyond the
  pod, nothing is noted outside the binding loop, and the pod is its author's until the
  first mutating call ends;
* `Current`: while nothing has been written since the last call began, what it has read
  is what is stored (`CurrentRead`), and a calm request stays `steady` while a webhook
  runs. An edit ends both, so a stale read is never excused silently: the properties
  that need it simply do not speak of that call;
* `Verdict`: a request whose last call nothing disturbed was refused exactly when the
  stored objects say so;
* `Earned`: everything the webhook's copy carries beyond what the author sent is
  bindable and serves a declared model (`Title`), and so does what is left to bind;
* `Served`: a credential with a title is still to bind or in every container, and
  after the last mutating call in every container.

TLC checked each of them on the `pod_admission` instance before it was proved.
`TypeInv` gives `TypesKept` and the action property `OnlyAdded`, which holds of
every step, in the calm or not; `Verdict` gives `VerdictsFollowPolicy`, `Earned`
gives `EveryCredentialEarned`, `Record` gives `RecordHolds`, and `Served`, with the reinvocation after another
webhook has added a container, gives `NoContainerForgotten`. Assumptions: the
stores hold objects of their kinds (`PoliciesAssumption`, `ClaimsAssumption`,
`CredsAssumption`, `WorldsAssumption`), names are ordered (`KeysAssumption`),
markers are no names, pods or credentials (`MarkersAssumption`), an author's pod is consistent
(`PodsAssumption`: what it mounts is among its volumes) and the added
container has a name of a container (`SidecarAssumption`).

### Status controllers

`StatusSyncProofs` proves, for any objects, specs, namespaces and number of
disturbances, `TypeCorrect`, `ClaimsAreLevelTriggered` and
`ClusterPoliciesAreLevelTriggered` (the two refinements of `LevelTriggered`),
`WebhooksSuffice`, `WarningsHold` and `PreviewHolds`. Two invariants carry the proofs:

* `ClaimInv`: types (`ClaimTypes`); the values a pass has read are those of the
  moment unless the claim is queued again (`PassIsCurrent`); a claim neither queued
  nor in a pass shows what is wanted (`QuietIsTrue`);
* `ClusterInv`: the same for a cluster policy (`ClusterTypes`,
  `ClusterPassIsCurrent`, `ClusterQuietIsTrue`).

The point of both is that every edit of an input enqueues what depends on it in the
same step, so a stale read is always followed by another pass, and a write that
changes something leaves its own event behind. The refinements then follow per
action: edits, aborts and writes are `Change`, the write that changes nothing is
`Settle`. For claims nothing has to be known of `resolveClaim` but its inputs and
when it fails (`ClaimVerdict`). For cluster policies the list matters:
whatever order the API returns the namespaces in, the loop keeps exactly those that
match (`MatchedSet`) and `sort.Strings` leaves one possible list (`AppliedIsTruth`),
which is the one `want` asks for.

The last two theorems say what the status means, and there `resolveClaim` is opened.
By `QuietIsTrue` a settled claim shows what `resolveClaim` makes of the stored
objects; the lemmas of `ResolverProofs` reduce its loops to the tiers. `WarningsHold`:
what `permitWarnings` objects to is refused by the cluster or the namespace tier,
which are tiers of every identity. `PreviewHolds`: an identity of `claimIdentities`
stands for the pods that match the same workload policies, so that a Deny is a Deny
for one of those pods and an Allow an Allow for all of them. The invariant `Stored`
(finitely many objects with specs of the schema) is needed for the sorts to be
defined.

Assumptions: `NobodyAssumption` (0 names no object), `KeysAssumption` and
`NamespacesAssumption` (names are ordered; finitely many namespaces),
`ChurnAssumption`, `SpecsAssumption` (specs are records of the schemas, and no
selector lists the empty service account, which `workloadMatches` would find in a
representative without one) and `PodsAssumption` (a pod may run as any account a claim
lists, and as one that no stored policy lists).

### Capacity rollup

`CapacityRollupProofs` proves `RollupHolds`: for any policies, windows, quotas, width
of the integers and number of edits, `AccurateWhenFresh` holds in every state whose
demand `Fits` the width. The hypothesis is what the code lacks a check for: without
it the property is false, as the run `capacity_overflow` shows. It speaks of the
policies of the moment only, so a rollup may wrap and be exact again after the
budgets were lowered.

The status is computed by one fold per list, in an order `CHOOSE` picks, through
`addQuota`, which treats a nil quota and an unset window apart; the reference
`Demand` sums the windows that are set. `DemandIsSum` and `SumIntoFields` show
both to be sums in the sense of `SeqFacts`; since the partial sums of naturals stay
below the whole, `Wrap` is the identity on each of them (`WrapIsExact`), and the two
lists, which share no policy, add up (`TotalFields`). A window is unset in the sum
exactly when no binding policy sets it, which is where `availableQuota` and
`oversubscribed` would otherwise confuse "no limit" with zero. `WrittenIsAccurate`
puts this together. The inductive invariant `IInv` says that a pass which no edit has
overtaken (`clean`) holds what its lists say now, and that a `fresh` status is
`Written`: computed by the code from the policies stored now. Assumptions: the two
kinds of policies are told apart (`KindsAssumption`) and finitely many
(`NamesAssumption`), budgets are within the width (`SpecsAssumption`,
`QuotasAssumption`), and the nil markers are no values (`MarkersAssumption`).

### Only model-checked

`Convergence`, `WaitingPodsStart`, `RollupConverges`, `PoliciesConverge` and
`WritesSubside`: liveness under fairness is out of the prover's reach, and so are
the fairness conjuncts of the specifications (`ENABLED`), which no theorem uses. The five
sentences of the documents in section 3 are refuted by runs and have no theorem.

## 5. Not modelled

The ModelCredential webhook, whose refusals concern a selector that does not parse
and the field `spec.models` that nothing reads, and the warnings about credentials
that do not exist or are of another provider: no decision depends on them. Metrics
are read by no decision. `cmd/main.go` only wires; that Secrets are read uncached,
that there is one worker per controller and that webhooks can be switched off are
assumptions of the models. Generated deep copies, formatting of messages and
events and glob syntax are left out, and malformed selectors outside `StatusSync`.
Mount paths of projected volumes are not modelled: whether two of them coincide is
decided by the names of providers alone. The per-rule `quota` of a model permission
(common_types.go:93) is read by no code and has no counterpart.

## 6. Plan

1. `LevelTriggered` as the abstract specification of `TokenPolicySync`, weakened by
   the changes it is not told of.
2. Mount paths of projected volumes in `PodAdmission`.
