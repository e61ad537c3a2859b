------------------------- MODULE CredentialDelivery -------------------------
(***************************************************************************)
(* Where a credential's two halves meet: the pod webhook writes a          *)
(* reference to the replica into a pod (internal/webhook/v1alpha1/         *)
(* pod_webhook.go), the ModelCredential controller makes and prunes the    *)
(* replica (CredentialSync), and the kubelet starts the pod's containers   *)
(* only once the referenced Secret exists and has the referenced key.      *)
(* Nothing synchronises the two: both decide from the informer caches of   *)
(* the manager, each at its own moment, and what is written into a pod     *)
(* stays as it is when the credential is edited.                           *)
(*                                                                         *)
(* One pod per namespace is followed, whose policies permit it a model of  *)
(* the credential; how that is decided, and the reads of one admission,    *)
(* are in PodAdmission.                                                    *)
(***************************************************************************)
EXTENDS CredentialSync

CONSTANT Unlabelled     \* the label of a namespace without labels

ASSUME UnlabelledAssumption == Unlabelled \in Labels

VARIABLE pods   \* per namespace: the pod that refers to the replica

podVars == <<vars, pods>>

\* A pod, and the key of the replica that it names.
Pod == [phase : {"none", "waiting", "running"}, key : Keys \cup {None}]

NoPod == [phase |-> "none", key |-> None]

InitPods == Init /\ pods = [ns \in Namespaces |-> NoPod]

\* Both objects come from the caches; a namespace that is not found counts as
\* one without labels.
namespaceLabels(ns) == IF nsCache[ns] = NoNamespace THEN Unlabelled ELSE nsCache[ns]

credentialAuthorizes(ns) ==
    /\ mcCache.uid # 0
    /\ ns \in mcCache.spec.allowed \/ namespaceLabels(ns) \in mcCache.spec.selector

\* A pod is created and Default binds the credential to it, under the key that
\* the credential has now. A pod that is not authorised goes on without, and is
\* not followed.
Default(ns) ==
    /\ Disturb
    /\ pods[ns] = NoPod
    /\ Exists(ns)
    /\ credentialAuthorizes(ns)
    /\ pods' = [pods EXCEPT ![ns] = [phase |-> "waiting", key |-> mcCache.spec.key]]
    /\ UNCHANGED <<server, caches, queue, pc, locals, dirty>>

DeletePod(ns) ==
    /\ Disturb
    /\ pods[ns] # NoPod
    /\ pods' = [pods EXCEPT ![ns] = NoPod]
    /\ UNCHANGED <<server, caches, queue, pc, locals, dirty>>

\* The kubelet retries until it can read the key of the Secret. What a started
\* container was given stays with it.
StartPod(ns) ==
    /\ pods[ns].phase = "waiting"
    /\ replicas[ns].owner # 0
    /\ replicas[ns].key = pods[ns].key
    /\ pods' = [pods EXCEPT ![ns].phase = "running"]
    /\ UNCHANGED vars

\* A deleted namespace takes its pods along.
Sync ==
    /\ Next
    /\ pods' = [ns \in Namespaces |-> IF namespaces'[ns] = NoNamespace THEN NoPod ELSE pods[ns]]

NextPods ==
    \/ Sync
    \/ \E ns \in Namespaces : Default(ns) \/ DeletePod(ns) \/ StartPod(ns)

\* The controller as in CredentialSync; every kubelet retries.
SpecPods ==
    /\ InitPods /\ [][NextPods]_podVars
    /\ Fairness
    /\ \A ns \in Namespaces : WF_podVars(StartPod(ns))

-----------------------------------------------------------------------------
(* Properties *)

\* The namespace of the pod should have a replica, and there is a key for it.
Deliverable(ns) == mc.uid # 0 /\ ns \in Entitled /\ ReadSource(mc.spec) \in Values

\* A pod admitted before its replica exists, or whose replica was pruned,
\* overwritten or collected before it started, is not stranded: while its
\* namespace is entitled, the source Secret is there and the credential has the
\* key that the pod names, it does start. Admission and replication may read
\* the same edit in either order.
WaitingPodsStart ==
    \A ns \in Namespaces :
        []<>(pods[ns].phase = "waiting" =>
                ~(Deliverable(ns) /\ pods[ns].key = mc.spec.key))

\* A pod obtains the key in a namespace that is not entitled to it only while
\* the revocation is still on its way through the controller: an event, a
\* queued or running pass, or a pass that met an error and will be repeated.
\* (A missing source Secret holds pruning back: RevokedReplicasPruned.)
NoKeyAfterRevocation ==
    [][\A ns \in Namespaces :
          StartPod(ns) /\ mc.uid # 0 /\ ns \notin Entitled =>
              \/ Pending \/ pc # "idle" \/ dirty
              \/ mc.status.secret # "Resolved"]_podVars

\* DESIGN.md:200: "pod scheduled; container starts with the injected
\* credential". After an edit of spec.secretRef.key syncSecret replaces the key
\* of the replica, and a pod that was admitted before, and has not started
\* yet, waits for the old one.
AdmittedPodsStart ==
    \A ns \in Namespaces : []<>(pods[ns].phase = "waiting" => ~Deliverable(ns))

=============================================================================
