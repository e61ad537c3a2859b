--------------------------- MODULE CredentialSync ---------------------------
(***************************************************************************)
(* The ModelCredential controller (internal/controller/                    *)
(* modelcredential_controller.go): it replicates one source Secret into    *)
(* every namespace authorised to bind the credential, prunes the replicas  *)
(* of namespaces that no longer are, and records the outcome in status.    *)
(*                                                                         *)
(* One ModelCredential name is modelled; the controller shares no state    *)
(* between names and its workqueue never runs one name twice at a time.    *)
(* The object may be deleted and created again: every incarnation has its  *)
(* own uid, and uid 0 means that the object does not exist.                *)
(*                                                                         *)
(* Reconcile is split at its calls to the API server, so that edits of the *)
(* credential, of namespaces, of the source Secret and of the replicas     *)
(* interleave with it, and so do API errors and a crash of the manager.    *)
(* Reads of ModelCredentials and Namespaces go through informer caches     *)
(* that lag behind the server; Secret reads and writes do not (the         *)
(* controller's SecretClient is uncached and Secrets are not watched).     *)
(***************************************************************************)
EXTENDS Naturals

CONSTANTS
    Namespaces,     \* names of the namespaces that may exist
    Labels,         \* what a selector can tell apart about a namespace
    Specs,          \* the specs an administrator may write
    Secrets,        \* Secrets that may be named as the source
    Keys,           \* keys a Secret may have
    Values,         \* key material
    Contents,       \* what may be in a source Secret, by key
    NoNamespace,    \* "label" of a namespace that does not exist
    SecretNotFound, \* a source Secret does not exist
    KeyMissing,     \* it exists and lacks a key
    None,           \* secret and key of what does not exist
    MaxChurn        \* bound: disturbances from outside the manager

\* spec.allowedNamespaces, spec.namespaceSelector and the two parts of
\* spec.secretRef. The selector is the set of namespace labels it matches; the
\* empty set stands for the nil selector.
SpecType == [allowed : SUBSET Namespaces, selector : SUBSET Labels,
             secret : Secrets, key : Keys]

ASSUME SpecsAssumption == Specs \subseteq SpecType
ASSUME ContentsAssumption == Contents \subseteq [Keys -> Values \cup {KeyMissing}]
ASSUME SentinelAssumption ==
    /\ NoNamespace \notin Labels
    /\ SecretNotFound \notin Values \cup Contents
    /\ KeyMissing \notin Values
    /\ KeyMissing # SecretNotFound
    /\ None \notin Secrets \cup Keys
ASSUME MaxChurnAssumption == MaxChurn \in Nat

VARIABLES
    mc,         \* the ModelCredential on the API server
    nextUid,    \* uid of the next incarnation
    namespaces, \* label of every namespace, NoNamespace when absent
    source,     \* the source Secrets: their contents, or SecretNotFound
    replicas,   \* the Secret tc-cred-<name> of every namespace
    mcCache,    \* informer cache of mc
    mcEvent,    \* a watch event of mc is undelivered: mcCache is stale
    nsCache,    \* informer cache of namespaces
    nsEvents,   \* namespaces whose watch event is undelivered
    queued,     \* the credential's key is in the workqueue
    delayed,    \* a delayed requeue (RequeueAfter or back-off) is armed
    pc,         \* the next call of the running Reconcile
    cur,        \* Reconcile's own copy of the ModelCredential
    curFresh,   \* cur still carries the server's resourceVersion
    data,       \* key material read from the source Secret
    authorized, \* result of authorizedNamespaces
    todo,       \* authorised namespaces not yet written
    synced,     \* namespaces written in this pass
    doomed,     \* listed replicas pruneSecrets has still to delete
    churn,      \* disturbances so far: changes, failed calls, crashes
    dirty       \* history: drift or an API error since the pass began

server  == <<mc, nextUid, namespaces, source, replicas>>
caches  == <<mcCache, mcEvent, nsCache, nsEvents>>
queue   == <<queued, delayed>>
locals  == <<cur, curFresh, data, authorized, todo, synced, doomed>>
vars    == <<server, caches, queue, pc, locals, churn, dirty>>

-----------------------------------------------------------------------------
(* Objects *)

\* The condition SecretResolved with its reason; status.secretResolved is
\* TRUE exactly when the reason is "Resolved".
SecretReason == {"Unknown", "Resolved", "SecretNotFound", "KeyMissing"}

\* observed, reported: status.observedGeneration, and the observedGeneration
\* of the SecretResolved condition, are the current metadata.generation.
Status == [observed : BOOLEAN, reported : BOOLEAN, secret : SecretReason,
           ready : {"Unknown", "True", "False"}, synced : SUBSET Namespaces]

NoStatus == [observed |-> FALSE, reported |-> FALSE, secret |-> "Unknown",
             ready |-> "Unknown", synced |-> {}]

NoSpec == [allowed |-> {}, selector |-> {}, secret |-> None, key |-> None]

NoCredential == [uid |-> 0, spec |-> NoSpec, status |-> NoStatus]

Credential == [uid : Nat, spec : SpecType \cup {NoSpec}, status : Status]

\* A managed Secret: the uid of its controller reference, and the one key it
\* has with its data.
Replica == [owner : Nat, key : Keys \cup {None}, data : Values \cup {SecretNotFound}]

NoReplica == [owner |-> 0, key |-> None, data |-> SecretNotFound]

\* What spec.secretRef leads to: key material, or why there is none.
ReadSource(spec) ==
    IF source[spec.secret] = SecretNotFound THEN SecretNotFound
                                            ELSE source[spec.secret][spec.key]

Exists(ns) == namespaces[ns] # NoNamespace

\* authorizedNamespaces: listed names, whether or not they exist, and every
\* namespace of the (cached) list whose labels the selector matches.
AuthorizedIn(spec, labelOf) ==
    spec.allowed \cup {ns \in Namespaces : labelOf[ns] \in spec.selector}

\* A watch event may start another pass without waiting for the timer.
Pending == queued \/ mcEvent \/ nsEvents # {}

Init ==
    /\ mc = NoCredential
    /\ nextUid = 1
    /\ namespaces \in [Namespaces -> Labels \cup {NoNamespace}]
    /\ source \in [Secrets -> Contents \cup {SecretNotFound}]
    /\ replicas = [ns \in Namespaces |-> NoReplica]
    /\ mcCache = mc
    /\ nsCache = namespaces
    /\ mcEvent = FALSE
    /\ nsEvents = {}
    /\ queued = FALSE
    /\ delayed = FALSE
    /\ pc = "idle"
    /\ cur = NoCredential
    /\ curFresh = FALSE
    /\ data = SecretNotFound
    /\ authorized = {}
    /\ todo = {}
    /\ synced = {}
    /\ doomed = {}
    /\ churn = 0
    /\ dirty = FALSE

-----------------------------------------------------------------------------
(* What administrators, tenants and the cluster do *)

\* There are finitely many disturbances, but any number of them.
Disturb == churn < MaxChurn /\ churn' = churn + 1

\* A write to the ModelCredential bumps its resourceVersion and is watched.
WriteCredential(new) ==
    /\ mc' = new
    /\ mcEvent' = TRUE
    /\ curFresh' = FALSE
    /\ UNCHANGED <<namespaces, source, replicas, mcCache, nsCache, nsEvents,
                   queue, pc, cur, data, authorized, todo, synced, doomed,
                   dirty>>

CreateCredential(spec) ==
    /\ Disturb
    /\ mc.uid = 0
    /\ WriteCredential([uid |-> nextUid, spec |-> spec, status |-> NoStatus])
    /\ nextUid' = nextUid + 1

\* The edit bumps metadata.generation past what the status has observed.
EditSpec(spec) ==
    /\ Disturb
    /\ mc.uid # 0
    /\ spec # mc.spec
    /\ WriteCredential([mc EXCEPT !.spec = spec, !.status.observed = FALSE,
                                  !.status.reported = FALSE])
    /\ UNCHANGED nextUid

DeleteCredential ==
    /\ Disturb
    /\ mc.uid # 0
    /\ WriteCredential(NoCredential)
    /\ UNCHANGED nextUid

\* A namespace is created, relabelled or deleted with everything in it.
SetNamespace(ns, label) ==
    /\ Disturb
    /\ label # namespaces[ns]
    /\ namespaces' = [namespaces EXCEPT ![ns] = label]
    /\ replicas' = IF label = NoNamespace
                      THEN [replicas EXCEPT ![ns] = NoReplica]
                      ELSE replicas
    /\ nsEvents' = nsEvents \cup {ns}
    /\ UNCHANGED <<mc, nextUid, source, mcCache, mcEvent, nsCache, queue, pc,
                   locals, dirty>>

\* A source Secret is created, rotated, deleted, or loses a key. No controller
\* watches Secrets, so no event follows.
ChangeSource(secret, content) ==
    /\ Disturb
    /\ content # source[secret]
    /\ source' = [source EXCEPT ![secret] = content]
    /\ UNCHANGED <<mc, nextUid, namespaces, replicas, caches, queue, pc, locals, dirty>>

\* Someone deletes a replica or overwrites what it holds.
DriftReplica(ns, key, value) ==
    /\ Disturb
    /\ replicas[ns].owner # 0
    /\ replicas' = [replicas EXCEPT ![ns] =
                      IF value \in Values THEN [@ EXCEPT !.key = key, !.data = value]
                                          ELSE NoReplica]
    /\ dirty' = TRUE
    /\ UNCHANGED <<mc, nextUid, namespaces, source, caches, queue, pc, locals>>

\* The API server's garbage collector removes a replica whose owner is gone.
GarbageCollect(ns) ==
    /\ replicas[ns].owner \notin {0, mc.uid}
    /\ replicas' = [replicas EXCEPT ![ns] = NoReplica]
    /\ UNCHANGED <<mc, nextUid, namespaces, source, caches, queue, pc, locals,
                   churn, dirty>>

-----------------------------------------------------------------------------
(* Informers and workqueue *)

\* For(&ModelCredential{}): the event handler enqueues the object's key.
DeliverCredential ==
    /\ mcEvent
    /\ mcCache' = mc
    /\ mcEvent' = FALSE
    /\ queued' = TRUE
    /\ UNCHANGED <<server, nsCache, nsEvents, delayed, pc, locals, churn, dirty>>

\* Mutant: without the Watches clause the cache follows but nothing is queued.
DeliverNamespaceUnwatched(ns) ==
    /\ ns \in nsEvents
    /\ nsCache' = [nsCache EXCEPT ![ns] = namespaces[ns]]
    /\ nsEvents' = nsEvents \ {ns}
    /\ UNCHANGED <<server, mcCache, mcEvent, queue, pc, locals, churn, dirty>>

\* Watches(&Namespace{}, credentialsForAll): every cached credential is
\* enqueued.
DeliverNamespace(ns) ==
    /\ ns \in nsEvents
    /\ nsCache' = [nsCache EXCEPT ![ns] = namespaces[ns]]
    /\ nsEvents' = nsEvents \ {ns}
    /\ queued' = (queued \/ mcCache.uid # 0)
    /\ UNCHANGED <<server, mcCache, mcEvent, delayed, pc, locals, churn, dirty>>

TimerFires ==
    /\ delayed
    /\ delayed' = FALSE
    /\ queued' = TRUE
    /\ UNCHANGED <<server, caches, pc, locals, churn, dirty>>

\* The pass ends and its local variables are gone.
Return ==
    /\ pc' = "idle"
    /\ cur' = NoCredential
    /\ curFresh' = FALSE
    /\ data' = SecretNotFound
    /\ authorized' = {}
    /\ todo' = {}
    /\ synced' = {}
    /\ doomed' = {}

\* Memory is lost. The new process lists every object into its caches and
\* enqueues what it lists.
CrashRestart ==
    /\ Disturb
    /\ mcCache' = mc
    /\ mcEvent' = FALSE
    /\ nsCache' = namespaces
    /\ nsEvents' = {}
    /\ queued' = (mc.uid # 0)
    /\ delayed' = FALSE
    /\ Return
    /\ UNCHANGED <<server, dirty>>

-----------------------------------------------------------------------------
(* Reconcile, one step per call to the API server *)

\* The key is taken off the queue and the object read from the cache; an
\* object that is gone ends the pass without a requeue.
StartReconcile ==
    /\ pc = "idle"
    /\ queued
    /\ queued' = FALSE
    /\ dirty' = FALSE
    /\ IF mcCache.uid = 0
          THEN UNCHANGED <<pc, cur, curFresh>>
          ELSE /\ pc' = "getSecret"
               /\ cur' = mcCache
               /\ curFresh' = ~mcEvent
    /\ UNCHANGED <<server, caches, delayed, data, authorized, todo, synced,
                   doomed, churn>>

\* Mutant: the map lookup's ok is ignored and a missing key is replicated.
GetSecretKeyUnchecked ==
    /\ pc = "getSecret"
    /\ cur' = [cur EXCEPT !.status.reported = TRUE, !.status.secret = "Resolved"]
    /\ data' = ReadSource(cur.spec)
    /\ pc' = "list"
    /\ UNCHANGED <<server, caches, queue, curFresh, authorized, todo, synced,
                   doomed, churn, dirty>>

\* Reading the source Secret. A missing Secret clears Ready; a missing key
\* leaves Ready as it is. Both go straight to the status update.
GetSecret ==
    /\ pc = "getSecret"
    /\ \/ /\ ReadSource(cur.spec) = SecretNotFound
          /\ cur' = [cur EXCEPT !.status.reported = TRUE,
                                !.status.secret = "SecretNotFound",
                                !.status.ready = "False"]
          /\ pc' = "earlyStatus"
          /\ UNCHANGED data
       \/ /\ ReadSource(cur.spec) = KeyMissing
          /\ cur' = [cur EXCEPT !.status.reported = TRUE,
                                !.status.secret = "KeyMissing"]
          /\ pc' = "earlyStatus"
          /\ UNCHANGED data
       \/ /\ ReadSource(cur.spec) \in Values
          /\ cur' = [cur EXCEPT !.status.reported = TRUE,
                                !.status.secret = "Resolved"]
          /\ data' = ReadSource(cur.spec)
          /\ pc' = "list"
    /\ UNCHANGED <<server, caches, queue, curFresh, authorized, todo, synced,
                   doomed, churn, dirty>>

ListNamespaces ==
    /\ pc = "list"
    /\ authorized' = AuthorizedIn(cur.spec, nsCache)
    /\ todo' = authorized'
    /\ pc' = "sync"
    /\ UNCHANGED <<server, caches, queue, cur, curFresh, data, synced, doomed,
                   churn, dirty>>

\* The Secret that syncSecret writes: the key has the name that the spec gives
\* it in the source.
Managed == [owner |-> cur.uid, key |-> cur.spec.key, data |-> data]

\* Mutant: Create, with AlreadyExists taken for success.
SyncSecretCreateOnly(ns) ==
    /\ pc = "sync"
    /\ ns \in todo
    /\ Exists(ns)
    /\ replicas' = IF replicas[ns].owner # 0 THEN replicas ELSE
                     [replicas EXCEPT ![ns] = Managed]
    /\ synced' = synced \cup {ns}
    /\ todo' = todo \ {ns}
    /\ UNCHANGED <<mc, nextUid, namespaces, source, caches, queue, pc, cur,
                   curFresh, data, authorized, doomed, churn, dirty>>

\* syncSecret creates or overwrites the replica and takes over its
\* controller reference: only the owner's kind and name are compared, so the
\* replica of an earlier incarnation is adopted. CreateOrUpdate is a Get and a
\* Create or an Update, one step here: Create fails when the Secret is there by
\* now and Update when it has another resourceVersion than the one read
\* (SyncFails), so a write that succeeds found what the Get saw.
SyncSecret(ns) ==
    /\ pc = "sync"
    /\ ns \in todo
    /\ Exists(ns)
    /\ replicas' = [replicas EXCEPT ![ns] = Managed]
    /\ synced' = synced \cup {ns}
    /\ todo' = todo \ {ns}
    /\ UNCHANGED <<mc, nextUid, namespaces, source, caches, queue, pc, cur,
                   curFresh, data, authorized, doomed, churn, dirty>>

\* The write fails, always in a namespace that does not exist: the error is
\* logged and the loop continues.
SyncFails(ns) ==
    /\ pc = "sync"
    /\ ns \in todo
    /\ IF Exists(ns) THEN Disturb /\ dirty' = TRUE
                     ELSE UNCHANGED <<churn, dirty>>
    /\ todo' = todo \ {ns}
    /\ UNCHANGED <<server, caches, queue, pc, cur, curFresh, data, authorized,
                   synced, doomed>>

\* Mutant: pruning keeps the namespaces just written, not the authorised ones.
StartPruneUnsynced ==
    /\ pc = "sync"
    /\ todo = {}
    /\ doomed' = {ns \in Namespaces : replicas[ns].owner # 0} \ synced
    /\ pc' = "prune"
    /\ UNCHANGED <<server, caches, queue, cur, curFresh, data, authorized, todo,
                   synced, churn, dirty>>

\* Mutant: the replicas are looked up in the status, not listed.
StartPruneByStatus ==
    /\ pc = "sync"
    /\ todo = {}
    /\ doomed' = cur.status.synced \ authorized
    /\ pc' = "prune"
    /\ UNCHANGED <<server, caches, queue, cur, curFresh, data, authorized, todo,
                   synced, churn, dirty>>

\* pruneSecrets lists the credential's replicas once, and deletes by that
\* list.
StartPrune ==
    /\ pc = "sync"
    /\ todo = {}
    /\ doomed' = {ns \in Namespaces : replicas[ns].owner # 0} \ authorized
    /\ pc' = "prune"
    /\ UNCHANGED <<server, caches, queue, cur, curFresh, data, authorized, todo,
                   synced, churn, dirty>>

PruneSecret(ns) ==
    /\ pc = "prune"
    /\ ns \in doomed
    /\ replicas' = [replicas EXCEPT ![ns] = NoReplica]
    /\ doomed' = doomed \ {ns}
    /\ UNCHANGED <<mc, nextUid, namespaces, source, caches, queue, pc, cur,
                   curFresh, data, authorized, todo, synced, churn, dirty>>

\* The first error of the List or of a Delete ends pruning; Reconcile logs it
\* and goes on.
PruneFails ==
    /\ Disturb
    /\ \/ pc = "sync" /\ todo = {}
       \/ pc = "prune" /\ doomed # {}
    /\ doomed' = {}
    /\ pc' = "prune"
    /\ dirty' = TRUE
    /\ UNCHANGED <<server, caches, queue, cur, curFresh, data, authorized, todo,
                   synced>>

FinishPrune ==
    /\ pc = "prune"
    /\ doomed = {}
    /\ cur' = [cur EXCEPT !.status.observed = TRUE,
                          !.status.synced = synced,
                          !.status.ready = "True"]
    /\ pc' = "status"
    /\ UNCHANGED <<server, caches, queue, curFresh, data, authorized, todo,
                   synced, doomed, churn, dirty>>

\* Mutant: the status is patched without a resourceVersion.
UpdateStatusUnversioned ==
    /\ pc \in {"earlyStatus", "status"}
    /\ IF mc.uid # 0
          THEN /\ mc' = [mc EXCEPT !.status = cur.status]
               /\ mcEvent' = (mcEvent \/ cur.status # mc.status)
          ELSE UNCHANGED <<mc, mcEvent>>
    /\ delayed' = TRUE
    /\ Return
    /\ UNCHANGED <<nextUid, namespaces, source, replicas, mcCache, nsCache,
                   nsEvents, queued, churn, dirty>>

\* Mutant: the result carries no RequeueAfter.
UpdateStatusNoRequeue ==
    /\ pc \in {"earlyStatus", "status"}
    /\ IF curFresh
          THEN /\ mc' = [mc EXCEPT !.status = cur.status]
               /\ mcEvent' = (mcEvent \/ cur.status # mc.status)
          ELSE UNCHANGED <<mc, mcEvent>>
    /\ Return
    /\ UNCHANGED <<nextUid, namespaces, source, replicas, mcCache, nsCache,
                   nsEvents, queue, churn, dirty>>

\* Status().Update carries the resourceVersion of the copy that was read: a
\* copy that is out of date is refused, and a write that changes nothing
\* raises no event. RequeueAfter or the error's back-off arms the timer.
UpdateStatus ==
    /\ pc \in {"earlyStatus", "status"}
    /\ IF curFresh
          THEN /\ mc' = [mc EXCEPT !.status = cur.status]
               /\ mcEvent' = (mcEvent \/ cur.status # mc.status)
          ELSE UNCHANGED <<mc, mcEvent>>
    /\ delayed' = TRUE
    /\ Return
    /\ UNCHANGED <<nextUid, namespaces, source, replicas, mcCache, nsCache,
                   nsEvents, queued, churn, dirty>>

\* A failed call whose error Reconcile returns: reading the source Secret,
\* listing namespaces or policies, updating status. The key is requeued with
\* back-off.
AbortReconcile ==
    /\ Disturb
    /\ \/ pc \in {"getSecret", "list", "earlyStatus", "status"}
       \/ pc = "prune" /\ doomed = {}
    /\ delayed' = TRUE
    /\ dirty' = TRUE
    /\ Return
    /\ UNCHANGED <<server, caches, queued>>

Worker ==
    \/ StartReconcile
    \/ GetSecret
    \/ ListNamespaces
    \/ \E ns \in Namespaces : SyncSecret(ns) \/ SyncFails(ns)
    \/ StartPrune
    \/ \E ns \in Namespaces : PruneSecret(ns)
    \/ PruneFails
    \/ FinishPrune
    \/ UpdateStatus
    \/ AbortReconcile

Environment ==
    \/ \E spec \in Specs : CreateCredential(spec) \/ EditSpec(spec)
    \/ DeleteCredential
    \/ \E ns \in Namespaces, l \in Labels \cup {NoNamespace} : SetNamespace(ns, l)
    \/ \E s \in Secrets, c \in Contents \cup {SecretNotFound} : ChangeSource(s, c)
    \/ \E ns \in Namespaces, k \in Keys, v \in Values \cup {SecretNotFound} :
          DriftReplica(ns, k, v)
    \/ CrashRestart

Next ==
    \/ Environment
    \/ \E ns \in Namespaces : GarbageCollect(ns)
    \/ DeliverCredential
    \/ \E ns \in Namespaces : DeliverNamespace(ns)
    \/ TimerFires
    \/ Worker

\* Watches deliver, timers fire, the single worker runs and the garbage
\* collector collects; nothing forces the environment to act or to stop.
Fairness ==
    /\ WF_vars(DeliverCredential)
    /\ \A ns \in Namespaces : WF_vars(DeliverNamespace(ns))
    /\ \A ns \in Namespaces : WF_vars(GarbageCollect(ns))
    /\ WF_vars(TimerFires)
    /\ WF_vars(Worker)

Spec == Init /\ [][Next]_vars /\ Fairness

-----------------------------------------------------------------------------
(* Properties *)

\* Every variable of the model, the server's objects included, keeps the
\* shape the Go types give it.
TypeOK ==
    /\ mc \in Credential
    /\ nextUid \in Nat \ {0}
    /\ namespaces \in [Namespaces -> Labels \cup {NoNamespace}]
    /\ source \in [Secrets -> Contents \cup {SecretNotFound}]
    /\ replicas \in [Namespaces -> Replica]
    /\ mcCache \in Credential
    /\ mcEvent \in BOOLEAN
    /\ nsCache \in [Namespaces -> Labels \cup {NoNamespace}]
    /\ nsEvents \in SUBSET Namespaces
    /\ queued \in BOOLEAN
    /\ delayed \in BOOLEAN
    /\ pc \in {"idle", "getSecret", "earlyStatus", "list", "sync", "prune",
               "status"}
    /\ cur \in Credential
    /\ curFresh \in BOOLEAN
    /\ data \in Values \cup {SecretNotFound}
    /\ authorized \in SUBSET Namespaces
    /\ todo \in SUBSET Namespaces
    /\ synced \in SUBSET Namespaces
    /\ doomed \in SUBSET Namespaces
    /\ churn \in 0..MaxChurn
    /\ dirty \in BOOLEAN

\* A credential that exists always has another pass coming: every return of
\* Reconcile for a live object arms RequeueAfter or the back-off, and a
\* restart enqueues what it lists. Secrets are not watched, so without this a
\* rotated source Secret would never reach the replicas.
NeverForgotten ==
    mc.uid # 0 => queued \/ delayed \/ mcEvent \/ pc # "idle"

\* A status that claims to describe the current generation lists no namespace
\* that generation does not allow, although it is computed from a cached copy
\* and written after edits may have happened: Status().Update refuses a copy
\* whose resourceVersion is out of date. (With a selector the list also
\* depends on labels, which are not versioned with the credential.)
StatusFitsSpec ==
    mc.status.observed /\ mc.spec.selector = {} =>
        mc.status.synced \subseteq mc.spec.allowed

\* The namespaces that should hold a replica now.
Entitled == {ns \in AuthorizedIn(mc.spec, namespaces) : Exists(ns)}

\* Once no watch event or queued pass is left, and no API call failed and no
\* replica was tampered with since the last pass began, a resolved credential
\* has replicas in exactly the entitled namespaces, owned by its current
\* incarnation, and status.syncedNamespaces names them: no interleaving of
\* edits, relabelling, namespace deletion, delete-and-recreate, garbage
\* collection and restarts leaves a leak or a hole behind for the next resync.
QuietMeansSynced ==
    /\ mc.uid # 0
    /\ pc = "idle"
    /\ ~Pending
    /\ ~dirty
    /\ mc.status.secret = "Resolved"
    =>
    /\ \A ns \in Namespaces :
          replicas[ns].owner = IF ns \in Entitled THEN mc.uid ELSE 0
    /\ mc.status.synced = Entitled

\* pruneSecrets deletes by the authorisation computed at the start of the
\* pass. It may delete the replica of a namespace that is entitled by now,
\* but only while the watch event that re-authorised it, or the pass that
\* event queued, is still to come.
WrongPruneIsRepaired ==
    [][\A ns \in Namespaces :
          PruneSecret(ns) /\ mc.uid # 0 /\ ns \in Entitled => Pending]_vars

FullStatus == [observed |-> TRUE, reported |-> TRUE, secret |-> "Resolved",
               ready |-> "True", synced |-> Entitled]

Converged ==
    CASE mc.uid = 0 -> \A ns \in Namespaces : replicas[ns] = NoReplica
      [] mc.uid # 0 /\ ReadSource(mc.spec) \in Values ->
            /\ \A ns \in Namespaces :
                  replicas[ns] = IF ns \in Entitled
                                    THEN [owner |-> mc.uid, key |-> mc.spec.key,
                                          data |-> ReadSource(mc.spec)]
                                    ELSE NoReplica
            /\ mc.status = FullStatus
      [] mc.uid # 0 /\ ReadSource(mc.spec) = SecretNotFound ->
            /\ mc.status.reported
            /\ mc.status.secret = "SecretNotFound"
            /\ mc.status.ready = "False"
      [] OTHER -> mc.status.reported /\ mc.status.secret = "KeyMissing"

\* However many changes, API errors and crashes come, once they stop the
\* controller reaches the state its spec asks for and stays there: the current
\* key material, under the current key, in every entitled namespace and nowhere
\* else and a status that says so, no replica of a deleted credential, or a status that names the
\* missing source.
Convergence == <>[]Converged

\* DESIGN.md:142: "Replicas in de-authorized namespaces are pruned; drift is
\* healed on a 10-minute resync." Reconcile returns before pruneSecrets when
\* the source Secret or its key is missing.
RevokedReplicasPruned ==
    <>[](mc.uid # 0 =>
            \A ns \in Namespaces : replicas[ns].owner # 0 => ns \in Entitled)

=============================================================================
