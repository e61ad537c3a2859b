------------------------ MODULE CredentialSyncProofs ------------------------
(***************************************************************************)
(* Proofs about CredentialSync, and about its composition with pods in     *)
(* CredentialDelivery, for every set of namespaces, labels, specs, source  *)
(* Secrets and key values and any number of disturbances.                  *)
(***************************************************************************)
EXTENDS CredentialDelivery, TLAPS

-----------------------------------------------------------------------------
(* Type correctness *)

\* The marker for an absent credential has the type of a credential.
LEMMA NoCredentialType == NoCredential \in Credential /\ NoCredential.uid = 0
BY DEF NoCredential, Credential, NoStatus, Status, SecretReason

\* The marker for an absent replica has the type of a replica.
LEMMA NoReplicaType == NoReplica \in Replica /\ NoReplica.owner = 0
BY DEF NoReplica, Replica

\* authorizedNamespaces returns namespaces.
LEMMA AuthorizedInType ==
    ASSUME NEW spec \in SpecType \cup {NoSpec}, NEW labelOf
    PROVE  AuthorizedIn(spec, labelOf) \in SUBSET Namespaces
BY DEF AuthorizedIn, SpecType, NoSpec

\* The initial states are well typed.
LEMMA InitTypeOK == Init => TypeOK
<1> SUFFICES ASSUME Init PROVE TypeOK
  OBVIOUS
<1>1. mc \in Credential /\ mcCache \in Credential /\ cur \in Credential
  BY NoCredentialType DEF Init
<1>2. replicas \in [Namespaces -> Replica]
  BY NoReplicaType DEF Init
<1>3. churn \in 0..MaxChurn /\ nextUid \in Nat \ {0}
  BY MaxChurnAssumption DEF Init
<1> QED
  BY <1>1, <1>2, <1>3 DEF Init, TypeOK

\* A counted disturbance leaves the counter within its type.
LEMMA DisturbType ==
    churn \in 0..MaxChurn /\ Disturb => churn' \in 0..MaxChurn
BY MaxChurnAssumption DEF Disturb

\* The pieces of a credential, and what its edits leave of them.
LEMMA CredentialParts ==
    ASSUME NEW c \in Credential
    PROVE  /\ c.uid \in Nat /\ c.spec \in SpecType \cup {NoSpec} /\ c.status \in Status
           /\ c.spec.key \in Keys \cup {None}
BY DEF Credential, SpecType, NoSpec

\* Every step of the controller and of its environment keeps the types.
LEMMA NextTypeOK == TypeOK /\ [Next]_vars => TypeOK'
<1> SUFFICES ASSUME TypeOK, [Next]_vars PROVE TypeOK'
  OBVIOUS
<1> USE DEF TypeOK
<1>1. CASE UNCHANGED vars
  BY <1>1 DEF vars, server, caches, queue, locals
<1>2. ASSUME NEW spec \in Specs, CreateCredential(spec) PROVE TypeOK'
  <2>1. [uid |-> nextUid, spec |-> spec, status |-> NoStatus] \in Credential
    BY SpecsAssumption DEF Credential, NoStatus, Status, SecretReason
  <2>2. nextUid' \in Nat \ {0} /\ churn' \in 0..MaxChurn
    BY <1>2, DisturbType DEF CreateCredential
  <2> QED
    BY <1>2, <2>1, <2>2 DEF CreateCredential, WriteCredential, queue
<1>3. ASSUME NEW spec \in Specs, EditSpec(spec) PROVE TypeOK'
  <2>1. [mc EXCEPT !.spec = spec, !.status.observed = FALSE,
                  !.status.reported = FALSE] \in Credential
    BY SpecsAssumption DEF Credential, Status
  <2> QED
    BY <1>3, <2>1, DisturbType DEF EditSpec, WriteCredential, queue
<1>4. CASE DeleteCredential
  BY <1>4, DisturbType, NoCredentialType
     DEF DeleteCredential, WriteCredential, queue
<1>5. ASSUME NEW ns \in Namespaces, NEW l \in Labels \cup {NoNamespace},
             SetNamespace(ns, l)
      PROVE  TypeOK'
  BY <1>5, DisturbType, NoReplicaType DEF SetNamespace, queue, locals
<1>6. ASSUME NEW s \in Secrets, NEW c \in Contents \cup {SecretNotFound}, ChangeSource(s, c)
      PROVE  TypeOK'
  BY <1>6, DisturbType DEF ChangeSource, caches, queue, locals
<1>7. ASSUME NEW ns \in Namespaces, NEW k \in Keys, NEW v \in Values \cup {SecretNotFound},
             DriftReplica(ns, k, v)
      PROVE  TypeOK'
  <2>1. [replicas[ns] EXCEPT !.key = k, !.data = v] \in Replica \/ v \notin Values
    BY DEF Replica
  <2>2. replicas' \in [Namespaces -> Replica]
    BY <1>7, <2>1, NoReplicaType DEF DriftReplica
  <2> QED
    BY <1>7, <2>2, DisturbType DEF DriftReplica, caches, queue, locals
<1>8. CASE CrashRestart
  BY <1>8, DisturbType, NoCredentialType DEF CrashRestart, Return, server
<1>9. ASSUME NEW ns \in Namespaces, GarbageCollect(ns) PROVE TypeOK'
  BY <1>9, NoReplicaType DEF GarbageCollect, caches, queue, locals
<1>10. CASE DeliverCredential
  BY <1>10 DEF DeliverCredential, server, locals
<1>11. ASSUME NEW ns \in Namespaces, DeliverNamespace(ns) PROVE TypeOK'
  BY <1>11 DEF DeliverNamespace, server, locals
<1>12. CASE TimerFires
  BY <1>12 DEF TimerFires, server, caches, locals
<1>13. CASE StartReconcile
  BY <1>13 DEF StartReconcile, server, caches
<1>14. CASE GetSecret
  <2>1. \A r \in SecretReason :
          [cur EXCEPT !.status.reported = TRUE, !.status.secret = r] \in Credential
    BY DEF Credential, Status
  <2>2. [cur EXCEPT !.status.reported = TRUE, !.status.secret = "SecretNotFound",
                    !.status.ready = "False"] \in Credential
    BY DEF Credential, Status, SecretReason
  <2> QED
    BY <1>14, <2>1, <2>2
       DEF GetSecret, server, caches, queue, SecretReason
<1>15. CASE ListNamespaces
  BY <1>15, AuthorizedInType, CredentialParts
     DEF ListNamespaces, server, caches, queue
<1>16. ASSUME NEW ns \in Namespaces, SyncSecret(ns) PROVE TypeOK'
  <2>1. Managed \in Replica
    BY CredentialParts DEF Managed, Replica
  <2> QED
    BY <1>16, <2>1 DEF SyncSecret, caches, queue
<1>17. ASSUME NEW ns \in Namespaces, SyncFails(ns) PROVE TypeOK'
  BY <1>17, DisturbType DEF SyncFails, server, caches, queue
<1>18. CASE StartPrune
  BY <1>18 DEF StartPrune, server, caches, queue
<1>19. ASSUME NEW ns \in Namespaces, PruneSecret(ns) PROVE TypeOK'
  BY <1>19, NoReplicaType DEF PruneSecret, caches, queue
<1>20. CASE PruneFails
  BY <1>20, DisturbType DEF PruneFails, server, caches, queue
<1>21. CASE FinishPrune
  <2>1. [cur EXCEPT !.status.observed = TRUE, !.status.synced = synced,
                    !.status.ready = "True"] \in Credential
    BY DEF Credential, Status
  <2> QED
    BY <1>21, <2>1 DEF FinishPrune, server, caches, queue
<1>22. CASE UpdateStatus
  <2>1. [mc EXCEPT !.status = cur.status] \in Credential
    BY DEF Credential
  <2> QED
    BY <1>22, <2>1, NoCredentialType DEF UpdateStatus, Return
<1>23. CASE AbortReconcile
  BY <1>23, DisturbType, NoCredentialType
     DEF AbortReconcile, Return, server, caches
<1> QED
  BY <1>1, <1>2, <1>3, <1>4, <1>5, <1>6, <1>7, <1>8, <1>9, <1>10, <1>11,
     <1>12, <1>13, <1>14, <1>15, <1>16, <1>17, <1>18, <1>19, <1>20, <1>21,
     <1>22, <1>23
     DEF Next, Environment, Worker

\* In every behaviour of the controller and its environment the server's
\* objects, the caches and Reconcile's locals keep their types.
THEOREM TypeCorrect == Spec => []TypeOK
BY InitTypeOK, NextTypeOK, PTL DEF Spec

-----------------------------------------------------------------------------
(* The inductive invariant *)

\* An informer cache differs from the server only while an event is in flight.
CacheInv ==
    /\ ~mcEvent => mcCache = mc
    /\ \A ns \in Namespaces : ns \notin nsEvents => nsCache[ns] = namespaces[ns]

\* Replicas live in existing namespaces.
ReplicaInv == \A ns \in Namespaces : replicas[ns].owner # 0 => Exists(ns)

FitsSpec(c) ==
    c.status.observed /\ c.spec.selector = {} => c.status.synced \subseteq c.spec.allowed

StatusInv == FitsSpec(mc) /\ FitsSpec(mcCache) /\ FitsSpec(cur)

Loops == {"sync", "prune", "status"}

\* How far Reconcile has come determines its locals.
PassInv ==
    /\ pc # "idle" => cur.uid # 0
    /\ pc \notin Loops => synced = {}
    /\ synced \subseteq authorized
    /\ todo \subseteq authorized
    /\ pc \in Loops /\ cur.spec.selector = {} => authorized \subseteq cur.spec.allowed
    /\ pc \in {"prune", "status"} => todo = {}
    /\ doomed \cap authorized = {}
    /\ pc # "prune" => doomed = {}
    /\ pc = "status" => cur.status.synced = synced
    /\ pc = "earlyStatus" => cur.status.secret # "Resolved"

\* A pass works on the current spec unless something will start another one.
FreshInv ==
    /\ curFresh => cur.uid = mc.uid /\ cur.spec = mc.spec
    /\ pc # "idle" /\ ~queued /\ ~mcEvent => curFresh

\* What a pass that nothing has disturbed has achieved so far.
AuthInv ==
    pc \in Loops /\ ~Pending => authorized = AuthorizedIn(mc.spec, namespaces)

SyncInv ==
    pc \in Loops /\ ~Pending /\ ~dirty =>
        /\ \A ns \in authorized \ todo :
              Exists(ns) => ns \in synced /\ replicas[ns].owner = cur.uid
        /\ \A ns \in synced : Exists(ns)

PruneInv ==
    pc \in {"prune", "status"} /\ ~Pending /\ ~dirty =>
        \A ns \in Namespaces :
            replicas[ns].owner # 0 => ns \in authorized \cup doomed

IInv ==
    /\ TypeOK
    /\ CacheInv
    /\ ReplicaInv
    /\ StatusInv
    /\ PassInv
    /\ FreshInv
    /\ AuthInv
    /\ SyncInv
    /\ PruneInv
    /\ NeverForgotten
    /\ QuietMeansSynced

\* An absent credential claims nothing, so its status fits.
LEMMA NoCredentialFits == FitsSpec(NoCredential)
BY DEF FitsSpec, NoCredential, NoStatus, NoSpec

\* The inductive invariant holds of the initial states.
LEMMA InitIInv == Init => IInv
<1> SUFFICES ASSUME Init PROVE IInv
  OBVIOUS
<1>1. TypeOK
  BY InitTypeOK
<1>2. StatusInv
  BY NoCredentialFits DEF Init, StatusInv
<1>3. CacheInv /\ ReplicaInv
  BY NoReplicaType DEF Init, CacheInv, ReplicaInv
<1> QED
  BY <1>1, <1>2, <1>3, NoCredentialType
     DEF Init, IInv, PassInv, FreshInv, AuthInv, SyncInv, PruneInv, Loops,
         NeverForgotten, QuietMeansSynced

\* Every step preserves the inductive invariant.
LEMMA NextIInv == IInv /\ [Next]_vars => IInv'
<1> SUFFICES ASSUME IInv, [Next]_vars PROVE IInv'
  OBVIOUS
<1>1. TypeOK /\ TypeOK'
  BY NextTypeOK DEF IInv
<1> USE <1>1 DEF TypeOK, IInv, CacheInv, ReplicaInv, PassInv, FreshInv, AuthInv,
                 SyncInv, PruneInv, Loops, NeverForgotten, QuietMeansSynced,
                 Pending, Entitled, Exists
<1>2. ASSUME NEW spec \in Specs, CreateCredential(spec) PROVE IInv'
  <2>1. mc'.status = NoStatus /\ UNCHANGED <<mcCache, cur>>
    BY <1>2 DEF CreateCredential, WriteCredential
  <2>2. FitsSpec(mc)'
    BY <2>1 DEF FitsSpec, NoStatus
  <2>3. StatusInv'
    BY <2>1, <2>2 DEF StatusInv, FitsSpec
  <2> QED
    BY <1>2, <2>3 DEF CreateCredential, WriteCredential, queue
<1>3. ASSUME NEW spec \in Specs, EditSpec(spec) PROVE IInv'
  <2>1. ~mc'.status.observed /\ mc'.uid = mc.uid /\ UNCHANGED <<mcCache, cur>>
    BY <1>3 DEF EditSpec, WriteCredential, Credential, Status
  <2>2. StatusInv'
    BY <2>1 DEF StatusInv, FitsSpec
  <2> QED
    BY <1>3, <2>1, <2>2 DEF EditSpec, WriteCredential, queue
<1>4. CASE DeleteCredential
  <2>1. StatusInv'
    BY <1>4, NoCredentialFits DEF StatusInv, FitsSpec, DeleteCredential,
       WriteCredential
  <2> QED
    BY <1>4, <2>1, NoCredentialType DEF DeleteCredential, WriteCredential, queue
<1>5. ASSUME NEW ns \in Namespaces, NEW l \in Labels \cup {NoNamespace},
             SetNamespace(ns, l)
      PROVE  IInv'
  <2>1. CacheInv'
    BY <1>5 DEF SetNamespace
  <2>2. ReplicaInv'
    BY <1>5, NoReplicaType DEF SetNamespace
  <2>3. Pending'
    BY <1>5 DEF SetNamespace
  <2> QED
    BY <1>5, <2>1, <2>2, <2>3 DEF SetNamespace, queue, locals, StatusInv
<1>6. ASSUME NEW s, NEW c, ChangeSource(s, c) PROVE IInv'
  BY <1>6 DEF ChangeSource, caches, queue, locals, StatusInv
<1>7. ASSUME NEW ns \in Namespaces, NEW k, NEW v, DriftReplica(ns, k, v) PROVE IInv'
  BY <1>7, NoReplicaType
     DEF DriftReplica, caches, queue, locals, Replica, StatusInv
<1>8. CASE CrashRestart
  <2>1. StatusInv'
    BY <1>8, NoCredentialFits DEF StatusInv, FitsSpec, CrashRestart, Return,
       server
  <2> QED
    BY <1>8, <2>1, NoCredentialType DEF CrashRestart, Return, server
<1>9. ASSUME NEW ns \in Namespaces, GarbageCollect(ns) PROVE IInv'
  BY <1>9, NoReplicaType DEF GarbageCollect, caches, queue, locals, StatusInv
<1>10. CASE DeliverCredential
  BY <1>10 DEF DeliverCredential, server, locals, StatusInv
<1>11. ASSUME NEW ns \in Namespaces, DeliverNamespace(ns) PROVE IInv'
  <2>1. CacheInv'
    BY <1>11 DEF DeliverNamespace, server
  <2>2. mc.uid # 0 \/ pc # "idle" => Pending'
    BY <1>11 DEF DeliverNamespace, server
  <2> QED
    BY <1>11, <2>1, <2>2 DEF DeliverNamespace, server, locals, StatusInv
<1>12. CASE TimerFires
  BY <1>12 DEF TimerFires, server, caches, locals, StatusInv
<1>13. CASE StartReconcile
  BY <1>13 DEF StartReconcile, server, caches, StatusInv
<1>14. CASE GetSecret
  <2>1. /\ cur'.uid = cur.uid /\ cur'.spec = cur.spec
        /\ cur'.status.observed = cur.status.observed
        /\ cur'.status.synced = cur.status.synced
        /\ pc' = "earlyStatus" => cur'.status.secret # "Resolved"
        /\ pc' \in {"earlyStatus", "list"}
    <3>1. CASE /\ cur' = [cur EXCEPT !.status.reported = TRUE,
                                     !.status.secret = "SecretNotFound",
                                     !.status.ready = "False"]
               /\ pc' = "earlyStatus"
      BY <3>1 DEF Credential, Status
    <3>2. CASE /\ cur' = [cur EXCEPT !.status.reported = TRUE,
                                     !.status.secret = "KeyMissing"]
               /\ pc' = "earlyStatus"
      BY <3>2 DEF Credential, Status
    <3>3. CASE /\ cur' = [cur EXCEPT !.status.reported = TRUE,
                                     !.status.secret = "Resolved"]
               /\ pc' = "list"
      BY <3>3 DEF Credential, Status
    <3> QED
      BY <1>14, <3>1, <3>2, <3>3 DEF GetSecret
  <2>2. StatusInv'
    BY <1>14, <2>1 DEF GetSecret, server, caches, StatusInv, FitsSpec
  <2>3. UNCHANGED <<server, caches, queue, curFresh, authorized, todo, synced,
                    doomed>>
    BY <1>14 DEF GetSecret
  <2> QED
    BY <1>14, <2>1, <2>2, <2>3 DEF server, caches, queue, GetSecret
<1>15. CASE ListNamespaces
  <2>1. UNCHANGED <<server, caches, queue, cur, curFresh, data, synced, doomed>>
    BY <1>15 DEF ListNamespaces
  <2>2. authorized' = AuthorizedIn(cur.spec, nsCache) /\ pc' = "sync"
    BY <1>15 DEF ListNamespaces
  <2>3. ~Pending => nsCache = namespaces /\ cur.spec = mc.spec
    BY <1>15 DEF ListNamespaces
  <2>4. cur.spec.selector = {} => authorized' \subseteq cur.spec.allowed
    BY <2>2 DEF AuthorizedIn
  <2>5. AuthInv'
    BY <2>1, <2>2, <2>3 DEF server, caches, queue, AuthorizedIn
  <2>6. PassInv'
    BY <1>15, <2>1, <2>2, <2>4 DEF ListNamespaces
  <2> QED
    BY <1>15, <2>1, <2>5, <2>6
       DEF ListNamespaces, server, caches, queue, StatusInv
<1>16. ASSUME NEW ns \in Namespaces, SyncSecret(ns) PROVE IInv'
  <2>1. replicas'[ns].owner = cur.uid /\ \A m \in Namespaces \ {ns} :
                                            replicas'[m] = replicas[m]
    BY <1>16 DEF SyncSecret, Managed
  <2>2. ns \in authorized /\ Exists(ns)
    BY <1>16 DEF SyncSecret
  <2>3. PassInv'
    BY <1>16, <2>2 DEF SyncSecret
  <2>4. SyncInv'
    BY <1>16, <2>1, <2>2 DEF SyncSecret, caches, queue
  <2> QED
    BY <1>16, <2>1, <2>2, <2>3, <2>4 DEF SyncSecret, caches, queue, StatusInv
<1>17. ASSUME NEW ns \in Namespaces, SyncFails(ns) PROVE IInv'
  BY <1>17 DEF SyncFails, server, caches, queue, StatusInv
<1>18. CASE StartPrune
  BY <1>18 DEF StartPrune, server, caches, queue, StatusInv
<1>19. ASSUME NEW ns \in Namespaces, PruneSecret(ns) PROVE IInv'
  <2>1. replicas'[ns].owner = 0 /\ \A m \in Namespaces \ {ns} :
                                     replicas'[m] = replicas[m]
    BY <1>19, NoReplicaType DEF PruneSecret
  <2>2. ns \notin authorized
    BY <1>19 DEF PruneSecret
  <2>3. SyncInv' /\ PruneInv' /\ ReplicaInv'
    BY <1>19, <2>1, <2>2 DEF PruneSecret, caches, queue
  <2> QED
    BY <1>19, <2>3 DEF PruneSecret, caches, queue, StatusInv
<1>20. CASE PruneFails
  BY <1>20 DEF PruneFails, server, caches, queue, StatusInv
<1>21. CASE FinishPrune
  <2>1. /\ cur'.uid = cur.uid /\ cur'.spec = cur.spec
        /\ cur'.status.synced = synced
    <3>1. cur' = [cur EXCEPT !.status.observed = TRUE, !.status.synced = synced,
                             !.status.ready = "True"]
      BY <1>21 DEF FinishPrune
    <3>2. cur \in Credential
      OBVIOUS
    <3> HIDE <1>1 DEF TypeOK, IInv, CacheInv, ReplicaInv, PassInv, FreshInv,
                      AuthInv, SyncInv, PruneInv
    <3>3. cur'.uid = cur.uid /\ cur'.spec = cur.spec
      BY <3>1, <3>2 DEF Credential
    <3>4. cur'.status.synced = synced
      BY <3>1, <3>2 DEF Credential, Status
    <3> QED
      BY <3>3, <3>4
  <2>2. StatusInv'
    BY <1>21, <2>1 DEF FinishPrune, server, caches, StatusInv, FitsSpec
  <2>3. PassInv'
    BY <1>21, <2>1 DEF FinishPrune
  <2> QED
    BY <1>21, <2>1, <2>2, <2>3 DEF FinishPrune, server, caches, queue
<1>22. CASE UpdateStatus
  <2>1. curFresh => /\ mc'.uid = mc.uid /\ mc'.spec = mc.spec
                    /\ mc'.status = cur.status
                    /\ mcEvent' \/ mc' = mc
    <3>1. cur.status = mc.status => [mc EXCEPT !.status = cur.status] = mc
      BY DEF Credential
    <3>2. curFresh => mc' = [mc EXCEPT !.status = cur.status]
      BY <1>22 DEF UpdateStatus
    <3>3. curFresh => mcEvent' \/ cur.status = mc.status
      BY <1>22 DEF UpdateStatus
    <3> QED
      BY <3>1, <3>2, <3>3 DEF Credential
  <2>2. ~curFresh => mc' = mc /\ mcEvent' = mcEvent
    BY <1>22 DEF UpdateStatus
  <2>3. /\ pc' = "idle" /\ cur' = NoCredential /\ ~curFresh' /\ authorized' = {}
        /\ todo' = {} /\ synced' = {} /\ doomed' = {} /\ delayed'
        /\ UNCHANGED <<namespaces, replicas, mcCache, nsCache, nsEvents, queued,
                       dirty>>
        /\ mcEvent => mcEvent'
    BY <1>22 DEF UpdateStatus, Return
  <2>4. StatusInv'
    <3>1. FitsSpec(mc)'
      BY <2>1, <2>2 DEF StatusInv, FitsSpec
    <3> QED
      BY <3>1, <2>3, NoCredentialFits DEF StatusInv, FitsSpec
  <2>5. CacheInv'
    BY <2>1, <2>2, <2>3
  <2>6. QuietMeansSynced'
    <3> SUFFICES ASSUME mc'.uid # 0, ~Pending', ~dirty',
                        mc'.status.secret = "Resolved"
                 PROVE  /\ \A ns \in Namespaces :
                             replicas'[ns].owner =
                               IF ns \in Entitled' THEN mc'.uid ELSE 0
                        /\ mc'.status.synced = Entitled'
      OBVIOUS
    <3>1. ~Pending /\ ~dirty /\ curFresh
      BY <1>22, <2>3 DEF UpdateStatus
    <3>2. pc = "status" /\ mc'.status.synced = synced
      BY <1>22, <2>1, <3>1 DEF UpdateStatus
    <3>3. authorized = AuthorizedIn(mc'.spec, namespaces')
      BY <3>1, <3>2, <2>1, <2>3
    <3>4. synced = Entitled'
      BY <3>1, <3>2, <3>3, <2>3
    <3> QED
      BY <3>1, <3>2, <3>3, <3>4, <2>1, <2>3 DEF Replica
  <2> QED
    BY <2>3, <2>4, <2>5, <2>6, NoCredentialType
<1>23. CASE AbortReconcile
  <2>1. StatusInv'
    BY <1>23, NoCredentialFits DEF StatusInv, FitsSpec, AbortReconcile, Return,
       server, caches
  <2> QED
    BY <1>23, <2>1, NoCredentialType DEF AbortReconcile, Return, server, caches
<1>24. CASE UNCHANGED vars
  BY <1>24 DEF vars, server, caches, queue, locals, StatusInv
<1> QED
  BY <1>2, <1>3, <1>4, <1>5, <1>6, <1>7, <1>8, <1>9, <1>10, <1>11, <1>12,
     <1>13, <1>14, <1>15, <1>16, <1>17, <1>18, <1>19, <1>20, <1>21, <1>22,
     <1>23, <1>24
     DEF Next, Environment, Worker

\* IInv is an invariant of the specification.
LEMMA Inductive == Spec => []IInv
BY InitIInv, NextIInv, PTL DEF Spec

-----------------------------------------------------------------------------
(* The theorems *)

\* A live credential always has another pass coming.
THEOREM NothingForgotten == Spec => []NeverForgotten
<1>1. IInv => NeverForgotten
  BY DEF IInv
<1> QED
  BY <1>1, Inductive, PTL

\* A status that claims the current generation fits that generation's
\* allow-list, whatever edits raced with the pass that wrote it.
THEOREM StatusIsOfItsSpec == Spec => []StatusFitsSpec
<1>1. IInv => StatusFitsSpec
  BY DEF IInv, StatusInv, FitsSpec, StatusFitsSpec
<1> QED
  BY <1>1, Inductive, PTL

\* An undisturbed, quiescent controller has replicas exactly where the spec
\* and the namespace labels ask for them.
THEOREM QuiescentExact == Spec => []QuietMeansSynced
<1>1. IInv => QuietMeansSynced
  BY DEF IInv
<1> QED
  BY <1>1, Inductive, PTL

\* Pruning by a stale authorisation happens only with a repairing pass ahead.
THEOREM PruneRepaired == Spec => WrongPruneIsRepaired
<1>1. IInv => \A ns \in Namespaces :
                 PruneSecret(ns) /\ mc.uid # 0 /\ ns \in Entitled => Pending
  <2> SUFFICES ASSUME IInv, NEW ns \in Namespaces, PruneSecret(ns),
                      ns \in Entitled, ~Pending
               PROVE  FALSE
    OBVIOUS
  <2>1. authorized = AuthorizedIn(mc.spec, namespaces)
    BY DEF IInv, AuthInv, Loops, PruneSecret
  <2>2. ns \notin authorized
    BY DEF IInv, PassInv, PruneSecret
  <2> QED
    BY <2>1, <2>2 DEF Entitled
<1> QED
  BY <1>1, Inductive, PTL DEF WrongPruneIsRepaired

-----------------------------------------------------------------------------
(* Pods: they take nothing from the invariant, since their steps leave the *)
(* controller's state alone but for the count of disturbances.             *)

\* Creating or deleting a pod counts as a disturbance and disturbs nothing.
LEMMA PodStepIInv ==
    ASSUME IInv, Disturb, UNCHANGED <<server, caches, queue, pc, locals, dirty>>
    PROVE  IInv'
<1>1. /\ UNCHANGED <<mc, nextUid, namespaces, source, replicas>>
      /\ UNCHANGED <<mcCache, mcEvent, nsCache, nsEvents, queued, delayed, pc, dirty>>
      /\ UNCHANGED <<cur, curFresh, data, authorized, todo, synced, doomed>>
  BY DEF server, caches, queue, locals
<1>2. TypeOK'
  BY <1>1, DisturbType DEF IInv, TypeOK
<1> QED
  BY <1>1, <1>2 DEF IInv, CacheInv, ReplicaInv, StatusInv, FitsSpec, PassInv, FreshInv, AuthInv,
     SyncInv, PruneInv, NeverForgotten, QuietMeansSynced, Entitled, Pending, Exists, Loops

\* The controller's invariant survives its composition with admission and the
\* kubelets.
LEMMA ComposedIInv == SpecPods => []IInv
<1>1. InitPods => IInv
  BY InitIInv DEF InitPods
<1>2. IInv /\ [NextPods]_podVars => IInv'
  <2> SUFFICES ASSUME IInv, [NextPods]_podVars PROVE IInv'
    OBVIOUS
  <2>1. CASE Sync \/ UNCHANGED podVars \/ \E ns \in Namespaces : StartPod(ns)
    <3>1. [Next]_vars
      BY <2>1 DEF Sync, podVars, StartPod
    <3> QED BY <3>1, NextIInv
  <2>2. CASE \E ns \in Namespaces : Default(ns) \/ DeletePod(ns)
    BY <2>2, PodStepIInv DEF Default, DeletePod
  <2> QED BY <2>1, <2>2 DEF NextPods
<1> QED BY <1>1, <1>2, PTL DEF SpecPods

\* No pod obtains the key in a namespace that lost its entitlement once the
\* revocation has gone through the controller, for any namespaces, specs and
\* number of disturbances.
THEOREM RevocationReachesPods == SpecPods => NoKeyAfterRevocation
<1>1. IInv => \A ns \in Namespaces :
                 StartPod(ns) /\ mc.uid # 0 /\ ns \notin Entitled =>
                     \/ Pending \/ pc # "idle" \/ dirty
                     \/ mc.status.secret # "Resolved"
  BY DEF IInv, QuietMeansSynced, StartPod
<1> QED BY <1>1, ComposedIInv, PTL DEF NoKeyAfterRevocation

=============================================================================
