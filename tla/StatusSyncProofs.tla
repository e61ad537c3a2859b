-------------------------- MODULE StatusSyncProofs --------------------------
(***************************************************************************)
(* Theorems about StatusSync for any objects, namespaces and number of     *)
(* disturbances: its types, that both controllers implement LevelTriggered *)
(* and that the webhooks refuse whatever they cannot parse, which is about *)
(* when passes read and write and leaves resolveClaim closed; then that    *)
(* warnings come true and that the preview agrees with admission, which is *)
(* about what the resolver computes.                                       *)
(***************************************************************************)
EXTENDS StatusSync, ResolverProofs

-----------------------------------------------------------------------------
(* Statuses and the outcome of a pass *)

\* The status of an object that exists, and what a pass may compute.
Shape(st) == "valid" \in DOMAIN st /\ st.valid \in {"Unknown", "True", "False"}

Result(r) == r = Invalid \/ (Shape(r) /\ r.valid = "True")

\* Statuses of existing objects differ from the two markers.
LEMMA ShapeNotGone == ASSUME NEW st, Shape(st) PROVE st # Gone /\ st # Invalid
BY DEF Shape, Gone, Invalid

\* So do those of new objects,
LEMMA FreshShapes == Shape(NoClusterStatus) /\ Shape(NoClaimStatus)
BY DEF Shape, NoClusterStatus, NoClaimStatus

\* and of edited ones.
LEMMA NextGenerationShape ==
    ASSUME NEW st, Shape(st) PROVE Shape(NextGeneration(st))
BY DEF Shape, NextGeneration

\* resolveClaim fails exactly when resolving for one of its identities does.
LEMMA ClaimVerdict ==
    ASSUME NEW spec, NEW cps, NEW tps, NEW label
    PROVE  LET ids == claimIdentities(spec.selector)
               r   == resolveClaim(spec, cps, tps, label)
           IN  IF \E i \in DOMAIN ids : ResolveFails(cps, tps, ids[i])
                  THEN r = Invalid
                  ELSE Shape(r) /\ r.valid = "True"
<1> DEFINE ids    == claimIdentities(spec.selector)
           effs   == {[i \in DOMAIN ids |-> Resolve(cps, tps, label, ids[i])]}
           models == {[i \in DOMAIN spec.models |-> resolveModel(spec.models[i], e)] : e \in effs}
           v      == CHOOSE x \in {Verdict(m) : m \in models} : TRUE
           fails  == \E i \in DOMAIN ids : ResolveFails(cps, tps, ids[i])
<1>1. \E m : m \in models
  OBVIOUS
<1>2. v \in {Verdict(m) : m \in models}
  <2> HIDE DEF models
  <2> QED  BY <1>1
<1>3. PICK m \in models : v = Verdict(m)
  <2> HIDE DEF models
  <2> QED BY <1>2
<1>4. Shape(v) /\ v.valid = "True"
  <2> HIDE DEF models, v
  <2> QED BY <1>3 DEF Verdict, Shape
<1>5. resolveClaim(spec, cps, tps, label) = IF fails THEN Invalid ELSE v
  BY DEF resolveClaim
<1>6. IF fails THEN resolveClaim(spec, cps, tps, label) = Invalid
               ELSE /\ Shape(resolveClaim(spec, cps, tps, label))
                    /\ resolveClaim(spec, cps, tps, label).valid = "True"
  <2> HIDE DEF v, fails
  <2> QED BY <1>4, <1>5
<1> QED BY <1>6

\* It returns a verdict or Invalid.
LEMMA ClaimResult ==
    ASSUME NEW spec, NEW cps, NEW tps, NEW label
    PROVE  Result(resolveClaim(spec, cps, tps, label))
BY ClaimVerdict DEF Result

\* So does Applied, Invalid only for a selector that does not parse.
LEMMA AppliedResult ==
    ASSUME NEW spec, NEW list
    PROVE  /\ Result(Applied(spec, list))
           /\ Malformed \notin spec.namespaceSelector => Applied(spec, list) # Invalid
<1> DEFINE r == Applied(spec, list)
<1>1. Malformed \in spec.namespaceSelector /\ list # <<>> => r = Invalid
  BY DEF Applied
<1>2. ~(Malformed \in spec.namespaceSelector /\ list # <<>>) => Shape(r) /\ r.valid = "True"
  BY DEF Applied, Shape
<1> HIDE DEF r
<1> QED BY <1>1, <1>2, ShapeNotGone DEF r, Result

\* The status written shows what the pass computed.
LEMMA OutcomeShape ==
    ASSUME NEW old, NEW r, Shape(old), Result(r)
    PROVE  /\ Shape(Outcome(old, r))
           /\ Shown(Outcome(old, r)) = r
           /\ r # Invalid => Outcome(old, r).valid = "True"
<1>1. CASE r = Invalid
  BY <1>1 DEF Outcome, Shape, Shown, Result
<1>2. CASE r # Invalid
  BY <1>2 DEF Outcome, Shape, Shown, Result
<1> QED BY <1>1, <1>2

-----------------------------------------------------------------------------
(* Types *)

\* TypeOK of the ClusterTokenPolicy side: what a pass holds is a status, and
\* while its copy is fresh it is the stored object.
ClusterTypes ==
    /\ DOMAIN cluster \subseteq ClusterNames /\ DOMAIN cstatus = ClusterNames
    /\ \A n \in ClusterNames \ DOMAIN cluster : cstatus[n] = Gone
    /\ \A n \in DOMAIN cluster : Shape(cstatus[n])
    /\ cqueue \subseteq ClusterNames
    /\ cpc \in {"idle", "namespaces", "status"}
    /\ ccur \in ClusterNames \cup {0}
    /\ cpc = "idle" <=> ccur = 0
    /\ cpc # "idle" => Shape(cnew)
    /\ cfresh => ccur \in DOMAIN cluster /\ ctp = cluster[ccur]

\* The same of the ModelClaim side.
ClaimTypes ==
    /\ DOMAIN claims \subseteq ClaimNames /\ DOMAIN status = ClaimNames
    /\ \A n \in ClaimNames \ DOMAIN claims : status[n] = Gone
    /\ \A n \in DOMAIN claims : Shape(status[n])
    /\ queue \subseteq ClaimNames
    /\ pc \in {"idle", "cluster", "tokens", "namespace", "status"}
    /\ cur \in ClaimNames \cup {0}
    /\ pc = "idle" <=> cur = 0
    /\ pc # "idle" => Shape(new)
    /\ fresh => cur \in DOMAIN claims /\ mcl = claims[cur]

\* Preserved by every step, of which eight touch this side.
LEMMA ClusterTypesStep == ASSUME ClusterTypes, [Next]_vars PROVE ClusterTypes'
<1> USE DEF ClusterTypes
<1>1. CASE UNCHANGED <<cluster, cstatus, cqueue, cpass>>
  BY <1>1 DEF cpass
<1>2. ASSUME NEW n \in ClusterNames, EditCluster(n) PROVE ClusterTypes'
  <2>0. /\ UNCHANGED <<ccur, cpc, ctp, cnew>>
        /\ cfresh' = (cfresh /\ ccur # n)
        /\ cqueue' = cqueue \cup {n}
    BY <1>2 DEF EditCluster
  <2>1. ASSUME NEW s \in ClusterSpecs, cluster' = P!Put(cluster, n, s),
               cstatus' = [cstatus EXCEPT ![n] =
                 IF n \in DOMAIN cluster THEN NextGeneration(@) ELSE NoClusterStatus]
        PROVE  ClusterTypes'
    <3>1. /\ DOMAIN cluster' = DOMAIN cluster \cup {n}
          /\ \A m \in DOMAIN cluster \ {n} : cluster'[m] = cluster[m]
      BY <2>1 DEF P!Put
    <3>2. /\ DOMAIN cstatus' = ClusterNames
          /\ \A m \in ClusterNames \ {n} : cstatus'[m] = cstatus[m]
          /\ cstatus'[n] = IF n \in DOMAIN cluster THEN NextGeneration(cstatus[n])
                                                   ELSE NoClusterStatus
      BY <2>1
    <3>3. Shape(cstatus'[n])
      BY <3>2, NextGenerationShape, FreshShapes
    <3>4. \A m \in DOMAIN cluster' : Shape(cstatus'[m])
      BY <3>1, <3>2, <3>3
    <3>5. cfresh' => ccur' \in DOMAIN cluster' /\ ctp' = cluster'[ccur']
      BY <2>0, <3>1
    <3> QED BY <2>0, <3>1, <3>2, <3>4, <3>5
  <2>2. ASSUME n \in DOMAIN cluster, cluster' = P!Drop(cluster, n),
               cstatus' = [cstatus EXCEPT ![n] = Gone]
        PROVE  ClusterTypes'
    <3>1. /\ DOMAIN cluster' = DOMAIN cluster \ {n}
          /\ \A m \in DOMAIN cluster \ {n} : cluster'[m] = cluster[m]
      BY <2>2 DEF P!Drop
    <3> QED BY <2>0, <2>2, <3>1
  <2> QED BY <1>2, <2>1, <2>2 DEF EditCluster
<1>3. ASSUME NEW ns, NEW l, EditNamespace(ns, l) PROVE ClusterTypes'
  BY <1>3 DEF EditNamespace, cpass
<1>4. ASSUME NEW n \in ClusterNames, GetClusterPolicy(n) PROVE ClusterTypes'
  BY <1>4, NobodyAssumption DEF GetClusterPolicy, objects, cpass
<1>5. CASE ListNamespaces
  <2>1. PICK list : cnew' = Outcome(cnew, Applied(ctp, list))
    BY <1>5 DEF ListNamespaces
  <2>2. Shape(cnew')
    BY <1>5, <2>1, AppliedResult, OutcomeShape DEF ListNamespaces
  <2> QED BY <1>5, <2>2 DEF ListNamespaces, objects
<1>6. CASE UpdateClusterStatus
  BY <1>6, NobodyAssumption DEF UpdateClusterStatus, CReturn, objects
<1>7. CASE AbortCluster
  BY <1>7, NobodyAssumption DEF AbortCluster, CReturn, objects
<1>8. CASE CrashRestart
  BY <1>8, NobodyAssumption DEF CrashRestart, CReturn, objects
<1> QED
  BY <1>1, <1>2, <1>3, <1>4, <1>5, <1>6, <1>7, <1>8
  DEF Next, vars, EditToken, EditClaim, OtherEvent, ClusterWorker, ClaimWorker, GetClaim,
      ListClusterPolicies, ListTokenPolicies, GetNamespace, UpdateClaimStatus, AbortClaim, objects

\* Preserved by every step.
LEMMA ClaimTypesStep == ASSUME ClaimTypes, [Next]_vars PROVE ClaimTypes'
<1> USE DEF ClaimTypes
<1>1. CASE UNCHANGED <<claims, status, queue, pass>>
  BY <1>1 DEF pass
<1>2. ASSUME NEW n \in ClaimNames, EditClaim(n) PROVE ClaimTypes'
  <2>0. /\ UNCHANGED <<cur, pc, mcl, new>>
        /\ fresh' = (fresh /\ cur # n)
        /\ queue' = queue \cup {n}
    BY <1>2 DEF EditClaim
  <2>1. ASSUME NEW s \in ClaimSpecs, claims' = P!Put(claims, n, s),
               status' = [status EXCEPT ![n] =
                 IF n \in DOMAIN claims THEN NextGeneration(@) ELSE NoClaimStatus]
        PROVE  ClaimTypes'
    <3>1. /\ DOMAIN claims' = DOMAIN claims \cup {n}
          /\ \A m \in DOMAIN claims \ {n} : claims'[m] = claims[m]
      BY <2>1 DEF P!Put
    <3>2. /\ DOMAIN status' = ClaimNames
          /\ \A m \in ClaimNames \ {n} : status'[m] = status[m]
          /\ status'[n] = IF n \in DOMAIN claims THEN NextGeneration(status[n])
                                                 ELSE NoClaimStatus
      BY <2>1
    <3>3. Shape(status'[n])
      BY <3>2, NextGenerationShape, FreshShapes
    <3>4. \A m \in DOMAIN claims' : Shape(status'[m])
      BY <3>1, <3>2, <3>3
    <3>5. fresh' => cur' \in DOMAIN claims' /\ mcl' = claims'[cur']
      BY <2>0, <3>1
    <3> QED BY <2>0, <3>1, <3>2, <3>4, <3>5
  <2>2. ASSUME n \in DOMAIN claims, claims' = P!Drop(claims, n),
               status' = [status EXCEPT ![n] = Gone]
        PROVE  ClaimTypes'
    <3>1. /\ DOMAIN claims' = DOMAIN claims \ {n}
          /\ \A m \in DOMAIN claims \ {n} : claims'[m] = claims[m]
      BY <2>2 DEF P!Drop
    <3> QED BY <2>0, <2>2, <3>1
  <2> QED BY <1>2, <2>1, <2>2 DEF EditClaim
<1>3. CASE /\ queue' = queue \cup DOMAIN claims
           /\ UNCHANGED <<claims, status, pass>>
  BY <1>3 DEF pass
<1>4. ASSUME NEW n \in ClaimNames, GetClaim(n) PROVE ClaimTypes'
  BY <1>4, NobodyAssumption DEF GetClaim, objects, pass
<1>5. CASE ListClusterPolicies \/ ListTokenPolicies
  BY <1>5 DEF ListClusterPolicies, ListTokenPolicies, objects
<1>6. CASE GetNamespace
  <2>1. new' = Outcome(new, resolveClaim(mcl, ctpl, tpl, namespaceLabels(Home)))
    BY <1>6 DEF GetNamespace
  <2>2. Shape(new')
    BY <1>6, <2>1, ClaimResult, OutcomeShape DEF GetNamespace
  <2> QED BY <1>6, <2>2 DEF GetNamespace, objects
<1>7. CASE UpdateClaimStatus
  BY <1>7, NobodyAssumption DEF UpdateClaimStatus, Return, objects
<1>8. CASE AbortClaim
  BY <1>8, NobodyAssumption DEF AbortClaim, Return, objects
<1>9. CASE CrashRestart
  BY <1>9, NobodyAssumption DEF CrashRestart, Return, objects
<1>10. CASE ClusterWorker \/ AbortCluster
  BY <1>1, <1>3, <1>10 DEF ClusterWorker, GetClusterPolicy, ListNamespaces,
     UpdateClusterStatus, AbortCluster, objects
<1> QED
  BY <1>1, <1>2, <1>3, <1>4, <1>5, <1>6, <1>7, <1>8, <1>9, <1>10
  DEF Next, vars, EditCluster, EditToken, EditNamespace, OtherEvent, ClaimWorker, objects

\* The manager starts on objects without status.
LEMMA TypesInit == Init => ClusterTypes /\ ClaimTypes
<1> SUFFICES ASSUME Init PROVE ClusterTypes /\ ClaimTypes
  OBVIOUS
<1>1. DOMAIN cluster \subseteq ClusterNames /\ DOMAIN claims \subseteq ClaimNames
  BY DEF Init, Stores
<1>2. ClusterTypes
  BY <1>1, FreshShapes, NobodyAssumption DEF Init, CIdle, ClusterTypes
<1>3. ClaimTypes
  BY <1>1, FreshShapes, NobodyAssumption DEF Init, Idle, ClaimTypes
<1> QED BY <1>2, <1>3

\* The bound on disturbances holds.
LEMMA ChurnStep == ASSUME churn \in 0..MaxChurn, [Next]_vars PROVE churn' \in 0..MaxChurn
<1>1. CASE Disturb
  BY <1>1, ChurnAssumption DEF Disturb
<1>2. CASE UNCHANGED churn
  BY <1>2
<1> QED
  BY <1>1, <1>2 DEF Next, vars, EditCluster, EditToken, EditClaim, EditNamespace, OtherEvent,
     ClusterWorker, GetClusterPolicy, ListNamespaces, UpdateClusterStatus, AbortCluster,
     ClaimWorker, GetClaim, ListClusterPolicies, ListTokenPolicies, GetNamespace,
     UpdateClaimStatus, AbortClaim, CrashRestart

\* Objects and status exist together, and a worker has an object exactly while
\* it is in a pass.
THEOREM TypeCorrect == Spec => []TypeOK
<1> DEFINE TInv == ClusterTypes /\ ClaimTypes /\ churn \in 0..MaxChurn
<1>1. Init => TInv
  BY TypesInit, ChurnAssumption DEF Init
<1>2. TInv /\ [Next]_vars => TInv'
  BY ClusterTypesStep, ClaimTypesStep, ChurnStep
<1>3. TInv => TypeOK
  BY ShapeNotGone DEF ClusterTypes, ClaimTypes, TypeOK
<1> QED BY <1>1, <1>2, <1>3, PTL DEF Spec

-----------------------------------------------------------------------------
(* The ModelClaim controller is level-triggered *)

\* A pass whose claim has not been queued again works on current data: every
\* change of what it has read queues the claim.
PassIsCurrent ==
    pc # "idle" /\ cur \notin queue =>
        /\ fresh
        /\ pc # "cluster" => ctpl = P!Named(cluster)
        /\ pc \in {"namespace", "status"} => tpl = P!Named(tokens)
        /\ pc = "status" => Shown(new) = WantedClaim(cur)

\* A claim that is neither queued nor in a pass shows the truth.
QuietIsTrue == \A n \in ClaimNames \ (queue \cup {cur}) : Shown(status[n]) = WantedClaim(n)

ClaimInv == ClaimTypes /\ PassIsCurrent /\ QuietIsTrue

\* What a claim should show depends on the stored objects alone,
LEMMA WantedStable == ASSUME UNCHANGED objects PROVE \A n : WantedClaim(n)' = WantedClaim(n)
BY DEF objects, WantedClaim, P!Named, namespaceLabels

\* and on no other claim;
LEMMA WantedElsewhere ==
    ASSUME UNCHANGED <<cluster, tokens, namespaces>>,
           NEW n, n \in DOMAIN claims <=> n \in DOMAIN claims',
           n \in DOMAIN claims => claims'[n] = claims[n]
    PROVE  WantedClaim(n)' = WantedClaim(n)
BY DEF WantedClaim, P!Named, namespaceLabels

\* for a claim that does not exist it is what its status shows.
LEMMA GoneIsTrue ==
    ASSUME ClaimTypes, NEW n \in ClaimNames \ DOMAIN claims
    PROVE  Shown(status[n]) = Gone /\ WantedClaim(n) = Gone
BY DEF ClaimTypes, Shown, Gone, WantedClaim

\* All existing claims are queued when the manager starts.
LEMMA ClaimInvInit == Init => ClaimInv
<1> SUFFICES ASSUME Init PROVE ClaimInv
  OBVIOUS
<1>1. ClaimTypes
  BY TypesInit
<1>2. PassIsCurrent
  BY DEF Init, Idle, PassIsCurrent
<1>3. QuietIsTrue
  BY <1>1, GoneIsTrue DEF Init, QuietIsTrue
<1> QED BY <1>1, <1>2, <1>3 DEF ClaimInv

\* The steps of the system as this controller sees them: its own, edits of
\* claims, events that queue every claim, and steps that do not concern it.
ClaimStep ==
    \/ \E n \in ClaimNames : EditClaim(n) \/ GetClaim(n)
    \/ ListClusterPolicies \/ ListTokenPolicies \/ GetNamespace \/ UpdateClaimStatus
    \/ AbortClaim \/ CrashRestart
    \/ queue' = queue \cup DOMAIN claims /\ UNCHANGED <<claims, status, pass>>
    \/ UNCHANGED <<objects, status, queue, pass>>

\* Every step is one of these.
LEMMA StepSplit == [Next]_vars => ClaimStep
BY DEF ClaimStep, Next, vars, EditCluster, EditToken, EditNamespace, OtherEvent,
       ClaimWorker, objects, ClusterWorker, GetClusterPolicy, ListNamespaces,
       UpdateClusterStatus, AbortCluster

\* Preserved by every step.
LEMMA ClaimInvStep == ASSUME ClaimInv, [Next]_vars PROVE ClaimInv'
<1>0. ClaimTypes /\ ClaimTypes' /\ PassIsCurrent /\ QuietIsTrue
  BY ClaimTypesStep DEF ClaimInv
<1> SUFFICES PassIsCurrent' /\ QuietIsTrue'
  BY <1>0 DEF ClaimInv
<1>1. CASE UNCHANGED <<objects, status, queue, pass>>
  <2>1. \A n : WantedClaim(n)' = WantedClaim(n)
    BY <1>1, WantedStable
  <2>2. UNCHANGED <<status, queue, cur, pc, mcl, fresh, ctpl, tpl, new, cluster, tokens, claims>>
    BY <1>1 DEF pass, objects
  <2>3. PassIsCurrent'
    BY <1>0, <2>1, <2>2 DEF PassIsCurrent, P!Named
  <2>4. QuietIsTrue'
    BY <1>0, <2>1, <2>2 DEF QuietIsTrue
  <2> QED BY <2>3, <2>4
<1>2. CASE queue' = queue \cup DOMAIN claims /\ UNCHANGED <<claims, status, pass>>
  <2>1. PassIsCurrent'
    BY <1>0, <1>2 DEF PassIsCurrent, ClaimTypes, pass
  <2>2. \A n \in ClaimNames \ DOMAIN claims' : Shown(status[n])' = Gone /\ WantedClaim(n)' = Gone
    BY <1>0 DEF ClaimTypes, Shown, Gone, WantedClaim
  <2>3. QuietIsTrue'
    BY <1>2, <2>2 DEF QuietIsTrue
  <2> QED BY <2>1, <2>3
<1>3. ASSUME NEW n \in ClaimNames, EditClaim(n) PROVE PassIsCurrent' /\ QuietIsTrue'
  <2>1. /\ UNCHANGED <<cluster, tokens, namespaces, cur, pc, mcl, ctpl, tpl, new>>
        /\ fresh' = (fresh /\ cur # n)
        /\ queue' = queue \cup {n}
    BY <1>3 DEF EditClaim
  <2>2. \A m : m # n => /\ m \in DOMAIN claims <=> m \in DOMAIN claims'
                        /\ m \in DOMAIN claims => claims'[m] = claims[m]
    BY <1>3 DEF EditClaim, P!Put, P!Drop
  <2>3. \A m \in ClaimNames \ {n} : status'[m] = status[m]
    BY <1>0, <1>3 DEF EditClaim, ClaimTypes
  <2>4. \A m : m # n => WantedClaim(m)' = WantedClaim(m)
    BY <2>1, <2>2, WantedElsewhere
  <2>5. PassIsCurrent'
    BY <1>0, <2>1, <2>4 DEF PassIsCurrent, P!Named
  <2>6. QuietIsTrue'
    BY <1>0, <2>1, <2>3, <2>4 DEF QuietIsTrue
  <2> QED BY <2>5, <2>6
<1>4. ASSUME NEW n \in ClaimNames, GetClaim(n) PROVE PassIsCurrent' /\ QuietIsTrue'
  <2>1. \A m : WantedClaim(m)' = WantedClaim(m)
    BY <1>4, WantedStable DEF GetClaim
  <2>2. PassIsCurrent'
    BY <1>4 DEF GetClaim, PassIsCurrent, pass
  <2>3. /\ status' = status /\ cur = 0
        /\ \A m \in ClaimNames \ (queue' \cup {cur'}) :
              m \notin queue \/ (m = n /\ n \notin DOMAIN claims)
    BY <1>0, <1>4 DEF GetClaim, ClaimTypes, pass
  <2>4. QuietIsTrue'
    BY <1>0, <2>1, <2>3, GoneIsTrue, NobodyAssumption DEF QuietIsTrue
  <2> QED BY <2>2, <2>4
<1>5. CASE ListClusterPolicies
  <2>1. \A m : WantedClaim(m)' = WantedClaim(m)
    BY <1>5, WantedStable DEF ListClusterPolicies
  <2>2. PassIsCurrent'
    BY <1>0, <1>5 DEF ListClusterPolicies, PassIsCurrent, objects, P!Named
  <2>3. QuietIsTrue'
    BY <1>0, <1>5, <2>1 DEF ListClusterPolicies, QuietIsTrue
  <2> QED BY <2>2, <2>3
<1>6. CASE ListTokenPolicies
  <2>1. \A m : WantedClaim(m)' = WantedClaim(m)
    BY <1>6, WantedStable DEF ListTokenPolicies
  <2>2. PassIsCurrent'
    BY <1>0, <1>6 DEF ListTokenPolicies, PassIsCurrent, objects, P!Named
  <2>3. QuietIsTrue'
    BY <1>0, <1>6, <2>1 DEF ListTokenPolicies, QuietIsTrue
  <2> QED BY <2>2, <2>3
<1>7. CASE GetNamespace
  <2>1. \A m : WantedClaim(m)' = WantedClaim(m)
    BY <1>7, WantedStable DEF GetNamespace
  <2>2. Shown(new') = resolveClaim(mcl, ctpl, tpl, namespaceLabels(Home))
    <3>1. new' = Outcome(new, resolveClaim(mcl, ctpl, tpl, namespaceLabels(Home)))
      BY <1>7 DEF GetNamespace
    <3> QED BY <1>0, <1>7, <3>1, ClaimResult, OutcomeShape DEF GetNamespace, ClaimTypes
  <2>3. ASSUME cur \notin queue PROVE Shown(new') = WantedClaim(cur)
    BY <1>0, <1>7, <2>2, <2>3 DEF GetNamespace, PassIsCurrent, ClaimTypes, WantedClaim
  <2>4. PassIsCurrent'
    BY <1>0, <1>7, <2>1, <2>3 DEF GetNamespace, PassIsCurrent, objects, P!Named
  <2>5. QuietIsTrue'
    BY <1>0, <1>7, <2>1 DEF GetNamespace, QuietIsTrue
  <2> QED BY <2>4, <2>5
<1>8. CASE UpdateClaimStatus
  <2>1. \A m : WantedClaim(m)' = WantedClaim(m)
    BY <1>8, WantedStable DEF UpdateClaimStatus
  <2>2. PassIsCurrent'
    BY <1>8 DEF UpdateClaimStatus, Return, PassIsCurrent
  <2>3. QuietIsTrue'
    BY <1>0, <1>8, <2>1 DEF UpdateClaimStatus, Return, QuietIsTrue, PassIsCurrent, ClaimTypes
  <2> QED BY <2>2, <2>3
<1>9. CASE AbortClaim
  <2>1. \A m : WantedClaim(m)' = WantedClaim(m)
    BY <1>9, WantedStable DEF AbortClaim
  <2> QED BY <1>0, <1>9, <2>1 DEF AbortClaim, Return, QuietIsTrue, PassIsCurrent
<1>10. CASE CrashRestart
  <2>1. \A m : WantedClaim(m)' = WantedClaim(m)
    BY <1>10, WantedStable DEF CrashRestart
  <2> QED BY <1>0, <1>10, <2>1, GoneIsTrue DEF CrashRestart, Return, QuietIsTrue, PassIsCurrent
<1> QED BY StepSplit, <1>1, <1>2, <1>3, <1>4, <1>5, <1>6, <1>7, <1>8, <1>9, <1>10 DEF ClaimStep

\* The refinement mapping: initial states.
LEMMA RefinementInit == ClaimInv => Claims!Init
BY NobodyAssumption DEF ClaimInv, QuietIsTrue, Claims!Init

\* The mapping's value of due.
Due == queue \cup ({cur} \ {0})

\* Every step maps to a step of LevelTriggered.
LEMMA RefinementStep ==
    ASSUME ClaimInv, ClaimInv', [Next]_vars
    PROVE  [Claims!Next]_(Claims!vars)
<1> DEFINE Same(n) == WantedClaim(n)' = WantedClaim(n) /\ Shown(status[n])' = Shown(status[n])
<1>0. ClaimTypes /\ ClaimTypes' /\ PassIsCurrent /\ QuietIsTrue
  BY DEF ClaimInv
<1>00. Due \subseteq ClaimNames
  BY <1>0 DEF Due, ClaimTypes
<1>1. ASSUME \A n \in ClaimNames \ Due' : Same(n),
             \A n \in Due \ Due' : WantedClaim(n)' = Gone /\ Shown(status[n])' = Gone
      PROVE  Claims!Next
  <2> HIDE DEF Same
  <2>1. \A n \in ClaimNames \ Due' : Claims!Untouched(n)
    BY <1>1 DEF Claims!Untouched, Same
  <2>2. Claims!Change
    BY <1>00, <1>1, <2>1 DEF Claims!Change, Due
  <2> QED BY <2>2 DEF Claims!Next
<1>2. ASSUME NEW n \in Due, Due' = Due \ {n},
             \A m \in ClaimNames : Same(m), Shown(status[n]) = WantedClaim(n)
      PROVE  Claims!Next
  <2>1. \A m \in ClaimNames : Claims!Untouched(m)
    BY <1>2 DEF Claims!Untouched
  <2>2. Claims!Settle(n)
    BY <1>00, <1>2, <2>1 DEF Claims!Settle, Due, Claims!Untouched
  <2> QED BY <1>00, <2>2 DEF Claims!Next
<1> HIDE DEF Same
<1>3. CASE UNCHANGED <<objects, status, queue, pass>>
  <2>1. (\A n \in ClaimNames : Same(n)) /\ Due' = Due
    BY <1>3, WantedStable DEF pass, Due, Same
  <2> QED BY <1>1, <2>1
<1>4. CASE queue' = queue \cup DOMAIN claims /\ UNCHANGED <<claims, status, pass>>
  <2>1. \A n \in ClaimNames \ DOMAIN claims : Same(n)
    BY <1>4 DEF Same, WantedClaim
  <2>2. Due' = Due \cup DOMAIN claims
    BY <1>4 DEF Due, pass
  <2> QED BY <1>1, <2>1, <2>2
<1>5. ASSUME NEW n \in ClaimNames, EditClaim(n) PROVE Claims!Next
  <2>1. \A m : m # n => /\ m \in DOMAIN claims <=> m \in DOMAIN claims'
                        /\ m \in DOMAIN claims => claims'[m] = claims[m]
    BY <1>5 DEF EditClaim, P!Put, P!Drop
  <2>2. \A m \in ClaimNames \ {n} : status'[m] = status[m]
    BY <1>0, <1>5 DEF EditClaim, ClaimTypes
  <2>3. \A m : m # n => WantedClaim(m)' = WantedClaim(m)
    BY <1>5, <2>1, WantedElsewhere DEF EditClaim
  <2>4. \A m \in ClaimNames \ {n} : Same(m)
    BY <2>2, <2>3 DEF Same
  <2>5. Due' = Due \cup {n}
    BY <1>5 DEF EditClaim, Due
  <2> QED BY <1>1, <2>4, <2>5
<1>6. ASSUME UNCHANGED <<objects, status>>, Due' = Due PROVE Claims!Next
  <2>1. \A n \in ClaimNames : Same(n)
    BY <1>6, WantedStable DEF Same
  <2> QED BY <1>1, <1>6, <2>1
<1>7. ASSUME NEW n \in ClaimNames, GetClaim(n) PROVE Claims!Next
  <2>1. \A m \in ClaimNames : Same(m)
    BY <1>7, WantedStable DEF GetClaim, Same
  <2>2. CASE n \in DOMAIN claims
    <3>1. UNCHANGED <<objects, status>>
      BY <1>7 DEF GetClaim
    <3>2. cur = 0 /\ n # 0 /\ n \in queue /\ cur' = n /\ queue' = queue \ {n}
      BY <1>0, <1>7, <2>2, NobodyAssumption DEF GetClaim, ClaimTypes
    <3>3. Due' = Due
      BY <3>2 DEF Due
    <3> QED BY <1>6, <3>1, <3>3
  <2>3. CASE n \notin DOMAIN claims
    <3>1. Due' = Due \ {n} /\ n \in Due
      BY <1>0, <1>7, <2>3 DEF GetClaim, Due, ClaimTypes, pass
    <3>2. Shown(status[n]) = WantedClaim(n)
      BY <1>0, <2>3, GoneIsTrue
    <3> QED BY <1>2, <2>1, <3>1, <3>2
  <2> QED BY <2>2, <2>3
<1>8. CASE ListClusterPolicies \/ ListTokenPolicies \/ GetNamespace
  BY <1>6, <1>8 DEF ListClusterPolicies, ListTokenPolicies, GetNamespace, Due
<1>9. CASE AbortClaim
  BY <1>0, <1>6, <1>9, NobodyAssumption DEF AbortClaim, Return, Due, ClaimTypes
<1>10. CASE UpdateClaimStatus
  <2>1. cur \in ClaimNames /\ cur # 0
    BY <1>0, <1>10, NobodyAssumption DEF UpdateClaimStatus, ClaimTypes
  <2>2. CASE fresh /\ new = status[cur]
    <3>1. UNCHANGED <<objects, status>> /\ Due' = queue
      BY <1>10, <2>2 DEF UpdateClaimStatus, Return, Due
    <3>2. CASE cur \in queue
      BY <1>6, <3>1, <3>2 DEF Due
    <3>3. CASE cur \notin queue
      <4>1. Shown(status[cur]) = WantedClaim(cur)
        BY <1>0, <1>10, <2>2, <3>3 DEF UpdateClaimStatus, PassIsCurrent
      <4>2. \A n \in ClaimNames : Same(n)
        BY <3>1, WantedStable DEF Same
      <4>3. Due' = Due \ {cur} /\ cur \in Due
        BY <2>1, <3>1, <3>3 DEF Due
      <4> QED BY <1>2, <4>1, <4>2, <4>3
    <3> QED BY <3>2, <3>3
  <2>3. CASE ~(fresh /\ new = status[cur])
    <3>1. Due' = Due /\ cur \in Due'
      BY <1>10, <2>1, <2>3 DEF UpdateClaimStatus, Return, Due
    <3>2. \A n \in ClaimNames \ {cur} : status'[n] = status[n]
      BY <1>0, <1>10, <2>3 DEF UpdateClaimStatus, ClaimTypes
    <3>3. \A n \in ClaimNames \ {cur} : Same(n)
      BY <1>10, <3>2, WantedStable DEF UpdateClaimStatus, Same
    <3> QED BY <1>1, <3>1, <3>3
  <2> QED BY <2>2, <2>3
<1>11. CASE CrashRestart
  <2>1. UNCHANGED <<objects, status>> /\ Due' = DOMAIN claims
    BY <1>11 DEF CrashRestart, Return, Due
  <2>2. \A n \in ClaimNames : Same(n)
    BY <2>1, WantedStable DEF Same
  <2>3. \A n \in Due \ Due' : WantedClaim(n)' = Gone /\ Shown(status[n])' = Gone
    BY <1>0, <1>00, <2>1, <2>2, GoneIsTrue DEF Same
  <2> QED BY <1>1, <2>2, <2>3
<1> QED
  BY StepSplit, <1>3, <1>4, <1>5, <1>7, <1>8, <1>9, <1>10, <1>11 DEF ClaimStep

\* The ModelClaim controller implements LevelTriggered: a claim nobody has work
\* for shows the verdict that the policies of this moment give.
THEOREM ClaimsAreLevelTriggered == Spec => ClaimStatusIsLevelTriggered
<1>1. Init => ClaimInv
  BY ClaimInvInit
<1>2. ClaimInv /\ [Next]_vars => ClaimInv'
  BY ClaimInvStep
<1>3. Init => Claims!Init
  BY <1>1, RefinementInit
<1>4. ClaimInv /\ ClaimInv' /\ [Next]_vars => [Claims!Next]_(Claims!vars)
  BY RefinementStep
<1> QED BY <1>1, <1>2, <1>3, <1>4, PTL DEF Spec, Claims!Spec, ClaimStatusIsLevelTriggered

-----------------------------------------------------------------------------
(* The ClusterTokenPolicy controller is level-triggered *)

\* The loop over the listed namespaces, round by round.
MatchedRounds(g, spec, N, list) ==
    /\ g \in [0..Len(list) -> Seq(N)]
    /\ g[0] = <<>>
    /\ \A i \in 1..Len(list) :
          g[i] = IF namespaces[list[i]] \in spec.namespaceSelector
                    THEN Append(g[i - 1], list[i]) ELSE g[i - 1]
    /\ matched(spec, list) = g[Len(list)]

\* The loop over the namespaces obeys the equations of MatchedRounds.
LEMMA MatchedLoop ==
  ASSUME NEW spec, NEW N, NEW list \in Seq(N)
  PROVE  \E g : MatchedRounds(g, spec, N, list)
<1> DEFINE A == Seq(N)
           step == [x \in A \X N |-> IF namespaces[x[2]] \in spec.namespaceSelector
                                        THEN Append(x[1], x[2]) ELSE x[1]]
           Body(f) == f = [t \in SUBSET (DOMAIN list) |->
                             IF t = {} THEN <<>>
                             ELSE IF namespaces[list[Max(t)]] \in spec.namespaceSelector
                                     THEN Append(f[t \ {Max(t)}], list[Max(t)])
                                     ELSE f[t \ {Max(t)}]]
           h == CHOOSE f : Body(f)
<1>1. matched(spec, list) = h[DOMAIN list]
  BY Zenon DEF matched, FoldLeft, MapThenFoldSet
<1>2. DOMAIN list = 1..Len(list) /\ Len(list) \in Nat /\ \A i \in 1..Len(list) : list[i] \in N
  OBVIOUS
<1>3. \A x \in A, ns \in N :
         step[<<x, ns>>] = IF namespaces[ns] \in spec.namespaceSelector
                              THEN Append(x, ns) ELSE x
  OBVIOUS
<1>4. step \in [A \X N -> A] OBVIOUS
<1>5. <<>> \in A OBVIOUS
<1> HIDE DEF step, A
<1>6. \A t \in SUBSET (DOMAIN list) : t # {} => list[Max(t)] \in N BY <1>2, MaxOf
<1>7. PICK f \in [SUBSET (DOMAIN list) -> A] : IsLoop(f, list, step, <<>>)
  <2> PICK p : p = step OBVIOUS
  <2>1. p \in [A \X N -> A] BY <1>4
  <2>2. \E f \in [SUBSET (DOMAIN list) -> A] : IsLoop(f, list, p, <<>>)
    BY <1>5, <2>1, LoopExists
  <2> QED BY <2>2
<1>8. \A t \in SUBSET (DOMAIN list) :
         f[t] = IF t = {} THEN <<>>
                ELSE IF namespaces[list[Max(t)]] \in spec.namespaceSelector
                        THEN Append(f[t \ {Max(t)}], list[Max(t)])
                        ELSE f[t \ {Max(t)}]
  BY <1>3, <1>6, <1>7 DEF IsLoop
<1>9. Body(f) BY <1>7, <1>8
<1> HIDE DEF Body
<1>10. Body(h) BY <1>9, Zenon
<1> HIDE DEF h
<1>11. Computes(h, list, step, <<>>, A)
  BY <1>3, <1>6, <1>10 DEF Body, Computes
<1>12. PICK g \in [0..Len(list) -> A] : RoundsOf(g, h, list, step, <<>>)
  <2> PICK p, k : p = step /\ k = h OBVIOUS
  <2>1. p \in [A \X N -> A] /\ Computes(k, list, p, <<>>, A) BY <1>4, <1>11
  <2>2. \E g \in [0..Len(list) -> A] : RoundsOf(g, k, list, p, <<>>)
    BY <1>5, <2>1, LoopRounds
  <2> QED BY <2>2
<1>13. \A i \in 1..Len(list) :
          g[i] = IF namespaces[list[i]] \in spec.namespaceSelector
                    THEN Append(g[i - 1], list[i]) ELSE g[i - 1]
  <2>1. \A i \in 1..Len(list) : i - 1 \in 0..Len(list) /\ list[i] \in N BY <1>2
  <2> QED BY <1>3, <1>12, <2>1 DEF RoundsOf
<1> QED BY <1>1, <1>12, <1>13 DEF RoundsOf, A, MatchedRounds

\* It collects the namespaces that the selector selects.
LEMMA MatchedSet ==
  ASSUME NEW spec, NEW N, NEW list \in Seq(N), ToSet(list) = N
  PROVE  ToSet(matched(spec, list)) = {ns \in N : namespaces[ns] \in spec.namespaceSelector}
<1> PICK g : MatchedRounds(g, spec, N, list) BY MatchedLoop
<1> DEFINE n == Len(list)
           First(k) == {list[i] : i \in {j \in 1..k :
                                           namespaces[list[j]] \in spec.namespaceSelector}}
           Good == {x \in (0..n) \X Seq(N) : ToSet(x[2]) = First(x[1])}
<1>0. n \in Nat /\ DOMAIN list = 1..n /\ \A i \in 1..n : list[i] \in N OBVIOUS
<1> USE DEF MatchedRounds
<1>1. <<0, g[0]>> \in Good
  <2>1. First(0) = {} /\ ToSet(<<>>) = {} BY DEF ToSet
  <2>2. <<>> \in Seq(N) /\ 0 \in 0..n BY <1>0
  <2> HIDE DEF First
  <2> QED BY <2>1, <2>2
<1>2. ASSUME NEW k \in 1..n, <<k - 1, g[k - 1]>> \in Good
      PROVE  <<k, g[k]>> \in Good
  <2> DEFINE acc == g[k - 1]
  <2>1. acc \in Seq(N) /\ ToSet(acc) = First(k - 1) BY <1>2
  <2>2. k \in 0..n /\ g[k] \in Seq(N) BY <1>0
  <2>3. 1..k = (1..(k - 1)) \cup {k} BY <1>0
  <2>4. CASE namespaces[list[k]] \in spec.namespaceSelector
    <3>1. g[k] = Append(acc, list[k]) BY <2>4
    <3>2. First(k) = First(k - 1) \cup {list[k]} BY <2>3, <2>4
    <3>3. ToSet(Append(acc, list[k])) = ToSet(acc) \cup {list[k]}
      <4>1. list[k] \in N BY <1>0
      <4> HIDE DEF acc
      <4>2. /\ Len(acc) \in Nat /\ Len(Append(acc, list[k])) = Len(acc) + 1
            /\ \A i \in 1..Len(acc) : Append(acc, list[k])[i] = acc[i]
            /\ Append(acc, list[k])[Len(acc) + 1] = list[k]
            /\ DOMAIN acc = 1..Len(acc)
            /\ DOMAIN Append(acc, list[k]) = 1..(Len(acc) + 1)
        BY <2>1, <4>1
      <4>3. 1..(Len(acc) + 1) = (1..Len(acc)) \cup {Len(acc) + 1} BY <4>2
      <4> QED BY <4>2, <4>3 DEF ToSet
    <3> HIDE DEF First, acc
    <3> QED BY <2>1, <2>2, <3>1, <3>2, <3>3
  <2>5. CASE namespaces[list[k]] \notin spec.namespaceSelector
    <3>1. g[k] = acc BY <2>5
    <3>2. First(k) = First(k - 1) BY <2>3, <2>5
    <3> HIDE DEF First, acc
    <3> QED BY <2>1, <2>2, <3>1, <3>2
  <2> QED BY <2>4, <2>5
<1> HIDE DEF Good
<1>3. <<n, g[n]>> \in Good BY <1>0, <1>1, <1>2, RoundInduction
<1>4. First(n) = {ns \in N : namespaces[ns] \in spec.namespaceSelector}
  BY <1>0 DEF ToSet
<1> HIDE DEF First
<1> QED BY <1>3, <1>4 DEF Good

\* What a policy's status should show of the namespaces as they are.
Truth(spec) ==
    IF Malformed \in spec.namespaceSelector /\ Existing # {} THEN Invalid
    ELSE [observed |-> TRUE, valid |-> "True", ready |-> TRUE,
          modelCount |-> Len(spec.models),
          applied |-> Sorted({ns \in Existing : namespaces[ns] \in spec.namespaceSelector}, <)]

\* Whatever the order in which the cache lists them, that is what a pass computes.
LEMMA AppliedIsTruth ==
    ASSUME NEW spec, NEW list \in SetToSeqs(Existing)
    PROVE  Applied(spec, list) = Truth(spec)
<1>1. IsFiniteSet(Existing) BY NamespacesAssumption, FS_Subset DEF Existing
<1> PICK N : N = Existing OBVIOUS
<1>2. list \in Seq(N) /\ ToSet(list) = N BY <1>1, SetToSeqsContents
<1>3. list = <<>> <=> N = {}
  <2>1. Len(list) \in Nat /\ DOMAIN list = 1..Len(list) BY <1>2
  <2>2. ASSUME N = {} PROVE list = <<>>
    <3>1. Len(list) = 0
      <4> SUFFICES ASSUME Len(list) # 0 PROVE FALSE OBVIOUS
      <4>1. 1 \in DOMAIN list BY <2>1
      <4> QED BY <1>2, <2>2, <4>1 DEF ToSet
    <3> QED BY <1>2, <3>1
  <2>3. ASSUME list = <<>> PROVE N = {} BY <1>2, <2>3 DEF ToSet
  <2> QED BY <2>2, <2>3
<1>4. ToSet(matched(spec, list)) = {ns \in N : namespaces[ns] \in spec.namespaceSelector}
  BY <1>2, MatchedSet
<1>5. sortStrings(matched(spec, list))
         = Sorted({ns \in Existing : namespaces[ns] \in spec.namespaceSelector}, <)
  BY <1>4 DEF sortStrings, Sorted
<1> QED BY <1>3, <1>5 DEF Applied, Truth

\* The reference lists them in order.
LEMMA WantedIsTruth ==
    \A n : WantedCluster(n) = IF n \in DOMAIN cluster THEN Truth(cluster[n]) ELSE Gone
<1> DEFINE R == {x \in Nat \X Nat : x[1] < x[2]}
           Good(s) == \A i, j \in DOMAIN s : i < j => s[i] < s[j]
<1>1. IsFiniteSet(Existing) /\ Existing \subseteq Nat
  BY NamespacesAssumption, FS_Subset DEF Existing
<1> PICK N : N = Existing OBVIOUS
<1>2. StrictOrder(N, R) BY <1>1 DEF StrictOrder
<1>3. PICK s \in SetToSeqs(N) : InOrder(s, R) BY <1>1, <1>2, SortExists
<1>4. Good(s) BY <1>3 DEF InOrder
<1>5. Sorted(Existing, <) = CHOOSE t \in SetToSeqs(N) : Good(t) BY DEF Sorted
<1> HIDE DEF Good
<1>6. Sorted(Existing, <) \in SetToSeqs(Existing) BY <1>3, <1>4, <1>5
<1> QED BY <1>6, AppliedIsTruth DEF WantedCluster

\* As PassIsCurrent and QuietIsTrue: a pass whose policy has not been queued
\* again works on current data, because every change of a namespace queues
\* every policy,
ClusterPassIsCurrent ==
    cpc # "idle" /\ ccur \notin cqueue =>
        /\ cfresh
        /\ cpc = "status" => Shown(cnew) = Truth(ctp)

\* and a policy that is neither queued nor in a pass shows the truth.
ClusterQuietIsTrue ==
    \A n \in DOMAIN cluster \ (cqueue \cup {ccur}) : Shown(cstatus[n]) = Truth(cluster[n])

ClusterInv == ClusterTypes /\ ClusterPassIsCurrent /\ ClusterQuietIsTrue

\* The truth depends on the policy and the namespaces alone.
LEMMA TruthStable == ASSUME namespaces' = namespaces PROVE \A spec : Truth(spec)' = Truth(spec)
BY DEF Truth, Existing, Sorted

\* A started manager has everything queued and nothing in a pass.
LEMMA ClusterInvInit == Init => ClusterInv
BY TypesInit DEF Init, CIdle, ClusterInv, ClusterPassIsCurrent, ClusterQuietIsTrue

\* Preserved by every step.
LEMMA ClusterInvStep == ASSUME ClusterInv, [Next]_vars PROVE ClusterInv'
<1>0. ClusterTypes /\ ClusterTypes' /\ ClusterPassIsCurrent /\ ClusterQuietIsTrue
  BY ClusterTypesStep DEF ClusterInv
<1> SUFFICES ClusterPassIsCurrent' /\ ClusterQuietIsTrue'
  BY <1>0 DEF ClusterInv
<1> USE DEF ClusterPassIsCurrent, ClusterQuietIsTrue
<1>1. CASE UNCHANGED <<cluster, namespaces, cstatus, cqueue, cpass>>
  BY <1>0, <1>1, TruthStable DEF cpass
<1>2. ASSUME NEW n \in ClusterNames, EditCluster(n)
      PROVE  ClusterPassIsCurrent' /\ ClusterQuietIsTrue'
  <2>1. /\ UNCHANGED <<namespaces, ccur, cpc, ctp, cnew>>
        /\ cfresh' = (cfresh /\ ccur # n)
        /\ cqueue' = cqueue \cup {n}
    BY <1>2 DEF EditCluster
  <2>2. \A m : m # n => /\ m \in DOMAIN cluster <=> m \in DOMAIN cluster'
                        /\ m \in DOMAIN cluster => cluster'[m] = cluster[m]
    BY <1>2 DEF EditCluster, P!Put, P!Drop
  <2>3. \A m \in ClusterNames \ {n} : cstatus'[m] = cstatus[m]
    BY <1>0, <1>2 DEF EditCluster, ClusterTypes
  <2> QED BY <1>0, <2>1, <2>2, <2>3, TruthStable DEF ClusterTypes
<1>3. ASSUME NEW ns, NEW l, EditNamespace(ns, l)
      PROVE  ClusterPassIsCurrent' /\ ClusterQuietIsTrue'
  BY <1>0, <1>3 DEF EditNamespace, cpass, ClusterTypes
<1>4. ASSUME NEW n \in ClusterNames, GetClusterPolicy(n)
      PROVE  ClusterPassIsCurrent' /\ ClusterQuietIsTrue'
  <2>1. /\ ccur = 0 /\ cluster' = cluster /\ cstatus' = cstatus /\ namespaces' = namespaces
        /\ \A m \in DOMAIN cluster \ (cqueue' \cup {ccur'}) : m \notin cqueue
    BY <1>0, <1>4 DEF GetClusterPolicy, objects, cpass, ClusterTypes
  <2>2. ClusterQuietIsTrue'
    BY <1>0, <2>1, NobodyAssumption, TruthStable DEF ClusterTypes
  <2>3. ClusterPassIsCurrent'
    BY <1>4 DEF GetClusterPolicy, cpass
  <2> QED BY <2>2, <2>3
<1>5. CASE ListNamespaces
  <2>1. PICK list \in SetToSeqs(Existing) : cnew' = Outcome(cnew, Applied(ctp, list))
    BY <1>5 DEF ListNamespaces
  <2>2. Shown(cnew') = Truth(ctp)
    BY <1>0, <1>5, <2>1, AppliedIsTruth, AppliedResult, OutcomeShape
    DEF ListNamespaces, ClusterTypes
  <2> QED BY <1>0, <1>5, <2>2, TruthStable DEF ListNamespaces, objects
<1>6. CASE UpdateClusterStatus
  <2>1. /\ cpc = "status" /\ cpc' = "idle" /\ cluster' = cluster /\ namespaces' = namespaces
        /\ ccur \in ClusterNames /\ ccur' = 0
    BY <1>0, <1>6 DEF UpdateClusterStatus, CReturn, objects, ClusterTypes
  <2>2. \A n \in ClusterNames \ {ccur} : cstatus'[n] = cstatus[n]
    BY <1>0, <1>6 DEF UpdateClusterStatus, ClusterTypes
  <2>3. cqueue \subseteq cqueue'
    BY <1>6 DEF UpdateClusterStatus
  <2>4. ccur \notin cqueue' => cfresh /\ cnew = cstatus[ccur] /\ cstatus' = cstatus
    BY <1>6 DEF UpdateClusterStatus
  <2>5. ccur \notin cqueue' /\ ccur \in DOMAIN cluster
            => Shown(cstatus'[ccur]) = Truth(cluster[ccur])
    BY <1>0, <2>1, <2>3, <2>4 DEF ClusterTypes
  <2> QED BY <1>0, <2>1, <2>2, <2>3, <2>5, TruthStable DEF ClusterTypes
<1>7. CASE AbortCluster
  BY <1>0, <1>7, TruthStable DEF AbortCluster, CReturn, objects
<1>8. CASE CrashRestart
  BY <1>8 DEF CrashRestart, CReturn, objects
<1> QED
  BY <1>1, <1>2, <1>3, <1>4, <1>5, <1>6, <1>7, <1>8
  DEF Next, vars, EditToken, EditClaim, OtherEvent, ClusterWorker, ClaimWorker, GetClaim,
      ListClusterPolicies, ListTokenPolicies, GetNamespace, UpdateClaimStatus, AbortClaim, objects

\* What a policy should show depends on the namespaces and on no other policy.
LEMMA WantedClusterElsewhere ==
    ASSUME namespaces' = namespaces,
           NEW n, n \in DOMAIN cluster <=> n \in DOMAIN cluster',
           n \in DOMAIN cluster => cluster'[n] = cluster[n]
    PROVE  WantedCluster(n)' = WantedCluster(n)
<1>1. CASE n \notin DOMAIN cluster BY <1>1 DEF WantedCluster
<1>2. CASE n \in DOMAIN cluster
  <2> PICK c : c = cluster[n] OBVIOUS
  <2>1. c = cluster'[n] /\ n \in DOMAIN cluster' BY <1>2
  <2>2. WantedCluster(n) = Applied(c, Sorted(Existing, <)) BY <1>2 DEF WantedCluster
  <2>3. WantedCluster(n)' = Applied(c, Sorted(Existing, <))' BY <2>1 DEF WantedCluster
  <2>4. Applied(c, Sorted(Existing, <))' = Applied(c, Sorted(Existing, <))
    BY DEF Applied, sortStrings, matched, FoldLeft, MapThenFoldSet, Sorted, Existing
  <2> QED BY <2>2, <2>3, <2>4
<1> QED BY <1>1, <1>2

\* The mapping's value of due.
ClusterDue == cqueue \cup ({ccur} \ {0})

\* The refinement mapping: initial states.
LEMMA ClusterRefinementInit == ClusterInv => ClusterPolicies!Init
<1> SUFFICES ASSUME ClusterInv, NEW n \in ClusterNames \ ClusterDue
             PROVE  Shown(cstatus[n]) = WantedCluster(n)
  BY DEF ClusterPolicies!Init, ClusterDue
<1>1. n \in ClusterNames \ (cqueue \cup {ccur}) BY NobodyAssumption DEF ClusterDue
<1>2. CASE n \in DOMAIN cluster
  BY <1>1, <1>2, WantedIsTruth DEF ClusterInv, ClusterQuietIsTrue
<1>3. CASE n \notin DOMAIN cluster
  BY <1>1, <1>3 DEF ClusterInv, ClusterTypes, WantedCluster, Shown, Gone
<1> QED BY <1>2, <1>3

\* Every step maps to a step of LevelTriggered.
LEMMA ClusterRefinementStep ==
    ASSUME ClusterInv, ClusterInv', [Next]_vars
    PROVE  [ClusterPolicies!Next]_(ClusterPolicies!vars)
<1> DEFINE Same(n) == /\ WantedCluster(n)' = WantedCluster(n)
                      /\ Shown(cstatus[n])' = Shown(cstatus[n])
<1>0. ClusterTypes /\ ClusterTypes' /\ ClusterPassIsCurrent /\ ClusterQuietIsTrue
  BY DEF ClusterInv
<1>00. ClusterDue \subseteq ClusterNames
  BY <1>0 DEF ClusterDue, ClusterTypes
<1>1. ASSUME \A n \in ClusterNames \ ClusterDue' : Same(n),
             \A n \in ClusterDue \ ClusterDue' : WantedCluster(n)' = Gone
                                                 /\ Shown(cstatus[n])' = Gone
      PROVE  ClusterPolicies!Next
  <2> HIDE DEF Same
  <2>1. \A n \in ClusterNames \ ClusterDue' : ClusterPolicies!Untouched(n)
    BY <1>1 DEF ClusterPolicies!Untouched, Same
  <2>2. ClusterPolicies!Change
    BY <1>00, <1>1, <2>1 DEF ClusterPolicies!Change, ClusterDue
  <2> QED BY <2>2 DEF ClusterPolicies!Next
<1>2. ASSUME NEW n \in ClusterDue, ClusterDue' = ClusterDue \ {n},
             \A m \in ClusterNames : Same(m), Shown(cstatus[n]) = WantedCluster(n)
      PROVE  ClusterPolicies!Next
  <2>1. \A m \in ClusterNames : ClusterPolicies!Untouched(m)
    BY <1>2 DEF ClusterPolicies!Untouched
  <2>2. ClusterPolicies!Settle(n)
    BY <1>00, <1>2, <2>1 DEF ClusterPolicies!Settle, ClusterDue, ClusterPolicies!Untouched
  <2> QED BY <1>00, <2>2 DEF ClusterPolicies!Next
<1> HIDE DEF Same
<1>3. ASSUME UNCHANGED <<cluster, namespaces, cstatus>>
      PROVE  \A n \in ClusterNames : Same(n)
  <2>1. \A n : WantedCluster(n)' = WantedCluster(n) BY <1>3, WantedClusterElsewhere
  <2> QED BY <1>3, <2>1 DEF Same
<1>4. ASSUME UNCHANGED <<cluster, namespaces, cstatus>>, ClusterDue' = ClusterDue
      PROVE  ClusterPolicies!Next
  BY <1>1, <1>3, <1>4
<1>5. \A n \in ClusterNames \ DOMAIN cluster : /\ WantedCluster(n) = Gone
                                               /\ Shown(cstatus[n]) = Gone
  BY <1>0 DEF ClusterTypes, WantedCluster, Shown, Gone
<1>6. CASE UNCHANGED <<cluster, namespaces, cstatus, cqueue, cpass>>
  BY <1>4, <1>6 DEF cpass, ClusterDue
<1>7. ASSUME NEW n \in ClusterNames, EditCluster(n) PROVE ClusterPolicies!Next
  <2>1. \A m : m # n => /\ m \in DOMAIN cluster <=> m \in DOMAIN cluster'
                        /\ m \in DOMAIN cluster => cluster'[m] = cluster[m]
    BY <1>7 DEF EditCluster, P!Put, P!Drop
  <2>2. \A m \in ClusterNames \ {n} : cstatus'[m] = cstatus[m]
    BY <1>0, <1>7 DEF EditCluster, ClusterTypes
  <2>3. \A m : m # n => WantedCluster(m)' = WantedCluster(m)
    BY <1>7, <2>1, WantedClusterElsewhere DEF EditCluster
  <2>4. \A m \in ClusterNames \ {n} : Same(m) BY <2>2, <2>3 DEF Same
  <2>5. ClusterDue' = ClusterDue \cup {n} BY <1>7 DEF EditCluster, ClusterDue
  <2> QED BY <1>1, <2>4, <2>5
<1>8. ASSUME NEW ns, NEW l, EditNamespace(ns, l) PROVE ClusterPolicies!Next
  <2>1. /\ cluster' = cluster /\ cstatus' = cstatus
        /\ ClusterDue' = ClusterDue \cup DOMAIN cluster
    BY <1>8 DEF EditNamespace, cpass, ClusterDue
  <2>2. \A n \in ClusterNames \ DOMAIN cluster : Same(n)
    BY <2>1 DEF Same, WantedCluster
  <2> QED BY <1>1, <2>1, <2>2
<1>9. ASSUME NEW n \in ClusterNames, GetClusterPolicy(n) PROVE ClusterPolicies!Next
  <2>1. UNCHANGED <<cluster, namespaces, cstatus>> BY <1>9 DEF GetClusterPolicy, objects
  <2>2. ccur = 0 /\ n # 0 /\ n \in cqueue /\ cqueue' = cqueue \ {n}
    BY <1>0, <1>9, NobodyAssumption DEF GetClusterPolicy, ClusterTypes
  <2>3. CASE n \in DOMAIN cluster
    <3>1. ccur' = n BY <1>9, <2>3 DEF GetClusterPolicy
    <3>2. ClusterDue' = ClusterDue BY <2>2, <3>1 DEF ClusterDue
    <3> QED BY <1>4, <2>1, <3>2
  <2>4. CASE n \notin DOMAIN cluster
    <3>1. ClusterDue' = ClusterDue \ {n} /\ n \in ClusterDue
      BY <1>9, <2>2, <2>4 DEF GetClusterPolicy, ClusterDue, cpass
    <3> QED BY <1>2, <1>3, <1>5, <2>1, <2>4, <3>1
  <2> QED BY <2>3, <2>4
<1>10. CASE ListNamespaces
  BY <1>4, <1>10 DEF ListNamespaces, objects, ClusterDue
<1>11. CASE AbortCluster
  <2>1. UNCHANGED <<cluster, namespaces, cstatus>> BY <1>11 DEF AbortCluster, objects
  <2>2. ccur \in ClusterNames /\ ccur # 0 /\ ccur' = 0 /\ cqueue' = cqueue \cup {ccur}
    BY <1>0, <1>11, NobodyAssumption DEF AbortCluster, CReturn, ClusterTypes
  <2> QED BY <1>4, <2>1, <2>2 DEF ClusterDue
<1>12. CASE UpdateClusterStatus
  <2>1. /\ ccur \in ClusterNames /\ ccur # 0 /\ cpc = "status" /\ ccur' = 0
        /\ UNCHANGED <<cluster, namespaces>>
    BY <1>0, <1>12, NobodyAssumption
    DEF UpdateClusterStatus, ClusterTypes, objects, CReturn
  <2>2. CASE cfresh /\ cnew = cstatus[ccur]
    <3>1. cstatus' = cstatus /\ cqueue' = cqueue /\ ClusterDue' = cqueue
      BY <1>12, <2>1, <2>2 DEF UpdateClusterStatus, ClusterDue
    <3>2. CASE ccur \in cqueue
      BY <1>4, <2>1, <3>1, <3>2 DEF ClusterDue
    <3>3. CASE ccur \notin cqueue
      <4>1. ccur \in DOMAIN cluster /\ ctp = cluster[ccur]
        BY <1>0, <2>2 DEF ClusterTypes
      <4>2. Shown(cstatus[ccur]) = Truth(cluster[ccur])
        BY <1>0, <2>1, <2>2, <3>3, <4>1 DEF ClusterPassIsCurrent
      <4>3. Shown(cstatus[ccur]) = WantedCluster(ccur) BY <4>1, <4>2, WantedIsTruth
      <4>4. ClusterDue' = ClusterDue \ {ccur} /\ ccur \in ClusterDue
        BY <2>1, <3>1, <3>3 DEF ClusterDue
      <4> QED BY <1>2, <1>3, <2>1, <3>1, <4>3, <4>4
    <3> QED BY <3>2, <3>3
  <2>3. CASE ~(cfresh /\ cnew = cstatus[ccur])
    <3>1. ClusterDue' = ClusterDue /\ ccur \in ClusterDue'
      BY <1>12, <2>1, <2>3 DEF UpdateClusterStatus, ClusterDue
    <3>2. \A n \in ClusterNames \ {ccur} : cstatus'[n] = cstatus[n]
      BY <1>0, <1>12, <2>3 DEF UpdateClusterStatus, ClusterTypes
    <3>3. \A n : WantedCluster(n)' = WantedCluster(n) BY <2>1, WantedClusterElsewhere
    <3>4. \A n \in ClusterNames \ {ccur} : Same(n) BY <3>2, <3>3 DEF Same
    <3> QED BY <1>1, <3>1, <3>4
  <2> QED BY <2>2, <2>3
<1>13. CASE CrashRestart
  <2>1. UNCHANGED <<cluster, namespaces, cstatus>> /\ ClusterDue' = DOMAIN cluster
    BY <1>13 DEF CrashRestart, CReturn, objects, ClusterDue
  <2>2. \A n \in ClusterNames : Same(n) BY <1>3, <2>1
  <2>3. \A n \in ClusterDue \ ClusterDue' : WantedCluster(n)' = Gone /\ Shown(cstatus[n])' = Gone
    BY <1>00, <1>5, <2>1, <2>2 DEF Same
  <2> QED BY <1>1, <2>2, <2>3
<1> QED
  BY <1>6, <1>7, <1>8, <1>9, <1>10, <1>11, <1>12, <1>13
  DEF Next, vars, EditToken, EditClaim, OtherEvent, ClusterWorker, ClaimWorker, GetClaim,
      ListClusterPolicies, ListTokenPolicies, GetNamespace, UpdateClaimStatus, AbortClaim, objects

\* The ClusterTokenPolicy controller implements LevelTriggered: a policy nobody
\* has work for lists the namespaces that its selector selects now, in order.
THEOREM ClusterPoliciesAreLevelTriggered == Spec => ClusterStatusIsLevelTriggered
<1>1. Init => ClusterInv
  BY ClusterInvInit
<1>2. ClusterInv /\ [Next]_vars => ClusterInv'
  BY ClusterInvStep
<1>3. Init => ClusterPolicies!Init
  BY <1>1, ClusterRefinementInit
<1>4. ClusterInv /\ ClusterInv' /\ [Next]_vars => [ClusterPolicies!Next]_(ClusterPolicies!vars)
  BY ClusterRefinementStep
<1> QED
  BY <1>1, <1>2, <1>3, <1>4, PTL DEF Spec, ClusterPolicies!Spec, ClusterStatusIsLevelTriggered

-----------------------------------------------------------------------------
(* The webhooks refuse what the controllers cannot parse *)

\* Where every stored policy passes its webhook, resolving does not fail.
LEMMA CleanResolves ==
    ASSUME \A n \in DOMAIN cluster : validateCluster(cluster[n]),
           \A n \in DOMAIN tokens : validateToken(tokens[n]),
           NEW spec, NEW label
    PROVE  resolveClaim(spec, P!Named(cluster), P!Named(tokens), label) # Invalid
<1>1. ASSUME NEW id PROVE ~ResolveFails(P!Named(cluster), P!Named(tokens), id)
  <2>1. \A p \in P!Named(cluster) : Malformed \notin p.spec.namespaceSelector
    BY DEF P!Named, validateCluster
  <2>2. \A p \in P!Named(tokens) : ValidPods(p.spec.selector)
    BY DEF P!Named, validateToken
  <2> QED BY <2>1, <2>2 DEF ResolveFails
<1> DEFINE ids == claimIdentities(spec.selector)
<1>2. ~\E i \in DOMAIN ids : ResolveFails(P!Named(cluster), P!Named(tokens), ids[i])
  BY <1>1
<1> QED BY <1>2, ClaimVerdict, ShapeNotGone

\* Where all that is stored passes the webhooks, no status that is up to date
\* reports an unparsable selector.
THEOREM WebhooksSuffice == Spec => []ValidatedMeansResolvable
<1>1. Init => ClusterInv
  BY ClusterInvInit
<1>2. ClusterInv /\ [Next]_vars => ClusterInv'
  BY ClusterInvStep
<1>3. Init => ClaimInv
  BY ClaimInvInit
<1>4. ClaimInv /\ [Next]_vars => ClaimInv'
  BY ClaimInvStep
<1>5. ClusterInv /\ ClaimInv => ValidatedMeansResolvable
  <2> SUFFICES ASSUME ClusterInv, ClaimInv,
                      \A n \in DOMAIN cluster : validateCluster(cluster[n]),
                      \A n \in DOMAIN tokens : validateToken(tokens[n])
               PROVE  /\ \A n \in DOMAIN cluster \ (cqueue \cup {ccur}) : cstatus[n].valid = "True"
                      /\ \A n \in DOMAIN claims \ (queue \cup {cur}) : status[n].valid = "True"
    BY DEF ValidatedMeansResolvable
  <2>1. ASSUME NEW n \in DOMAIN cluster \ (cqueue \cup {ccur}) PROVE cstatus[n].valid = "True"
    <3>1. Shown(cstatus[n]) = Truth(cluster[n])
      BY DEF ClusterInv, ClusterQuietIsTrue
    <3>2. Truth(cluster[n]).valid = "True" BY DEF Truth, validateCluster
    <3> QED BY <3>1, <3>2 DEF Shown, Invalid
  <2>2. ASSUME NEW n \in DOMAIN claims \ (queue \cup {cur}) PROVE status[n].valid = "True"
    <3>1. Shown(status[n]) = WantedClaim(n)
      BY DEF ClaimInv, ClaimTypes, QuietIsTrue
    <3>2. WantedClaim(n) # Invalid /\ Result(WantedClaim(n))
      BY CleanResolves, ClaimResult DEF WantedClaim
    <3> QED BY <3>1, <3>2 DEF Shown, Result
  <2> QED BY <2>1, <2>2
<1> QED BY <1>1, <1>2, <1>3, <1>4, <1>5, PTL DEF Spec

-----------------------------------------------------------------------------
(* What a claim shows *)

\* What every edit preserves, and all that the resolver needs: finitely many
\* objects of the kinds the schema admits.
Stored ==
    /\ StoreOK(cluster, ClusterNames, ClusterSpecs)
    /\ StoreOK(tokens, TokenNames, TokenSpecs)
    /\ StoreOK(claims, ClaimNames, ClaimSpecs)

\* It holds of what the manager finds,
LEMMA StoredInit == Init => Stored
BY DEF Init, Stores, Stored, StoreOK

\* and of what edits leave.
LEMMA StoredStep == ASSUME Stored, [Next]_vars PROVE Stored'
<1>1. CASE UNCHANGED <<cluster, tokens, claims>>
  BY <1>1 DEF Stored, StoreOK
<1>2. ASSUME NEW n \in ClusterNames, EditCluster(n) PROVE Stored'
  <2>1. UNCHANGED <<tokens, claims>> BY <1>2 DEF EditCluster
  <2>2. ASSUME NEW s \in ClusterSpecs, cluster' = P!Put(cluster, n, s)
        PROVE  StoreOK(cluster', ClusterNames, ClusterSpecs)
    BY <2>2, StoreExtended DEF P!Put, Stored
  <2>3. ASSUME cluster' = P!Drop(cluster, n)
        PROVE  StoreOK(cluster', ClusterNames, ClusterSpecs)
    BY <2>3, StoreReduced DEF P!Drop, Stored
  <2> QED BY <1>2, <2>1, <2>2, <2>3 DEF EditCluster, Stored
<1>3. ASSUME NEW n \in TokenNames, EditToken(n) PROVE Stored'
  <2>1. UNCHANGED <<cluster, claims>> BY <1>3 DEF EditToken
  <2>2. ASSUME NEW s \in TokenSpecs, tokens' = P!Put(tokens, n, s)
        PROVE  StoreOK(tokens', TokenNames, TokenSpecs)
    BY <2>2, StoreExtended DEF P!Put, Stored
  <2>3. ASSUME tokens' = P!Drop(tokens, n)
        PROVE  StoreOK(tokens', TokenNames, TokenSpecs)
    BY <2>3, StoreReduced DEF P!Drop, Stored
  <2> QED BY <1>3, <2>1, <2>2, <2>3 DEF EditToken, Stored
<1>4. ASSUME NEW n \in ClaimNames, EditClaim(n) PROVE Stored'
  <2>1. UNCHANGED <<cluster, tokens>> BY <1>4 DEF EditClaim
  <2>2. ASSUME NEW s \in ClaimSpecs, claims' = P!Put(claims, n, s)
        PROVE  StoreOK(claims', ClaimNames, ClaimSpecs)
    BY <2>2, StoreExtended DEF P!Put, Stored
  <2>3. ASSUME claims' = P!Drop(claims, n)
        PROVE  StoreOK(claims', ClaimNames, ClaimSpecs)
    BY <2>3, StoreReduced DEF P!Drop, Stored
  <2> QED BY <1>4, <2>1, <2>2, <2>3 DEF EditClaim, Stored
<1> QED
  BY <1>1, <1>2, <1>3, <1>4
  DEF Next, vars, EditNamespace, OtherEvent, ClusterWorker, GetClusterPolicy, ListNamespaces,
      UpdateClusterStatus, AbortCluster, ClaimWorker, GetClaim, ListClusterPolicies,
      ListTokenPolicies, GetNamespace, UpdateClaimStatus, AbortClaim, CrashRestart, objects

\* What a pass lists are policies as the API server admits them.
LEMMA StoredPolicies ==
    ASSUME Stored
    PROVE  Policies(P!Named(cluster), P!Named(tokens))
<1>1. /\ Listed(P!Named(cluster))
      /\ \A p \in P!Named(cluster) : p.spec \in ClusterSpecs
  BY StoreListed, KeysAssumption DEF Stored, P!Named
<1>2. /\ Listed(P!Named(tokens))
      /\ \A p \in P!Named(tokens) : p.spec \in TokenSpecs
  BY StoreListed, KeysAssumption DEF Stored, P!Named
<1> QED BY <1>1, <1>2, SpecsAssumption DEF Policies

\* What Resolve returns for each identity of a claim.
Effs(spec) ==
    [i \in DOMAIN claimIdentities(spec.selector) |->
        Resolve(P!Named(cluster), P!Named(tokens), namespaceLabels(Home),
                claimIdentities(spec.selector)[i])]

\* A resolution that does not fail is the verdict on each model, by all of them.
LEMMA ClaimComputes ==
    ASSUME NEW spec, NEW r,
           r = resolveClaim(spec, P!Named(cluster), P!Named(tokens), namespaceLabels(Home)),
           r # Invalid
    PROVE  r = Verdict([i \in DOMAIN spec.models |-> resolveModel(spec.models[i], Effs(spec))])
<1> DEFINE ids    == claimIdentities(spec.selector)
           label  == namespaceLabels(Home)
           C      == P!Named(cluster)
           T      == P!Named(tokens)
           effs   == {[i \in DOMAIN ids |-> Resolve(C, T, label, ids[i])]}
           models == {[i \in DOMAIN spec.models |-> resolveModel(spec.models[i], e)] : e \in effs}
           wanted == [i \in DOMAIN spec.models |-> resolveModel(spec.models[i], Effs(spec))]
           V      == {Verdict(m) : m \in models}
<1>1. r = CHOOSE v \in V : TRUE BY DEF resolveClaim
<1>2. effs = {Effs(spec)} BY DEF Effs
<1>3. models = {wanted}
  <2> HIDE DEF effs
  <2> QED BY <1>2
<1>4. V = {Verdict(wanted)}
  <2> HIDE DEF models, wanted
  <2> QED BY <1>3
<1> HIDE DEF V
<1> QED BY <1>1, <1>4

\* There is an identity to judge a claim by, and they are its representatives.
LEMMA Identities ==
    ASSUME NEW spec \in ClaimSpecs
    PROVE  LET ids == claimIdentities(spec.selector)
           IN  /\ DOMAIN ids # {}
               /\ {ids[i] : i \in DOMAIN ids} = Representatives(spec)
<1> DEFINE sas == spec.selector.serviceAccounts
           ml  == spec.selector.matchLabels
           ids == claimIdentities(spec.selector)
<1>1. sas \in Seq(ToSet(sas) \ {""}) BY SpecsAssumption
<1>2. CASE sas = <<>>
  <2> DEFINE bare == [serviceAccount |-> "", label |-> ml]
             id   == IF ml = NoLabels THEN NoIdentity ELSE bare
  <2>1. ids = <<id>> BY <1>2 DEF claimIdentities
  <2>2. Representatives(spec) = {id}
    <3>1. CASE ml = NoLabels BY <1>2, <3>1 DEF Representatives
    <3>2. CASE ml # NoLabels
      <4>1. Representatives(spec) = [serviceAccount : {""}, label : {ml}]
        BY <1>2, <3>2 DEF Representatives
      <4>2. [serviceAccount : {""}, label : {ml}] = {bare}
        <5>1. ASSUME NEW x \in [serviceAccount : {""}, label : {ml}] PROVE x = bare
          <6>1. x.serviceAccount = "" /\ x.label = ml OBVIOUS
          <6>2. x = [serviceAccount |-> x.serviceAccount, label |-> x.label] OBVIOUS
          <6> HIDE DEF ml
          <6> QED BY <6>1, <6>2
        <5>2. bare \in [serviceAccount : {""}, label : {ml}] OBVIOUS
        <5> HIDE DEF bare
        <5> QED BY <5>1, <5>2
      <4> QED BY <3>2, <4>1, <4>2
    <3> QED BY <3>1, <3>2
  <2> HIDE DEF id, ids
  <2>3. DOMAIN ids = {1} /\ ids[1] = id BY <2>1
  <2> QED BY <2>2, <2>3 DEF ids
<1>3. CASE sas # <<>>
  <2>1. ids = [i \in DOMAIN sas |-> [serviceAccount |-> sas[i], label |-> ml]]
    BY <1>3 DEF claimIdentities
  <2>2. DOMAIN sas # {}
    <3> DEFINE A == ToSet(sas) \ {""}
    <3>1. sas \in Seq(A) BY <1>1
    <3> HIDE DEF A, sas
    <3>2. Len(sas) \in Nat /\ DOMAIN sas = 1..Len(sas) BY <3>1
    <3>3. Len(sas) # 0
      <4>1. \A s \in Seq(A) : Len(s) = 0 => s = <<>> OBVIOUS
      <4> QED BY <3>1, <4>1, <1>3
    <3>4. 1 \in DOMAIN sas BY <3>2, <3>3
    <3> QED BY <3>4
  <2>3. Representatives(spec) = [serviceAccount : ToSet(sas), label : {ml}]
    BY <1>3 DEF Representatives
  <2>4. \A x : x \in [serviceAccount : ToSet(sas), label : {ml}]
                 <=> \E i \in DOMAIN sas : x = [serviceAccount |-> sas[i], label |-> ml]
    BY DEF ToSet
  <2> HIDE DEF ids, sas
  <2>5. {ids[i] : i \in DOMAIN ids} = Representatives(spec) BY <2>1, <2>3, <2>4
  <2> QED BY <2>1, <2>2, <2>5 DEF ids
<1> QED BY <1>2, <1>3

\* A settled claim shows, model by model, whether one of its identities is
\* refused it.
LEMMA SettledShows ==
    ASSUME ClaimInv, NEW n \in ClaimNames, Settled(n)
    PROVE  LET spec == claims[n]
               st   == status[n]
           IN  /\ st.models = [i \in DOMAIN spec.models |->
                                  resolveModel(spec.models[i], Effs(spec))]
               /\ st.phase = IF \E i \in DOMAIN spec.models : st.models[i].action = "Deny"
                             THEN "Denied" ELSE "Bound"
               /\ \A i \in DOMAIN spec.models :
                     /\ st.models[i].name = spec.models[i].name
                     /\ st.models[i].action = "Deny" <=>
                          \E k \in DOMAIN Effs(spec) :
                             ~Permit(Effs(spec)[k], spec.models[i].name).allowed
<1> DEFINE spec == claims[n]
           st   == status[n]
           ms   == [i \in DOMAIN spec.models |-> resolveModel(spec.models[i], Effs(spec))]
<1>1. st.valid = "True" /\ n \in ClaimNames \ (queue \cup {cur}) /\ n \in DOMAIN claims
  BY DEF Settled, ClaimInv, ClaimTypes
<1>2. st = resolveClaim(spec, P!Named(cluster), P!Named(tokens), namespaceLabels(Home))
  BY <1>1 DEF ClaimInv, QuietIsTrue, Shown, WantedClaim
<1>3. st # Invalid BY <1>1 DEF Invalid
<1> HIDE DEF st, spec
<1>4. st = Verdict(ms) BY <1>2, <1>3, ClaimComputes
<1>5. ASSUME NEW i \in DOMAIN spec.models
      PROVE  /\ ms[i].name = spec.models[i].name
             /\ ms[i].action = "Deny" <=>
                  \E k \in DOMAIN Effs(spec) : ~Permit(Effs(spec)[k], spec.models[i].name).allowed
  <2>1. ms[i] = resolveModel(spec.models[i], Effs(spec)) OBVIOUS
  <2> DEFINE q == spec.models[i]
             e == Effs(spec)
  <2> HIDE DEF q, e, ms
  <2>2. /\ resolveModel(q, e).name = q.name
        /\ resolveModel(q, e).action = "Deny" <=> \E k \in DOMAIN e : ~Permit(e[k], q.name).allowed
    BY DEF resolveModel
  <2> QED BY <2>1, <2>2 DEF q, e
<1>6. DOMAIN ms = DOMAIN spec.models OBVIOUS
<1>7. ms = [i \in DOMAIN spec.models |-> resolveModel(spec.models[i], Effs(spec))] OBVIOUS
<1> HIDE DEF ms
<1>8. st.models = ms /\ st.phase = IF \E i \in DOMAIN ms : ms[i].action = "Deny"
                                   THEN "Denied" ELSE "Bound"
  BY <1>4 DEF Verdict
<1>9. /\ st.models = [i \in DOMAIN spec.models |-> resolveModel(spec.models[i], Effs(spec))]
      /\ st.phase = IF \E i \in DOMAIN spec.models : st.models[i].action = "Deny"
                    THEN "Denied" ELSE "Bound"
      /\ \A i \in DOMAIN spec.models :
            /\ st.models[i].name = spec.models[i].name
            /\ st.models[i].action = "Deny" <=>
                 \E k \in DOMAIN Effs(spec) : ~Permit(Effs(spec)[k], spec.models[i].name).allowed
  BY <1>5, <1>6, <1>7, <1>8
<1> QED BY <1>9 DEF st, spec

\* What the tiers say of one identity of a claim.
LEMMA EffVerdict ==
    ASSUME Stored, NEW spec, NEW k \in DOMAIN claimIdentities(spec.selector), NEW m
    PROVE  LET C == P!Named(cluster)
               T == P!Named(tokens)
           IN  /\ k \in DOMAIN Effs(spec)
               /\ Permit(Effs(spec)[k], m).allowed <=>
                    /\ ~Forbids(RulesOf(MatchingPolicies(C, namespaceLabels(Home))), m)
                    /\ ~Forbids(RulesOf(DefaultPolicies(T)), m)
                    /\ ~Forbids(RulesOf(WorkloadPolicies(T, claimIdentities(spec.selector)[k])), m)
<1> DEFINE id == claimIdentities(spec.selector)[k]
           C == P!Named(cluster)
           T == P!Named(tokens)
           l == namespaceLabels(Home)
<1>1. k \in DOMAIN Effs(spec) /\ Effs(spec)[k] = Resolve(C, T, l, id) BY DEF Effs
<1>2. Policies(C, T) BY StoredPolicies
<1> HIDE DEF id, C, T, l
<1>3. Permit(Effs(spec)[k], m).allowed <=>
         /\ ~Forbids(RulesOf(MatchingPolicies(C, l)), m)
         /\ ~Forbids(RulesOf(DefaultPolicies(T)), m)
         /\ ~Forbids(RulesOf(WorkloadPolicies(T, id)), m)
  BY <1>1, <1>2, ResolvedVerdict
<1> QED BY <1>1, <1>3 DEF id, C, T, l

-----------------------------------------------------------------------------
(* The resolver of the module and that of PolicyHierarchy are the same *)

\* sortByName and sortByPriority,
LEMMA SameSorted ==
  \A S : /\ P!sortByName(S) = sortByName(S)
         /\ P!sortByPriority(S) = sortByPriority(S)
BY Zenon DEF sortByName, P!sortByName, sortByPriority, P!sortByPriority, Sorted, P!Sorted, SetToSeqs, P!SetToSeqs, Cardinality, P!Cardinality, byName, P!byName, byPriority, P!byPriority

\* the loops over a tier,
LEMMA SameFolds ==
  \A s : /\ P!enforcementOf(s) = enforcementOf(s)
         /\ P!gatewayOf(s) = gatewayOf(s)
         /\ P!quotaOf(s) = quotaOf(s)
         /\ P!defaultCredOf(s) = defaultCredOf(s)
         /\ P!Rules(s) = Rules(s)
BY Zenon DEF enforcementOf, P!enforcementOf, gatewayOf, P!gatewayOf, quotaOf, P!quotaOf,
   defaultCredOf, P!defaultCredOf, Overwrite, P!Overwrite, FoldLeft, P!FoldLeft, MapThenFoldSet, P!MapThenFoldSet, Max, P!Max,
   minQuota, P!minQuota, minPtr, P!minPtr, Rules, P!Rules, FlattenSeq, P!FlattenSeq

\* their combination,
LEMMA SameCombine ==
  ASSUME NEW a, NEW b, NEW c PROVE P!Combine(a, b, c) = Combine(a, b, c)
BY SameFolds DEF Combine, P!Combine, Sources, P!Sources, ToSet, P!ToSet

\* the policies matched,
LEMMA SameMatches ==
  ASSUME NEW C, NEW T, NEW l, NEW pod
  PROVE  /\ P!clusterMatched(C, l) = clusterMatched(C, l)
         /\ P!nsDefaults(T) = nsDefaults(T)
         /\ P!wlMatched(T, pod) = wlMatched(T, pod)
<1>1. P!clusterMatched(C, l) = clusterMatched(C, l)
  BY SameSorted DEF clusterMatched, P!clusterMatched
<1>2. P!nsDefaults(T) = nsDefaults(T)
  BY SameSorted DEF nsDefaults, P!nsDefaults, IsEmpty, P!IsEmpty
<1>3. P!wlMatched(T, pod) = wlMatched(T, pod)
  <2> DEFINE W == {p \in T : /\ ~IsEmpty(p.spec.selector)
                            /\ pod # NoIdentity
                            /\ workloadMatches(p.spec.selector, pod)}
  <2>1. wlMatched(T, pod) = sortByPriority(W) BY DEF wlMatched
  <2>2. P!wlMatched(T, pod) = P!sortByPriority(W)
    BY Zenon DEF P!wlMatched, IsEmpty, P!IsEmpty, workloadMatches, P!workloadMatches
  <2> QED BY <2>1, <2>2, SameSorted
<1> QED BY <1>1, <1>2, <1>3

\* and Resolve.
LEMMA SameResolve ==
  ASSUME NEW C, NEW T, NEW l, NEW pod
  PROVE  P!Resolve(C, T, l, pod) = Resolve(C, T, l, pod)
<1> DEFINE v == P!Combine(P!clusterMatched(C, l), P!nsDefaults(T), P!wlMatched(T, pod))
           V == {P!Combine(cl, ns, wl) : cl \in {P!clusterMatched(C, l)},
                      ns \in {P!nsDefaults(T)}, wl \in {P!wlMatched(T, pod)}}
<1>1. P!Resolve(C, T, l, pod) = CHOOSE eff \in V : TRUE BY DEF P!Resolve
<1>2. v \in V /\ \A x \in V : x = v OBVIOUS
<1>3. v = Combine(clusterMatched(C, l), nsDefaults(T), wlMatched(T, pod))
  BY SameMatches, SameCombine
<1> HIDE DEF V, v
<1>4. P!Resolve(C, T, l, pod) = v BY <1>1, <1>2, Zenon
<1> QED BY <1>3, <1>4, ResolveIsCombine

-----------------------------------------------------------------------------
(* Warnings and previews *)

\* What is denied whatever the workload is denied to each identity.
LEMMA DeniedToNobody ==
    ASSUME Stored, NEW spec, NEW k \in DOMAIN claimIdentities(spec.selector), NEW m,
           ~Permit(P!Effective(NoIdentity), m).allowed
    PROVE  k \in DOMAIN Effs(spec) /\ ~Permit(Effs(spec)[k], m).allowed
<1> DEFINE C == P!Named(cluster)
           T == P!Named(tokens)
           l == namespaceLabels(Home)
<1>1. P!Effective(NoIdentity) = Resolve(C, T, l, NoIdentity)
  BY SameResolve DEF P!Effective
<1>2. Policies(C, T) BY StoredPolicies
<1>3. WorkloadPolicies(T, NoIdentity) = {} BY DEF WorkloadPolicies
<1> HIDE DEF C, T, l
<1>4. Permit(Resolve(C, T, l, NoIdentity), m).allowed <=>
         /\ ~Forbids(RulesOf(MatchingPolicies(C, l)), m)
         /\ ~Forbids(RulesOf(DefaultPolicies(T)), m)
         /\ ~Forbids(RulesOf(WorkloadPolicies(T, NoIdentity)), m)
  BY <1>2, ResolvedVerdict
<1>5. RulesOf(WorkloadPolicies(T, NoIdentity)) = {} BY <1>3 DEF RulesOf
<1>6. ~Forbids(RulesOf(WorkloadPolicies(T, NoIdentity)), m) BY <1>5 DEF Forbids
<1>7. \/ Forbids(RulesOf(MatchingPolicies(C, l)), m)
      \/ Forbids(RulesOf(DefaultPolicies(T)), m)
  BY <1>1, <1>4, <1>6
<1> QED BY <1>7, EffVerdict DEF C, T, l

\* A model that the author of a claim is told will not bind is denied to the
\* claim, and the claim is, while the policies stay as they were.
THEOREM WarningsHold == Spec => []WarningsComeTrue
<1>1. Init => ClaimInv /\ Stored
  BY ClaimInvInit, StoredInit
<1>2. ClaimInv /\ Stored /\ [Next]_vars => (ClaimInv /\ Stored)'
  BY ClaimInvStep, StoredStep
<1>3. ClaimInv /\ Stored => WarningsComeTrue
  <2> SUFFICES ASSUME ClaimInv, Stored, NEW n \in ClaimNames, Settled(n),
                      NEW m \in permitWarnings(claims[n])
               PROVE  /\ status[n].phase = "Denied"
                      /\ \A i \in DOMAIN status[n].models :
                            status[n].models[i].name = m => status[n].models[i].action = "Deny"
    BY DEF WarningsComeTrue
  <2> DEFINE spec == claims[n]
             st   == status[n]
  <2>1. /\ st.models = [i \in DOMAIN spec.models |-> resolveModel(spec.models[i], Effs(spec))]
        /\ st.phase = IF \E i \in DOMAIN spec.models : st.models[i].action = "Deny"
                      THEN "Denied" ELSE "Bound"
        /\ \A i \in DOMAIN spec.models :
              /\ st.models[i].name = spec.models[i].name
              /\ st.models[i].action = "Deny" <=>
                   \E k \in DOMAIN Effs(spec) : ~Permit(Effs(spec)[k], spec.models[i].name).allowed
    BY SettledShows
  <2>2. spec \in ClaimSpecs BY DEF Settled, Stored, StoreOK
  <2>3. ~Permit(P!Effective(NoIdentity), m).allowed
        /\ \E i \in DOMAIN spec.models : spec.models[i].name = m
    BY DEF permitWarnings
  <2> HIDE DEF spec, st
  <2>4. PICK k : k \in DOMAIN claimIdentities(spec.selector) BY <2>2, Identities
  <2>5. k \in DOMAIN Effs(spec) /\ ~Permit(Effs(spec)[k], m).allowed
    BY <2>3, <2>4, DeniedToNobody
  <2>6. \A i \in DOMAIN spec.models : st.models[i].name = m => st.models[i].action = "Deny"
    BY <2>1, <2>5
  <2>7. DOMAIN st.models = DOMAIN spec.models BY <2>1
  <2>8. st.phase = "Denied" BY <2>1, <2>3, <2>6
  <2> QED BY <2>6, <2>7, <2>8 DEF st
<1> QED BY <1>1, <1>2, <1>3, PTL DEF Spec

\* The tiers of PolicyHierarchy are those of the resolver.
LEMMA SameTiers ==
    /\ P!ClusterTier = MatchingPolicies(P!Named(cluster), namespaceLabels(Home))
    /\ P!NamespaceTier = DefaultPolicies(P!Named(tokens))
    /\ \A id : TierOf(id) = WorkloadPolicies(P!Named(tokens), id)
<1>1. P!ClusterTier = MatchingPolicies(P!Named(cluster), namespaceLabels(Home))
  BY DEF P!ClusterTier, MatchingPolicies
<1>2. P!NamespaceTier = DefaultPolicies(P!Named(tokens))
  BY DEF P!NamespaceTier, DefaultPolicies, P!Untargeted, IsEmpty
<1>3. ASSUME NEW id PROVE TierOf(id) = WorkloadPolicies(P!Named(tokens), id)
  BY DEF TierOf, WorkloadPolicies, P!WorkloadTier, P!Untargeted, P!Targets, IsEmpty,
         workloadMatches
<1> QED BY <1>1, <1>2, <1>3

\* So is their verdict.
LEMMA SameVerdict ==
    ASSUME NEW tier, NEW m
    PROVE  P!Refuses(tier, m) <=> Forbids(RulesOf(tier), m)
<1>1. P!AllRules(tier) = RulesOf(tier) BY DEF P!AllRules, RulesOf, P!ToSet, ToSet
<1>2. P!RulesFor(tier, m) = {r \in RulesOf(tier) : modelMatches(r, m)}
  BY DEF P!RulesFor, RulesOf, P!ToSet, ToSet, P!modelMatches, modelMatches
<1> QED BY <1>1, <1>2 DEF P!Refuses, P!Allows, Forbids

\* Admission refuses a pod what a tier of its own refuses.
LEMMA RefusedByTiers ==
    ASSUME NEW pod, NEW m
    PROVE  Refused(pod, m) <=>
             \/ Forbids(RulesOf(MatchingPolicies(P!Named(cluster), namespaceLabels(Home))), m)
             \/ Forbids(RulesOf(DefaultPolicies(P!Named(tokens))), m)
             \/ Forbids(RulesOf(P!WorkloadTier(pod)), m)
BY SameTiers, SameVerdict DEF Refused

\* Each identity that a plain claim is judged by stands for a pod that the
\* claim covers: one that matches the same workload policies.
LEMMA Represented ==
    ASSUME Stored, NEW n \in DOMAIN claims, Plain(claims[n]), NEW id \in Representatives(claims[n])
    PROVE  \E pod \in Pods : /\ Covers(claims[n], pod)
                             /\ TierOf(id) \subseteq P!WorkloadTier(pod)
                             /\ id # NoIdentity => P!WorkloadTier(pod) \subseteq TierOf(id)
<1> DEFINE spec == claims[n]
           sas  == spec.selector.serviceAccounts
           ml   == spec.selector.matchLabels
<1>1. spec \in ClaimSpecs /\ sas \in Seq(ToSet(sas) \ {""})
  BY SpecsAssumption DEF Stored, StoreOK
<1>2. tokens \in Stores(TokenNames, TokenSpecs) /\ \A k \in DOMAIN tokens : tokens[k] \in TokenSpecs
  BY DEF Stored, StoreOK, Stores
<1>3. \A i \in DOMAIN sas : [serviceAccount |-> sas[i], label |-> ml] \in Pods
  BY <1>1, PodsAssumption
<1>4. PICK other \in Pods : /\ other.label = ml
                            /\ \A k \in DOMAIN tokens :
                                  other.serviceAccount \notin tokens[k].selector.serviceAccounts
  BY <1>1, <1>2, PodsAssumption
<1>5. ASSUME NEW pod, pod.label = ml, sas # <<>> => pod.serviceAccount \in ToSet(sas)
      PROVE  Covers(spec, pod)
  <2>1. ToSet(<<>>) = {} BY DEF ToSet
  <2>2. spec.selector.pods = IF ml = NoLabels THEN AnyPod ELSE {ml} BY DEF Plain
  <2>3. Sel(spec) = [serviceAccounts |-> ToSet(sas), pods |-> spec.selector.pods] BY DEF Sel
  <2>4. ToSet(sas) # {} => pod.serviceAccount \in ToSet(sas) BY <1>5, <2>1
  <2>5. spec.selector.pods # AnyPod => pod.label \in spec.selector.pods BY <1>5, <2>2
  <2> HIDE DEF spec, sas, ml
  <2> QED BY <2>3, <2>4, <2>5 DEF Covers, workloadMatches
<1>6. CASE sas = <<>> /\ ml = NoLabels
  <2>1. id = NoIdentity /\ TierOf(id) = {} BY <1>6 DEF Representatives, TierOf
  <2>2. Covers(spec, other) BY <1>4, <1>5, <1>6
  <2> QED BY <1>4, <2>1, <2>2
<1>7. CASE sas = <<>> /\ ml # NoLabels
  <2>1. id.serviceAccount = "" /\ id.label = ml BY <1>7 DEF Representatives
  <2>2. Covers(spec, other) BY <1>4, <1>5, <1>7
  <2>3. \A p \in P!Named(tokens) : /\ other.serviceAccount \notin p.spec.selector.serviceAccounts
                                   /\ "" \notin p.spec.selector.serviceAccounts
    <3> SUFFICES ASSUME NEW p \in P!Named(tokens)
                 PROVE  /\ other.serviceAccount \notin p.spec.selector.serviceAccounts
                        /\ "" \notin p.spec.selector.serviceAccounts
      OBVIOUS
    <3>1. PICK k \in DOMAIN tokens : p = [name |-> k, spec |-> tokens[k]] BY DEF P!Named
    <3>2. p.spec = tokens[k] BY <3>1
    <3>3. tokens[k] \in TokenSpecs BY <1>2
    <3>4. "" \notin tokens[k].selector.serviceAccounts BY <3>3, SpecsAssumption
    <3>5. other.serviceAccount \notin tokens[k].selector.serviceAccounts BY <1>4
    <3> QED BY <3>2, <3>4, <3>5
  <2>4. P!WorkloadTier(other) = P!WorkloadTier(id)
    BY <1>4, <2>1, <2>3 DEF P!WorkloadTier, P!Targets
  <2> QED BY <1>4, <2>2, <2>4 DEF TierOf
<1>8. CASE sas # <<>>
  <2>1. id \in [serviceAccount : ToSet(sas), label : {ml}] BY <1>8 DEF Representatives
  <2>2. PICK i \in DOMAIN sas : id = [serviceAccount |-> sas[i], label |-> ml]
    BY <2>1 DEF ToSet
  <2>3. id \in Pods BY <1>3, <2>2
  <2>4. Covers(spec, id) BY <1>5, <2>1, <2>2
  <2>5. TierOf(id) \subseteq P!WorkloadTier(id)
        /\ (id # NoIdentity => P!WorkloadTier(id) \subseteq TierOf(id))
    BY DEF TierOf
  <2> QED BY <2>3, <2>4, <2>5
<1> QED BY <1>6, <1>7, <1>8

\* A model the preview marks Deny is refused to some covered pod; one it marks
\* Allow is permitted to every covered pod that a representative stands for.
THEOREM PreviewHolds == Spec => []PreviewAgreesWithAdmission
<1>1. Init => ClaimInv /\ Stored
  BY ClaimInvInit, StoredInit
<1>2. ClaimInv /\ Stored /\ [Next]_vars => (ClaimInv /\ Stored)'
  BY ClaimInvStep, StoredStep
<1>3. ClaimInv /\ Stored => PreviewAgreesWithAdmission
  <2> SUFFICES ASSUME ClaimInv, Stored, NEW n \in ClaimNames, Settled(n), Plain(claims[n]),
                      NEW i \in DOMAIN status[n].models
               PROVE  LET covered == {pod \in Pods : Covers(claims[n], pod)}
                          m == status[n].models[i]
                      IN  IF m.action = "Deny" THEN \E pod \in covered : Refused(pod, m.name)
                          ELSE \A pod \in covered :
                                  (\E id \in Representatives(claims[n]) :
                                      TierOf(id) = P!WorkloadTier(pod)) => ~Refused(pod, m.name)
    BY DEF PreviewAgreesWithAdmission
  <2> DEFINE spec == claims[n]
             ids  == claimIdentities(spec.selector)
             x    == status[n].models[i].name
             deny == status[n].models[i].action = "Deny"
             Fc   == Forbids(RulesOf(MatchingPolicies(P!Named(cluster), namespaceLabels(Home))), x)
             Fn   == Forbids(RulesOf(DefaultPolicies(P!Named(tokens))), x)
             Fw(tier) == Forbids(RulesOf(tier), x)
  <2>0. n \in DOMAIN claims /\ spec \in ClaimSpecs BY DEF Settled, Stored, StoreOK
  <2>1. deny <=> \E k \in DOMAIN Effs(spec) : ~Permit(Effs(spec)[k], x).allowed
    <3>1. i \in DOMAIN spec.models BY SettledShows
    <3> QED BY <3>1, SettledShows
  <2>2. ids = claimIdentities(spec.selector) /\ DOMAIN Effs(spec) = DOMAIN ids BY DEF Effs
  <2>3. \A k \in DOMAIN ids : Permit(Effs(spec)[k], x).allowed
                                 <=> ~Fc /\ ~Fn /\ ~Fw(TierOf(ids[k]))
    BY EffVerdict, SameTiers
  <2>4. \A pod : Refused(pod, x) <=> Fc \/ Fn \/ Fw(P!WorkloadTier(pod))
    BY RefusedByTiers
  <2>5. DOMAIN ids # {} /\ {ids[k] : k \in DOMAIN ids} = Representatives(spec)
    BY <2>0, Identities
  <2>6. ~Fw({}) BY DEF RulesOf, Forbids
  <2>7. TierOf(NoIdentity) = {} BY DEF TierOf
  <2>8. \A id \in Representatives(spec) : \E pod \in Pods :
           /\ Covers(spec, pod)
           /\ TierOf(id) \subseteq P!WorkloadTier(pod)
           /\ id # NoIdentity => P!WorkloadTier(pod) \subseteq TierOf(id)
    BY <2>0, Represented
  <2> HIDE DEF spec, ids, x, deny, Fc, Fn, Fw
  <2>9. ASSUME deny
        PROVE  \E pod \in Pods : Covers(spec, pod) /\ Refused(pod, x)
    <3>1. PICK k \in DOMAIN ids : Fc \/ Fn \/ Fw(TierOf(ids[k]))
      BY <2>1, <2>2, <2>3, <2>9
    <3> DEFINE id == ids[k]
    <3>2. id \in Representatives(spec) BY <2>5
    <3> HIDE DEF id
    <3>3. PICK pod \in Pods : /\ Covers(spec, pod)
                              /\ TierOf(id) \subseteq P!WorkloadTier(pod)
                              /\ id # NoIdentity => P!WorkloadTier(pod) \subseteq TierOf(id)
      BY <2>8, <3>2
    <3>4. CASE Fc \/ Fn BY <2>4, <3>3, <3>4
    <3>5. CASE Fw(TierOf(id))
      <4>1. id # NoIdentity BY <2>6, <2>7, <3>5
      <4>2. P!WorkloadTier(pod) = TierOf(id) BY <3>3, <4>1
      <4> QED BY <2>4, <3>3, <3>5, <4>2
    <3> QED BY <3>1, <3>4, <3>5 DEF id
  <2>10. ASSUME ~deny, NEW pod, NEW id \in Representatives(spec), TierOf(id) = P!WorkloadTier(pod)
         PROVE  ~Refused(pod, x)
    <3>1. PICK k \in DOMAIN ids : id = ids[k] BY <2>5
    <3>2. ~Fc /\ ~Fn /\ ~Fw(TierOf(id)) BY <2>1, <2>2, <2>3, <2>10, <3>1
    <3> QED BY <2>4, <2>10, <3>2
  <2> QED BY <2>9, <2>10 DEF deny, x, spec
<1> QED BY <1>1, <1>2, <1>3, PTL DEF Spec

=============================================================================
