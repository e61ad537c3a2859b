--------------------------- MODULE CapacityRollup ---------------------------
(***************************************************************************)
(* The capacity rollup of the ModelCredential controller: Reconcile sums   *)
(* the budgets of the policies that bind the credential (one after the     *)
(* other, from two cached lists) and compares the sum with the capacity    *)
(* the credential declares. Policies are not watched by this controller,   *)
(* so a pass that read them may be out of date when it writes and stays so *)
(* until the next resync. An edit is modelled at the moment the informer   *)
(* cache shows it.                                                         *)
(*                                                                         *)
(* One credential that exists and resolves is modelled; CredentialSync     *)
(* models the rest of its Reconcile. Budgets are Go int64 values: sums and *)
(* differences wrap around, at a width the constant MaxInt scales down.    *)
(***************************************************************************)
EXTENDS Integers, FiniteSets, FiniteSetsExt

CONSTANTS
    ClusterNames,   \* names of ClusterTokenPolicies
    TokenNames,     \* names of TokenPolicies
    Windows,        \* the fields of TokenQuota
    Quotas,         \* quotas that policies and credentials may declare
    PolicySpecs,    \* what a policy may say about the credential
    Unset,          \* a nil field of a quota
    NoQuota,        \* a nil TokenQuota
    Absent,         \* a policy that does not exist
    MaxInt,         \* largest int64
    MaxChurn        \* bound: edits of policies and of the capacity

QuotaType == {NoQuota} \cup [Windows -> 0..MaxInt \cup {Unset}]

\* isDefault: defaultCredentialRef names the credential (cluster policies
\* only). actions: the actions of the rules whose credentialRef names it.
Policy == [isDefault : BOOLEAN, actions : SUBSET {"Allow", "Deny"},
           quota : QuotaType]

ASSUME MaxIntAssumption == MaxInt \in Nat
ASSUME QuotasAssumption == Quotas \subseteq QuotaType
ASSUME SpecsAssumption == PolicySpecs \subseteq Policy
ASSUME ChurnAssumption == MaxChurn \in Nat
ASSUME KindsAssumption == ClusterNames \cap TokenNames = {}
ASSUME NamesAssumption == IsFiniteSet(ClusterNames) /\ IsFiniteSet(TokenNames)

\* A nil quota and a nil field are told apart from every value.
ASSUME MarkersAssumption ==
    /\ Unset \notin Int
    /\ NoQuota \notin [Windows -> Int \cup {Unset}]

VARIABLES
    policies,   \* policies of both kinds, Absent when there is none
    capacity,   \* spec.capacity of the credential
    status,     \* the rollup part of its status
    pc,         \* "idle", or the next list of the running Reconcile
    capSeen,    \* spec.capacity as the running Reconcile read it
    refs,       \* the policies the running Reconcile found to bind
    allocated,  \* their summed budgets so far
    churn,      \* edits so far
    clean,      \* history: no edit since the running pass began
    fresh       \* history: status was written by a pass with no edit since

store == <<policies, capacity>>
pass  == <<pc, capSeen, refs, allocated>>
vars  == <<store, status, pass, churn, clean, fresh>>

-----------------------------------------------------------------------------
(* Quota arithmetic *)

\* int64 arithmetic wraps around.
Wrap(x) == ((x + MaxInt + 1) % (2 * (MaxInt + 1))) - (MaxInt + 1)

Fields(q) == IF q = NoQuota THEN [w \in Windows |-> Unset] ELSE q

normalizeQuota(q) == IF \A w \in Windows : q[w] = Unset THEN NoQuota ELSE q

mapQuota2(a, b, Op(_, _)) ==
    normalizeQuota([w \in Windows |-> Op(Fields(a)[w], Fields(b)[w])])

\* Mutant: a nil field makes the sum nil.
addQuotaNil(a, b) ==
    mapQuota2(a, b, LAMBDA x, y : IF x = Unset \/ y = Unset THEN Unset
                                                            ELSE Wrap(x + y))

addQuota(a, b) ==
    mapQuota2(a, b, LAMBDA x, y : IF x = Unset THEN y
                                  ELSE IF y = Unset THEN x
                                  ELSE Wrap(x + y))

availableQuota(cap, alloc) ==
    mapQuota2(cap, alloc,
              LAMBDA c, a : IF c = Unset THEN Unset
                            ELSE LET v == Wrap(c - (IF a = Unset THEN 0 ELSE a))
                                 IN  IF v < 0 THEN 0 ELSE v)

oversubscribed(cap, alloc) ==
    \E w \in Windows : /\ Fields(cap)[w] # Unset
                       /\ Fields(alloc)[w] # Unset
                       /\ Fields(alloc)[w] > Fields(cap)[w]

\* A rule counts whatever its action.
modelsReference(p) == p.actions # {}

\* referencingPolicies, for one of its two lists: the names that bind.
Binding(names) ==
    {n \in names : /\ policies[n] # Absent
                   /\ policies[n].isDefault \/ modelsReference(policies[n])}

SumInto(total, names) ==
    FoldSet(LAMBDA n, acc : addQuota(acc, policies[n].quota), total, names)

-----------------------------------------------------------------------------
(* Edits *)

Init ==
    /\ policies = [n \in ClusterNames \cup TokenNames |-> Absent]
    /\ capacity \in Quotas
    /\ status = [refs |-> {}, allocated |-> NoQuota, available |-> NoQuota,
                 over |-> "Unknown"]
    /\ pc = "idle"
    /\ capSeen = NoQuota
    /\ refs = {}
    /\ allocated = NoQuota
    /\ churn = 0
    /\ clean = FALSE
    /\ fresh = FALSE

Edit ==
    /\ churn < MaxChurn
    /\ churn' = churn + 1
    /\ clean' = FALSE
    /\ fresh' = FALSE
    /\ UNCHANGED <<status, pass>>

\* A policy is created, edited or deleted.
SetPolicy(n, p) ==
    /\ p # policies[n]
    /\ n \in TokenNames /\ p # Absent => ~p.isDefault
    /\ policies' = [policies EXCEPT ![n] = p]
    /\ UNCHANGED capacity
    /\ Edit

SetCapacity(q) ==
    /\ q # capacity
    /\ capacity' = q
    /\ UNCHANGED policies
    /\ Edit

-----------------------------------------------------------------------------
(* Reconcile *)

\* The credential is read and the ClusterTokenPolicies are listed.
ListClusterPolicies ==
    /\ pc = "idle"
    /\ capSeen' = capacity
    /\ refs' = Binding(ClusterNames)
    /\ allocated' = SumInto(NoQuota, Binding(ClusterNames))
    /\ pc' = "tokens"
    /\ clean' = TRUE
    /\ UNCHANGED <<store, status, churn, fresh>>

ListTokenPolicies ==
    /\ pc = "tokens"
    /\ refs' = refs \cup Binding(TokenNames)
    /\ allocated' = SumInto(allocated, Binding(TokenNames))
    /\ pc' = "update"
    /\ UNCHANGED <<store, status, capSeen, churn, clean, fresh>>

reconcileCapacity(cap, alloc) ==
    [refs |-> refs, allocated |-> alloc,
     available |-> IF cap = NoQuota THEN NoQuota ELSE availableQuota(cap, alloc),
     over |-> IF cap # NoQuota /\ oversubscribed(cap, alloc) THEN "True" ELSE "False"]

\* Mutant: a status that is filled in is not written again.
UpdateStatusOnce ==
    /\ pc = "update"
    /\ IF capSeen = capacity /\ status.over = "Unknown"
          THEN status' = reconcileCapacity(capSeen, allocated) /\ fresh' = clean
          ELSE UNCHANGED <<status, fresh>>
    /\ pc' = "idle"
    /\ capSeen' = NoQuota
    /\ refs' = {}
    /\ allocated' = NoQuota
    /\ clean' = FALSE
    /\ UNCHANGED <<store, churn>>

\* The write is refused when the credential was edited since it was read; the
\* pass is then repeated.
UpdateStatus ==
    /\ pc = "update"
    /\ IF capSeen = capacity
          THEN status' = reconcileCapacity(capSeen, allocated) /\ fresh' = clean
          ELSE UNCHANGED <<status, fresh>>
    /\ pc' = "idle"
    /\ capSeen' = NoQuota
    /\ refs' = {}
    /\ allocated' = NoQuota
    /\ clean' = FALSE
    /\ UNCHANGED <<store, churn>>

Reconcile == ListClusterPolicies \/ ListTokenPolicies \/ UpdateStatus

Next ==
    \/ \E n \in ClusterNames \cup TokenNames, p \in PolicySpecs \cup {Absent} : SetPolicy(n, p)
    \/ \E q \in Quotas : SetCapacity(q)
    \/ Reconcile

\* The 10-minute resync keeps passes coming.
Spec == Init /\ [][Next]_vars /\ WF_vars(Reconcile)

-----------------------------------------------------------------------------
(* Properties *)

\* The exact demand of a window: no fold, no wrap-around.
Demand(names, w) ==
    LET set == {n \in names : Fields(policies[n].quota)[w] # Unset}
    IN  MapThenSumSet(LAMBDA n : policies[n].quota[w], set)

Bound == Binding(ClusterNames \cup TokenNames)

Limited(w) == Fields(capacity)[w] # Unset

\* The rollup says what the stored policies and capacity say.
Accurate ==
    /\ status.refs = Bound
    /\ \A w \in Windows :
          /\ Fields(status.allocated)[w] =
                IF \E n \in Bound : Fields(policies[n].quota)[w] # Unset
                   THEN Demand(Bound, w) ELSE Unset
          /\ Fields(status.available)[w] =
                IF ~Limited(w) THEN Unset
                ELSE IF Demand(Bound, w) > capacity[w] THEN 0
                ELSE capacity[w] - Demand(Bound, w)
    /\ (status.over = "True") <=>
          \E w \in Windows : Limited(w) /\ Demand(Bound, w) > capacity[w]

\* A pass with no edit during or after it leaves an accurate rollup, in
\* whichever order the lists return the policies and whichever windows they
\* leave unset, as long as the sums stay below the width of the integers.
AccurateWhenFresh == fresh => Accurate

\* However edits interleave with the two lists and the write, once they stop
\* the resync makes the rollup accurate for good.
RollupConverges == <>[]Accurate

\* DESIGN.md:175-177: the Oversubscribed condition "flips True when any
\* window's commitments exceed capacity". addQuota does not check for
\* overflow.
OversubscriptionIsReported ==
    fresh /\ (\E w \in Windows : Limited(w) /\ Demand(Bound, w) > capacity[w])
        => status.over = "True"

=============================================================================
