------------------------ MODULE CapacityRollupProofs ------------------------
(***************************************************************************)
(* Theorems about CapacityRollup for any policies, windows, quotas, width  *)
(* of the integers and number of edits: a pass that no edit overtakes      *)
(* leaves an exact rollup, as long as no window's demand exceeds the       *)
(* width. The rollup is one fold per list, in an order CHOOSE picks; the   *)
(* demand of a window is another, over the policies that set that window.  *)
(* Both are sums in the sense of SeqFacts.                                 *)
(***************************************************************************)
EXTENDS CapacityRollup, SeqFacts

-----------------------------------------------------------------------------
(* Quotas *)

\* Quotas with fields of any size, and what a field counts for.
AnyQuota == {NoQuota} \cup [Windows -> Int \cup {Unset}]

Counts(q, w) == IF Fields(q)[w] = Unset THEN 0 ELSE Fields(q)[w]

\* The quotas of the API types are quotas in the wider sense the sums stay in.
LEMMA QuotasAreAny == QuotaType \subseteq AnyQuota
BY MaxIntAssumption DEF QuotaType, AnyQuota

\* The fields of a quota, nil or not.
LEMMA FieldsTyped ==
    ASSUME NEW q \in AnyQuota
    PROVE  Fields(q) \in [Windows -> Int \cup {Unset}]
BY DEF AnyQuota, Fields

\* A quota of the API has fields that count for naturals within the width.
LEMMA CountsTyped ==
    ASSUME NEW q \in QuotaType, NEW w \in Windows
    PROVE  Counts(q, w) \in 0..MaxInt
<1>1. CASE q = NoQuota
  BY <1>1, MaxIntAssumption DEF Counts, Fields
<1>2. CASE q # NoQuota
  <2>1. q \in [Windows -> 0..MaxInt \cup {Unset}] BY <1>2 DEF QuotaType
  <2> QED BY <1>2, <2>1, MaxIntAssumption DEF Counts, Fields
<1> QED BY <1>1, <1>2

\* Normalizing a quota does not change what its fields say.
LEMMA NormalizeKeepsFields ==
    ASSUME NEW q \in [Windows -> Int \cup {Unset}]
    PROVE  normalizeQuota(q) \in AnyQuota /\ Fields(normalizeQuota(q)) = q
<1>1. CASE \A w \in Windows : q[w] = Unset
  <2>1. normalizeQuota(q) = NoQuota BY <1>1 DEF normalizeQuota
  <2>2. Fields(NoQuota) = [w \in Windows |-> Unset] BY DEF Fields
  <2>3. q = [w \in Windows |-> Unset] BY <1>1
  <2> QED BY <2>1, <2>2, <2>3 DEF AnyQuota
<1>2. CASE ~\A w \in Windows : q[w] = Unset
  <2>1. normalizeQuota(q) = q BY <1>2 DEF normalizeQuota
  <2>2. q # NoQuota BY MarkersAssumption
  <2> QED BY <2>1, <2>2 DEF Fields, AnyQuota
<1> QED BY <1>1, <1>2

\* int64 arithmetic is exact within the width.
LEMMA WrapIsExact ==
    ASSUME NEW x \in (-(MaxInt + 1))..MaxInt
    PROVE  Wrap(x) = x
BY MaxIntAssumption DEF Wrap

\* and stays within the integers beyond it.
LEMMA WrapIsInt == ASSUME NEW x \in Int PROVE Wrap(x) \in Int
BY MaxIntAssumption DEF Wrap

\* addQuota adds field by field; a nil field leaves the other as it is.
LEMMA AddFields ==
    ASSUME NEW a \in AnyQuota, NEW b \in AnyQuota
    PROVE  /\ addQuota(a, b) \in AnyQuota
           /\ \A w \in Windows :
                 Fields(addQuota(a, b))[w] =
                    IF Fields(a)[w] = Unset THEN Fields(b)[w]
                    ELSE IF Fields(b)[w] = Unset THEN Fields(a)[w]
                    ELSE Wrap(Fields(a)[w] + Fields(b)[w])
<1> DEFINE x == Fields(a)
           y == Fields(b)
           q == [w \in Windows |-> IF x[w] = Unset THEN y[w]
                                   ELSE IF y[w] = Unset THEN x[w]
                                   ELSE Wrap(x[w] + y[w])]
<1>1. addQuota(a, b) = normalizeQuota(q) BY DEF addQuota, mapQuota2
<1>2. x \in [Windows -> Int \cup {Unset}] /\ y \in [Windows -> Int \cup {Unset}]
  BY FieldsTyped
<1>3. q \in [Windows -> Int \cup {Unset}]
  <2> HIDE DEF x, y
  <2> SUFFICES ASSUME NEW w \in Windows PROVE q[w] \in Int \cup {Unset} OBVIOUS
  <2>1. x[w] \in Int \cup {Unset} /\ y[w] \in Int \cup {Unset} BY <1>2
  <2>2. CASE x[w] = Unset \/ y[w] = Unset BY <2>1, <2>2
  <2>3. CASE x[w] # Unset /\ y[w] # Unset
    <3>1. Wrap(x[w] + y[w]) \in Int BY <2>1, <2>3, WrapIsInt
    <3> QED BY <2>3, <3>1
  <2> QED BY <2>2, <2>3
<1> HIDE DEF q
<1>4. addQuota(a, b) \in AnyQuota /\ Fields(addQuota(a, b)) = q
  BY <1>1, <1>3, NormalizeKeepsFields
<1> QED BY <1>4 DEF q

\* availableQuota subtracts field by field, down to zero.
LEMMA AvailableFields ==
    ASSUME NEW cap \in QuotaType, NEW alloc \in AnyQuota, NEW w \in Windows,
           Counts(alloc, w) \in 0..MaxInt
    PROVE  Fields(availableQuota(cap, alloc))[w] =
               IF Fields(cap)[w] = Unset THEN Unset
               ELSE IF Counts(alloc, w) > Fields(cap)[w] THEN 0
               ELSE Fields(cap)[w] - Counts(alloc, w)
<1> DEFINE c == Fields(cap)
           a == Fields(alloc)
           q == [u \in Windows |->
                   IF c[u] = Unset THEN Unset
                   ELSE LET v == Wrap(c[u] - (IF a[u] = Unset THEN 0 ELSE a[u]))
                        IN  IF v < 0 THEN 0 ELSE v]
<1>1. availableQuota(cap, alloc) = normalizeQuota(q) BY DEF availableQuota, mapQuota2
<1>2. c \in [Windows -> Int \cup {Unset}] /\ a \in [Windows -> Int \cup {Unset}]
  BY FieldsTyped, QuotasAreAny
<1>3. q \in [Windows -> Int \cup {Unset}]
  <2> HIDE DEF c, a
  <2> SUFFICES ASSUME NEW u \in Windows, c[u] # Unset PROVE q[u] \in Int OBVIOUS
  <2> DEFINE d == c[u] - (IF a[u] = Unset THEN 0 ELSE a[u])
  <2>1. d \in Int BY <1>2
  <2>2. Wrap(d) \in Int BY <2>1, WrapIsInt
  <2> QED BY <2>2
<1>4. Fields(availableQuota(cap, alloc))[w] = q[w]
  <2> HIDE DEF q
  <2> QED BY <1>1, <1>3, NormalizeKeepsFields
<1>5. CASE c[w] = Unset BY <1>4, <1>5
<1>6. CASE c[w] # Unset
  <2> DEFINE n == Counts(alloc, w)
             d == c[w] - n
  <2>1. c[w] \in 0..MaxInt
    <3>1. Counts(cap, w) = c[w] BY <1>6 DEF Counts
    <3> QED BY <3>1, CountsTyped
  <2>2. q[w] = IF Wrap(d) < 0 THEN 0 ELSE Wrap(d) BY <1>6 DEF Counts
  <2>3. n \in 0..MaxInt OBVIOUS
  <2> HIDE DEF n, c
  <2>4. d \in (-(MaxInt + 1))..MaxInt BY <2>1, <2>3, MaxIntAssumption
  <2>5. Wrap(d) = d BY <2>4, WrapIsExact
  <2>6. q[w] = IF n > c[w] THEN 0 ELSE c[w] - n
    BY <2>1, <2>2, <2>3, <2>5, MaxIntAssumption
  <2> QED BY <1>4, <1>6, <2>6 DEF n, c
<1> QED BY <1>5, <1>6

-----------------------------------------------------------------------------
(* Sums of budgets *)

Names == ClusterNames \cup TokenNames

Sets(n, w) == Fields(policies[n].quota)[w] # Unset

\* What each name demands of a window, once the policy binds.
Amounts(w) ==
    [n \in Names |-> IF n \in Bound /\ Sets(n, w) THEN policies[n].quota[w] ELSE 0]

Types ==
    /\ policies \in [Names -> PolicySpecs \cup {Absent}]
    /\ capacity \in Quotas
    /\ pc \in {"idle", "tokens", "update"}

\* The names are finitely many, so the sums over them are defined.
LEMMA NamesFinite == IsFiniteSet(Names)
BY NamesAssumption, FS_Union DEF Names

\* The two lists together find the policies that bind, each once.
LEMMA BoundSplits ==
    /\ Bound = Binding(ClusterNames) \cup Binding(TokenNames)
    /\ Binding(ClusterNames) \cap Binding(TokenNames) = {}
    /\ Bound \subseteq Names
BY KindsAssumption DEF Bound, Binding, Names

\* A policy that binds has a quota of the API,
LEMMA BoundQuota ==
    ASSUME Types, NEW n \in Bound
    PROVE  policies[n].quota \in QuotaType
<1>1. n \in Names /\ policies[n] # Absent BY DEF Bound, Binding, Names
<1>2. policies[n] \in Policy BY <1>1, SpecsAssumption DEF Types
<1> QED BY <1>2 DEF Policy

\* so it demands a natural number of each window: what the window's field
\* counts for.
LEMMA AmountsTyped ==
    ASSUME Types, NEW w \in Windows
    PROVE  /\ Amounts(w) \in [Names -> Nat]
           /\ \A n \in Bound : /\ Amounts(w)[n] = Counts(policies[n].quota, w)
                               /\ Sets(n, w) => policies[n].quota[w] = Amounts(w)[n]
<1>1. ASSUME NEW n \in Bound
      PROVE  /\ Sets(n, w) => /\ policies[n].quota[w] = Fields(policies[n].quota)[w]
                              /\ policies[n].quota[w] \in Nat
             /\ (IF Sets(n, w) THEN policies[n].quota[w] ELSE 0) = Counts(policies[n].quota, w)
  <2> DEFINE q == policies[n].quota
  <2>1. q \in QuotaType BY BoundQuota
  <2>2. Counts(q, w) \in Nat BY <2>1, CountsTyped, MaxIntAssumption
  <2>3. Sets(n, w) <=> Fields(q)[w] # Unset BY DEF Sets
  <2> HIDE DEF q
  <2>4. ASSUME Fields(q)[w] # Unset PROVE q[w] = Fields(q)[w] BY <2>4 DEF Fields
  <2>5. Sets(n, w) => q[w] = Fields(q)[w] /\ q[w] \in Nat
    BY <2>2, <2>3, <2>4 DEF Counts
  <2>6. (IF Sets(n, w) THEN q[w] ELSE 0) = Counts(q, w) BY <2>3, <2>5 DEF Counts
  <2> QED BY <2>5, <2>6 DEF q
<1>2. Bound \subseteq Names BY BoundSplits
<1> QED BY <1>1, <1>2 DEF Amounts

\* The demand of a window is the sum over the policies that bind.
LEMMA DemandIsSum ==
    ASSUME Types, NEW w \in Windows, NEW f, IsSum(f, Amounts(w), Names)
    PROVE  Demand(Bound, w) = f[Bound]
<1> PICK v : v = Amounts(w) OBVIOUS
<1> DEFINE D == {n \in Bound : Sets(n, w)}
<1>1. /\ v \in [Names -> Nat] /\ IsFiniteSet(Names) /\ Bound \subseteq Names
      /\ \A n \in D : policies[n].quota[w] = v[n]
      /\ \A n \in Bound \ D : v[n] = 0
  <2>1. \A n \in Bound \ D : v[n] = 0 BY BoundSplits DEF Amounts
  <2> QED BY <2>1, AmountsTyped, BoundSplits, NamesFinite
<1>2. D \in SUBSET Names /\ D = {n \in Bound : Fields(policies[n].quota)[w] # Unset}
  BY <1>1 DEF Sets
<1>10. IsSum(f, v, Names) OBVIOUS
<1> HIDE DEF D
<1>11. /\ f[{}] = 0
       /\ \A s \in SUBSET Names : f[s] \in Nat /\ \A x \in s : f[s] = v[x] + f[s \ {x}]
  BY <1>1, <1>10, SumSplit
<1> DEFINE Sum(g) == g = [s \in SUBSET D |->
                            IF s = {} THEN 0
                            ELSE policies[CHOOSE x \in s : TRUE].quota[w]
                                 + g[s \ {CHOOSE x \in s : TRUE}]]
           h == CHOOSE g : Sum(g)
<1>3. Demand(Bound, w) = h[D]
  BY <1>2 DEF Demand, MapThenSumSet, MapThenFoldSet
<1>4. \A s \in SUBSET D : s # {} => LET x == CHOOSE x \in s : TRUE
                                    IN  /\ x \in s /\ x = Picks(Names)[s]
                                        /\ policies[x].quota[w] = v[x]
  <2> SUFFICES ASSUME NEW s \in SUBSET D, s # {}
               PROVE  LET x == CHOOSE x \in s : TRUE
                      IN  /\ x \in s /\ x = Picks(Names)[s]
                          /\ policies[x].quota[w] = v[x]
    OBVIOUS
  <2>1. s \in SUBSET Names BY <1>2
  <2>2. (CHOOSE x \in s : TRUE) \in s BY <2>1
  <2> QED BY <1>1, <2>1, <2>2 DEF Picks
<1> DEFINE k == [s \in SUBSET D |-> f[s]]
<1>5. Sum(k)
  <2> SUFFICES ASSUME NEW s \in SUBSET D
               PROVE  f[s] = IF s = {} THEN 0
                             ELSE policies[CHOOSE x \in s : TRUE].quota[w]
                                  + k[s \ {CHOOSE x \in s : TRUE}]
    OBVIOUS
  <2>1. CASE s = {} BY <2>1, <1>11
  <2>2. CASE s # {}
    <3> DEFINE x == CHOOSE x \in s : TRUE
    <3>1. x \in s /\ policies[x].quota[w] = v[x] BY <1>4, <2>2
    <3> HIDE DEF x
    <3>2. s \in SUBSET Names /\ s \ {x} \in SUBSET D BY <1>2
    <3>3. f[s] = v[x] + f[s \ {x}] BY <3>1, <3>2, <1>11
    <3>4. f[s] = policies[x].quota[w] + k[s \ {x}] BY <3>1, <3>2, <3>3
    <3> QED BY <2>2, <3>4 DEF x
  <2> QED BY <2>1, <2>2
<1>6. Sum(h)
  <2> HIDE DEF Sum, k
  <2> QED BY <1>5
<1>7. \A s \in SUBSET D : h[s] = IF s = {} THEN 0
                                 ELSE policies[CHOOSE x \in s : TRUE].quota[w]
                                      + h[s \ {CHOOSE x \in s : TRUE}]
  <2> HIDE DEF h
  <2> QED BY <1>6
<1> HIDE DEF h, Sum, k
<1>8. h[D] = f[D]
  <2> DEFINE U == {s \in SUBSET D : h[s] # f[s]}
  <2> SUFFICES ASSUME U # {} PROVE FALSE OBVIOUS
  <2>1. U \in SUBSET (SUBSET Names) BY <1>2
  <2> HIDE DEF U
  <2>2. PICK m \in U : \A x \in m : m \ {x} \notin U BY <1>1, <2>1, FiniteMin
  <2>3. m \in SUBSET D /\ h[m] # f[m] BY DEF U
  <2>4. m # {} BY <1>7, <1>11, <2>3
  <2> DEFINE x == CHOOSE x \in m : TRUE
  <2>5. x \in m /\ policies[x].quota[w] = v[x] BY <1>4, <2>3, <2>4
  <2>6. h[m] = policies[x].quota[w] + h[m \ {x}] BY <1>7, <2>3, <2>4
  <2> HIDE DEF x
  <2>7. h[m \ {x}] = f[m \ {x}] BY <2>2, <2>3, <2>5 DEF U
  <2>8. m \in SUBSET Names BY <1>2, <2>3
  <2>9. f[m] = v[x] + f[m \ {x}] BY <1>11, <2>5, <2>8
  <2> QED BY <2>3, <2>5, <2>6, <2>7, <2>9
<1>9. f[Bound] = f[D]
  <2>1. /\ D \in SUBSET Names /\ Bound \ D \in SUBSET Names
        /\ D \cap (Bound \ D) = {} /\ D \cup (Bound \ D) = Bound
    BY <1>1, <1>2
  <2>2. \A s, t \in SUBSET Names : s \cap t = {} => f[s \cup t] = f[s] + f[t]
    BY <1>1, <1>10, SumDisjoint
  <2>3. f[Bound \ D] = 0 BY <1>1, <1>10, <2>1, SumZero
  <2>4. f[D] \in Nat BY <1>11, <2>1
  <2>5. f[D \cup (Bound \ D)] = f[D] + f[Bound \ D] BY <2>1, <2>2
  <2> QED BY <2>1, <2>3, <2>4, <2>5
<1> QED BY <1>3, <1>8, <1>9

-----------------------------------------------------------------------------
(* The rollup of a list *)

\* The loop over a list computes something for every set of policies that bind.
LEMMA SumIntoIter ==
    ASSUME Types, NEW q0 \in AnyQuota, NEW S \in SUBSET Bound
    PROVE  \E h \in [SUBSET S -> AnyQuota] :
              /\ h[S] = SumInto(q0, S)
              /\ h[{}] = q0
              /\ \A s \in SUBSET S : s # {} =>
                    \E n \in s : h[s] = addQuota(h[s \ {n}], policies[n].quota)
<1> DEFINE adds == [x \in AnyQuota \X S |-> addQuota(x[1], policies[x[2]].quota)]
           Fold(g) == g = [s \in SUBSET S |->
                             IF s = {} THEN q0
                             ELSE addQuota(g[s \ {CHOOSE x \in s : TRUE}],
                                           policies[CHOOSE x \in s : TRUE].quota)]
           h == CHOOSE g : Fold(g)
<1>1. SumInto(q0, S) = h[S] BY DEF SumInto, FoldSet, MapThenFoldSet
<1>2. IsFiniteSet(S) BY NamesFinite, BoundSplits, FS_Subset
<1>3. adds \in [AnyQuota \X S -> AnyQuota]
  <2> SUFFICES ASSUME NEW x \in AnyQuota \X S
               PROVE  addQuota(x[1], policies[x[2]].quota) \in AnyQuota
    OBVIOUS
  <2>1. x[1] \in AnyQuota /\ x[2] \in Bound OBVIOUS
  <2>2. policies[x[2]].quota \in AnyQuota BY <2>1, BoundQuota, QuotasAreAny
  <2> QED BY <2>1, <2>2, AddFields
<1>4. \A q \in AnyQuota, n \in S : adds[q, n] = addQuota(q, policies[n].quota) OBVIOUS
<1> HIDE DEF adds
<1>5. \E g \in [SUBSET S -> AnyQuota] : IsIter(g, S, Picks(S), adds, q0)
  <2> PICK a : a = adds OBVIOUS
  <2>1. Takes(Picks(S), S) BY PicksTakes
  <2>2. a \in [AnyQuota \X S -> AnyQuota] BY <1>3
  <2> HIDE DEF adds
  <2> QED BY <1>2, <2>1, <2>2, IterExists
<1>6. PICK g \in [SUBSET S -> AnyQuota] : IsIter(g, S, Picks(S), adds, q0) BY <1>5
<1>7. Fold(g)
  <2> SUFFICES ASSUME NEW s \in SUBSET S
               PROVE  g[s] = IF s = {} THEN q0
                             ELSE addQuota(g[s \ {CHOOSE x \in s : TRUE}],
                                           policies[CHOOSE x \in s : TRUE].quota)
    OBVIOUS
  <2>1. CASE s = {} BY <2>1, <1>6 DEF IsIter
  <2>2. CASE s # {}
    <3> DEFINE c == CHOOSE x \in s : TRUE
    <3>1. c \in s /\ Picks(S)[s] = c BY <2>2 DEF Picks
    <3> HIDE DEF c
    <3>2. g[s] = adds[g[s \ {c}], c] BY <1>6, <2>2, <3>1 DEF IsIter
    <3>3. g[s \ {c}] \in AnyQuota /\ c \in S BY <1>6, <3>1
    <3>4. g[s] = addQuota(g[s \ {c}], policies[c].quota) BY <1>4, <3>2, <3>3
    <3> QED BY <2>2, <3>4 DEF c
  <2> QED BY <2>1, <2>2
<1>8. Fold(h)
  <2> HIDE DEF Fold
  <2> QED BY <1>7
<1>9. \A s \in SUBSET S :
         h[s] = IF s = {} THEN q0
                ELSE addQuota(h[s \ {CHOOSE x \in s : TRUE}],
                              policies[CHOOSE x \in s : TRUE].quota)
  <2> HIDE DEF h
  <2> QED BY <1>8
<1>10. h = [s \in SUBSET S |-> h[s]]
  <2> HIDE DEF h
  <2> QED BY <1>8
<1> HIDE DEF h, Fold
<1>11. h[{}] = q0 BY <1>9
<1>12. ASSUME NEW s \in SUBSET S, s # {}
       PROVE  \E n \in s : h[s] = addQuota(h[s \ {n}], policies[n].quota)
  <2> DEFINE c == CHOOSE x \in s : TRUE
  <2>1. c \in s BY <1>12
  <2>2. h[s] = addQuota(h[s \ {c}], policies[c].quota) BY <1>9, <1>12
  <2> HIDE DEF c
  <2> QED BY <2>1, <2>2
<1>13. \A s \in SUBSET S : h[s] \in AnyQuota
  <2> DEFINE U == {s \in SUBSET S : h[s] \notin AnyQuota}
  <2> SUFFICES ASSUME U # {} PROVE FALSE OBVIOUS
  <2>1. U \in SUBSET (SUBSET S) OBVIOUS
  <2> HIDE DEF U
  <2>2. PICK m \in U : \A x \in m : m \ {x} \notin U BY <1>2, <2>1, FiniteMin
  <2>3. m \in SUBSET S /\ h[m] \notin AnyQuota BY DEF U
  <2>4. m # {} BY <1>11, <2>3
  <2>5. PICK n \in m : h[m] = addQuota(h[m \ {n}], policies[n].quota) BY <1>12, <2>3, <2>4
  <2>6. h[m \ {n}] \in AnyQuota BY <2>2, <2>3 DEF U
  <2>7. policies[n].quota \in AnyQuota BY <2>3, BoundQuota, QuotasAreAny
  <2> QED BY <2>3, <2>5, <2>6, <2>7, AddFields
<1>14. h \in [SUBSET S -> AnyQuota] BY <1>10, <1>13
<1>15. \A s \in SUBSET S : s # {} =>
          \E n \in s : h[s] = addQuota(h[s \ {n}], policies[n].quota)
  BY <1>12
<1> QED BY <1>1, <1>11, <1>14, <1>15

\* Whatever the order, the loop adds to each window what the policies demand
\* of it, as long as that stays within the width; the window stays unset
\* exactly when nothing sets it.
LEMMA SumIntoFields ==
    ASSUME Types, NEW q0 \in AnyQuota, NEW S \in SUBSET Bound, NEW w \in Windows,
           NEW f, IsSum(f, Amounts(w), Names), Counts(q0, w) \in Nat,
           Counts(q0, w) + f[S] <= MaxInt
    PROVE  /\ SumInto(q0, S) \in AnyQuota
           /\ Counts(SumInto(q0, S), w) = Counts(q0, w) + f[S]
           /\ Fields(SumInto(q0, S))[w] = Unset
                 <=> Fields(q0)[w] = Unset /\ \A n \in S : ~Sets(n, w)
<1> PICK v : v = Amounts(w) OBVIOUS
<1>1. /\ v \in [Names -> Nat] /\ IsFiniteSet(Names) /\ S \in SUBSET Names
      /\ IsFiniteSet(S) /\ IsSum(f, v, Names)
  BY AmountsTyped, NamesFinite, BoundSplits, FS_Subset
<1>2. PICK h \in [SUBSET S -> AnyQuota] :
              /\ h[S] = SumInto(q0, S)
              /\ h[{}] = q0
              /\ \A s \in SUBSET S : s # {} =>
                    \E n \in s : h[s] = addQuota(h[s \ {n}], policies[n].quota)
  BY SumIntoIter
<1>3. /\ f[{}] = 0
      /\ \A s \in SUBSET Names : f[s] \in Nat /\ \A x \in s : f[s] = v[x] + f[s \ {x}]
  BY <1>1, SumSplit
<1>4. \A s \in SUBSET S : f[s] \in Nat /\ f[s] <= f[S] BY <1>1, SumMonotone
<1> DEFINE Good(s) ==
              /\ Counts(h[s], w) = Counts(q0, w) + f[s]
              /\ Fields(h[s])[w] = Unset
                    <=> Fields(q0)[w] = Unset /\ \A n \in s : ~Sets(n, w)
           U == {s \in SUBSET S : ~Good(s)}
<1>5. U = {}
  <2> SUFFICES ASSUME U # {} PROVE FALSE OBVIOUS
  <2>1. U \in SUBSET (SUBSET S) OBVIOUS
  <2> HIDE DEF U
  <2>2. PICK m \in U : \A x \in m : m \ {x} \notin U BY <1>1, <2>1, FiniteMin
  <2>3. m \in SUBSET S /\ ~Good(m) BY DEF U
  <2>4. m # {}
    <3> SUFFICES ASSUME m = {} PROVE FALSE OBVIOUS
    <3>1. h[m] = q0 /\ f[m] = 0 BY <1>2, <1>3
    <3>2. Counts(q0, w) + 0 = Counts(q0, w) OBVIOUS
    <3> QED BY <2>3, <3>1, <3>2
  <2>5. PICK n \in m : h[m] = addQuota(h[m \ {n}], policies[n].quota) BY <1>2, <2>3, <2>4
  <2> DEFINE r == m \ {n}
             a == h[r]
             b == policies[n].quota
  <2>6. r \in SUBSET S /\ Good(r) BY <2>2, <2>3 DEF U
  <2>7. f[m] = v[n] + f[r] /\ f[r] \in Nat /\ f[m] <= f[S] /\ f[m] \in Nat
    BY <1>1, <1>3, <1>4, <2>3
  <2>8. a \in AnyQuota BY <1>2, <2>6
  <2>9. b \in QuotaType /\ b \in AnyQuota BY <2>3, BoundQuota, QuotasAreAny
  <2>10. v[n] = Counts(b, w) /\ Counts(b, w) \in Nat
    <3>1. n \in Bound BY <2>3
    <3> QED BY <3>1, <2>9, AmountsTyped, CountsTyped, MaxIntAssumption
  <2>11. Sets(n, w) <=> Fields(b)[w] # Unset BY DEF Sets
  <2>12. (\A x \in m : ~Sets(x, w)) <=> (\A x \in r : ~Sets(x, w)) /\ ~Sets(n, w) BY <2>5
  <2>13. Fields(h[m])[w] = IF Fields(a)[w] = Unset THEN Fields(b)[w]
                           ELSE IF Fields(b)[w] = Unset THEN Fields(a)[w]
                           ELSE Wrap(Fields(a)[w] + Fields(b)[w])
    <3> HIDE DEF a, b
    <3>1. h[m] = addQuota(a, b) BY <2>5 DEF a, b
    <3> QED BY <3>1, <2>8, <2>9, AddFields
  <2>14. /\ Counts(a, w) = Counts(q0, w) + f[r]
         /\ Fields(a)[w] = Unset
               <=> Fields(q0)[w] = Unset /\ \A x \in r : ~Sets(x, w)
    BY <2>6
  <2> DEFINE x == Counts(a, w)
             y == Counts(b, w)
  <2>15. x \in Nat /\ y \in Nat /\ x + y = Counts(q0, w) + f[m] /\ x + y <= MaxInt
    <3>1. f[S] \in Nat BY <1>4
    <3> HIDE DEF x, y
    <3>2. x = Counts(q0, w) + f[r] /\ y = v[n] BY <2>10, <2>14 DEF x, y
    <3>3. y \in Nat BY <2>10 DEF y
    <3> QED BY <3>1, <3>2, <3>3, <2>7, MaxIntAssumption
  <2>16. Wrap(x + y) = x + y
    <3> HIDE DEF x, y
    <3>1. x + y \in (-(MaxInt + 1))..MaxInt BY <2>15, MaxIntAssumption
    <3> QED BY <3>1, WrapIsExact
  <2> HIDE DEF a, b, r, Good
  <2>17. Counts(h[m], w) = x + y /\ (Fields(h[m])[w] = Unset
                                       <=> Fields(a)[w] = Unset /\ Fields(b)[w] = Unset)
    <3>1. Unset \notin Int BY MarkersAssumption
    <3>2. CASE Fields(a)[w] = Unset
      <4>1. x = 0 BY <3>2 DEF Counts
      <4>2. Fields(h[m])[w] = Fields(b)[w] BY <2>13, <3>2
      <4>3. Counts(h[m], w) = y BY <4>2 DEF Counts
      <4> HIDE DEF x, y
      <4> QED BY <4>1, <4>2, <4>3, <3>2, <2>15
    <3>3. CASE Fields(a)[w] # Unset /\ Fields(b)[w] = Unset
      <4>1. y = 0 BY <3>3 DEF Counts
      <4>2. Fields(h[m])[w] = Fields(a)[w] BY <2>13, <3>3
      <4>3. Counts(h[m], w) = x BY <4>2 DEF Counts
      <4> HIDE DEF x, y
      <4> QED BY <4>1, <4>2, <4>3, <3>3, <2>15
    <3>4. CASE Fields(a)[w] # Unset /\ Fields(b)[w] # Unset
      <4>1. x = Fields(a)[w] /\ y = Fields(b)[w] BY <3>4 DEF Counts
      <4>2. Fields(h[m])[w] = Wrap(Fields(a)[w] + Fields(b)[w]) BY <2>13, <3>4
      <4> HIDE DEF x, y
      <4>3. Fields(h[m])[w] = x + y BY <4>1, <4>2, <2>16
      <4>4. Fields(h[m])[w] # Unset BY <4>3, <2>15, <3>1
      <4> QED BY <3>4, <4>3, <4>4 DEF Counts
    <3> QED BY <3>2, <3>3, <3>4
  <2> HIDE DEF x, y
  <2>18. Good(m) BY <2>11, <2>12, <2>14, <2>15, <2>17 DEF Good
  <2> QED BY <2>3, <2>18
<1>6. Good(S)
  <2> HIDE DEF Good
  <2> QED BY <1>5
<1>7. h[S] = SumInto(q0, S) /\ SumInto(q0, S) \in AnyQuota BY <1>2
<1> QED BY <1>6, <1>7

-----------------------------------------------------------------------------
(* The rollup of both lists *)

ClusterSum == SumInto(NoQuota, Binding(ClusterNames))

TotalSum == SumInto(ClusterSum, Binding(TokenNames))

\* No window's exact demand exceeds the width of the integers.
Fits == \A w \in Windows : Demand(Bound, w) <= MaxInt

\* Adding up one list and then the other gives every window its demand.
LEMMA TotalFields ==
    ASSUME Types, Fits, NEW w \in Windows
    PROVE  /\ TotalSum \in AnyQuota
           /\ Demand(Bound, w) \in 0..MaxInt
           /\ Counts(TotalSum, w) = Demand(Bound, w)
           /\ Fields(TotalSum)[w] = Unset <=> \A n \in Bound : ~Sets(n, w)
<1> PICK v : v = Amounts(w) OBVIOUS
<1> DEFINE B == Binding(ClusterNames)
           T == Binding(TokenNames)
<1>1. v \in [Names -> Nat] /\ IsFiniteSet(Names) BY AmountsTyped, NamesFinite
<1>2. PICK f : IsSum(f, v, Names) BY <1>1, SumExists
<1>3. Bound = B \cup T /\ B \cap T = {} /\ Bound \in SUBSET Names BY BoundSplits
<1>4. Demand(Bound, w) = f[Bound] BY <1>2, DemandIsSum
<1> HIDE DEF B, T
<1>5. f[Bound] = f[B] + f[T]
  <2>1. B \in SUBSET Names /\ T \in SUBSET Names BY <1>3
  <2> QED BY <1>1, <1>2, <1>3, <2>1, SumDisjoint
<1>6. f[B] \in Nat /\ f[T] \in Nat /\ f[Bound] \in Nat /\ f[Bound] <= MaxInt
  <2>1. f[B] \in Nat /\ f[T] \in Nat /\ f[Bound] \in Nat BY <1>1, <1>2, <1>3, SumMonotone
  <2> QED BY <1>4, <2>1 DEF Fits
<1>7. /\ NoQuota \in AnyQuota /\ Fields(NoQuota)[w] = Unset /\ Counts(NoQuota, w) = 0
  BY DEF AnyQuota, Fields, Counts
<1>8. /\ ClusterSum \in AnyQuota
      /\ Counts(ClusterSum, w) = f[B]
      /\ Fields(ClusterSum)[w] = Unset <=> \A n \in B : ~Sets(n, w)
  <2>1. B \in SUBSET Bound BY <1>3
  <2>2. Counts(NoQuota, w) \in Nat /\ Counts(NoQuota, w) + f[B] = f[B] /\ f[B] <= MaxInt
    BY <1>5, <1>6, <1>7, MaxIntAssumption
  <2>3. /\ SumInto(NoQuota, B) \in AnyQuota
        /\ Counts(SumInto(NoQuota, B), w) = Counts(NoQuota, w) + f[B]
        /\ Fields(SumInto(NoQuota, B))[w] = Unset
              <=> Fields(NoQuota)[w] = Unset /\ \A n \in B : ~Sets(n, w)
    BY <1>2, <1>7, <2>1, <2>2, SumIntoFields
  <2> QED BY <1>7, <2>2, <2>3 DEF ClusterSum, B
<1>9. /\ TotalSum \in AnyQuota
      /\ Counts(TotalSum, w) = f[B] + f[T]
      /\ Fields(TotalSum)[w] = Unset
            <=> (\A n \in B : ~Sets(n, w)) /\ \A n \in T : ~Sets(n, w)
  <2>1. T \in SUBSET Bound BY <1>3
  <2>2. Counts(ClusterSum, w) \in Nat /\ Counts(ClusterSum, w) + f[T] <= MaxInt
    BY <1>5, <1>6, <1>8
  <2>3. /\ SumInto(ClusterSum, T) \in AnyQuota
        /\ Counts(SumInto(ClusterSum, T), w) = Counts(ClusterSum, w) + f[T]
        /\ Fields(SumInto(ClusterSum, T))[w] = Unset
              <=> Fields(ClusterSum)[w] = Unset /\ \A n \in T : ~Sets(n, w)
    BY <1>2, <1>8, <2>1, <2>2, SumIntoFields
  <2> QED BY <1>8, <2>3 DEF TotalSum, T
<1>10. (\A n \in Bound : ~Sets(n, w))
          <=> (\A n \in B : ~Sets(n, w)) /\ \A n \in T : ~Sets(n, w)
  BY <1>3
<1> QED BY <1>4, <1>5, <1>6, <1>9, <1>10, MaxIntAssumption

-----------------------------------------------------------------------------
(* The inductive invariant *)

\* What a pass over the current objects writes.
Written ==
    /\ status.refs = Bound
    /\ status.allocated = TotalSum
    /\ status.available = IF capacity = NoQuota THEN NoQuota
                          ELSE availableQuota(capacity, TotalSum)
    /\ status.over = IF capacity # NoQuota /\ oversubscribed(capacity, TotalSum)
                     THEN "True" ELSE "False"

\* A pass that no edit has overtaken holds what the lists it has read say now,
\* and one that has ended so has written the rollup of the current objects.
IInv ==
    /\ Types
    /\ clean => pc # "idle" /\ capSeen = capacity
    /\ clean /\ pc = "tokens" => refs = Binding(ClusterNames) /\ allocated = ClusterSum
    /\ clean /\ pc = "update" => refs = Bound /\ allocated = TotalSum
    /\ fresh => Written

\* What is written is accurate.
LEMMA WrittenIsAccurate ==
    ASSUME Types, Fits, Written
    PROVE  Accurate
<1>1. capacity \in QuotaType BY QuotasAssumption DEF Types
<1>2. ASSUME NEW w \in Windows
      PROVE  /\ TotalSum \in AnyQuota /\ Demand(Bound, w) \in 0..MaxInt
             /\ Counts(TotalSum, w) = Demand(Bound, w)
             /\ Fields(TotalSum)[w] = Unset <=> \A n \in Bound : ~Sets(n, w)
  BY TotalFields
<1>3. ASSUME NEW w \in Windows, Limited(w)
      PROVE  capacity # NoQuota /\ capacity[w] = Fields(capacity)[w] /\ capacity[w] \in 0..MaxInt
  <2>1. capacity # NoQuota BY <1>3 DEF Limited, Fields
  <2>2. capacity[w] = Fields(capacity)[w] BY <2>1 DEF Fields
  <2>3. Counts(capacity, w) = capacity[w] BY <1>3, <2>2 DEF Limited, Counts
  <2> QED BY <1>1, <2>1, <2>2, <2>3, CountsTyped
<1>4. ASSUME NEW w \in Windows
      PROVE  Fields(status.allocated)[w] =
                IF \E n \in Bound : Fields(policies[n].quota)[w] # Unset
                   THEN Demand(Bound, w) ELSE Unset
  <2>1. status.allocated = TotalSum BY DEF Written
  <2>2. (\E n \in Bound : Fields(policies[n].quota)[w] # Unset)
           <=> Fields(TotalSum)[w] # Unset
    BY <1>2 DEF Sets
  <2>3. Fields(TotalSum)[w] # Unset => Fields(TotalSum)[w] = Demand(Bound, w)
    BY <1>2 DEF Counts
  <2> QED BY <2>1, <2>2, <2>3
<1>5. ASSUME NEW w \in Windows
      PROVE  Fields(status.available)[w] =
                IF ~Limited(w) THEN Unset
                ELSE IF Demand(Bound, w) > capacity[w] THEN 0
                ELSE capacity[w] - Demand(Bound, w)
  <2>1. CASE capacity = NoQuota
    <3>1. status.available = NoQuota BY <2>1 DEF Written
    <3> QED BY <2>1, <3>1 DEF Limited, Fields
  <2>2. CASE capacity # NoQuota
    <3>1. status.available = availableQuota(capacity, TotalSum) BY <2>2 DEF Written
    <3>2. Fields(availableQuota(capacity, TotalSum))[w] =
               IF Fields(capacity)[w] = Unset THEN Unset
               ELSE IF Counts(TotalSum, w) > Fields(capacity)[w] THEN 0
               ELSE Fields(capacity)[w] - Counts(TotalSum, w)
      BY <1>1, <1>2, AvailableFields
    <3>3. CASE Limited(w) BY <1>2, <1>3, <3>1, <3>2, <3>3 DEF Limited
    <3>4. CASE ~Limited(w) BY <3>1, <3>2, <3>4 DEF Limited
    <3> QED BY <3>3, <3>4
  <2> QED BY <2>1, <2>2
<1>6. (status.over = "True") <=>
          \E w \in Windows : Limited(w) /\ Demand(Bound, w) > capacity[w]
  <2>1. (status.over = "True") <=> capacity # NoQuota /\ oversubscribed(capacity, TotalSum)
    BY DEF Written
  <2>2. ASSUME NEW w \in Windows, Limited(w)
        PROVE  Demand(Bound, w) > capacity[w] <=>
                  /\ Fields(TotalSum)[w] # Unset
                  /\ Fields(TotalSum)[w] > Fields(capacity)[w]
    <3>1. /\ Counts(TotalSum, w) = Demand(Bound, w) /\ Demand(Bound, w) \in 0..MaxInt
          /\ capacity[w] = Fields(capacity)[w] /\ capacity[w] \in 0..MaxInt
      BY <1>2, <1>3, <2>2
    <3>2. CASE Fields(TotalSum)[w] = Unset
      <4>1. Demand(Bound, w) = 0 BY <3>1, <3>2 DEF Counts
      <4> QED BY <3>1, <3>2, <4>1, MaxIntAssumption
    <3>3. CASE Fields(TotalSum)[w] # Unset
      BY <3>1, <3>3 DEF Counts
    <3> QED BY <3>2, <3>3
  <2>3. oversubscribed(capacity, TotalSum) <=>
           \E w \in Windows : Limited(w) /\ Demand(Bound, w) > capacity[w]
    BY <2>2 DEF oversubscribed, Limited
  <2>4. (\E w \in Windows : Limited(w)) => capacity # NoQuota BY <1>3
  <2> QED BY <2>1, <2>3, <2>4
<1>7. status.refs = Bound BY DEF Written
<1> QED BY <1>4, <1>5, <1>6, <1>7 DEF Accurate

\* While no policy changes, neither do the sets and sums over them.
LEMMA SumsKeep ==
    ASSUME policies' = policies
    PROVE  /\ Bound' = Bound
           /\ ClusterSum' = ClusterSum
           /\ TotalSum' = TotalSum
           /\ \A N : Binding(N)' = Binding(N)
<1>1. \A N : Binding(N)' = Binding(N) BY DEF Binding
<1>2. Bound' = Bound BY DEF Bound, Binding
<1>3. ClusterSum' = ClusterSum
  BY DEF ClusterSum, SumInto, FoldSet, MapThenFoldSet, Binding
<1>4. TotalSum' = TotalSum
  BY <1>3 DEF TotalSum, SumInto, FoldSet, MapThenFoldSet, Binding
<1> QED BY <1>1, <1>2, <1>3, <1>4

\* It holds at first,
LEMMA IInvInit == Init => IInv
BY QuotasAssumption DEF Init, IInv, Types, Names

\* and every step keeps it: an edit ends both claims, the two lists are read as
\* they are, and the write repeats what the pass holds.
LEMMA IInvStep == IInv /\ [Next]_vars => IInv'
<1> SUFFICES ASSUME IInv, [Next]_vars PROVE IInv' OBVIOUS
<1> USE DEF IInv
<1>1. ASSUME NEW n \in ClusterNames \cup TokenNames, NEW p \in PolicySpecs \cup {Absent},
             SetPolicy(n, p)
      PROVE  IInv'
  <2>1. Types' BY <1>1 DEF SetPolicy, Edit, Types, Names, pass
  <2>2. ~clean' /\ ~fresh' BY <1>1 DEF SetPolicy, Edit
  <2> QED BY <2>1, <2>2
<1>2. ASSUME NEW q \in Quotas, SetCapacity(q)
      PROVE  IInv'
  <2>1. Types' BY <1>2 DEF SetCapacity, Edit, Types, pass
  <2>2. ~clean' /\ ~fresh' BY <1>2 DEF SetCapacity, Edit
  <2> QED BY <2>1, <2>2
<1>3. CASE ListClusterPolicies
  <2>1. UNCHANGED <<policies, capacity, status, fresh>> /\ pc' = "tokens"
    BY <1>3 DEF ListClusterPolicies, store
  <2>2. Types' BY <2>1 DEF Types
  <2>3. /\ capSeen' = capacity /\ refs' = Binding(ClusterNames) /\ allocated' = ClusterSum
    BY <1>3 DEF ListClusterPolicies, ClusterSum
  <2>4. fresh' => Written' BY <2>1, SumsKeep DEF Written
  <2>5. refs' = Binding(ClusterNames)' /\ allocated' = ClusterSum' BY <2>1, <2>3, SumsKeep
  <2> QED BY <2>1, <2>2, <2>3, <2>4, <2>5
<1>4. CASE ListTokenPolicies
  <2>1. /\ UNCHANGED <<policies, capacity, status, fresh, clean, capSeen>>
        /\ pc = "tokens" /\ pc' = "update"
    BY <1>4 DEF ListTokenPolicies, store
  <2>2. Types' BY <2>1 DEF Types
  <2>3. clean => refs' = Bound /\ allocated' = TotalSum
    BY <1>4, <2>1, BoundSplits DEF ListTokenPolicies, TotalSum
  <2>4. fresh' => Written' BY <2>1, SumsKeep DEF Written
  <2>5. clean' => refs' = Bound' /\ allocated' = TotalSum' BY <2>1, <2>3, SumsKeep
  <2> QED BY <2>1, <2>2, <2>4, <2>5
<1>5. CASE UpdateStatus
  <2>1. UNCHANGED <<policies, capacity>> /\ pc = "update" /\ pc' = "idle" /\ ~clean'
    BY <1>5 DEF UpdateStatus, store
  <2>2. Types' BY <2>1 DEF Types
  <2>3. fresh' => Written'
    <3>1. CASE capSeen = capacity
      <4>1. status' = reconcileCapacity(capSeen, allocated) /\ fresh' = clean
        BY <1>5, <3>1 DEF UpdateStatus
      <4>2. ASSUME clean
            PROVE  /\ status'.refs = Bound
                   /\ status'.allocated = TotalSum
                   /\ status'.available = IF capacity = NoQuota THEN NoQuota
                                          ELSE availableQuota(capacity, TotalSum)
                   /\ status'.over = IF capacity # NoQuota
                                          /\ oversubscribed(capacity, TotalSum)
                                     THEN "True" ELSE "False"
        <5>1. refs = Bound /\ allocated = TotalSum BY <2>1, <4>2
        <5> QED BY <3>1, <4>1, <5>1 DEF reconcileCapacity
      <4> QED BY <2>1, <4>1, <4>2, SumsKeep DEF Written
    <3>2. CASE capSeen # capacity
      <4>1. UNCHANGED <<status, fresh>> BY <1>5, <3>2 DEF UpdateStatus
      <4> QED BY <2>1, <4>1, SumsKeep DEF Written
    <3> QED BY <3>1, <3>2
  <2> QED BY <2>1, <2>2, <2>3
<1>6. CASE UNCHANGED vars
  <2>1. UNCHANGED <<policies, capacity, status, pc, capSeen, refs, allocated, clean, fresh>>
    BY <1>6 DEF vars, store, pass
  <2>2. Types' BY <2>1 DEF Types
  <2>3. fresh' => Written' BY <2>1, SumsKeep DEF Written
  <2>4. clean' => pc' # "idle" /\ capSeen' = capacity' BY <2>1
  <2>5. clean' /\ pc' = "tokens" => refs' = Binding(ClusterNames)' /\ allocated' = ClusterSum'
    BY <2>1, SumsKeep
  <2>6. clean' /\ pc' = "update" => refs' = Bound' /\ allocated' = TotalSum'
    BY <2>1, SumsKeep
  <2> QED BY <2>2, <2>3, <2>4, <2>5, <2>6
<1> QED BY <1>1, <1>2, <1>3, <1>4, <1>5, <1>6 DEF Next, Reconcile

\* A Reconcile pass of the credential that no edit overtakes leaves, for every
\* set of policies in whatever order the lists return them, the referencing
\* policies, the exact sum of their budgets, what is left of the capacity and
\* the Oversubscribed condition - as long as no window's demand exceeds what
\* an int64 holds.
THEOREM RollupHolds == Spec => [](Fits => AccurateWhenFresh)
<1>1. Init => IInv BY IInvInit
<1>2. IInv /\ [Next]_vars => IInv' BY IInvStep
<1>3. IInv => (Fits => AccurateWhenFresh)
  BY WrittenIsAccurate DEF IInv, AccurateWhenFresh
<1> QED BY <1>1, <1>2, <1>3, PTL DEF Spec

=============================================================================
