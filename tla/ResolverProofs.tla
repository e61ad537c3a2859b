--------------------------- MODULE ResolverProofs ---------------------------
(***************************************************************************)
(* What the resolver computes, for every list of policies that the API     *)
(* server can hold: sorting, the loops over the tiers, evalTier and        *)
(* Permit, each in terms of the policies as sets. The modules of proofs    *)
(* that extend a model in which policies are resolved rest on these        *)
(* lemmas.                                                                 *)
(***************************************************************************)
EXTENDS Resolver, SeqFacts

-----------------------------------------------------------------------------
(* One tier *)

\* What List returns: finitely many policies, no two of the same name.
Listed(S) ==
    /\ IsFiniteSet(S)
    /\ \A p \in S : p.name \in Nat
    /\ \A p, q \in S : p.name = q.name => p = q

\* Filtering a list leaves a list.
LEMMA ListedSubset ==
  ASSUME NEW S, Listed(S), NEW T \in SUBSET S
  PROVE  Listed(T)
BY FS_Subset DEF Listed

\* sort.Slice by name returns the policies of the list, each once, in ascending
\* order of their names (clusterMatched).
LEMMA SortByName ==
  ASSUME NEW S, Listed(S)
  PROVE  /\ sortByName(S) \in Seq(S)
         /\ ToSet(sortByName(S)) = S
         /\ Len(sortByName(S)) = Cardinality(S)
         /\ \A i, j \in 1..Len(sortByName(S)) :
               i < j => byName(sortByName(S)[i], sortByName(S)[j])
<1> DEFINE R == {pq \in S \X S : byName(pq[1], pq[2])}
           Good(s) == \A i, j \in DOMAIN s : i < j => byName(s[i], s[j])
<1>1. \A p, q \in S : <<p, q>> \in R <=> byName(p, q) OBVIOUS
<1>2. StrictOrder(S, R)
  <2> HIDE DEF R
  <2> QED BY <1>1 DEF StrictOrder, Listed, byName
<1>3. \E s \in SetToSeqs(S) : Good(s)
  <2> HIDE DEF R
  <2>1. PICK s \in SetToSeqs(S) : InOrder(s, R) BY <1>2, SortExists DEF Listed
  <2>2. \A i \in DOMAIN s : s[i] \in S BY <2>1, SetToSeqsContents DEF Listed, ToSet
  <2> QED BY <1>1, <2>1, <2>2 DEF InOrder
<1>4. sortByName(S) = CHOOSE s \in SetToSeqs(S) : Good(s)
  BY Zenon DEF sortByName, Sorted
<1>5. sortByName(S) \in SetToSeqs(S) /\ Good(sortByName(S))
  <2> HIDE DEF Good
  <2> QED BY <1>3, <1>4, Zenon
<1>6. /\ sortByName(S) \in Seq(S) /\ ToSet(sortByName(S)) = S
      /\ Len(sortByName(S)) = Cardinality(S)
  BY <1>5, SetToSeqsContents DEF Listed
<1> QED BY <1>5, <1>6

\* sortByPriority does so by ascending priority, then name.
LEMMA SortByPriority ==
  ASSUME NEW S, Listed(S), \A p \in S : p.spec.priority \in Int
  PROVE  /\ sortByPriority(S) \in Seq(S)
         /\ ToSet(sortByPriority(S)) = S
         /\ Len(sortByPriority(S)) = Cardinality(S)
         /\ \A i, j \in 1..Len(sortByPriority(S)) :
               i < j => byPriority(sortByPriority(S)[i], sortByPriority(S)[j])
<1> DEFINE R == {pq \in S \X S : byPriority(pq[1], pq[2])}
           Good(s) == \A i, j \in DOMAIN s : i < j => byPriority(s[i], s[j])
<1>1. \A p, q \in S : <<p, q>> \in R <=> byPriority(p, q) OBVIOUS
<1>2. StrictOrder(S, R)
  <2> HIDE DEF R
  <2> QED BY <1>1 DEF StrictOrder, Listed, byPriority
<1>3. \E s \in SetToSeqs(S) : Good(s)
  <2> HIDE DEF R
  <2>1. PICK s \in SetToSeqs(S) : InOrder(s, R) BY <1>2, SortExists DEF Listed
  <2>2. \A i \in DOMAIN s : s[i] \in S BY <2>1, SetToSeqsContents DEF Listed, ToSet
  <2> QED BY <1>1, <2>1, <2>2 DEF InOrder
<1>4. sortByPriority(S) = CHOOSE s \in SetToSeqs(S) : Good(s)
  BY Zenon DEF sortByPriority, Sorted
<1>5. sortByPriority(S) \in SetToSeqs(S) /\ Good(sortByPriority(S))
  <2> HIDE DEF Good
  <2> QED BY <1>3, <1>4, Zenon
<1>6. /\ sortByPriority(S) \in Seq(S) /\ ToSet(sortByPriority(S)) = S
      /\ Len(sortByPriority(S)) = Cardinality(S)
  BY <1>5, SetToSeqsContents DEF Listed
<1> QED BY <1>5, <1>6

\* Sorting one policy returns it.
LEMMA SortSingleton ==
  ASSUME NEW p, p.name \in Nat, p.spec.priority \in Int
  PROVE  sortByPriority({p}) = <<p>>
<1> DEFINE s == sortByPriority({p})
<1>1. IsFiniteSet({p}) /\ Cardinality({p}) = 1 BY FS_Singleton
<1>2. Listed({p}) BY <1>1 DEF Listed
<1>3. s \in Seq({p}) /\ ToSet(s) = {p} /\ Len(s) = 1 BY <1>1, <1>2, SortByPriority
<1> HIDE DEF s
<1>4. s[1] = p
  <2>1. 1 \in DOMAIN s BY <1>3
  <2>2. s[1] \in ToSet(s) BY <2>1 DEF ToSet
  <2> QED BY <1>3, <2>2
<1>5. s = <<s[1]>> BY <1>3
<1> QED BY <1>4, <1>5 DEF s

\* The rules of a sequence of policies are those of its members.
LEMMA RulesContents ==
  ASSUME NEW S, NEW s \in Seq(S), NEW R, \A p \in S : p.spec.models \in Seq(R)
  PROVE  /\ Rules(s) \in Seq(R)
         /\ ToSet(Rules(s)) = UNION {ToSet(p.spec.models) : p \in ToSet(s)}
<1> DEFINE ss == [i \in DOMAIN s |-> s[i].spec.models]
<1>1. ss \in Seq(Seq(R)) /\ DOMAIN ss = DOMAIN s
  <2>1. DOMAIN s = 1..Len(s) /\ \A i \in 1..Len(s) : s[i] \in S OBVIOUS
  <2> QED BY <2>1
<1>2. Rules(s) = FlattenSeq(ss) BY DEF Rules
<1>3. FlattenSeq(ss) \in Seq(R) /\ ToSet(FlattenSeq(ss)) = UNION {ToSet(ss[i]) : i \in DOMAIN ss}
  BY <1>1, FlattenSeqContents
<1>4. {ToSet(ss[i]) : i \in DOMAIN ss} = {ToSet(p.spec.models) : p \in ToSet(s)}
  <2>1. \A i \in DOMAIN ss : ss[i] = s[i].spec.models BY <1>1
  <2>2. ToSet(s) = {s[i] : i \in DOMAIN s} BY DEF ToSet
  <2> QED BY <2>1, <2>2, <1>1
<1> QED BY <1>2, <1>3, <1>4

\* R holds rules as the schema admits them.
IsRules(R) == \A r \in R : r.action \in PermissionAction

\* A set of rules refuses a model: a Deny matches it, or there are Allows and
\* none matches it.
Forbids(R, m) ==
    \/ \E r \in R : r.action = "Deny" /\ modelMatches(r, m)
    \/ /\ \E r \in R : r.action # "Deny"
       /\ ~\E r \in R : r.action # "Deny" /\ modelMatches(r, m)

\* The credentials its Allows name for a model, NoCred included.
CredsFor(R, m) == {r.cred : r \in {x \in R : x.action # "Deny" /\ modelMatches(x, m)}}

\* evalTier denies exactly when its rules, as a set, refuse the model;
\* otherwise it supplies a credential one of the matching Allows names, if
\* there are any.
LEMMA EvalTier ==
  ASSUME NEW R, IsRules(R), NEW rules \in Seq(R), NEW m
  PROVE  LET d == evalTier(rules, m)
         IN  /\ d.decision = "Deny" <=> Forbids(ToSet(rules), m)
             /\ d.cred = NoCred \/ d.cred \in CredsFor(ToSet(rules), m)
             /\ ~Forbids(ToSet(rules), m) /\ CredsFor(ToSet(rules), m) # {}
                  => d.cred \in CredsFor(ToSet(rules), m)
<1> DEFINE n == Len(rules)
           T == ToSet(rules)
           Denies == {i \in 1..n : normAction(rules[i].action) = "Deny" /\ modelMatches(rules[i], m)}
           Allows == {i \in 1..n : normAction(rules[i].action) = "Allow" /\ modelMatches(rules[i], m)}
           hasAllow == \E i \in DOMAIN rules : normAction(rules[i].action) = "Allow"
           d == evalTier(rules, m)
<1>1. n \in Nat /\ DOMAIN rules = 1..n /\ \A i \in 1..n : rules[i] \in R OBVIOUS
<1>2. T = {rules[i] : i \in 1..n} BY <1>1 DEF ToSet
<1>3. d = IF rules = <<>> THEN [decision |-> "Abstain", cred |-> NoCred]
          ELSE IF (IF Denies # {} THEN Min(Denies) ELSE 0) # 0
               THEN [decision |-> "Deny", cred |-> NoCred]
          ELSE IF (IF Allows # {} THEN Min(Allows) ELSE 0) # 0
               THEN [decision |-> "Allow",
                     cred |-> rules[IF Allows # {} THEN Min(Allows) ELSE 0].cred]
          ELSE [decision |-> IF hasAllow THEN "Deny" ELSE "Allow", cred |-> NoCred]
  BY Zenon DEF evalTier, SelectInSeq
<1>4. Denies # {} => Min(Denies) \in Denies
  <2>1. Denies \in SUBSET Nat BY <1>1
  <2> HIDE DEF Denies
  <2> QED BY <2>1, MinOf
<1>5. Allows # {} => Min(Allows) \in Allows
  <2>1. Allows \in SUBSET Nat BY <1>1
  <2> HIDE DEF Allows
  <2> QED BY <2>1, MinOf
<1>6. \A i \in 1..n : /\ normAction(rules[i].action) = "Deny" <=> rules[i].action = "Deny"
                      /\ normAction(rules[i].action) = "Allow" <=> rules[i].action # "Deny"
  BY <1>1 DEF IsRules, normAction, PermissionAction
<1>7. Denies # {} <=> \E r \in T : r.action = "Deny" /\ modelMatches(r, m)
  BY <1>2, <1>6
<1>8. Allows # {} <=> \E r \in T : r.action # "Deny" /\ modelMatches(r, m)
  BY <1>2, <1>6
<1>9. hasAllow <=> \E r \in T : r.action # "Deny"
  BY <1>1, <1>2, <1>6
<1>10. rules = <<>> => T = {} BY <1>2
<1>11. Allows # {} => rules[Min(Allows)].cred \in CredsFor(T, m)
  BY <1>1, <1>2, <1>5, <1>6 DEF CredsFor
<1>12. CredsFor(T, m) # {} <=> Allows # {} BY <1>8 DEF CredsFor
<1>13. 0 \notin Denies /\ 0 \notin Allows OBVIOUS
<1> HIDE DEF n, T, Denies, Allows, hasAllow, d
<1>14. Forbids(T, m) <=> Denies # {} \/ (hasAllow /\ Allows = {})
  BY <1>7, <1>8, <1>9 DEF Forbids
<1>15. CASE rules = <<>>
  <2>1. ~Forbids(T, m) /\ CredsFor(T, m) = {} BY <1>10, <1>15 DEF Forbids, CredsFor
  <2>2. d = [decision |-> "Abstain", cred |-> NoCred] BY <1>3, <1>15
  <2> QED BY <2>1, <2>2 DEF T, d
<1>16. CASE rules # <<>> /\ Denies # {}
  <2>1. d = [decision |-> "Deny", cred |-> NoCred] BY <1>3, <1>4, <1>13, <1>16
  <2> QED BY <2>1, <1>14, <1>16 DEF T, d
<1>17. CASE rules # <<>> /\ Denies = {} /\ Allows # {}
  <2>1. d = [decision |-> "Allow", cred |-> rules[Min(Allows)].cred]
    BY <1>3, <1>5, <1>13, <1>17
  <2> QED BY <2>1, <1>11, <1>14, <1>17 DEF T, d
<1>18. CASE rules # <<>> /\ Denies = {} /\ Allows = {}
  <2>1. d = [decision |-> IF hasAllow THEN "Deny" ELSE "Allow", cred |-> NoCred]
    BY <1>3, <1>18
  <2> QED BY <2>1, <1>12, <1>14, <1>18 DEF T, d
<1> QED BY <1>15, <1>16, <1>17, <1>18

-----------------------------------------------------------------------------
(* Permit and Combine *)

\* Permit allows what no tier refuses, and takes the credential of the
\* narrowest tier that supplies one, else the cluster default.
LEMMA PermitVerdict ==
  ASSUME NEW R, IsRules(R), NEW eff, NEW m,
         eff.cluster \in Seq(R), eff.ns \in Seq(R), eff.wl \in Seq(R)
  PROVE  /\ Permit(eff, m).allowed \in BOOLEAN
         /\ Permit(eff, m).allowed <=> /\ ~Forbids(ToSet(eff.cluster), m)
                                       /\ ~Forbids(ToSet(eff.ns), m)
                                       /\ ~Forbids(ToSet(eff.wl), m)
         /\ ~Permit(eff, m).allowed => Permit(eff, m).cred = NoCred
         /\ Permit(eff, m).allowed =>
              Permit(eff, m).cred =
                IF evalTier(eff.wl, m).cred # NoCred THEN evalTier(eff.wl, m).cred
                ELSE IF evalTier(eff.ns, m).cred # NoCred THEN evalTier(eff.ns, m).cred
                ELSE IF evalTier(eff.cluster, m).cred # NoCred THEN evalTier(eff.cluster, m).cred
                ELSE eff.defaultCred
<1> DEFINE dc == evalTier(eff.cluster, m)
           dn == evalTier(eff.ns, m)
           dw == evalTier(eff.wl, m)
           I == {i \in 1..Len(<<dw, dn, dc>>) : <<dw, dn, dc>>[i].cred # NoCred}
           k == IF I # {} THEN Min(I) ELSE 0
<1>1. Permit(eff, m) = IF "Deny" \in {dc.decision, dn.decision, dw.decision}
                          THEN [allowed |-> FALSE, cred |-> NoCred]
                          ELSE [allowed |-> TRUE,
                                cred |-> IF k = 0 THEN eff.defaultCred
                                                  ELSE <<dw, dn, dc>>[k].cred]
  BY Zenon DEF Permit, SelectInSeq
<1>2. /\ dc.decision = "Deny" <=> Forbids(ToSet(eff.cluster), m)
      /\ dn.decision = "Deny" <=> Forbids(ToSet(eff.ns), m)
      /\ dw.decision = "Deny" <=> Forbids(ToSet(eff.wl), m)
  BY EvalTier
<1> HIDE DEF dc, dn, dw
<1>3. I = {i \in 1..3 : <<dw, dn, dc>>[i].cred # NoCred} OBVIOUS
<1>4. I # {} => Min(I) \in I /\ \A y \in I : Min(I) <= y
  <2>1. I \in SUBSET Nat OBVIOUS
  <2> HIDE DEF I
  <2> QED BY <2>1, MinOf
<1> HIDE DEF I
<1>5. (IF k = 0 THEN eff.defaultCred ELSE <<dw, dn, dc>>[k].cred)
        = IF dw.cred # NoCred THEN dw.cred
          ELSE IF dn.cred # NoCred THEN dn.cred
          ELSE IF dc.cred # NoCred THEN dc.cred
          ELSE eff.defaultCred
  <2>1. 1 \in I <=> dw.cred # NoCred BY <1>3
  <2>2. 2 \in I <=> dn.cred # NoCred BY <1>3
  <2>3. 3 \in I <=> dc.cred # NoCred BY <1>3
  <2>4. I \in SUBSET {1, 2, 3} BY <1>3
  <2>5. CASE dw.cred # NoCred
    <3>1. I # {} /\ Min(I) \in {1, 2, 3} /\ Min(I) <= 1 BY <2>1, <2>4, <2>5, <1>4
    <3>2. k = 1 BY <3>1
    <3> QED BY <3>2, <2>5
  <2>6. CASE dw.cred = NoCred /\ dn.cred # NoCred
    <3>1. I # {} /\ Min(I) \in {2, 3} /\ Min(I) <= 2 BY <2>1, <2>2, <2>4, <2>6, <1>4
    <3>2. k = 2 BY <3>1
    <3> QED BY <3>2, <2>6
  <2>7. CASE dw.cred = NoCred /\ dn.cred = NoCred /\ dc.cred # NoCred
    <3>1. k = 3 BY <2>1, <2>2, <2>3, <2>4, <2>7, <1>4
    <3> QED BY <3>1, <2>7
  <2>8. CASE dw.cred = NoCred /\ dn.cred = NoCred /\ dc.cred = NoCred
    <3>1. k = 0 BY <2>1, <2>2, <2>3, <2>4, <2>8
    <3> QED BY <3>1, <2>8
  <2> QED BY <2>5, <2>6, <2>7, <2>8
<1> HIDE DEF k
<1>6. CASE "Deny" \in {dc.decision, dn.decision, dw.decision}
  <2>1. Permit(eff, m) = [allowed |-> FALSE, cred |-> NoCred] BY <1>1, <1>6
  <2>2. Permit(eff, m).allowed = FALSE /\ Permit(eff, m).cred = NoCred BY <2>1
  <2> QED BY <2>2, <1>2, <1>6
<1>7. CASE "Deny" \notin {dc.decision, dn.decision, dw.decision}
  <2>1. Permit(eff, m) = [allowed |-> TRUE,
                          cred |-> IF k = 0 THEN eff.defaultCred ELSE <<dw, dn, dc>>[k].cred]
    BY <1>1, <1>7
  <2>2. /\ Permit(eff, m).allowed = TRUE
        /\ Permit(eff, m).cred = IF k = 0 THEN eff.defaultCred ELSE <<dw, dn, dc>>[k].cred
    BY <2>1
  <2> QED BY <2>2, <1>2, <1>5, <1>7 DEF dc, dn, dw
<1> QED BY <1>6, <1>7

\* Resolve combines the three tiers.
LEMMA ResolveIsCombine ==
  ASSUME NEW C, NEW T, NEW l, NEW pod
  PROVE  Resolve(C, T, l, pod) = Combine(clusterMatched(C, l), nsDefaults(T), wlMatched(T, pod))
<1> DEFINE v == Combine(clusterMatched(C, l), nsDefaults(T), wlMatched(T, pod))
           V == {Combine(cluster, ns, wl) : cluster \in {clusterMatched(C, l)},
                      ns \in {nsDefaults(T)}, wl \in {wlMatched(T, pod)}}
<1>1. Resolve(C, T, l, pod) = CHOOSE eff \in V : TRUE BY DEF Resolve
<1>2. v \in V /\ \A x \in V : x = v OBVIOUS
<1> HIDE DEF V
<1> QED BY <1>1, <1>2, Zenon

\* The fields of the Effective.
LEMMA CombineFields ==
  ASSUME NEW c, NEW n, NEW w
  PROVE  LET eff == Combine(c, n, w)
             applied == c \o n \o w
         IN  /\ eff.governed = (applied # <<>>)
             /\ eff.modelGoverned = (Rules(applied) # <<>>)
             /\ eff.enforcement = enforcementOf(applied)
             /\ eff.gateway = gatewayOf(applied)
             /\ eff.quota = quotaOf(applied)
             /\ eff.defaultCred = defaultCredOf(c)
             /\ eff.cluster = Rules(c)
             /\ eff.ns = Rules(n)
             /\ eff.wl = Rules(w)
BY DEF Combine

-----------------------------------------------------------------------------
(* Scalars and quotas *)

\* The loop over enforcement returns the last mode set, or Enforce.
LEMMA EnforcementOf ==
  ASSUME NEW S, NEW s \in Seq(S)
  PROVE  \/ /\ enforcementOf(s) = "Enforce"
            /\ \A i \in 1..Len(s) : s[i].spec.enforcement = ""
         \/ \E i \in 1..Len(s) :
               /\ s[i].spec.enforcement # ""
               /\ \A j \in (i + 1)..Len(s) : s[j].spec.enforcement = ""
               /\ enforcementOf(s) = s[i].spec.enforcement
<1> DEFINE v == [p \in S |-> p.spec.enforcement]
           Body(f) == f = [t \in SUBSET (DOMAIN s) |->
                             IF t = {} THEN "Enforce"
                             ELSE IF s[Max(t)].spec.enforcement = "" THEN f[t \ {Max(t)}]
                                  ELSE s[Max(t)].spec.enforcement]
           h == CHOOSE f : Body(f)
<1>1. enforcementOf(s) = h[DOMAIN s]
  BY Zenon DEF enforcementOf, Overwrite, FoldLeft, MapThenFoldSet
<1>2. \A f : Body(f) <=> Overwriting(f, s, v, "", "Enforce")
  <2>1. \A t \in SUBSET (DOMAIN s) : t # {} => v[s[Max(t)]] = s[Max(t)].spec.enforcement
    <3>1. Len(s) \in Nat /\ DOMAIN s = 1..Len(s) /\ \A i \in DOMAIN s : s[i] \in S OBVIOUS
    <3>2. \A t \in SUBSET (DOMAIN s) : t # {} => Max(t) \in DOMAIN s BY <3>1, MaxOf
    <3> QED BY <3>1, <3>2
  <2> HIDE DEF v
  <2>2. ASSUME NEW f
        PROVE  [t \in SUBSET (DOMAIN s) |->
                  IF t = {} THEN "Enforce"
                  ELSE IF s[Max(t)].spec.enforcement = "" THEN f[t \ {Max(t)}]
                       ELSE s[Max(t)].spec.enforcement]
               = [t \in SUBSET (DOMAIN s) |->
                    IF t = {} THEN "Enforce"
                    ELSE IF v[s[Max(t)]] = "" THEN f[t \ {Max(t)}] ELSE v[s[Max(t)]]]
    BY <2>1
  <2> QED BY <2>2 DEF Overwriting
<1> HIDE DEF Body
<1>3. Overwriting(h, s, v, "", "Enforce")
  <2> HIDE DEF v
  <2>1. \E f : Body(f) BY <1>2, OverwritingExists
  <2>2. Body(h) BY <2>1, Zenon
  <2> HIDE DEF h
  <2> QED BY <1>2, <2>2
<1> HIDE DEF h
<1>4. LastSet(enforcementOf(s), s, v, "", "Enforce")
  <2> HIDE DEF v
  <2> QED BY <1>1, <1>3, LastWins
<1>5. /\ \A i \in 1..Len(s) : v[s[i]] = s[i].spec.enforcement
      /\ \A i \in 1..Len(s) : \A j \in (i + 1)..Len(s) : j \in 1..Len(s)
  <2>1. \A i \in 1..Len(s) : s[i] \in S OBVIOUS
  <2> QED BY <2>1
<1> HIDE DEF v
<1> QED BY <1>4, <1>5 DEF LastSet

\* The loop over gateway returns the last integration set, or none.
LEMMA GatewayOf ==
  ASSUME NEW S, NEW s \in Seq(S)
  PROVE  \/ /\ gatewayOf(s) = NoGateway
            /\ \A i \in 1..Len(s) : s[i].spec.gateway = NoGateway
         \/ \E i \in 1..Len(s) :
               /\ s[i].spec.gateway # NoGateway
               /\ \A j \in (i + 1)..Len(s) : s[j].spec.gateway = NoGateway
               /\ gatewayOf(s) = s[i].spec.gateway
<1> DEFINE v == [p \in S |-> p.spec.gateway]
           Body(f) == f = [t \in SUBSET (DOMAIN s) |->
                             IF t = {} THEN NoGateway
                             ELSE IF s[Max(t)].spec.gateway = NoGateway THEN f[t \ {Max(t)}]
                                  ELSE s[Max(t)].spec.gateway]
           h == CHOOSE f : Body(f)
<1>1. gatewayOf(s) = h[DOMAIN s]
  BY Zenon DEF gatewayOf, Overwrite, FoldLeft, MapThenFoldSet
<1>2. \A f : Body(f) <=> Overwriting(f, s, v, NoGateway, NoGateway)
  <2>1. \A t \in SUBSET (DOMAIN s) : t # {} => v[s[Max(t)]] = s[Max(t)].spec.gateway
    <3>1. Len(s) \in Nat /\ DOMAIN s = 1..Len(s) /\ \A i \in DOMAIN s : s[i] \in S OBVIOUS
    <3>2. \A t \in SUBSET (DOMAIN s) : t # {} => Max(t) \in DOMAIN s BY <3>1, MaxOf
    <3> QED BY <3>1, <3>2
  <2> HIDE DEF v
  <2>2. ASSUME NEW f
        PROVE  [t \in SUBSET (DOMAIN s) |->
                  IF t = {} THEN NoGateway
                  ELSE IF s[Max(t)].spec.gateway = NoGateway THEN f[t \ {Max(t)}]
                       ELSE s[Max(t)].spec.gateway]
               = [t \in SUBSET (DOMAIN s) |->
                    IF t = {} THEN NoGateway
                    ELSE IF v[s[Max(t)]] = NoGateway THEN f[t \ {Max(t)}] ELSE v[s[Max(t)]]]
    BY <2>1
  <2> QED BY <2>2 DEF Overwriting
<1> HIDE DEF Body
<1>3. Overwriting(h, s, v, NoGateway, NoGateway)
  <2> HIDE DEF v
  <2>1. \E f : Body(f) BY <1>2, OverwritingExists
  <2>2. Body(h) BY <2>1, Zenon
  <2> HIDE DEF h
  <2> QED BY <1>2, <2>2
<1> HIDE DEF h
<1>4. LastSet(gatewayOf(s), s, v, NoGateway, NoGateway)
  <2> HIDE DEF v
  <2> QED BY <1>1, <1>3, LastWins
<1>5. /\ \A i \in 1..Len(s) : v[s[i]] = s[i].spec.gateway
      /\ \A i \in 1..Len(s) : \A j \in (i + 1)..Len(s) : j \in 1..Len(s)
  <2>1. \A i \in 1..Len(s) : s[i] \in S OBVIOUS
  <2> QED BY <2>1
<1> HIDE DEF v
<1> QED BY <1>4, <1>5 DEF LastSet

\* The loop over defaultCredentialRef returns the last one set, or none.
LEMMA DefaultCredOf ==
  ASSUME NEW S, NEW s \in Seq(S)
  PROVE  \/ /\ defaultCredOf(s) = NoCred
            /\ \A i \in 1..Len(s) : s[i].spec.defaultCred = NoCred
         \/ \E i \in 1..Len(s) :
               /\ s[i].spec.defaultCred # NoCred
               /\ \A j \in (i + 1)..Len(s) : s[j].spec.defaultCred = NoCred
               /\ defaultCredOf(s) = s[i].spec.defaultCred
<1> DEFINE v == [p \in S |-> p.spec.defaultCred]
           Body(f) == f = [t \in SUBSET (DOMAIN s) |->
                             IF t = {} THEN NoCred
                             ELSE IF s[Max(t)].spec.defaultCred = NoCred THEN f[t \ {Max(t)}]
                                  ELSE s[Max(t)].spec.defaultCred]
           h == CHOOSE f : Body(f)
<1>1. defaultCredOf(s) = h[DOMAIN s]
  BY Zenon DEF defaultCredOf, Overwrite, FoldLeft, MapThenFoldSet
<1>2. \A f : Body(f) <=> Overwriting(f, s, v, NoCred, NoCred)
  <2>1. \A t \in SUBSET (DOMAIN s) : t # {} => v[s[Max(t)]] = s[Max(t)].spec.defaultCred
    <3>1. Len(s) \in Nat /\ DOMAIN s = 1..Len(s) /\ \A i \in DOMAIN s : s[i] \in S OBVIOUS
    <3>2. \A t \in SUBSET (DOMAIN s) : t # {} => Max(t) \in DOMAIN s BY <3>1, MaxOf
    <3> QED BY <3>1, <3>2
  <2> HIDE DEF v
  <2>2. ASSUME NEW f
        PROVE  [t \in SUBSET (DOMAIN s) |->
                  IF t = {} THEN NoCred
                  ELSE IF s[Max(t)].spec.defaultCred = NoCred THEN f[t \ {Max(t)}]
                       ELSE s[Max(t)].spec.defaultCred]
               = [t \in SUBSET (DOMAIN s) |->
                    IF t = {} THEN NoCred
                    ELSE IF v[s[Max(t)]] = NoCred THEN f[t \ {Max(t)}] ELSE v[s[Max(t)]]]
    BY <2>1
  <2> QED BY <2>2 DEF Overwriting
<1> HIDE DEF Body
<1>3. Overwriting(h, s, v, NoCred, NoCred)
  <2> HIDE DEF v
  <2>1. \E f : Body(f) BY <1>2, OverwritingExists
  <2>2. Body(h) BY <2>1, Zenon
  <2> HIDE DEF h
  <2> QED BY <1>2, <2>2
<1> HIDE DEF h
<1>4. LastSet(defaultCredOf(s), s, v, NoCred, NoCred)
  <2> HIDE DEF v
  <2> QED BY <1>1, <1>3, LastWins
<1>5. /\ \A i \in 1..Len(s) : v[s[i]] = s[i].spec.defaultCred
      /\ \A i \in 1..Len(s) : \A j \in (i + 1)..Len(s) : j \in 1..Len(s)
  <2>1. \A i \in 1..Len(s) : s[i] \in S OBVIOUS
  <2> QED BY <2>1
<1> HIDE DEF v
<1> QED BY <1>4, <1>5 DEF LastSet

\* The limits a set of policies puts on window w.
Limits(S, w) == {p.spec.quota[w] : p \in {q \in S : q.spec.quota # NoQuota}} \ {Unset}

\* minQuota of two quotas is a quota, is nil only when both are, and works
\* window by window.
LEMMA MinQuota ==
  ASSUME NEW a \in TokenQuota \cup {NoQuota}, NEW b \in TokenQuota \cup {NoQuota}
  PROVE  /\ minQuota(a, b) \in TokenQuota \cup {NoQuota}
         /\ minQuota(a, b) = NoQuota <=> a = NoQuota /\ b = NoQuota
         /\ a = NoQuota => minQuota(a, b) = b
         /\ b = NoQuota => minQuota(a, b) = a
         /\ a # NoQuota /\ b # NoQuota =>
               \A w \in Windows : minQuota(a, b)[w] = minPtr(a[w], b[w])
BY NilAssumption DEF minQuota, minPtr, TokenQuota

\* acc is the tightest quota of the policies in S, in window w.
Tightest(acc, S, w) ==
    IF Limits(S, w) = {} THEN acc = NoQuota \/ acc[w] = Unset
    ELSE /\ acc # NoQuota
         /\ acc[w] \in Limits(S, w)
         /\ \A x \in Limits(S, w) : acc[w] <= x

\* One round of the loop over minQuota.
LEMMA TightestStep ==
  ASSUME NEW acc \in TokenQuota \cup {NoQuota}, NEW S, NEW w \in Windows, NEW p,
         \A q \in S \cup {p} : q.spec.quota \in TokenQuota \cup {NoQuota},
         Tightest(acc, S, w)
  PROVE  Tightest(minQuota(acc, p.spec.quota), S \cup {p}, w)
<1> DEFINE b == p.spec.quota
           L == Limits(S, w)
           new == minQuota(acc, b)
<1>1. b \in TokenQuota \cup {NoQuota} OBVIOUS
<1>2. L \subseteq Nat
  BY NilAssumption DEF Limits, TokenQuota
<1>3. Limits(S \cup {p}, w) = L \cup (IF b = NoQuota THEN {} ELSE {b[w]} \ {Unset})
  BY DEF Limits
<1>4. /\ b # NoQuota => b[w] \in Nat \cup {Unset}
      /\ acc # NoQuota => acc[w] \in Nat \cup {Unset}
  BY <1>1 DEF TokenQuota
<1>5. IF L = {} THEN acc = NoQuota \/ acc[w] = Unset
      ELSE /\ acc # NoQuota
           /\ acc[w] \in L
           /\ \A x \in L : acc[w] <= x
  BY DEF Tightest
<1> HIDE DEF L, b
<1>6. CASE b = NoQuota
  <2>1. new = acc /\ Limits(S \cup {p}, w) = L BY <1>1, <1>3, <1>6, MinQuota
  <2> QED BY <2>1, <1>5 DEF Tightest, b
<1>7. CASE b # NoQuota /\ acc = NoQuota
  <2>1. new = b /\ L = {} BY <1>1, <1>5, <1>7, MinQuota
  <2>2. Limits(S \cup {p}, w) = {b[w]} \ {Unset} BY <2>1, <1>3, <1>7
  <2> HIDE DEF new
  <2>3. Tightest(new, S \cup {p}, w)
    <3>1. CASE b[w] = Unset
      <4>1. Limits(S \cup {p}, w) = {} BY <2>2, <3>1
      <4> QED BY <4>1, <2>1, <3>1 DEF Tightest
    <3>2. CASE b[w] # Unset
      <4>1. Limits(S \cup {p}, w) = {b[w]} BY <2>2, <3>2
      <4>2. b[w] \in Nat BY <3>2, <1>4, <1>7
      <4>3. b[w] <= b[w] BY <4>2
      <4> QED BY <4>1, <4>3, <2>1, <1>7 DEF Tightest
    <3> QED BY <3>1, <3>2
  <2> QED BY <2>3 DEF new, b
<1>8. CASE b # NoQuota /\ acc # NoQuota
  <2>1. new # NoQuota /\ new[w] = minPtr(acc[w], b[w]) BY <1>1, <1>8, MinQuota
  <2>2. Limits(S \cup {p}, w) = L \cup ({b[w]} \ {Unset}) BY <1>3, <1>8
  <2> HIDE DEF new
  <2>3. CASE b[w] = Unset
    <3>1. new[w] = acc[w] /\ Limits(S \cup {p}, w) = L BY <2>1, <2>2, <2>3 DEF minPtr
    <3>2. Tightest(new, S \cup {p}, w) BY <3>1, <2>1, <1>5, <1>8 DEF Tightest
    <3> QED BY <3>2 DEF new, b
  <2>4. CASE b[w] # Unset /\ acc[w] = Unset
    <3>1. L = {} BY <1>5, <1>2, <2>4, NilAssumption
    <3>2. new[w] = b[w]
      <4>1. new[w] = minPtr(Unset, b[w]) BY <2>1, <2>4
      <4> QED BY <4>1 DEF minPtr
    <3>5. Limits(S \cup {p}, w) = {b[w]} BY <3>1, <2>2, <2>4
    <3>4. b[w] \in Nat BY <2>4, <1>4, <1>8
    <3>6. b[w] <= b[w] BY <3>4
    <3>3. Tightest(new, S \cup {p}, w) BY <3>2, <3>5, <3>6, <2>1 DEF Tightest
    <3> QED BY <3>3 DEF new, b
  <2>5. CASE b[w] # Unset /\ acc[w] # Unset
    <3>1. L # {} /\ acc[w] \in L /\ \A x \in L : acc[w] <= x BY <1>5, <1>8, <2>5
    <3>2. Limits(S \cup {p}, w) = L \cup {b[w]} BY <2>2, <2>5
    <3>3. acc[w] \in Nat /\ b[w] \in Nat BY <1>4, <1>8, <2>5
    <3>4. new[w] = IF acc[w] <= b[w] THEN acc[w] ELSE b[w] BY <2>1, <2>5 DEF minPtr
    <3>5. new[w] \in L \cup {b[w]} /\ \A x \in L \cup {b[w]} : new[w] <= x
      BY <3>1, <3>3, <3>4, <1>2
    <3>6. Tightest(new, S \cup {p}, w) BY <3>2, <3>5, <2>1 DEF Tightest
    <3> QED BY <3>6 DEF new, b
  <2> QED BY <2>3, <2>4, <2>5
<1> QED BY <1>6, <1>7, <1>8

\* The loop over minQuota, round by round.
LEMMA QuotaLoop ==
  ASSUME NEW S, NEW s \in Seq(S),
         \A p \in S : p.spec.quota \in TokenQuota \cup {NoQuota}
  PROVE  \E g : /\ g[0] = NoQuota
                /\ \A i \in 1..Len(s) : g[i] = minQuota(g[i - 1], s[i].spec.quota)
                /\ quotaOf(s) = g[Len(s)]
<1> DEFINE A == TokenQuota \cup {NoQuota}
           step == [x \in A \X S |-> minQuota(x[1], x[2].spec.quota)]
           Body(f) == f = [t \in SUBSET (DOMAIN s) |->
                             IF t = {} THEN NoQuota
                             ELSE minQuota(f[t \ {Max(t)}], s[Max(t)].spec.quota)]
           h == CHOOSE f : Body(f)
<1>1. quotaOf(s) = h[DOMAIN s]
  BY Zenon DEF quotaOf, FoldLeft, MapThenFoldSet
<1>2. DOMAIN s = 1..Len(s) /\ Len(s) \in Nat /\ \A i \in 1..Len(s) : s[i] \in S OBVIOUS
<1>3. \A x \in A, p \in S : step[<<x, p>>] = minQuota(x, p.spec.quota) OBVIOUS
<1>4. step \in [A \X S -> A] BY MinQuota
<1>5. NoQuota \in A OBVIOUS
<1> HIDE DEF step, A
<1>6. \A t \in SUBSET (DOMAIN s) : t # {} => s[Max(t)] \in S BY <1>2, MaxOf
<1>7. PICK f \in [SUBSET (DOMAIN s) -> A] : IsLoop(f, s, step, NoQuota)
  BY <1>4, <1>5, LoopExists
<1>8. \A t \in SUBSET (DOMAIN s) :
         f[t] = IF t = {} THEN NoQuota ELSE minQuota(f[t \ {Max(t)}], s[Max(t)].spec.quota)
  BY <1>3, <1>6, <1>7 DEF IsLoop
<1>9. Body(f) BY <1>7, <1>8
<1> HIDE DEF Body
<1>10. Body(h) BY <1>9, Zenon
<1> HIDE DEF h
<1>11. Computes(h, s, step, NoQuota, A)
  BY <1>3, <1>6, <1>10 DEF Body, Computes
<1>12. PICK g \in [0..Len(s) -> A] : RoundsOf(g, h, s, step, NoQuota)
  BY <1>4, <1>5, <1>11, LoopRounds
<1>13. \A i \in 1..Len(s) : g[i] = minQuota(g[i - 1], s[i].spec.quota)
  <2>1. \A i \in 1..Len(s) : i - 1 \in 0..Len(s) /\ s[i] \in S BY <1>2
  <2> QED BY <1>3, <1>12, <2>1 DEF RoundsOf
<1> QED BY <1>1, <1>12, <1>13 DEF RoundsOf

\* All of them: the effective quota is the tightest of its policies, window by
\* window.
LEMMA QuotaOf ==
  ASSUME NEW S, NEW s \in Seq(S), NEW w \in Windows,
         \A p \in S : p.spec.quota \in TokenQuota \cup {NoQuota}
  PROVE  Tightest(quotaOf(s), ToSet(s), w)
<1> DEFINE n == Len(s)
           First(k) == {s[i] : i \in 1..k}
           Good == {ka \in (0..n) \X (TokenQuota \cup {NoQuota}) :
                       Tightest(ka[2], First(ka[1]), w)}
<1>0. PICK g : /\ g[0] = NoQuota
               /\ \A i \in 1..n : g[i] = minQuota(g[i - 1], s[i].spec.quota)
               /\ quotaOf(s) = g[n]
  BY QuotaLoop
<1>2. n \in Nat /\ \A i \in 1..n : s[i] \in S OBVIOUS
<1>3. <<0, NoQuota>> \in Good
  <2>1. First(0) = {} OBVIOUS
  <2> HIDE DEF First
  <2> QED BY <1>2, <2>1 DEF Tightest, Limits
<1>4. ASSUME NEW k \in 1..n, <<k - 1, g[k - 1]>> \in Good
      PROVE  <<k, g[k]>> \in Good
  <2> DEFINE acc == g[k - 1]
  <2>0. g[k] = minQuota(acc, s[k].spec.quota) BY <1>0
  <2> HIDE DEF acc
  <2>1. acc \in TokenQuota \cup {NoQuota} /\ Tightest(acc, First(k - 1), w) BY <1>4 DEF acc
  <2>2. First(k) = First(k - 1) \cup {s[k]}
    <3>1. 1..k = (1..(k-1)) \cup {k} BY <1>2
    <3> QED BY <3>1
  <2>3. \A q \in First(k - 1) \cup {s[k]} : q.spec.quota \in TokenQuota \cup {NoQuota}
    BY <1>2
  <2>4. minQuota(acc, s[k].spec.quota) \in TokenQuota \cup {NoQuota}
    BY <2>1, <2>3, MinQuota
  <2> HIDE DEF First
  <2>5. Tightest(minQuota(acc, s[k].spec.quota), First(k), w)
    <3> DEFINE F == First(k - 1)
               p == s[k]
    <3>1. Tightest(acc, F, w) /\ First(k) = F \cup {p} BY <2>1, <2>2
    <3>2. \A q \in F \cup {p} : q.spec.quota \in TokenQuota \cup {NoQuota} BY <2>3
    <3> HIDE DEF F, p
    <3>3. Tightest(minQuota(acc, p.spec.quota), F \cup {p}, w) BY <3>1, <3>2, <2>1, TightestStep
    <3> QED BY <3>1, <3>3 DEF p
  <2> QED BY <2>0, <2>4, <2>5, <1>2
<1> HIDE DEF Good
<1>5. <<n, g[n]>> \in Good BY <1>0, <1>2, <1>3, <1>4, RoundInduction
<1>6. Tightest(g[n], First(n), w) BY <1>5 DEF Good
<1>7. First(n) = ToSet(s) BY DEF ToSet
<1> QED BY <1>0, <1>6, <1>7

-----------------------------------------------------------------------------
(* The tiers of a scope, as sets *)

\* The policies of the three tiers, as sets.
MatchingPolicies(C, l) == {p \in C : l \in p.spec.namespaceSelector}
DefaultPolicies(T) == {p \in T : IsEmpty(p.spec.selector)}
WorkloadPolicies(T, pod) ==
    {p \in T : /\ ~IsEmpty(p.spec.selector)
               /\ pod # NoIdentity
               /\ workloadMatches(p.spec.selector, pod)}

\* The rules of a set of policies.
RulesOf(S) == UNION {ToSet(p.spec.models) : p \in S}

\* What the API server holds: policies that passed the schema.
Policies(C, T) ==
    /\ Listed(C) /\ Listed(T)
    /\ \A p \in C : PolicySpec(p.spec)
    /\ \A p \in T : TokenPolicySpec(p.spec)

\* Rules of admitted policies are as the schema admits them.
LEMMA RulesTyped ==
  ASSUME NEW C, NEW T, Policies(C, T)
  PROVE  /\ IsRules(RulesOf(C \cup T))
         /\ \A p \in C \cup T : p.spec.models \in Seq(RulesOf(C \cup T))
<1> SUFFICES ASSUME NEW p \in C \cup T
             PROVE  /\ \A r \in ToSet(p.spec.models) : r.action \in PermissionAction
                    /\ p.spec.models \in Seq(RulesOf(C \cup T))
  BY DEF IsRules, RulesOf
<1> DEFINE ms == p.spec.models
           A == {r \in ToSet(ms) : r.action \in PermissionAction}
<1>1. ms \in Seq(A) BY DEF Policies, PolicySpec, TokenPolicySpec
<1>2. A \subseteq RulesOf(C \cup T) BY DEF RulesOf
<1>3. \A r \in A : r.action \in PermissionAction OBVIOUS
<1> HIDE DEF ms, A
<1>4. ToSet(ms) \subseteq A BY <1>1, ToSetTyped
<1>5. ms \in Seq(RulesOf(C \cup T)) BY <1>1, <1>2, SeqSubset
<1> QED BY <1>3, <1>4, <1>5 DEF ms

\* The matched policies of the three tiers, in any order, are the three sets.
LEMMA MatchedTiers ==
  ASSUME NEW C, NEW T, Policies(C, T), NEW l, NEW pod
  PROVE  /\ clusterMatched(C, l) \in Seq(MatchingPolicies(C, l))
         /\ ToSet(clusterMatched(C, l)) = MatchingPolicies(C, l)
         /\ nsDefaults(T) \in Seq(DefaultPolicies(T))
         /\ ToSet(nsDefaults(T)) = DefaultPolicies(T)
         /\ wlMatched(T, pod) \in Seq(WorkloadPolicies(T, pod))
         /\ ToSet(wlMatched(T, pod)) = WorkloadPolicies(T, pod)
<1>1. Listed(MatchingPolicies(C, l)) BY ListedSubset DEF MatchingPolicies, Policies
<1>2. clusterMatched(C, l) = sortByName(MatchingPolicies(C, l))
  BY DEF clusterMatched, MatchingPolicies
<1>3. /\ Listed(DefaultPolicies(T))
      /\ \A p \in DefaultPolicies(T) : p.spec.priority \in Int
  BY ListedSubset DEF DefaultPolicies, Policies, TokenPolicySpec
<1>4. nsDefaults(T) = sortByPriority(DefaultPolicies(T)) BY DEF nsDefaults, DefaultPolicies
<1>5. /\ Listed(WorkloadPolicies(T, pod))
      /\ \A p \in WorkloadPolicies(T, pod) : p.spec.priority \in Int
  BY ListedSubset DEF WorkloadPolicies, Policies, TokenPolicySpec
<1>6. wlMatched(T, pod) = sortByPriority(WorkloadPolicies(T, pod))
  BY DEF wlMatched, WorkloadPolicies
<1> QED BY <1>1, <1>2, <1>3, <1>4, <1>5, <1>6, SortByName, SortByPriority

\* A tier's rules are those of its policies.
LEMMA TierRules ==
  ASSUME NEW C, NEW T, Policies(C, T), NEW s \in Seq(C \cup T)
  PROVE  /\ Rules(s) \in Seq(RulesOf(C \cup T))
         /\ ToSet(Rules(s)) = RulesOf(ToSet(s))
<1>1. \A p \in C \cup T : p.spec.models \in Seq(RulesOf(C \cup T)) BY RulesTyped
<1> QED BY <1>1, RulesContents DEF RulesOf

\* eff has rules from R, and in its tiers those of Rc, Rn and Rw.
HasRules(eff, R, Rc, Rn, Rw) ==
    /\ eff.cluster \in Seq(R) /\ ToSet(eff.cluster) = Rc
    /\ eff.ns \in Seq(R) /\ ToSet(eff.ns) = Rn
    /\ eff.wl \in Seq(R) /\ ToSet(eff.wl) = Rw

\* So are the rules of the three tiers of what Resolve returns.
LEMMA ResolvedRules ==
  ASSUME NEW C, NEW T, Policies(C, T), NEW l, NEW pod
  PROVE  HasRules(Resolve(C, T, l, pod), RulesOf(C \cup T), RulesOf(MatchingPolicies(C, l)),
                  RulesOf(DefaultPolicies(T)), RulesOf(WorkloadPolicies(T, pod)))
<1>1. /\ MatchingPolicies(C, l) \in SUBSET (C \cup T)
      /\ DefaultPolicies(T) \in SUBSET (C \cup T)
      /\ WorkloadPolicies(T, pod) \in SUBSET (C \cup T)
  BY DEF MatchingPolicies, DefaultPolicies, WorkloadPolicies
<1>2. /\ Resolve(C, T, l, pod).cluster = Rules(clusterMatched(C, l))
      /\ Resolve(C, T, l, pod).ns = Rules(nsDefaults(T))
      /\ Resolve(C, T, l, pod).wl = Rules(wlMatched(T, pod))
  BY ResolveIsCombine, CombineFields
<1>3. /\ Rules(clusterMatched(C, l)) \in Seq(RulesOf(C \cup T))
      /\ ToSet(Rules(clusterMatched(C, l))) = RulesOf(MatchingPolicies(C, l))
  <2>1. clusterMatched(C, l) \in Seq(MatchingPolicies(C, l)) /\ ToSet(clusterMatched(C, l)) = MatchingPolicies(C, l) BY MatchedTiers
  <2>2. clusterMatched(C, l) \in Seq(C \cup T) BY <1>1, <2>1, SeqSubset
  <2> QED BY <2>1, <2>2, TierRules
<1>4. /\ Rules(nsDefaults(T)) \in Seq(RulesOf(C \cup T))
      /\ ToSet(Rules(nsDefaults(T))) = RulesOf(DefaultPolicies(T))
  <2>1. nsDefaults(T) \in Seq(DefaultPolicies(T)) /\ ToSet(nsDefaults(T)) = DefaultPolicies(T) BY MatchedTiers
  <2>2. nsDefaults(T) \in Seq(C \cup T) BY <1>1, <2>1, SeqSubset
  <2> QED BY <2>1, <2>2, TierRules
<1>5. /\ Rules(wlMatched(T, pod)) \in Seq(RulesOf(C \cup T))
      /\ ToSet(Rules(wlMatched(T, pod))) = RulesOf(WorkloadPolicies(T, pod))
  <2>1. wlMatched(T, pod) \in Seq(WorkloadPolicies(T, pod)) /\ ToSet(wlMatched(T, pod)) = WorkloadPolicies(T, pod) BY MatchedTiers
  <2>2. wlMatched(T, pod) \in Seq(C \cup T) BY <1>1, <2>1, SeqSubset
  <2> QED BY <2>1, <2>2, TierRules
<1> QED BY <1>2, <1>3, <1>4, <1>5 DEF HasRules

\* Narrow, never widen: the verdict in terms of the policies.
LEMMA ResolvedVerdict ==
  ASSUME NEW C, NEW T, Policies(C, T), NEW l, NEW pod, NEW m
  PROVE  Permit(Resolve(C, T, l, pod), m).allowed <=>
             /\ ~Forbids(RulesOf(MatchingPolicies(C, l)), m)
             /\ ~Forbids(RulesOf(DefaultPolicies(T)), m)
             /\ ~Forbids(RulesOf(WorkloadPolicies(T, pod)), m)
<1>1. IsRules(RulesOf(C \cup T)) BY RulesTyped
<1>2. HasRules(Resolve(C, T, l, pod), RulesOf(C \cup T), RulesOf(MatchingPolicies(C, l)),
               RulesOf(DefaultPolicies(T)), RulesOf(WorkloadPolicies(T, pod)))
  BY ResolvedRules
<1> QED BY <1>1, <1>2, PermitVerdict DEF HasRules

\* The policies of the three tiers, in the order in which they are applied.
LEMMA AppliedPolicies ==
  ASSUME NEW C, NEW T, Policies(C, T), NEW l, NEW pod
  PROVE  LET applied == clusterMatched(C, l) \o nsDefaults(T) \o wlMatched(T, pod)
         IN  /\ applied \in Seq(C \cup T)
             /\ ToSet(applied) = MatchingPolicies(C, l) \cup DefaultPolicies(T)
                                    \cup WorkloadPolicies(T, pod)
<1> DEFINE a == clusterMatched(C, l)
           b == nsDefaults(T)
           c == wlMatched(T, pod)
           S == C \cup T
<1>1. MatchingPolicies(C, l) \subseteq S BY DEF MatchingPolicies
<1>2. DefaultPolicies(T) \subseteq S BY DEF DefaultPolicies
<1>3. WorkloadPolicies(T, pod) \subseteq S BY DEF WorkloadPolicies
<1>4. a \in Seq(S) /\ ToSet(a) = MatchingPolicies(C, l)
  BY <1>1, MatchedTiers, SeqSubset
<1>5. b \in Seq(S) /\ ToSet(b) = DefaultPolicies(T)
  BY <1>2, MatchedTiers, SeqSubset
<1>6. c \in Seq(S) /\ ToSet(c) = WorkloadPolicies(T, pod)
  BY <1>3, MatchedTiers, SeqSubset
<1> HIDE DEF a, b, c, S
<1>7. a \o b \in Seq(S) /\ ToSet(a \o b) = ToSet(a) \cup ToSet(b)
  BY <1>4, <1>5, ToSetOfConcat
<1>8. (a \o b) \o c \in Seq(S) /\ ToSet((a \o b) \o c) = ToSet(a \o b) \cup ToSet(c)
  <2> DEFINE d == a \o b
  <2>1. d \in Seq(S) BY <1>7
  <2> HIDE DEF d
  <2>2. d \o c \in Seq(S) /\ ToSet(d \o c) = ToSet(d) \cup ToSet(c) BY <2>1, <1>6, ToSetOfConcat
  <2> QED BY <2>2 DEF d
<1> QED BY <1>4, <1>5, <1>6, <1>7, <1>8 DEF a, b, c, S

-----------------------------------------------------------------------------
(* Credentials *)

\* A sequence of rules names finitely many credentials.
LEMMA CredsFinite ==
  ASSUME NEW S, NEW s \in Seq(S), NEW m
  PROVE  IsFiniteSet(CredsFor(ToSet(s), m))
<1> DEFINE I == {i \in 1..Len(s) : s[i].action # "Deny" /\ modelMatches(s[i], m)}
           K == CredsFor(ToSet(s), m)
           f == [i \in I |-> s[i].cred]
<1>1. IsFiniteSet(I)
  <2>1. Len(s) \in Nat OBVIOUS
  <2>2. IsFiniteSet(1..Len(s)) BY <2>1, FS_Interval
  <2> QED BY <2>2, FS_Subset
<1>2. f \in Surjection(I, K) BY DEF Surjection, CredsFor, ToSet
<1> HIDE DEF f, I, K
<1> QED BY <1>1, <1>2, FS_Surjection DEF K

\* x is a credential that a tier with credentials K may supply, and one of
\* them if there is any.
Supplied(x, K) == (x = NoCred \/ x \in K) /\ (K # {} => x \in K)

\* The credential of a permitted model: the narrowest that a tier supplies,
\* else the cluster default.
NarrowestCred(x, Kw, Kn, Kc, default) ==
    \E w, n, c :
        /\ Supplied(w, Kw) /\ Supplied(n, Kn) /\ Supplied(c, Kc)
        /\ x = IF w # NoCred THEN w ELSE IF n # NoCred THEN n
               ELSE IF c # NoCred THEN c ELSE default

\* The credential of a permitted model, in terms of the policies.
LEMMA ResolvedCredential ==
  ASSUME NEW C, NEW T, Policies(C, T), NEW l, NEW pod, NEW m,
         Permit(Resolve(C, T, l, pod), m).allowed
  PROVE  /\ NarrowestCred(Permit(Resolve(C, T, l, pod), m).cred,
                          CredsFor(RulesOf(WorkloadPolicies(T, pod)), m),
                          CredsFor(RulesOf(DefaultPolicies(T)), m),
                          CredsFor(RulesOf(MatchingPolicies(C, l)), m),
                          defaultCredOf(clusterMatched(C, l)))
         /\ IsFiniteSet(CredsFor(RulesOf(WorkloadPolicies(T, pod)), m))
         /\ IsFiniteSet(CredsFor(RulesOf(DefaultPolicies(T)), m))
         /\ IsFiniteSet(CredsFor(RulesOf(MatchingPolicies(C, l)), m))
<1> DEFINE eff == Resolve(C, T, l, pod)
           R == RulesOf(C \cup T)
<1>1. IsRules(R) BY RulesTyped
<1>2. /\ eff.cluster \in Seq(R) /\ ToSet(eff.cluster) = RulesOf(MatchingPolicies(C, l))
      /\ eff.ns \in Seq(R) /\ ToSet(eff.ns) = RulesOf(DefaultPolicies(T))
      /\ eff.wl \in Seq(R) /\ ToSet(eff.wl) = RulesOf(WorkloadPolicies(T, pod))
  <2>1. HasRules(Resolve(C, T, l, pod), RulesOf(C \cup T), RulesOf(MatchingPolicies(C, l)),
                 RulesOf(DefaultPolicies(T)), RulesOf(WorkloadPolicies(T, pod)))
    BY ResolvedRules
  <2> QED BY <2>1 DEF HasRules
<1>3. eff.defaultCred = defaultCredOf(clusterMatched(C, l))
  BY ResolveIsCombine, CombineFields
<1> HIDE DEF eff, R
<1>4. /\ Permit(eff, m).allowed
      /\ ~Forbids(ToSet(eff.cluster), m)
      /\ ~Forbids(ToSet(eff.ns), m)
      /\ ~Forbids(ToSet(eff.wl), m)
      /\ Permit(eff, m).cred =
            IF evalTier(eff.wl, m).cred # NoCred THEN evalTier(eff.wl, m).cred
            ELSE IF evalTier(eff.ns, m).cred # NoCred THEN evalTier(eff.ns, m).cred
            ELSE IF evalTier(eff.cluster, m).cred # NoCred THEN evalTier(eff.cluster, m).cred
            ELSE eff.defaultCred
  <2>1. Permit(eff, m).allowed BY DEF eff
  <2> QED BY <2>1, <1>1, <1>2, PermitVerdict
<1>5. /\ Supplied(evalTier(eff.wl, m).cred, CredsFor(ToSet(eff.wl), m))
      /\ Supplied(evalTier(eff.ns, m).cred, CredsFor(ToSet(eff.ns), m))
      /\ Supplied(evalTier(eff.cluster, m).cred, CredsFor(ToSet(eff.cluster), m))
  BY <1>1, <1>2, <1>4, EvalTier DEF Supplied
<1>6. NarrowestCred(Permit(eff, m).cred, CredsFor(ToSet(eff.wl), m), CredsFor(ToSet(eff.ns), m),
                    CredsFor(ToSet(eff.cluster), m), eff.defaultCred)
  <2> DEFINE w == evalTier(eff.wl, m).cred
             n == evalTier(eff.ns, m).cred
             c == evalTier(eff.cluster, m).cred
             Kw == CredsFor(ToSet(eff.wl), m)
             Kn == CredsFor(ToSet(eff.ns), m)
             Kc == CredsFor(ToSet(eff.cluster), m)
             x == Permit(eff, m).cred
  <2>1. Supplied(w, Kw) /\ Supplied(n, Kn) /\ Supplied(c, Kc) BY <1>5
  <2>2. x = IF w # NoCred THEN w ELSE IF n # NoCred THEN n
            ELSE IF c # NoCred THEN c ELSE eff.defaultCred
    BY <1>4
  <2> HIDE DEF w, n, c, Kw, Kn, Kc, x
  <2>3. NarrowestCred(x, Kw, Kn, Kc, eff.defaultCred) BY <2>1, <2>2 DEF NarrowestCred
  <2> QED BY <2>3 DEF Kw, Kn, Kc, x
<1>7. /\ IsFiniteSet(CredsFor(ToSet(eff.wl), m))
      /\ IsFiniteSet(CredsFor(ToSet(eff.ns), m))
      /\ IsFiniteSet(CredsFor(ToSet(eff.cluster), m))
  BY <1>2, CredsFinite
<1> QED BY <1>2, <1>3, <1>6, <1>7 DEF eff

\* The cluster default is that of the last policy by name that sets one.
LEMMA ClusterDefault ==
  ASSUME NEW C, NEW T, Policies(C, T), NEW l
  PROVE  LET defaults == {p \in MatchingPolicies(C, l) : p.spec.defaultCred # NoCred}
             Default == CHOOSE p \in defaults : \A q \in defaults : p.name >= q.name
         IN  defaultCredOf(clusterMatched(C, l))
                = IF defaults = {} THEN NoCred ELSE Default.spec.defaultCred
<1> DEFINE A == MatchingPolicies(C, l)
           s == clusterMatched(C, l)
           D == {p \in A : p.spec.defaultCred # NoCred}
           Latest(p) == \A q \in D : p.name >= q.name
           cred == defaultCredOf(s)
<1>1. Listed(A) BY ListedSubset DEF MatchingPolicies, Policies
<1>2. /\ s \in Seq(A) /\ ToSet(s) = A
      /\ \A i, j \in 1..Len(s) : i < j => byName(s[i], s[j])
  <2>1. s = sortByName(A) BY DEF clusterMatched, MatchingPolicies
  <2> HIDE DEF s, A
  <2> QED BY <2>1, <1>1, SortByName
<1> HIDE DEF A, s
<1>3. \/ /\ cred = NoCred
         /\ \A i \in 1..Len(s) : s[i].spec.defaultCred = NoCred
      \/ \E i \in 1..Len(s) :
            /\ s[i].spec.defaultCred # NoCred
            /\ \A j \in (i + 1)..Len(s) : s[j].spec.defaultCred = NoCred
            /\ cred = s[i].spec.defaultCred
  BY <1>2, DefaultCredOf
<1> HIDE DEF cred
<1>4. \A p \in A : \E i \in 1..Len(s) : p = s[i] BY <1>2 DEF ToSet
<1>5. CASE cred = NoCred /\ \A i \in 1..Len(s) : s[i].spec.defaultCred = NoCred
  <2>1. D = {} BY <1>4, <1>5
  <2> QED BY <2>1, <1>5 DEF A, s, cred
<1>6. CASE \E i \in 1..Len(s) :
            /\ s[i].spec.defaultCred # NoCred
            /\ \A j \in (i + 1)..Len(s) : s[j].spec.defaultCred = NoCred
            /\ cred = s[i].spec.defaultCred
  <2> PICK i \in 1..Len(s) :
            /\ s[i].spec.defaultCred # NoCred
            /\ \A j \in (i + 1)..Len(s) : s[j].spec.defaultCred = NoCred
            /\ cred = s[i].spec.defaultCred
    BY <1>6
  <2>1. s[i] \in D /\ s[i] \in A BY <1>2
  <2>2. Latest(s[i])
    <3> SUFFICES ASSUME NEW q \in D PROVE s[i].name >= q.name OBVIOUS
    <3>1. PICK j \in 1..Len(s) : q = s[j] BY <1>4
    <3>2. ~(j \in (i + 1)..Len(s)) BY <3>1
    <3>3. i \in Nat /\ j \in Nat /\ Len(s) \in Nat /\ j <= Len(s) BY <1>2
    <3>4. j <= i BY <3>2, <3>3
    <3>5. s[i].name \in Nat /\ q.name \in Nat BY <1>1, <2>1 DEF Listed
    <3>6. CASE j = i BY <3>1, <3>5, <3>6
    <3>7. CASE j < i
      <4>1. byName(s[j], s[i]) BY <3>7, <1>2
      <4> QED BY <4>1, <3>1, <3>5 DEF byName
    <3> QED BY <3>3, <3>4, <3>6, <3>7
  <2>3. ASSUME NEW p \in D, Latest(p) PROVE p = s[i]
    <3>1. p.name >= s[i].name /\ s[i].name >= p.name BY <2>1, <2>2, <2>3
    <3>2. p \in A /\ p.name \in Nat /\ s[i].name \in Nat BY <1>1, <2>1 DEF Listed
    <3>3. p.name = s[i].name BY <3>1, <3>2
    <3> QED BY <3>2, <3>3, <2>1, <1>1 DEF Listed
  <2>4. (CHOOSE p \in D : Latest(p)) = s[i]
    <3> HIDE DEF D, Latest
    <3> QED BY <2>1, <2>2, <2>3, Zenon
  <2>5. D # {} BY <2>1
  <2> HIDE DEF D
  <2> QED BY <2>4, <2>5 DEF A, s, cred, D
<1> QED BY <1>3, <1>5, <1>6

\* d is no credential, or the default of a cluster policy of the namespace.
DefaultCredFrom(C, l, d) ==
    d = NoCred \/ d \in {p.spec.defaultCred : p \in MatchingPolicies(C, l)}

\* No default comes from a policy that does not select the namespace.
LEMMA DefaultIsFromTier ==
  ASSUME NEW C, NEW T, Policies(C, T), NEW l
  PROVE  DefaultCredFrom(C, l, defaultCredOf(clusterMatched(C, l)))
<1> DEFINE s == clusterMatched(C, l)
           A == MatchingPolicies(C, l)
           d == defaultCredOf(s)
<1>1. s \in Seq(A) BY MatchedTiers
<1>2. d = NoCred \/ \E i \in 1..Len(s) : d = s[i].spec.defaultCred
  <2> HIDE DEF s
  <2> QED BY <1>1, DefaultCredOf
<1> HIDE DEF s, A, d
<1>3. d = NoCred \/ d \in {p.spec.defaultCred : p \in A} BY <1>1, <1>2
<1> QED BY <1>3 DEF DefaultCredFrom, A, d, s

-----------------------------------------------------------------------------
(* Stores of policies, and gateways *)

\* A store of policies: finitely many, each under a name, each a spec that
\* the API server admits.
StoreOK(store, names, specs) ==
    /\ store \in [DOMAIN store -> specs]
    /\ DOMAIN store \subseteq names
    /\ IsFiniteSet(DOMAIN store)

\* The empty store,
LEMMA StoreEmpty ==
  ASSUME NEW names, NEW specs
  PROVE  StoreOK(<<>>, names, specs)
<1>1. <<>> \in [DOMAIN <<>> -> specs] /\ DOMAIN <<>> = {} OBVIOUS
<1> QED BY <1>1, FS_EmptySet DEF StoreOK

\* a store with one more or another spec,
LEMMA StoreExtended ==
  ASSUME NEW store, NEW names, NEW specs, StoreOK(store, names, specs),
         NEW n \in names, NEW spec \in specs
  PROVE  StoreOK([m \in DOMAIN store \cup {n} |-> IF m = n THEN spec ELSE store[m]], names, specs)
<1> DEFINE new == [m \in DOMAIN store \cup {n} |-> IF m = n THEN spec ELSE store[m]]
<1>1. DOMAIN new = DOMAIN store \cup {n} /\ new \in [DOMAIN store \cup {n} -> specs]
  BY DEF StoreOK
<1> HIDE DEF new
<1>2. StoreOK(new, names, specs) BY <1>1, FS_AddElement DEF StoreOK
<1> QED BY <1>2 DEF new

\* and a store with one object deleted are stores.
LEMMA StoreReduced ==
  ASSUME NEW store, NEW names, NEW specs, StoreOK(store, names, specs), NEW n
  PROVE  StoreOK([m \in DOMAIN store \ {n} |-> store[m]], names, specs)
<1> DEFINE new == [m \in DOMAIN store \ {n} |-> store[m]]
<1>1. DOMAIN new = DOMAIN store \ {n} /\ new \in [DOMAIN store \ {n} -> specs]
  BY DEF StoreOK
<1> HIDE DEF new
<1>2. StoreOK(new, names, specs) BY <1>1, FS_RemoveElement DEF StoreOK
<1> QED BY <1>2 DEF new

\* Its objects are a list.
LEMMA StoreListed ==
  ASSUME NEW store, NEW names \in SUBSET Nat, NEW specs, StoreOK(store, names, specs)
  PROVE  /\ Listed({[name |-> n, spec |-> store[n]] : n \in DOMAIN store})
         /\ \A p \in {[name |-> n, spec |-> store[n]] : n \in DOMAIN store} :
               p.name \in names /\ p.spec \in specs
<1> DEFINE S == {[name |-> n, spec |-> store[n]] : n \in DOMAIN store}
           f == [n \in DOMAIN store |-> [name |-> n, spec |-> store[n]]]
<1>1. f \in Surjection(DOMAIN store, S) BY DEF Surjection
<1>2. IsFiniteSet(S) BY <1>1, FS_Surjection DEF StoreOK
<1> QED BY <1>2 DEF Listed, StoreOK

\* Where the gateway of a policy's scope comes from: a policy of the scope.
GatewayFrom(gw, S) == gw = NoGateway \/ \E p \in S : gw = p.spec.gateway

\* The gateway of a combination comes from one of its policies,
LEMMA GatewayOfApplied ==
  ASSUME NEW S, NEW a \in Seq(S), NEW b \in Seq(S), NEW c \in Seq(S)
  PROVE  GatewayFrom(Combine(a, b, c).gateway, S)
<1> DEFINE s == a \o b \o c
           gw == gatewayOf(s)
<1>1. s \in Seq(S) OBVIOUS
<1>2. Combine(a, b, c).gateway = gw BY CombineFields
<1> HIDE DEF s
<1>3. gw = NoGateway \/ \E i \in 1..Len(s) : gw = s[i].spec.gateway BY <1>1, GatewayOf
<1> HIDE DEF gw
<1>4. GatewayFrom(gw, S) BY <1>1, <1>3 DEF GatewayFrom
<1> QED BY <1>2, <1>4

\* and so does the one that ResolveForPolicy returns: none is made up.
LEMMA ScopeGateway ==
  ASSUME NEW C, NEW T, NEW l, NEW target,
         Policies(C, {p \in T : p.name # target.name} \cup {target})
  PROVE  GatewayFrom(ResolveForPolicy(C, T, l, target).gateway,
                     C \cup {p \in T : p.name # target.name} \cup {target})
<1> DEFINE rest == {p \in T : p.name # target.name}
           U == rest \cup {target}
           S == C \cup rest \cup {target}
<1>1. ResolveForPolicy(C, T, l, target) =
         IF IsEmpty(target.spec.selector) THEN Resolve(C, U, l, NoIdentity)
         ELSE Combine(clusterMatched(C, l), nsDefaults(rest), <<target>>)
  BY DEF ResolveForPolicy
<1>2. Policies(C, U) OBVIOUS
<1>3. rest \in SUBSET U OBVIOUS
<1> HIDE DEF rest
<1>4. Policies(C, rest) BY <1>2, <1>3, ListedSubset DEF Policies
<1> HIDE DEF U
<1>5. clusterMatched(C, l) \in Seq(S)
  <2>1. clusterMatched(C, l) \in Seq(MatchingPolicies(C, l)) BY <1>2, MatchedTiers
  <2>2. MatchingPolicies(C, l) \subseteq S BY DEF MatchingPolicies
  <2> HIDE DEF S
  <2> QED BY <2>1, <2>2, SeqSubset
<1>6. nsDefaults(U) \in Seq(S) /\ wlMatched(U, NoIdentity) \in Seq(S)
  <2>1. /\ nsDefaults(U) \in Seq(DefaultPolicies(U))
        /\ wlMatched(U, NoIdentity) \in Seq(WorkloadPolicies(U, NoIdentity))
    BY <1>2, MatchedTiers
  <2>2. DefaultPolicies(U) \subseteq S /\ WorkloadPolicies(U, NoIdentity) \subseteq S
    BY DEF DefaultPolicies, WorkloadPolicies, U
  <2> HIDE DEF S
  <2> QED BY <2>1, <2>2, SeqSubset
<1>7. nsDefaults(rest) \in Seq(S) /\ <<target>> \in Seq(S)
  <2>1. nsDefaults(rest) \in Seq(DefaultPolicies(rest)) BY <1>4, MatchedTiers
  <2>2. DefaultPolicies(rest) \subseteq S /\ target \in S BY DEF DefaultPolicies
  <2> HIDE DEF S
  <2> QED BY <2>1, <2>2, SeqSubset
<1> HIDE DEF S
<1>8. GatewayFrom(Combine(clusterMatched(C, l), nsDefaults(U), wlMatched(U, NoIdentity)).gateway, S)
  BY <1>5, <1>6, GatewayOfApplied
<1>9. GatewayFrom(Combine(clusterMatched(C, l), nsDefaults(rest), <<target>>).gateway, S)
  BY <1>5, <1>7, GatewayOfApplied
<1>10. Resolve(C, U, l, NoIdentity)
          = Combine(clusterMatched(C, l), nsDefaults(U), wlMatched(U, NoIdentity))
  BY ResolveIsCombine
<1>11. GatewayFrom(ResolveForPolicy(C, T, l, target).gateway, S)
  BY <1>1, <1>8, <1>9, <1>10
<1> QED BY <1>11 DEF S, rest

=============================================================================
