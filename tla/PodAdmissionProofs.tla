------------------------- MODULE PodAdmissionProofs -------------------------
(***************************************************************************)
(* Theorems about PodAdmission. The first half is about what admission     *)
(* computes: a pod declares what its claims and its annotation name, each  *)
(* model with the credential of the first claim that has one; and what a   *)
(* call resolves to, permits and binds is what the tiers of                *)
(* PolicyHierarchy say. The code's loops on one side, sets and quantifiers *)
(* on the other. The second half has the theorems: the types, that a call  *)
(* only adds to a pod, the verdict of the validating webhook, the          *)
(* credentials of the mutating one and the record it keeps of them. Of     *)
(* their invariants TypeInv and Record hold whatever happens; Current and  *)
(* Verdict need a last call that nothing disturbed, Earned and Served a    *)
(* request during which nothing stored was written.                        *)
(***************************************************************************)
EXTENDS PodAdmission, ResolverProofs

-----------------------------------------------------------------------------
(* The loops over declarations and credentials *)

\* A model that a claim or the annotation declares.
Declaration == [name : Names, cred : CredRef]

\* The loop that orders the credentials, round by round.
LEMMA CredsLoop ==
  ASSUME NEW W, NEW w \in Seq(W)
  PROVE  \E g : /\ g[0] = <<>>
                /\ \A i \in 1..Len(w) : g[i] = addCred(g[i - 1], w[i])
                /\ FoldLeft(addCred, <<>>, w) = g[Len(w)]
<1> DEFINE A == Seq(W)
           step == [x \in A \X W |-> addCred(x[1], x[2])]
           Body(f) == f = [t \in SUBSET (DOMAIN w) |->
                             IF t = {} THEN <<>> ELSE addCred(f[t \ {Max(t)}], w[Max(t)])]
           h == CHOOSE f : Body(f)
<1>1. FoldLeft(addCred, <<>>, w) = h[DOMAIN w]
  BY Zenon DEF FoldLeft, MapThenFoldSet
<1>2. DOMAIN w = 1..Len(w) /\ Len(w) \in Nat /\ \A i \in 1..Len(w) : w[i] \in W OBVIOUS
<1>3. \A x \in A, d \in W : step[<<x, d>>] = addCred(x, d) OBVIOUS
<1>4. step \in [A \X W -> A] BY DEF addCred
<1>5. <<>> \in A OBVIOUS
<1> HIDE DEF step, A
<1>6. \A t \in SUBSET (DOMAIN w) : t # {} => w[Max(t)] \in W BY <1>2, MaxOf
<1>7. PICK f \in [SUBSET (DOMAIN w) -> A] : IsLoop(f, w, step, <<>>)
  BY <1>4, <1>5, LoopExists
<1>8. \A t \in SUBSET (DOMAIN w) :
         f[t] = IF t = {} THEN <<>> ELSE addCred(f[t \ {Max(t)}], w[Max(t)])
  BY <1>3, <1>6, <1>7 DEF IsLoop
<1>9. Body(f) BY <1>7, <1>8
<1> HIDE DEF Body
<1>10. Body(h) BY <1>9, Zenon
<1> HIDE DEF h
<1>11. Computes(h, w, step, <<>>, A)
  BY <1>3, <1>6, <1>10 DEF Body, Computes
<1>12. PICK g \in [0..Len(w) -> A] : RoundsOf(g, h, w, step, <<>>)
  BY <1>4, <1>5, <1>11, LoopRounds
<1>13. \A i \in 1..Len(w) : g[i] = addCred(g[i - 1], w[i])
  <2>1. \A i \in 1..Len(w) : i - 1 \in 0..Len(w) /\ w[i] \in W BY <1>2
  <2> QED BY <1>3, <1>12, <2>1 DEF RoundsOf
<1> QED BY <1>1, <1>12, <1>13 DEF RoundsOf

\* The loop that orders the credentials keeps each that is wanted, and no other.
LEMMA CredsCollected ==
  ASSUME NEW W, NEW w \in Seq(W)
  PROVE  LET out == FoldLeft(addCred, <<>>, w)
         IN  out \in Seq(W) /\ ToSet(out) = ToSet(w) \ {NoCred}
<1> DEFINE n == Len(w)
           Done(k) == {w[i] : i \in 1..k} \ {NoCred}
           Good == {x \in (0..n) \X Seq(W) : ToSet(x[2]) = Done(x[1])}
           out == FoldLeft(addCred, <<>>, w)
<1> PICK g : /\ g[0] = <<>>
             /\ \A i \in 1..n : g[i] = addCred(g[i - 1], w[i])
             /\ out = g[n]
  BY CredsLoop
<1>0. n \in Nat /\ w \in Seq(W) /\ \A i \in 1..n : w[i] \in W OBVIOUS
<1>1. <<0, <<>> >> \in Good
  <2>1. Done(0) = {} /\ ToSet(<<>>) = {} BY DEF ToSet
  <2>2. <<>> \in Seq(W) /\ 0 \in 0..n BY <1>0
  <2> QED BY <2>1, <2>2
<1>2. ASSUME NEW k \in 1..n, <<k - 1, g[k - 1]>> \in Good
      PROVE  <<k, g[k]>> \in Good
  <2> DEFINE acc == g[k - 1]
  <2>0. g[k] = addCred(acc, w[k]) OBVIOUS
  <2>1. acc \in Seq(W) /\ ToSet(acc) = Done(k - 1) BY <1>2
  <2>2. Done(k) = Done(k - 1) \cup ({w[k]} \ {NoCred})
    <3>1. 1..k = (1..(k - 1)) \cup {k} BY <1>0
    <3> QED BY <3>1
  <2>3. k \in 0..n /\ w[k] \in W BY <1>0
  <2> HIDE DEF Done, acc
  <2>4. CASE w[k] = NoCred \/ w[k] \in ToSet(acc)
    <3>1. addCred(acc, w[k]) = acc BY <2>4 DEF addCred
    <3>2. Done(k) = Done(k - 1) BY <2>1, <2>2, <2>4
    <3> QED BY <2>0, <2>1, <2>3, <3>1, <3>2
  <2>5. CASE ~(w[k] = NoCred \/ w[k] \in ToSet(acc))
    <3>1. addCred(acc, w[k]) = Append(acc, w[k]) BY <2>5 DEF addCred
    <3>2. Append(acc, w[k]) \in Seq(W) /\ Append(acc, w[k]) = acc \o <<w[k]>> /\ <<w[k]>> \in Seq(W)
      BY <2>1, <2>3
    <3> DEFINE one == <<w[k]>>
    <3>3. ToSet(acc \o one) = ToSet(acc) \cup ToSet(one)
      <4>1. one \in Seq(W) BY <3>2
      <4> HIDE DEF one
      <4> QED BY <2>1, <4>1, ToSetOfConcat
    <3>4. ToSet(<<w[k]>>) = {w[k]} BY DEF ToSet
    <3>5. ToSet(Append(acc, w[k])) = Done(k) BY <2>1, <2>2, <2>5, <3>2, <3>3, <3>4
    <3> QED BY <2>0, <2>3, <3>1, <3>2, <3>5
  <2> QED BY <2>4, <2>5
<1> HIDE DEF Good, Done
<1>3. <<n, g[n]>> \in Good BY <1>0, <1>1, <1>2, RoundInduction
<1> HIDE DEF out
<1>5. out \in Seq(W) /\ ToSet(out) = Done(n) BY <1>3 DEF Good
<1>6. ToSet(w) = {w[i] : i \in 1..n} BY <1>0 DEF ToSet
<1> QED BY <1>5, <1>6 DEF Done, out

\* c is the first credential that s names for m among its first k entries, or
\* none when there is none.
FirstCred(c, s, k, m) ==
    \/ c = NoCred /\ \A i \in 1..k : s[i].name = m => s[i].cred = NoCred
    \/ c # NoCred /\ \E i \in 1..k :
          /\ s[i].name = m
          /\ s[i].cred = c
          /\ \A h \in 1..(i - 1) : s[h].name = m => s[h].cred = NoCred

\* out declares what the first k entries of s do, each model once.
Collected(out, s, k) ==
    /\ out \in Seq(Declaration)
    /\ \A i, j \in DOMAIN out : out[i].name = out[j].name => i = j
    /\ {out[i].name : i \in DOMAIN out} = {s[i].name : i \in 1..k}
    /\ \A i \in DOMAIN out : FirstCred(out[i].cred, s, k, out[i].name)

\* One more entry: only the first credential named counts.
LEMMA FirstCredStep ==
  ASSUME NEW k \in Nat \ {0}, NEW s, NEW m, NEW c, FirstCred(c, s, k - 1, m)
  PROVE  /\ s[k].name # m \/ c # NoCred => FirstCred(c, s, k, m)
         /\ s[k].name = m /\ c = NoCred => FirstCred(s[k].cred, s, k, m)
<1>1. \A i \in 1..k : i = k \/ i \in 1..(k - 1) OBVIOUS
<1>2. k \in 1..k /\ \A i \in 1..(k - 1) : i \in 1..k OBVIOUS
<1> QED BY <1>1, <1>2 DEF FirstCred

\* No credential is named before the first mention of a model.
LEMMA FirstMention ==
  ASSUME NEW k \in Nat \ {0}, NEW s, NEW m, s[k].name = m,
         \A i \in 1..(k - 1) : s[i].name # m
  PROVE  FirstCred(s[k].cred, s, k, m)
<1>1. \A i \in 1..k : i = k \/ i \in 1..(k - 1) OBVIOUS
<1>2. k \in 1..k OBVIOUS
<1> QED BY <1>1, <1>2 DEF FirstCred

\* One turn of the loop of declaredModelsForPod.
LEMMA CollectStep ==
  ASSUME NEW s \in Seq(Declaration), NEW k \in 1..Len(s), NEW out, Collected(out, s, k - 1)
  PROVE  Collected(add(out, s[k]), s, k)
<1> DEFINE d == s[k]
           n == Len(out)
           I == {i \in 1..n : out[i].name = d.name}
           new == add(out, d)
<1>0. k \in Nat \ {0} /\ d \in Declaration /\ n \in Nat /\ DOMAIN out = 1..n
      /\ out \in Seq(Declaration)
  BY DEF Collected
<1>1. new = IF (IF I # {} THEN Min(I) ELSE 0) = 0 THEN Append(out, d)
            ELSE IF out[IF I # {} THEN Min(I) ELSE 0].cred = NoCred
            THEN [out EXCEPT ![IF I # {} THEN Min(I) ELSE 0].cred = d.cred]
            ELSE out
  BY Zenon DEF add, SelectInSeq
<1>2. I # {} => Min(I) \in I
  <2>1. I \in SUBSET Nat BY <1>0
  <2> HIDE DEF I
  <2> QED BY <2>1, MinOf
<1>3. {s[i].name : i \in 1..k} = {s[i].name : i \in 1..(k - 1)} \cup {d.name}
  <2>1. 1..k = (1..(k - 1)) \cup {k} BY <1>0
  <2> QED BY <2>1
<1> HIDE DEF new, d
<1>4. CASE I = {}
  <2>1. new = Append(out, d) BY <1>1, <1>4
  <2>2. new \in Seq(Declaration) /\ Len(new) = n + 1 /\ DOMAIN new = 1..(n + 1) BY <2>1, <1>0
  <2>3. \A i \in 1..(n + 1) : new[i] = IF i = n + 1 THEN d ELSE out[i] BY <2>1, <1>0
  <2>4. \A i \in 1..(n + 1) : i = n + 1 \/ i \in 1..n BY <1>0
  <2>5. n + 1 \in 1..(n + 1) /\ \A i \in 1..n : i \in 1..(n + 1) /\ i # n + 1 BY <1>0
  <2>6. \A i \in 1..n : out[i].name # d.name BY <1>4
  <2>7. \A i, j \in DOMAIN new : new[i].name = new[j].name => i = j
    BY <1>0, <2>2, <2>3, <2>4, <2>6 DEF Collected
  <2>8. {new[i].name : i \in DOMAIN new} = {out[i].name : i \in 1..n} \cup {d.name}
    BY <2>2, <2>3, <2>4, <2>5
  <2>9. \A i \in DOMAIN new : FirstCred(new[i].cred, s, k, new[i].name)
    <3> SUFFICES ASSUME NEW i \in 1..(n + 1) PROVE FirstCred(new[i].cred, s, k, new[i].name)
      BY <2>2
    <3>1. CASE i = n + 1
      <4>1. new[i] = d BY <3>1, <2>3
      <4>2. \A h \in 1..(k - 1) : s[h].name # d.name
        <5>1. d.name \notin {out[h].name : h \in DOMAIN out} BY <2>6, <1>0
        <5>2. d.name \notin {s[h].name : h \in 1..(k - 1)} BY <5>1 DEF Collected
        <5> QED BY <5>2
      <4> QED BY <4>1, <4>2, <1>0, FirstMention DEF d
    <3>2. CASE i \in 1..n
      <4>1. new[i] = out[i] BY <3>2, <2>3, <2>5
      <4>2. FirstCred(out[i].cred, s, k - 1, out[i].name) BY <3>2, <1>0 DEF Collected
      <4>3. s[k].name # out[i].name BY <3>2, <2>6 DEF d
      <4> QED BY <4>1, <4>2, <4>3, <1>0, FirstCredStep
    <3> QED BY <3>1, <3>2, <2>4
  <2> QED BY <1>0, <1>3, <2>2, <2>7, <2>8, <2>9 DEF Collected, new, d
<1>5. CASE I # {}
  <2> DEFINE m == Min(I)
  <2>1. m \in I /\ m \in 1..n /\ out[m].name = d.name /\ m # 0 BY <1>2, <1>5, <1>0
  <2>2. new = IF out[m].cred = NoCred THEN [out EXCEPT ![m].cred = d.cred] ELSE out
    BY <1>1, <1>5, <2>1
  <2> HIDE DEF m, I
  <2>3. \A i \in 1..n : out[i] \in Declaration BY <1>0
  <2>4. /\ DOMAIN new = 1..n /\ new \in Seq(Declaration)
        /\ \A i \in 1..n : new[i].name = out[i].name
        /\ \A i \in 1..n : i # m => new[i].cred = out[i].cred
        /\ new[m].cred = IF out[m].cred = NoCred THEN d.cred ELSE out[m].cred
    <3>1. CASE out[m].cred = NoCred
      <4> DEFINE r == [out[m] EXCEPT !.cred = d.cred]
      <4>1. r \in Declaration /\ r.name = out[m].name /\ r.cred = d.cred
        BY <1>0, <2>1, <2>3 DEF Declaration
      <4>2. new = [out EXCEPT ![m] = r] BY <2>2, <3>1
      <4> HIDE DEF r
      <4>3. /\ new \in Seq(Declaration) /\ DOMAIN new = 1..n
            /\ \A i \in 1..n : new[i] = IF i = m THEN r ELSE out[i]
        BY <4>1, <4>2, <1>0, <2>1
      <4> QED BY <4>1, <4>3, <2>1, <3>1
    <3>2. CASE out[m].cred # NoCred
      <4>1. new = out BY <2>2, <3>2
      <4> QED BY <4>1, <1>0, <3>2
    <3> QED BY <3>1, <3>2
  <2>5. \A i, j \in DOMAIN new : new[i].name = new[j].name => i = j
    BY <2>4, <1>0 DEF Collected
  <2>6. {new[i].name : i \in DOMAIN new} = {out[i].name : i \in DOMAIN out} BY <2>4, <1>0
  <2>7. d.name \in {out[i].name : i \in DOMAIN out} BY <2>1, <1>0
  <2>8. {new[i].name : i \in DOMAIN new} = {s[i].name : i \in 1..k}
    BY <2>6, <2>7, <1>3 DEF Collected
  <2>9. \A i \in DOMAIN new : FirstCred(new[i].cred, s, k, new[i].name)
    <3> SUFFICES ASSUME NEW i \in 1..n PROVE FirstCred(new[i].cred, s, k, new[i].name)
      BY <2>4
    <3>1. FirstCred(out[i].cred, s, k - 1, out[i].name) BY <1>0 DEF Collected
    <3>2. CASE i = m BY <3>1, <3>2, <2>1, <2>4, <1>0, FirstCredStep DEF d
    <3>3. CASE i # m
      <4>1. s[k].name # out[i].name BY <3>3, <2>1, <1>0 DEF Collected, d
      <4> QED BY <4>1, <3>1, <3>3, <2>4, <1>0, FirstCredStep
    <3> QED BY <3>2, <3>3
  <2>10. Collected(new, s, k) BY <2>4, <2>5, <2>8, <2>9 DEF Collected
  <2> QED BY <2>10 DEF new, d
<1> QED BY <1>4, <1>5

\* add keeps a list of declarations one.
LEMMA AddTyped ==
  ASSUME NEW out \in Seq(Declaration), NEW d \in Declaration
  PROVE  add(out, d) \in Seq(Declaration)
<1> DEFINE n == Len(out)
           I == {i \in 1..n : out[i].name = d.name}
           m == IF I # {} THEN Min(I) ELSE 0
<1>1. add(out, d) = IF m = 0 THEN Append(out, d)
                    ELSE IF out[m].cred = NoCred THEN [out EXCEPT ![m].cred = d.cred]
                    ELSE out
  BY Zenon DEF add, SelectInSeq
<1>2. m = 0 \/ m \in 1..n
  <2>1. I \in SUBSET Nat /\ I \subseteq 1..n OBVIOUS
  <2> HIDE DEF I
  <2> QED BY <2>1, MinOf
<1> HIDE DEF m
<1>3. CASE m \in 1..n
  <2> DEFINE r == [out[m] EXCEPT !.cred = d.cred]
  <2>1. r \in Declaration
    <3>1. out[m] \in Declaration /\ n \in Nat BY <1>3
    <3> QED BY <3>1 DEF Declaration
  <2> HIDE DEF r
  <2>2. [out EXCEPT ![m] = r] \in Seq(Declaration) BY <1>3, <2>1
  <2> QED BY <1>1, <1>3, <2>2 DEF r
<1>4. CASE m = 0 BY <1>1, <1>4
<1> QED BY <1>2, <1>3, <1>4

\* The loop over declarations, round by round.
LEMMA AddLoop ==
  ASSUME NEW s \in Seq(Declaration)
  PROVE  \E g : /\ g[0] = <<>>
                /\ \A i \in 1..Len(s) : g[i] = add(g[i - 1], s[i])
                /\ FoldLeft(add, <<>>, s) = g[Len(s)]
<1> DEFINE A == Seq(Declaration)
           step == [x \in A \X Declaration |-> add(x[1], x[2])]
           Body(f) == f = [t \in SUBSET (DOMAIN s) |->
                             IF t = {} THEN <<>> ELSE add(f[t \ {Max(t)}], s[Max(t)])]
           h == CHOOSE f : Body(f)
<1>1. FoldLeft(add, <<>>, s) = h[DOMAIN s]
  BY Zenon DEF FoldLeft, MapThenFoldSet
<1>2. DOMAIN s = 1..Len(s) /\ Len(s) \in Nat /\ \A i \in 1..Len(s) : s[i] \in Declaration OBVIOUS
<1>3. \A x \in A, d \in Declaration : step[<<x, d>>] = add(x, d) OBVIOUS
<1>4. step \in [A \X Declaration -> A] BY AddTyped
<1>5. <<>> \in A OBVIOUS
<1> HIDE DEF step, A
<1>6. \A t \in SUBSET (DOMAIN s) : t # {} => s[Max(t)] \in Declaration BY <1>2, MaxOf
<1>7. PICK f \in [SUBSET (DOMAIN s) -> A] : IsLoop(f, s, step, <<>>)
  BY <1>4, <1>5, LoopExists
<1>8. \A t \in SUBSET (DOMAIN s) :
         f[t] = IF t = {} THEN <<>> ELSE add(f[t \ {Max(t)}], s[Max(t)])
  BY <1>3, <1>6, <1>7 DEF IsLoop
<1>9. Body(f) BY <1>7, <1>8
<1> HIDE DEF Body
<1>10. Body(h) BY <1>9, Zenon
<1> HIDE DEF h
<1>11. Computes(h, s, step, <<>>, A)
  BY <1>3, <1>6, <1>10 DEF Body, Computes
<1>12. PICK g \in [0..Len(s) -> A] : RoundsOf(g, h, s, step, <<>>)
  BY <1>4, <1>5, <1>11, LoopRounds
<1>13. \A i \in 1..Len(s) : g[i] = add(g[i - 1], s[i])
  <2>1. \A i \in 1..Len(s) : i - 1 \in 0..Len(s) /\ s[i] \in Declaration BY <1>2
  <2> QED BY <1>3, <1>12, <2>1 DEF RoundsOf
<1> QED BY <1>1, <1>12, <1>13 DEF RoundsOf

\* The whole loop.
LEMMA AllCollected ==
  ASSUME NEW s \in Seq(Declaration)
  PROVE  Collected(FoldLeft(add, <<>>, s), s, Len(s))
<1> DEFINE n == Len(s)
           Good == {x \in (0..n) \X Seq(Declaration) : Collected(x[2], s, x[1])}
           out == FoldLeft(add, <<>>, s)
<1> PICK g : /\ g[0] = <<>>
             /\ \A i \in 1..n : g[i] = add(g[i - 1], s[i])
             /\ out = g[n]
  BY AddLoop
<1>0. n \in Nat OBVIOUS
<1>1. <<0, <<>> >> \in Good
  <2>1. Collected(<<>>, s, 0)
    <3>1. <<>> \in Seq(Declaration) /\ DOMAIN <<>> = {} /\ 1..0 = {} OBVIOUS
    <3> QED BY <3>1 DEF Collected
  <2>2. <<>> \in Seq(Declaration) /\ 0 \in 0..n BY <1>0
  <2> QED BY <2>1, <2>2
<1>2. ASSUME NEW k \in 1..n, <<k - 1, g[k - 1]>> \in Good
      PROVE  <<k, g[k]>> \in Good
  <2> DEFINE acc == g[k - 1]
  <2>0. g[k] = add(acc, s[k]) OBVIOUS
  <2>1. Collected(acc, s, k - 1) BY <1>2
  <2>2. Collected(add(acc, s[k]), s, k) BY <2>1, CollectStep
  <2>3. add(acc, s[k]) \in Seq(Declaration) /\ k \in 0..n BY <2>2, <1>0 DEF Collected
  <2> QED BY <2>0, <2>2, <2>3
<1> HIDE DEF Good
<1>3. <<n, g[n]>> \in Good BY <1>0, <1>1, <1>2, RoundInduction
<1> HIDE DEF out
<1>4. Collected(out, s, n) BY <1>3 DEF Good
<1> QED BY <1>4 DEF n, out

-----------------------------------------------------------------------------
(* What a pod asks for *)

\* The claims of a store that select a pod, in the order of their names.
Matching(cms, p) == {n \in DOMAIN cms : workloadMatches(cms[n].selector, p)}

ClaimOrder(cms, p) == Sorted(Matching(cms, p), byClaimName)

\* What they declare, claim by claim.
Wanted(cms, p) ==
    [i \in DOMAIN ClaimOrder(cms, p) |-> cms[ClaimOrder(cms, p)[i]].models]

\* declaredModelsForPod, of any store of claims.
DeclaredOf(cms, p) == FoldLeft(add, <<>>, FlattenSeq(Wanted(cms, p)) \o parseModels(p))

\* declaredModelsForPod is DeclaredOf the stored claims.
LEMMA DeclaredModels == \A p : declaredModelsForPod(p) = DeclaredOf(claims, p)
BY Zenon DEF declaredModelsForPod, DeclaredOf, Wanted, ClaimOrder, Matching

ClaimsOK(cms) == StoreOK(cms, ClaimNames, ClaimSpecs)

\* The claims are looked at by ascending name, each once.
LEMMA ClaimsInOrder ==
  ASSUME NEW cms, ClaimsOK(cms), NEW p
  PROVE  LET s == ClaimOrder(cms, p)
         IN  /\ s \in Seq(Nat) /\ ToSet(s) = Matching(cms, p)
             /\ \A i, j \in 1..Len(s) : i < j => s[i] < s[j]
<1> DEFINE S == Matching(cms, p)
           s == ClaimOrder(cms, p)
<1>1. S \subseteq Nat /\ IsFiniteSet(S)
  <2>1. S \subseteq DOMAIN cms BY DEF Matching
  <2> QED BY <2>1, KeysAssumption, FS_Subset DEF ClaimsOK, StoreOK
<1> HIDE DEF S
<1> DEFINE R == {mn \in S \X S : byClaimName(mn[1], mn[2])}
           Good(t) == \A i, j \in DOMAIN t : i < j => byClaimName(t[i], t[j])
<1>2. \A m, n \in S : <<m, n>> \in R <=> byClaimName(m, n) OBVIOUS
<1> HIDE DEF R
<1>3. StrictOrder(S, R) BY <1>1, <1>2 DEF StrictOrder, byClaimName
<1>4. \E t \in SetToSeqs(S) : Good(t)
  <2>1. PICK t \in SetToSeqs(S) : InOrder(t, R) BY <1>1, <1>3, SortExists
  <2>2. \A i \in DOMAIN t : t[i] \in S BY <1>1, <2>1, SetToSeqsContents DEF ToSet
  <2> QED BY <1>2, <2>1, <2>2 DEF InOrder
<1>5. s = CHOOSE t \in SetToSeqs(S) : Good(t)
  BY Zenon DEF ClaimOrder, Sorted, S
<1> HIDE DEF Good
<1>6. s \in SetToSeqs(S) /\ Good(s) BY <1>4, <1>5, Zenon
<1> HIDE DEF s
<1>7. s \in Seq(S) /\ ToSet(s) = S BY <1>1, <1>6, SetToSeqsContents
<1>8. \A i, j \in 1..Len(s) : i < j => s[i] < s[j]
  <2>1. DOMAIN s = 1..Len(s) BY <1>7
  <2> QED BY <1>6, <2>1 DEF Good, byClaimName
<1>9. s \in Seq(Nat) BY <1>1, <1>7, SeqSubset
<1> QED BY <1>7, <1>8, <1>9 DEF s, S

\* The claims of a store that declare m for p, and the credential of the first
\* of them that names one.
ClaimingIn(cms, p, m) ==
    {n \in Matching(cms, p) : \E r \in ToSet(cms[n].models) : r.name = m}

PreferenceIn(cms, n, m) ==
    SelectInSeq(cms[n].models, LAMBDA r : r.name = m /\ r.cred # NoCred)

NamingIn(cms, p, m) == {n \in ClaimingIn(cms, p, m) : PreferenceIn(cms, n, m) # 0}

ClaimCred(cms, p, m) ==
    LET naming == NamingIn(cms, p, m)
        first  == CHOOSE n \in naming : \A k \in naming : n <= k
    IN  IF naming = {} THEN NoCred ELSE cms[first].models[PreferenceIn(cms, first, m)].cred

\* k is the first place at which ms names a credential for m, or 0.
FirstPlace(ms, m, k) ==
    /\ k = 0 => \A i \in 1..Len(ms) : ms[i].name = m => ms[i].cred = NoCred
    /\ k # 0 => /\ k \in 1..Len(ms) /\ ms[k].name = m /\ ms[k].cred # NoCred
                /\ \A i \in 1..(k - 1) : ms[i].name = m => ms[i].cred = NoCred

\* Preference finds the first place at which a claim names a credential.
LEMMA PreferenceIsFirst ==
  ASSUME NEW cms, ClaimsOK(cms), NEW n \in DOMAIN cms, NEW m
  PROVE  FirstPlace(cms[n].models, m, PreferenceIn(cms, n, m))
<1> DEFINE ms == cms[n].models
           I == {i \in 1..Len(ms) : ms[i].name = m /\ ms[i].cred # NoCred}
           k == PreferenceIn(cms, n, m)
<1>1. ms \in Seq(Declaration)
  BY ClaimsAssumption DEF ClaimsOK, StoreOK, Declaration
<1>2. k = IF I # {} THEN Min(I) ELSE 0
  BY Zenon DEF PreferenceIn, SelectInSeq
<1>3. I \in SUBSET Nat OBVIOUS
<1> HIDE DEF k, ms
<1>4. I # {} => Min(I) \in I /\ \A i \in I : Min(I) <= i
  <2> HIDE DEF I
  <2> QED BY <1>3, MinOf
<1>5. CASE I = {}
  <2>1. k = 0 BY <1>2, <1>5
  <2> QED BY <1>5, <2>1 DEF FirstPlace, k, ms
<1>6. CASE I # {}
  <2>1. k \in I /\ \A i \in I : k <= i BY <1>2, <1>4, <1>6
  <2>2. k \in Nat /\ k # 0 BY <2>1
  <2>3. \A i \in 1..(k - 1) : i \in 1..Len(ms) /\ ~(k <= i)
    <3>1. Len(ms) \in Nat BY <1>1
    <3> QED BY <2>1, <3>1
  <2>4. \A i \in 1..(k - 1) : i \notin I BY <2>1, <2>3
  <2>5. FirstPlace(ms, m, k) BY <2>1, <2>2, <2>3, <2>4 DEF FirstPlace
  <2> QED BY <2>5 DEF k, ms
<1> QED BY <1>5, <1>6

\* The annotation declares its well-formed tokens, without a credential.
LEMMA Parsed ==
  ASSUME NEW p, p.models \in Seq(Names \cup {Malformed})
  PROVE  /\ parseModels(p) \in Seq(Declaration)
         /\ {d.name : d \in ToSet(parseModels(p))} = ToSet(p.models) \ {Malformed}
         /\ \A d \in ToSet(parseModels(p)) : d.cred = NoCred
<1> DEFINE one(m) == IF m = Malformed THEN <<>> ELSE <<[name |-> m, cred |-> NoCred]>>
           ss == [i \in DOMAIN p.models |-> one(p.models[i])]
<1>0. DOMAIN p.models = 1..Len(p.models) /\ Len(p.models) \in Nat
      /\ \A i \in DOMAIN p.models : p.models[i] \in Names \cup {Malformed}
  OBVIOUS
<1>1. ASSUME NEW m \in Names \cup {Malformed}
      PROVE  /\ one(m) \in Seq(Declaration)
             /\ {d.name : d \in ToSet(one(m))} = {m} \ {Malformed}
             /\ \A d \in ToSet(one(m)) : d.cred = NoCred
  <2>1. CASE m = Malformed
    <3>1. one(m) = <<>> /\ ToSet(<<>>) = {} BY <2>1 DEF ToSet
    <3> HIDE DEF one
    <3> QED BY <2>1, <3>1
  <2>2. CASE m # Malformed
    <3> DEFINE d == [name |-> m, cred |-> NoCred]
    <3>1. d \in Declaration /\ d.name = m /\ d.cred = NoCred
      BY <2>2 DEF Declaration, CredRef
    <3>2. one(m) = <<d>> BY <2>2
    <3> HIDE DEF d, one
    <3>3. ToSet(<<d>>) = {d} BY DEF ToSet
    <3> QED BY <2>2, <3>1, <3>2, <3>3
  <2> QED BY <2>1, <2>2
<1> HIDE DEF one
<1>2. ss \in Seq(Seq(Declaration)) /\ DOMAIN ss = DOMAIN p.models
      /\ \A i \in DOMAIN p.models : ss[i] = one(p.models[i])
  BY <1>0, <1>1
<1>3. parseModels(p) = FlattenSeq(ss)
  BY Zenon DEF parseModels, one
<1> HIDE DEF ss
<1>4. parseModels(p) \in Seq(Declaration)
      /\ ToSet(parseModels(p)) = UNION {ToSet(ss[i]) : i \in DOMAIN p.models}
  BY <1>2, <1>3, FlattenSeqContents
<1>5. ToSet(p.models) = {p.models[i] : i \in DOMAIN p.models} BY DEF ToSet
<1>6. ASSUME NEW d \in ToSet(parseModels(p))
      PROVE  d.cred = NoCred /\ d.name \in ToSet(p.models) \ {Malformed}
  <2>1. PICK i \in DOMAIN p.models : d \in ToSet(one(p.models[i])) BY <1>2, <1>4
  <2> DEFINE m == p.models[i]
  <2>2. m \in Names \cup {Malformed} /\ m \in ToSet(p.models) BY <1>0, <1>5
  <2> HIDE DEF m
  <2>3. d \in ToSet(one(m)) BY <2>1 DEF m
  <2>4. /\ {x.name : x \in ToSet(one(m))} = {m} \ {Malformed}
        /\ \A x \in ToSet(one(m)) : x.cred = NoCred
    BY <1>1, <2>2
  <2>5. d.name \in {x.name : x \in ToSet(one(m))} BY <2>3
  <2> QED BY <2>2, <2>3, <2>4, <2>5
<1>7. ASSUME NEW m \in ToSet(p.models) \ {Malformed}
      PROVE  m \in {d.name : d \in ToSet(parseModels(p))}
  <2>1. PICK i \in DOMAIN p.models : m = p.models[i] BY <1>5
  <2>2. m \in {d.name : d \in ToSet(one(m))} BY <1>0, <1>1, <2>1
  <2>3. PICK d \in ToSet(one(m)) : m = d.name BY <2>2
  <2>4. d \in ToSet(ss[i]) BY <1>2, <2>1
  <2>5. d \in ToSet(parseModels(p)) BY <1>4, <2>4
  <2> QED BY <2>3, <2>5
<1> QED BY <1>4, <1>6, <1>7

\* The claims declare their models, claim by claim.
LEMMA WantedContents ==
  ASSUME NEW cms, ClaimsOK(cms), NEW p
  PROVE  LET s == ClaimOrder(cms, p)
             ss == Wanted(cms, p)
             w == FlattenSeq(ss)
         IN  /\ Len(ss) = Len(s) /\ ss \in Seq(Seq(Declaration))
             /\ \A a \in 1..Len(s) : s[a] \in DOMAIN cms /\ ss[a] = cms[s[a]].models
             /\ w \in Seq(Declaration)
             /\ InTurn(w, ss, Len(ss)) /\ HasAll(w, ss, Len(ss))
             /\ {d.name : d \in ToSet(w)} = {m \in Names : ClaimingIn(cms, p, m) # {}}
<1> DEFINE s == ClaimOrder(cms, p)
           ss == Wanted(cms, p)
           w == FlattenSeq(ss)
<1>1. s \in Seq(Nat) /\ ToSet(s) = Matching(cms, p) BY ClaimsInOrder
<1>2. ss = [i \in DOMAIN s |-> cms[s[i]].models] BY DEF Wanted
<1>3. \A n \in Matching(cms, p) : n \in DOMAIN cms /\ cms[n].models \in Seq(Declaration)
  BY ClaimsAssumption DEF ClaimsOK, StoreOK, Matching, Declaration
<1> HIDE DEF s, ss
<1>4. DOMAIN s = 1..Len(s) /\ Len(s) \in Nat /\ \A a \in DOMAIN s : s[a] \in Matching(cms, p)
  BY <1>1 DEF ToSet
<1>5. /\ ss \in Seq(Seq(Declaration)) /\ Len(ss) = Len(s) /\ DOMAIN ss = DOMAIN s
      /\ \A a \in 1..Len(s) : s[a] \in DOMAIN cms /\ ss[a] = cms[s[a]].models
  BY <1>2, <1>3, <1>4
<1>6. w \in Seq(Declaration) /\ ToSet(w) = UNION {ToSet(ss[i]) : i \in DOMAIN s}
  BY <1>5, FlattenSeqContents
<1>7. InTurn(w, ss, Len(ss)) /\ HasAll(w, ss, Len(ss))
  BY <1>5, FlattenInTurn
<1> HIDE DEF w
<1>8. ASSUME NEW d \in ToSet(w) PROVE d.name \in Names /\ ClaimingIn(cms, p, d.name) # {}
  <2>1. PICK a \in DOMAIN s : d \in ToSet(cms[s[a]].models) BY <1>4, <1>5, <1>6
  <2>2. s[a] \in ClaimingIn(cms, p, d.name) BY <1>4, <2>1 DEF ClaimingIn
  <2>3. d \in Declaration BY <1>6 DEF ToSet
  <2> QED BY <2>2, <2>3 DEF Declaration
<1>9. ASSUME NEW m, NEW n \in ClaimingIn(cms, p, m) PROVE m \in {d.name : d \in ToSet(w)}
  <2>1. PICK d \in ToSet(cms[n].models) : d.name = m /\ n \in Matching(cms, p)
    BY DEF ClaimingIn
  <2>2. PICK a \in DOMAIN s : s[a] = n BY <1>1, <2>1 DEF ToSet
  <2>3. d \in ToSet(ss[a]) BY <1>4, <1>5, <2>1, <2>2
  <2> QED BY <1>6, <2>1, <2>3
<1>10. {d.name : d \in ToSet(w)} = {m \in Names : ClaimingIn(cms, p, m) # {}}
  <2>1. \A x \in {d.name : d \in ToSet(w)} : x \in Names /\ ClaimingIn(cms, p, x) # {}
    BY <1>8
  <2>2. \A m \in Names : ClaimingIn(cms, p, m) # {} => m \in {d.name : d \in ToSet(w)}
    BY <1>9
  <2> QED BY <2>1, <2>2
<1> QED BY <1>5, <1>6, <1>7, <1>10 DEF s, ss, w

\* The first credential that the claims name for a model is that of the first
\* claim that names one.
LEMMA FirstNamed ==
  ASSUME NEW cms, ClaimsOK(cms), NEW p, NEW m, NEW c,
         FirstCred(c, FlattenSeq(Wanted(cms, p)), Len(FlattenSeq(Wanted(cms, p))), m)
  PROVE  c = ClaimCred(cms, p, m)
<1> DEFINE s == ClaimOrder(cms, p)
           ss == Wanted(cms, p)
           w == FlattenSeq(ss)
           place(n) == PreferenceIn(cms, n, m)
           naming == NamingIn(cms, p, m)
<1>1. /\ Len(ss) = Len(s) /\ Len(s) \in Nat /\ Len(w) \in Nat
      /\ \A a \in 1..Len(s) : s[a] \in DOMAIN cms /\ ss[a] = cms[s[a]].models
                              /\ Len(ss[a]) \in Nat
      /\ \A i \in 1..Len(w) : \E j \in 1..Len(s) : \E k \in 1..Len(ss[j]) :
            /\ w[i] = ss[j][k]
            /\ \A a \in 1..j : \A b \in 1..Len(ss[a]) :
                  a < j \/ b < k => \E h \in 1..(i - 1) : w[h] = ss[a][b]
      /\ \A a \in 1..Len(s) : \A b \in 1..Len(ss[a]) :
            \E h \in 1..Len(w) : w[h] = ss[a][b]
  <2>1. /\ Len(ss) = Len(s) /\ ss \in Seq(Seq(Declaration)) /\ w \in Seq(Declaration)
        /\ \A a \in 1..Len(s) : s[a] \in DOMAIN cms /\ ss[a] = cms[s[a]].models
        /\ InTurn(w, ss, Len(ss)) /\ HasAll(w, ss, Len(ss))
    BY WantedContents
  <2>2. s \in Seq(Nat) BY ClaimsInOrder
  <2> HIDE DEF s, ss, w
  <2>3. \A a \in 1..Len(s) : Len(ss[a]) \in Nat BY <2>1
  <2>4. Len(s) \in Nat /\ Len(w) \in Nat BY <2>1, <2>2
  <2>5. \A i \in 1..Len(w) : \E j \in 1..Len(s) : \E k \in 1..Len(ss[j]) :
            /\ w[i] = ss[j][k]
            /\ \A a \in 1..j : \A b \in 1..Len(ss[a]) :
                  a < j \/ b < k => \E h \in 1..(i - 1) : w[h] = ss[a][b]
    <3>1. InTurn(w, ss, Len(s)) BY <2>1
    <3> QED BY <3>1, Zenon DEF InTurn
  <2>6. \A a \in 1..Len(s) : \A b \in 1..Len(ss[a]) :
            \E h \in 1..Len(w) : w[h] = ss[a][b]
    BY <2>1, Zenon DEF HasAll
  <2> QED BY <2>1, <2>3, <2>4, <2>5, <2>6
<1>2. /\ ToSet(s) = Matching(cms, p) /\ s \in Seq(Nat)
      /\ \A i, j \in 1..Len(s) : i < j => s[i] < s[j]
  BY ClaimsInOrder
<1>3. FirstCred(c, w, Len(w), m) OBVIOUS
<1>4. naming = {n \in Matching(cms, p) :
                  (\E r \in ToSet(cms[n].models) : r.name = m) /\ place(n) # 0}
  BY DEF NamingIn, ClaimingIn
<1>5. ClaimCred(cms, p, m) = IF naming = {} THEN NoCred
        ELSE cms[CHOOSE n \in naming : \A k \in naming : n <= k].models[
                   place(CHOOSE n \in naming : \A k \in naming : n <= k)].cred
  BY Zenon DEF ClaimCred
<1> HIDE DEF s, ss, w, place, naming
<1>6. \A n \in Matching(cms, p) : \E a \in 1..Len(s) : s[a] = n
  BY <1>2 DEF ToSet
<1>7. \A a \in 1..Len(s) : s[a] \in Matching(cms, p) /\ s[a] \in Nat
  BY <1>2 DEF ToSet
<1>8. \A a \in 1..Len(s) : FirstPlace(ss[a], m, place(s[a]))
  BY <1>1, PreferenceIsFirst DEF place
<1>9. CASE c = NoCred
  <2>1. \A i \in 1..Len(w) : w[i].name = m => w[i].cred = NoCred
    BY <1>3, <1>9 DEF FirstCred
  <2>2. naming = {}
    <3> SUFFICES ASSUME NEW n \in naming PROVE FALSE OBVIOUS
    <3>1. PICK a \in 1..Len(s) : s[a] = n BY <1>4, <1>6
    <3>2. place(n) # 0 BY <1>4
    <3>3. place(n) \in 1..Len(ss[a]) /\ ss[a][place(n)].name = m /\ ss[a][place(n)].cred # NoCred
      BY <1>8, <3>1, <3>2 DEF FirstPlace
    <3>4. PICK h \in 1..Len(w) : w[h] = ss[a][place(n)] BY <1>1, <3>3
    <3> QED BY <2>1, <3>3, <3>4
  <2> QED BY <1>5, <1>9, <2>2
<1>10. CASE c # NoCred
  <2>1. PICK i \in 1..Len(w) :
          /\ w[i].name = m
          /\ w[i].cred = c
          /\ \A h \in 1..(i - 1) : w[h].name = m => w[h].cred = NoCred
    BY <1>3, <1>10 DEF FirstCred
  <2>2. PICK j \in 1..Len(s) : \E k \in 1..Len(ss[j]) :
            /\ w[i] = ss[j][k]
            /\ \A a \in 1..j : \A b \in 1..Len(ss[a]) :
                  a < j \/ b < k => \E h \in 1..(i - 1) : w[h] = ss[a][b]
    BY <1>1
  <2>3. PICK k \in 1..Len(ss[j]) :
            /\ w[i] = ss[j][k]
            /\ \A a \in 1..j : \A b \in 1..Len(ss[a]) :
                  a < j \/ b < k => \E h \in 1..(i - 1) : w[h] = ss[a][b]
    BY <2>2
  <2>4. \A a \in 1..j : \A b \in 1..Len(ss[a]) :
           (a < j \/ b < k) /\ ss[a][b].name = m => ss[a][b].cred = NoCred
    <3> SUFFICES ASSUME NEW a \in 1..j, NEW b \in 1..Len(ss[a]), a < j \/ b < k,
                        ss[a][b].name = m
                 PROVE  ss[a][b].cred = NoCred
      OBVIOUS
    <3>1. PICK h \in 1..(i - 1) : w[h] = ss[a][b] BY <2>3
    <3> QED BY <2>1, <3>1
  <2>5. ss[j][k].name = m /\ ss[j][k].cred = c BY <2>1, <2>3
  <2> DEFINE n == s[j]
  <2>6. place(n) = k
    <3> DEFINE q == place(n)
    <3>1. FirstPlace(ss[j], m, q) BY <1>8
    <3> HIDE DEF q, n
    <3>2. q # 0 BY <3>1, <2>5, <1>10 DEF FirstPlace
    <3>3. /\ q \in 1..Len(ss[j]) /\ ss[j][q].name = m /\ ss[j][q].cred # NoCred
          /\ \A h \in 1..(q - 1) : ss[j][h].name = m => ss[j][h].cred = NoCred
      BY <3>1, <3>2 DEF FirstPlace
    <3>4. Len(ss[j]) \in Nat /\ j \in 1..j BY <1>1
    <3>5. ~(q < k) BY <2>4, <3>3, <3>4
    <3>6. ~(k < q)
      <4> SUFFICES ASSUME k < q PROVE FALSE OBVIOUS
      <4>1. k \in 1..(q - 1) BY <3>3, <3>4
      <4> QED BY <2>5, <3>3, <4>1, <1>10
    <3>7. q = k BY <3>3, <3>4, <3>5, <3>6
    <3> QED BY <3>7 DEF q, n
  <2>7. n \in naming
    <3>1. ss[j] = cms[n].models /\ n \in Matching(cms, p) BY <1>1, <1>7
    <3>2. cms[n].models[k] \in ToSet(cms[n].models)
      <4>1. cms[n].models \in Seq(Declaration)
        BY <1>1, ClaimsAssumption DEF ClaimsOK, StoreOK, Declaration
      <4> HIDE DEF n
      <4> QED BY <3>1, <4>1 DEF ToSet
    <3>3. k # 0 BY <1>1
    <3> HIDE DEF n
    <3> QED BY <1>4, <2>5, <2>6, <3>1, <3>2, <3>3
  <2>8. ASSUME NEW x \in naming PROVE n <= x
    <3>1. PICK a \in 1..Len(s) : s[a] = x BY <1>4, <1>6
    <3>2. CASE a >= j
      <4>1. a = j \/ j < a BY <3>2, <1>1
      <4>2. j < a => s[j] < s[a] BY <1>2
      <4> QED BY <1>7, <3>1, <4>1, <4>2
    <3>3. CASE a < j
      <4>1. a \in 1..j BY <3>3, <1>1
      <4>2. place(x) # 0 BY <1>4
      <4>3. place(x) \in 1..Len(ss[a]) /\ ss[a][place(x)].name = m /\ ss[a][place(x)].cred # NoCred
        BY <1>8, <3>1, <4>2 DEF FirstPlace
      <4> QED BY <2>4, <3>3, <4>1, <4>3
    <3> QED BY <1>1, <3>2, <3>3
  <2>9. naming \subseteq Nat BY <1>4, <1>6, <1>7
  <2>10. n = CHOOSE y \in naming : \A x \in naming : y <= x
    <3>1. \A y \in naming : (\A x \in naming : y <= x) => y = n
      <4> HIDE DEF n
      <4> QED BY <2>7, <2>8, <2>9
    <3> HIDE DEF n
    <3> QED BY <2>7, <2>8, <3>1
  <2>11. cms[n].models[place(n)].cred = c BY <1>1, <2>5, <2>6
  <2> HIDE DEF n
  <2> QED BY <1>5, <2>7, <2>10, <2>11
<1> QED BY <1>9, <1>10

\* What a pod declares: the models of its claims and of its annotation, each
\* with the credential of the first claim that names one.
LEMMA AskedFor ==
  ASSUME NEW cms, ClaimsOK(cms), NEW p \in PodType
  PROVE  LET D == DeclaredOf(cms, p)
         IN  /\ D \in Seq(Declaration)
             /\ {D[i].name : i \in DOMAIN D}
                   = {m \in Names : m \in ToSet(p.models) \/ ClaimingIn(cms, p, m) # {}}
             /\ \A i \in DOMAIN D : D[i].cred = ClaimCred(cms, p, D[i].name)
<1> DEFINE w == FlattenSeq(Wanted(cms, p))
           a == parseModels(p)
           s == w \o a
           D == DeclaredOf(cms, p)
<1>1. p.models \in Seq(Names \cup {Malformed}) BY PodsAssumption DEF PodType
<1>2. /\ a \in Seq(Declaration)
      /\ {d.name : d \in ToSet(a)} = ToSet(p.models) \ {Malformed}
      /\ \A d \in ToSet(a) : d.cred = NoCred
  BY <1>1, Parsed
<1>3. w \in Seq(Declaration)
      /\ {d.name : d \in ToSet(w)} = {m \in Names : ClaimingIn(cms, p, m) # {}}
  BY WantedContents
<1>4. ASSUME NEW c, NEW m, FirstCred(c, s, Len(s), m) PROVE c = ClaimCred(cms, p, m)
  <2> HIDE DEF w, a
  <2>1. Len(w) \in Nat /\ Len(a) \in Nat /\ Len(s) = Len(w) + Len(a) BY <1>2, <1>3
  <2>2. \A i \in 1..Len(w) : i \in 1..Len(s) /\ s[i] = w[i] BY <1>2, <1>3, <2>1
  <2>3. \A i \in 1..Len(s) : i \in 1..Len(w) \/ s[i].cred = NoCred
    <3> SUFFICES ASSUME NEW i \in 1..Len(s), ~(i \in 1..Len(w)) PROVE s[i].cred = NoCred
      OBVIOUS
    <3>1. i - Len(w) \in 1..Len(a) /\ s[i] = a[i - Len(w)] BY <1>2, <1>3, <2>1
    <3>2. a[i - Len(w)] \in ToSet(a) BY <1>2, <3>1 DEF ToSet
    <3> QED BY <1>2, <3>1, <3>2
  <2>4. \A i \in 1..Len(w) : \A h \in 1..(i - 1) : h \in 1..Len(w) BY <2>1
  <2> HIDE DEF s
  <2>5. FirstCred(c, w, Len(w), m)
    <3>1. CASE c = NoCred BY <1>4, <2>2, <3>1 DEF FirstCred
    <3>2. CASE c # NoCred
      <4>1. PICK i \in 1..Len(s) :
              /\ s[i].name = m
              /\ s[i].cred = c
              /\ \A h \in 1..(i - 1) : s[h].name = m => s[h].cred = NoCred
        BY <1>4, <3>2 DEF FirstCred
      <4>2. i \in 1..Len(w) BY <2>3, <3>2, <4>1
      <4>3. \A h \in 1..(i - 1) : w[h].name = m => w[h].cred = NoCred
        BY <2>2, <2>4, <4>1, <4>2
      <4> QED BY <2>2, <3>2, <4>1, <4>2, <4>3 DEF FirstCred
    <3> QED BY <3>1, <3>2
  <2> QED BY <2>5, FirstNamed DEF w
<1>5. s \in Seq(Declaration) /\ ToSet(s) = ToSet(w) \cup ToSet(a)
  <2> HIDE DEF w, a
  <2> QED BY <1>2, <1>3, ToSetOfConcat
<1>6. D = FoldLeft(add, <<>>, s) BY DEF DeclaredOf
<1> HIDE DEF s, w, a, D
<1>7. Collected(D, s, Len(s)) BY <1>5, <1>6, AllCollected
<1>8. {s[i].name : i \in 1..Len(s)} = {d.name : d \in ToSet(w)} \cup {d.name : d \in ToSet(a)}
  <2>1. ToSet(s) = {s[i] : i \in 1..Len(s)} BY <1>5 DEF ToSet
  <2>2. {s[i].name : i \in 1..Len(s)} = {d.name : d \in ToSet(s)} BY <2>1
  <2> QED BY <1>5, <2>2
<1>9. ToSet(p.models) \ {Malformed} = {m \in Names : m \in ToSet(p.models)}
  <2>1. ToSet(p.models) \subseteq Names \cup {Malformed} BY <1>1 DEF ToSet
  <2> QED BY <2>1, MarkersAssumption
<1>10. {D[i].name : i \in DOMAIN D}
          = {m \in Names : m \in ToSet(p.models) \/ ClaimingIn(cms, p, m) # {}}
  BY <1>2, <1>3, <1>7, <1>8, <1>9 DEF Collected
<1>11. D \in Seq(Declaration) /\ \A i \in DOMAIN D : D[i].cred = ClaimCred(cms, p, D[i].name)
  BY <1>4, <1>7 DEF Collected
<1> QED BY <1>10, <1>11 DEF D

\* What claims and policies look at in a pod.
SameAsk(p, q) ==
    p.label = q.label /\ p.serviceAccount = q.serviceAccount /\ p.models = q.models

\* Pods that agree on it declare the same and are governed by the same.
LEMMA SameAsked ==
  ASSUME NEW p \in PodType, NEW q \in PodType, SameAsk(p, q)
  PROVE  /\ \A cms : DeclaredOf(cms, p) = DeclaredOf(cms, q)
         /\ \A C, T, l : Resolve(C, T, l, p) = Resolve(C, T, l, q)
<1>1. \A sel : workloadMatches(sel, p) = workloadMatches(sel, q)
  BY DEF workloadMatches, SameAsk
<1>2. ASSUME NEW cms PROVE DeclaredOf(cms, p) = DeclaredOf(cms, q)
  <2>1. Matching(cms, p) = Matching(cms, q) BY <1>1 DEF Matching
  <2>2. ClaimOrder(cms, p) = ClaimOrder(cms, q) BY <2>1, Zenon DEF ClaimOrder
  <2>3. Wanted(cms, p) = Wanted(cms, q) BY <2>2, Zenon DEF Wanted
  <2>4. parseModels(p) = parseModels(q) BY Zenon DEF parseModels, SameAsk
  <2> QED BY <2>3, <2>4, Zenon DEF DeclaredOf
<1>3. ASSUME NEW C, NEW T, NEW l PROVE Resolve(C, T, l, p) = Resolve(C, T, l, q)
  <2>1. WorkloadPolicies(T, p) = WorkloadPolicies(T, q)
    BY <1>1, MarkersAssumption DEF WorkloadPolicies
  <2>2. wlMatched(T, p) = wlMatched(T, q)
    BY <2>1, Zenon DEF wlMatched, WorkloadPolicies
  <2> QED BY <2>2, ResolveIsCombine
<1> QED BY <1>2, <1>3

-----------------------------------------------------------------------------
(* What the policies grant *)

\* Lists of policies of the namespace, as the API server returns them.
Known(C, T) ==
    /\ Listed(C) /\ \A p \in C : p.spec \in ClusterSpecs
    /\ Listed(T) /\ \A p \in T : p.spec \in TokenSpecs

\* Lists of stored policies are lists the resolver takes.
LEMMA KnownPolicies ==
  ASSUME NEW C, NEW T, Known(C, T)
  PROVE  Policies(C, T)
BY PoliciesAssumption DEF Known, Policies

\* The credential of a verdict is one that exists in the schema, or none.
LEMMA VerdictCred ==
  ASSUME NEW C, NEW T, Known(C, T), NEW l, NEW p, NEW m
  PROVE  Permit(Resolve(C, T, l, p), m).cred \in CredRef
<1> DEFINE eff == Resolve(C, T, l, p)
           Kw == CredsFor(RulesOf(WorkloadPolicies(T, p)), m)
           Kn == CredsFor(RulesOf(DefaultPolicies(T)), m)
           Kc == CredsFor(RulesOf(MatchingPolicies(C, l)), m)
           d == defaultCredOf(clusterMatched(C, l))
<1>1. Policies(C, T) BY KnownPolicies
<1>2. CASE ~Permit(eff, m).allowed
  <2>1. IsRules(RulesOf(C \cup T)) BY <1>1, RulesTyped
  <2>2. HasRules(eff, RulesOf(C \cup T), RulesOf(MatchingPolicies(C, l)),
                 RulesOf(DefaultPolicies(T)), RulesOf(WorkloadPolicies(T, p)))
    BY <1>1, ResolvedRules
  <2> HIDE DEF eff
  <2>3. Permit(eff, m).cred = NoCred BY <1>2, <2>1, <2>2, PermitVerdict DEF HasRules
  <2> QED BY <2>3 DEF CredRef, eff
<1>3. CASE Permit(eff, m).allowed
  <2>1. NarrowestCred(Permit(eff, m).cred, Kw, Kn, Kc, d)
    BY <1>1, <1>3, ResolvedCredential
  <2>2. DefaultCredFrom(C, l, d) BY <1>1, DefaultIsFromTier
  <2>3. ASSUME NEW S, \A q \in S : q.spec \in ClusterSpecs \cup TokenSpecs
        PROVE  CredsFor(RulesOf(S), m) \subseteq CredRef
    BY <2>3, PoliciesAssumption DEF CredsFor, RulesOf
  <2>4. /\ \A q \in MatchingPolicies(C, l) : q.spec \in ClusterSpecs
        /\ \A q \in DefaultPolicies(T) : q.spec \in TokenSpecs
        /\ \A q \in WorkloadPolicies(T, p) : q.spec \in TokenSpecs
    BY DEF Known, MatchingPolicies, DefaultPolicies, WorkloadPolicies
  <2>5. Kw \subseteq CredRef /\ Kn \subseteq CredRef /\ Kc \subseteq CredRef
    BY <2>3, <2>4
  <2>6. d \in CredRef BY <2>2, <2>4, PoliciesAssumption DEF DefaultCredFrom, CredRef
  <2> HIDE DEF eff, Kw, Kn, Kc, d
  <2>7. Permit(eff, m).cred \in CredRef
    BY <2>1, <2>5, <2>6 DEF NarrowestCred, Supplied, CredRef
  <2> QED BY <2>7 DEF eff
<1> QED BY <1>2, <1>3

\* The policies named in the annotation are numbered objects of their kinds.
LEMMA ResolvedSources ==
  ASSUME NEW C, NEW T, Known(C, T), NEW l, NEW p
  PROVE  Resolve(C, T, l, p).sources \subseteq {"ClusterTokenPolicy", "TokenPolicy"} \X Nat
<1> DEFINE c == clusterMatched(C, l)
           n == nsDefaults(T)
           w == wlMatched(T, p)
<1>1. Policies(C, T) BY KnownPolicies
<1>2. /\ c \in Seq(C) /\ n \in Seq(T) /\ w \in Seq(T)
  <2>1. /\ c \in Seq(MatchingPolicies(C, l)) /\ n \in Seq(DefaultPolicies(T))
        /\ w \in Seq(WorkloadPolicies(T, p))
    BY <1>1, MatchedTiers
  <2>2. /\ MatchingPolicies(C, l) \subseteq C /\ DefaultPolicies(T) \subseteq T
        /\ WorkloadPolicies(T, p) \subseteq T
    BY DEF MatchingPolicies, DefaultPolicies, WorkloadPolicies
  <2> QED BY <2>1, <2>2, SeqSubset
<1>3. Resolve(C, T, l, p) = Combine(c, n, w) BY ResolveIsCombine
<1> HIDE DEF c, n, w
<1>4. ToSet(c) \subseteq C /\ ToSet(n \o w) \subseteq T
  <2>1. n \o w \in Seq(T) BY <1>2
  <2> QED BY <1>2, <2>1 DEF ToSet
<1>5. \A q \in C \cup T : q.name \in Nat BY DEF Known, Listed
<1>6. Combine(c, n, w).sources
        = Sources("ClusterTokenPolicy", c) \cup Sources("TokenPolicy", n \o w)
  BY DEF Combine
<1>7. /\ Sources("ClusterTokenPolicy", c) \subseteq {"ClusterTokenPolicy", "TokenPolicy"} \X Nat
      /\ Sources("TokenPolicy", n \o w) \subseteq {"ClusterTokenPolicy", "TokenPolicy"} \X Nat
  BY <1>4, <1>5 DEF Sources
<1> QED BY <1>3, <1>6, <1>7

\* c is a credential that eff grants to a model that D declares.
Serves(eff, D, c) == c # NoCred /\ \E i \in DOMAIN D : c = credWanted(eff, D[i])

\* credOrder, of any declarations.
OrderOf(eff, D) == FoldLeft(addCred, <<>>, [i \in DOMAIN D |-> credWanted(eff, D[i])])

\* The credentials to bind are those granted to a declared model.
LEMMA OrderServes ==
  ASSUME NEW C, NEW T, Known(C, T), NEW l, NEW p, NEW D \in Seq(Declaration)
  PROVE  LET eff == Resolve(C, T, l, p)
         IN  /\ OrderOf(eff, D) \in Seq(CredNames)
             /\ \A c : c \in ToSet(OrderOf(eff, D)) <=> Serves(eff, D, c)
<1> DEFINE eff == Resolve(C, T, l, p)
           w == [i \in DOMAIN D |-> credWanted(eff, D[i])]
           W == {credWanted(eff, D[i]) : i \in DOMAIN D}
           o == OrderOf(eff, D)
<1>1. \A m : Permit(eff, m).cred \in CredRef BY VerdictCred
<1> HIDE DEF eff
<1>2. ASSUME NEW i \in DOMAIN D PROVE credWanted(eff, D[i]) \in CredRef
  <2>0. D[i] \in Declaration OBVIOUS
  <2>1. D[i].cred \in CredRef BY <2>0 DEF Declaration
  <2>2. NoCred \in CredRef BY DEF CredRef
  <2> QED BY <1>1, <2>1, <2>2 DEF credWanted
<1>3. w \in Seq(W) /\ ToSet(w) = W
  <2>1. DOMAIN D = 1..Len(D) /\ Len(D) \in Nat OBVIOUS
  <2>2. w \in [1..Len(D) -> W] BY <2>1
  <2> QED BY <2>1, <2>2 DEF ToSet
<1>4. o = FoldLeft(addCred, <<>>, w) BY DEF OrderOf
<1> HIDE DEF w, o
<1>5. o \in Seq(W) /\ ToSet(o) = W \ {NoCred} BY <1>3, <1>4, CredsCollected
<1>6. W \subseteq CredRef BY <1>2
<1>7. \A c : c \in ToSet(o) <=> Serves(eff, D, c) BY <1>5 DEF Serves
<1> HIDE DEF W
<1>8. o \in Seq(ToSet(o)) BY <1>5, ToSetTyped
<1>9. ToSet(o) \subseteq CredNames BY <1>5, <1>6 DEF CredRef
<1>10. o \in Seq(CredNames) BY <1>8, <1>9, SeqSubset
<1> QED BY <1>7, <1>10 DEF o, eff

-----------------------------------------------------------------------------
(* The resolver as PolicyHierarchy's definitions see it: every copy of an  *)
(* operator of Resolver agrees with the original.                          *)

\* The sorts,
LEMMA SameSorted ==
  \A S : /\ P!sortByName(S) = sortByName(S)
         /\ P!sortByPriority(S) = sortByPriority(S)
BY Zenon DEF sortByName, P!sortByName, sortByPriority, P!sortByPriority, Sorted, P!Sorted,
   SetToSeqs, P!SetToSeqs, Cardinality, P!Cardinality, byName, P!byName, byPriority,
   P!byPriority

\* the loops over a tier,
LEMMA SameFolds ==
  \A s : /\ P!enforcementOf(s) = enforcementOf(s)
         /\ P!gatewayOf(s) = gatewayOf(s)
         /\ P!quotaOf(s) = quotaOf(s)
         /\ P!defaultCredOf(s) = defaultCredOf(s)
         /\ P!Rules(s) = Rules(s)
BY Zenon DEF enforcementOf, P!enforcementOf, gatewayOf, P!gatewayOf, quotaOf, P!quotaOf,
   defaultCredOf, P!defaultCredOf, Overwrite, P!Overwrite, FoldLeft, P!FoldLeft,
   MapThenFoldSet, P!MapThenFoldSet, Max, P!Max, minQuota, P!minQuota, minPtr, P!minPtr,
   Rules, P!Rules, FlattenSeq, P!FlattenSeq

\* their combination,
LEMMA SameCombine ==
  ASSUME NEW a, NEW b, NEW c PROVE P!Combine(a, b, c) = Combine(a, b, c)
BY SameFolds DEF Combine, P!Combine, Sources, P!Sources, ToSet, P!ToSet

\* the policies matched,
LEMMA SameMatches ==
  ASSUME NEW C, NEW T, NEW l, NEW p
  PROVE  /\ P!clusterMatched(C, l) = clusterMatched(C, l)
         /\ P!nsDefaults(T) = nsDefaults(T)
         /\ P!wlMatched(T, p) = wlMatched(T, p)
<1>1. P!clusterMatched(C, l) = clusterMatched(C, l)
  BY SameSorted DEF clusterMatched, P!clusterMatched
<1>2. P!nsDefaults(T) = nsDefaults(T)
  BY SameSorted DEF nsDefaults, P!nsDefaults, IsEmpty, P!IsEmpty
<1>3. P!wlMatched(T, p) = wlMatched(T, p)
  <2> DEFINE W == {q \in T : /\ ~IsEmpty(q.spec.selector)
                            /\ p # NoIdentity
                            /\ workloadMatches(q.spec.selector, p)}
  <2>1. wlMatched(T, p) = sortByPriority(W) BY DEF wlMatched
  <2>2. P!wlMatched(T, p) = P!sortByPriority(W)
    BY Zenon DEF P!wlMatched, IsEmpty, P!IsEmpty, workloadMatches, P!workloadMatches
  <2> QED BY <2>1, <2>2, SameSorted
<1> QED BY <1>1, <1>2, <1>3

\* and Resolve.
LEMMA SameResolve ==
  ASSUME NEW C, NEW T, NEW l, NEW p
  PROVE  P!Resolve(C, T, l, p) = Resolve(C, T, l, p)
<1> DEFINE v == P!Combine(P!clusterMatched(C, l), P!nsDefaults(T), P!wlMatched(T, p))
           V == {P!Combine(cl, ns, wl) : cl \in {P!clusterMatched(C, l)},
                      ns \in {P!nsDefaults(T)}, wl \in {P!wlMatched(T, p)}}
<1>1. P!Resolve(C, T, l, p) = CHOOSE eff \in V : TRUE BY DEF P!Resolve
<1>2. v \in V /\ \A x \in V : x = v OBVIOUS
<1>3. v = Combine(clusterMatched(C, l), nsDefaults(T), wlMatched(T, p))
  BY SameMatches, SameCombine
<1> HIDE DEF V, v
<1>4. P!Resolve(C, T, l, p) = v BY <1>1, <1>2, Zenon
<1> QED BY <1>3, <1>4, ResolveIsCombine

\* A tier refuses a model when its rules do.
LEMMA RefusesIsForbids ==
  ASSUME NEW S, NEW m
  PROVE  P!Refuses(S, m) <=> Forbids(RulesOf(S), m)
BY DEF P!Refuses, P!RulesFor, P!AllRules, P!Allows, Forbids, RulesOf, P!modelMatches,
       modelMatches, P!ToSet, ToSet

-----------------------------------------------------------------------------
(* What the documents promise, in terms of what the code computes *)

\* The stored policies, as lists.
StoredPolicies == Known(P!Named(cluster), P!Named(tokens))

\* What admission of p resolves to at this moment.
EffNow(p) == Resolve(P!Named(cluster), P!Named(tokens), nsLabel, p)

DeclaredNow(p) == DeclaredOf(claims, p)

\* What PolicyHierarchy calls effective is what admission resolves to.
LEMMA EffectiveIsEff == \A p : P!Effective(p) = EffNow(p)
BY SameResolve DEF P!Effective, EffNow

\* The tiers of the documents are those the resolver matches.
LEMMA TiersAreMatched ==
  ASSUME NEW p \in PodType
  PROVE  /\ P!ClusterTier = MatchingPolicies(P!Named(cluster), nsLabel)
         /\ P!NamespaceTier = DefaultPolicies(P!Named(tokens))
         /\ P!WorkloadTier(p) = WorkloadPolicies(P!Named(tokens), p)
<1>1. P!ClusterTier = MatchingPolicies(P!Named(cluster), nsLabel)
  BY DEF P!ClusterTier, MatchingPolicies
<1>2. P!NamespaceTier = DefaultPolicies(P!Named(tokens))
  BY DEF P!NamespaceTier, DefaultPolicies, P!Untargeted, IsEmpty
<1>3. P!WorkloadTier(p) = WorkloadPolicies(P!Named(tokens), p)
  BY MarkersAssumption
  DEF P!WorkloadTier, WorkloadPolicies, P!Untargeted, IsEmpty, P!Targets, workloadMatches
<1> QED BY <1>1, <1>2, <1>3

\* A scope is governed when a policy applies.
LEMMA GovernedIsApplicable ==
  ASSUME StoredPolicies, NEW p \in PodType
  PROVE  EffNow(p).governed <=> P!Applicable(p) # {}
<1> DEFINE C == P!Named(cluster)
           T == P!Named(tokens)
           applied == clusterMatched(C, nsLabel) \o nsDefaults(T) \o wlMatched(T, p)
<1>1. Policies(C, T) BY KnownPolicies DEF StoredPolicies
<1>2. applied \in Seq(C \cup T) /\ ToSet(applied) = P!Applicable(p)
  <2>1. /\ applied \in Seq(C \cup T)
        /\ ToSet(applied) = MatchingPolicies(C, nsLabel) \cup DefaultPolicies(T)
                              \cup WorkloadPolicies(T, p)
    BY <1>1, AppliedPolicies
  <2> HIDE DEF applied
  <2> QED BY <2>1, TiersAreMatched DEF P!Applicable
<1>3. EffNow(p).governed = (applied # <<>>)
  BY ResolveIsCombine, CombineFields DEF EffNow
<1> HIDE DEF applied
<1>4. applied # <<>> <=> ToSet(applied) # {}
  <2>1. DOMAIN applied = 1..Len(applied) /\ Len(applied) \in Nat BY <1>2
  <2>2. applied = <<>> <=> Len(applied) = 0 BY <1>2
  <2>3. DOMAIN applied = {} <=> Len(applied) = 0
    <3>1. Len(applied) # 0 => 1 \in DOMAIN applied BY <2>1
    <3>2. Len(applied) = 0 => DOMAIN applied = {} BY <2>1
    <3> QED BY <3>1, <3>2
  <2>4. ToSet(applied) = {} <=> DOMAIN applied = {} BY DEF ToSet
  <2> QED BY <2>2, <2>3, <2>4
<1> QED BY <1>2, <1>3, <1>4

\* What Permit allows is what no tier refuses.
LEMMA PermittedIsAllowed ==
  ASSUME StoredPolicies, NEW p \in PodType, NEW m
  PROVE  Permitted(p, m) <=> Permit(EffNow(p), m).allowed
<1> DEFINE C == P!Named(cluster)
           T == P!Named(tokens)
<1>1. Policies(C, T) BY KnownPolicies DEF StoredPolicies
<1>2. Permit(EffNow(p), m).allowed <=>
             /\ ~Forbids(RulesOf(MatchingPolicies(C, nsLabel)), m)
             /\ ~Forbids(RulesOf(DefaultPolicies(T)), m)
             /\ ~Forbids(RulesOf(WorkloadPolicies(T, p)), m)
  BY <1>1, ResolvedVerdict DEF EffNow
<1>3. Permitted(p, m) <=> /\ ~P!Refuses(P!ClusterTier, m)
                          /\ ~P!Refuses(P!NamespaceTier, m)
                          /\ ~P!Refuses(P!WorkloadTier(p), m)
  BY DEF Permitted, Tiers
<1> HIDE DEF C, T
<1>4. /\ P!ClusterTier = MatchingPolicies(C, nsLabel)
      /\ P!NamespaceTier = DefaultPolicies(T)
      /\ P!WorkloadTier(p) = WorkloadPolicies(T, p)
  BY TiersAreMatched DEF C, T
<1> QED BY <1>2, <1>3, <1>4, RefusesIsForbids

\* What a pod declares, according to the documents and to the code.
LEMMA DeclaredIsDeclared ==
  ASSUME ClaimsOK(claims), NEW p \in PodType
  PROVE  DeclaredSet(p) = {DeclaredNow(p)[i].name : i \in DOMAIN DeclaredNow(p)}
<1>1. \A m : Claiming(p, m) = ClaimingIn(claims, p, m)
  BY DEF Claiming, ClaimingIn, Matching, P!Targets, workloadMatches
<1>2. DeclaredSet(p) = {m \in Names : m \in ToSet(p.models) \/ ClaimingIn(claims, p, m) # {}}
  BY <1>1 DEF DeclaredSet
<1> QED BY <1>2, AskedFor DEF DeclaredNow

\* The credential a model is to be served with, likewise.
LEMMA ServedByIs ==
  ASSUME ClaimsOK(claims), NEW p \in PodType, NEW m
  PROVE  LET c == Permit(EffNow(p), m).cred
         IN  ServedBy(p, m) = IF c # NoCred THEN {c}
                              ELSE {ClaimCred(claims, p, m)} \ {NoCred}
<1>1. \A n : Preference(n, m) = PreferenceIn(claims, n, m)
  BY Zenon DEF Preference, PreferenceIn
<1>2. {n \in Claiming(p, m) : Preference(n, m) # 0} = NamingIn(claims, p, m)
  BY <1>1 DEF NamingIn, Claiming, ClaimingIn, Matching, P!Targets, workloadMatches
<1> DEFINE naming == NamingIn(claims, p, m)
           first == CHOOSE n \in naming : \A k \in naming : n <= k
           cred == claims[first].models[PreferenceIn(claims, first, m)].cred
           c == Permit(EffNow(p), m).cred
<1>3. ServedBy(p, m) = IF c # NoCred THEN {c} ELSE IF naming = {} THEN {} ELSE {cred}
  <2> DEFINE nam == {n \in Claiming(p, m) : Preference(n, m) # 0}
             fst == CHOOSE n \in nam : \A k \in nam : n <= k
  <2>1. ServedBy(p, m) = IF Permit(P!Effective(p), m).cred # NoCred
                         THEN {Permit(P!Effective(p), m).cred}
                         ELSE IF nam = {} THEN {}
                         ELSE {claims[fst].models[Preference(fst, m)].cred}
    BY Zenon DEF ServedBy
  <2>2. nam = naming /\ fst = first BY <1>2
  <2>3. Preference(fst, m) = PreferenceIn(claims, first, m) BY <1>1, <2>2
  <2> HIDE DEF nam, fst, naming, first
  <2> QED BY <2>1, <2>2, <2>3, EffectiveIsEff
<1>4. ClaimCred(claims, p, m) = IF naming = {} THEN NoCred ELSE cred
  BY Zenon DEF ClaimCred
<1>5. naming # {} => cred # NoCred
  <2> SUFFICES ASSUME naming # {} PROVE cred # NoCred OBVIOUS
  <2>1. naming \subseteq Nat /\ naming \subseteq DOMAIN claims
    BY KeysAssumption DEF NamingIn, ClaimingIn, Matching, ClaimsOK, StoreOK
  <2> HIDE DEF naming
  <2>2. first \in naming
    <3>1. \E n \in naming : \A k \in naming : n <= k BY <2>1, NatMin
    <3> QED BY <3>1
  <2>3. first \in DOMAIN claims /\ PreferenceIn(claims, first, m) # 0
    <3>1. \A n \in naming : n \in DOMAIN claims /\ PreferenceIn(claims, n, m) # 0
      BY <2>1 DEF naming, NamingIn
    <3> HIDE DEF first
    <3> QED BY <2>2, <3>1
  <2> HIDE DEF first
  <2> QED BY <2>3, PreferenceIsFirst DEF FirstPlace
<1> HIDE DEF naming, first, cred
<1> QED BY <1>3, <1>4, <1>5

\* The credentials granted to a declared model are those that serve a
\* declared model that no tier refuses.
LEMMA ServesAsPromised ==
  ASSUME StoredPolicies, ClaimsOK(claims), NEW p \in PodType, NEW c
  PROVE  Serves(EffNow(p), DeclaredNow(p), c) <=>
            \E m \in DeclaredSet(p) : Permitted(p, m) /\ c \in ServedBy(p, m)
<1> DEFINE eff == EffNow(p)
           D == DeclaredNow(p)
           want(m) == IF Permit(eff, m).cred # NoCred THEN Permit(eff, m).cred
                      ELSE ClaimCred(claims, p, m)
<1>1. /\ DeclaredSet(p) = {D[i].name : i \in DOMAIN D}
      /\ \A i \in DOMAIN D : D[i].cred = ClaimCred(claims, p, D[i].name)
  BY DeclaredIsDeclared, AskedFor DEF DeclaredNow
<1>2. \A m : Permitted(p, m) <=> Permit(eff, m).allowed BY PermittedIsAllowed
<1>3. \A m : ServedBy(p, m) = {want(m)} \ {NoCred}
  <2> TAKE m
  <2>1. ServedBy(p, m) = IF Permit(eff, m).cred # NoCred THEN {Permit(eff, m).cred}
                         ELSE {ClaimCred(claims, p, m)} \ {NoCred}
    BY ServedByIs
  <2> HIDE DEF eff
  <2> QED BY <2>1
<1> HIDE DEF eff, D
<1>4. \A i \in DOMAIN D : credWanted(eff, D[i]) =
         IF Permit(eff, D[i].name).allowed THEN want(D[i].name) ELSE NoCred
  BY <1>1 DEF credWanted
<1> HIDE DEF want
<1>5. Serves(eff, D, c) <=> \E m \in DeclaredSet(p) : Permitted(p, m) /\ c \in ServedBy(p, m)
  BY <1>1, <1>2, <1>3, <1>4 DEF Serves
<1> QED BY <1>5 DEF eff, D

-----------------------------------------------------------------------------
(* Types *)

\* The stored objects.
Stores ==
    /\ StoreOK(cluster, ClusterNames, ClusterSpecs)
    /\ StoreOK(tokens, TokenNames, TokenSpecs)
    /\ ClaimsOK(claims)
    /\ creds \in [CredNames -> CredSpecs \cup {Absent}]

\* q is p with more variables, mounts and volumes.
Extends(p, q) ==
    /\ SameAsk(p, q) /\ q.containers = p.containers /\ q.optOut = p.optOut
    /\ \A k \in Containers :
          /\ p.mounts[k] \subseteq q.mounts[k]
          /\ \A e \in EnvNames : p.env[k][e] \in {NoCred, q.env[k][e]}

PodOK(p) == p \in PodType /\ Consistent(p)

\* The request and the webhook's locals: which are meaningful when, and that
\* the webhook's copy of the pod only ever holds more than the pod.
Types ==
    /\ PodOK(pod) /\ PodOK(before) /\ PodOK(work)
    /\ Extends(pod, work)
    /\ reads # "credential" => work = pod
    /\ declared \in Seq(Declaration)
    /\ DOMAIN seen = {"cluster", "tokens"} /\ Known(seen.cluster, seen.tokens)
    /\ order \in Seq(CredNames)
    /\ bound \subseteq CredNames
    /\ sources \subseteq {"ClusterTokenPolicy", "TokenPolicy"} \X Nat
    /\ phase \in {"none", "mutate", "others", "validate", "admitted", "refused"}
    /\ reads \in {"none", "claims", "cluster", "tokens", "namespace", "credential"}
    /\ Running <=> reads # "none"
    /\ reads = "credential" => phase = "mutate"
    /\ calls \in 0..2
    /\ phase = "mutate" => calls \in 0..1
    /\ phase = "others" => calls \in 1..2

\* The type invariant, strengthened.
TypeInv == Stores /\ Types

\* What is stored is well-formed at first,
LEMMA StoresInit == Init => Stores
<1> SUFFICES ASSUME Init PROVE Stores OBVIOUS
<1>1. PICK w \in Worlds : /\ cluster = w.cluster
                          /\ tokens = w.tokens
                          /\ claims = w.claims
                          /\ creds = w.creds
  BY DEF Init
<1> QED BY <1>1, WorldsAssumption DEF Stores, ClaimsOK, StoreOK, Store

\* and edits keep it so.
LEMMA StoresStep ==
  ASSUME Stores, [Next]_vars PROVE Stores'
<1>1. CASE UNCHANGED stored BY <1>1 DEF Stores, stored, policies
<1>2. CASE EditPolicies
  <2>0. UNCHANGED <<claims, creds>> /\ P!Next BY <1>2 DEF EditPolicies
  <2>1. ASSUME NEW n \in ClusterNames, P!DeleteCluster(n) PROVE Stores'
    BY <2>0, <2>1, StoreReduced DEF P!DeleteCluster, P!Drop, Stores
  <2>2. ASSUME NEW n \in ClusterNames, NEW s \in ClusterSpecs, P!ApplyCluster(n, s) PROVE Stores'
    BY <2>0, <2>2, StoreExtended DEF P!ApplyCluster, P!Put, Stores
  <2>3. ASSUME NEW n \in TokenNames, P!DeleteToken(n) PROVE Stores'
    BY <2>0, <2>3, StoreReduced DEF P!DeleteToken, P!Drop, Stores
  <2>4. ASSUME NEW n \in TokenNames, NEW s \in TokenSpecs, P!ApplyToken(n, s) PROVE Stores'
    BY <2>0, <2>4, StoreExtended DEF P!ApplyToken, P!Put, Stores
  <2>5. ASSUME NEW l \in NsLabels, P!Relabel(l) PROVE Stores'
    BY <2>0, <2>5 DEF P!Relabel, Stores
  <2> QED BY <2>0, <2>1, <2>2, <2>3, <2>4, <2>5 DEF P!Next
<1>3. CASE EditClaims
  <2>0. UNCHANGED <<policies, creds>> BY <1>3 DEF EditClaims
  <2>1. PICK n \in ClaimNames :
          \/ \E spec \in ClaimSpecs : claims' = P!Put(claims, n, spec)
          \/ claims' = P!Drop(claims, n)
    BY <1>3 DEF EditClaims
  <2>2. ClaimsOK(claims')
    BY <2>1, StoreExtended, StoreReduced DEF Stores, ClaimsOK, P!Put, P!Drop
  <2> QED BY <2>0, <2>2 DEF Stores, policies
<1>4. CASE EditCredentials
  BY <1>4 DEF EditCredentials, Stores, policies
<1>5. [Next]_vars => UNCHANGED stored \/ EditPolicies \/ EditClaims \/ EditCredentials
  BY DEF Next, vars, CreatePod, UpdatePod, Receive, OtherWebhook, StartValidation, Webhook,
         ListClaims, ListClusterPolicies, ListTokenPolicies, Validate, StartBinding,
         BindCredential, FinishMutate, CallFails, BindFails, Pass, Respond
<1> QED BY <1>1, <1>2, <1>3, <1>4, <1>5

\* The policies of a store, as a list.
LEMMA StoredKnown ==
  ASSUME Stores
  PROVE  StoredPolicies
<1>1. Listed(P!Named(cluster)) /\ \A p \in P!Named(cluster) : p.spec \in ClusterSpecs
  BY KeysAssumption, StoreListed DEF Stores, P!Named
<1>2. Listed(P!Named(tokens)) /\ \A p \in P!Named(tokens) : p.spec \in TokenSpecs
  <2>1. StoreOK(tokens, TokenNames, TokenSpecs) /\ TokenNames \in SUBSET Nat
    BY KeysAssumption DEF Stores
  <2> QED BY <2>1, StoreListed DEF P!Named
<1> QED BY <1>1, <1>2, Zenon DEF StoredPolicies, Known

\* What a pod carries, container by container.
LEMMA CarriedBy ==
  \A p, x : x \in Carried(p) <=>
               /\ x \notin {Own, NoCred}
               /\ \E k \in p.containers :
                     x \in p.mounts[k] \/ \E e \in EnvNames : x = p.env[k][e]
<1> TAKE p, x
<1> DEFINE has(k) == {p.env[k][e] : e \in EnvNames} \cup p.mounts[k]
           all == UNION {has(k) : k \in p.containers}
<1>1. Carried(p) = all \ {Own, NoCred} BY DEF Carried
<1>2. \A k : x \in has(k) <=> x \in p.mounts[k] \/ \E e \in EnvNames : x = p.env[k][e]
  OBVIOUS
<1>3. x \in all <=> \E k \in p.containers : x \in has(k)
  OBVIOUS
<1> HIDE DEF has, all
<1>4. x \in Carried(p) <=> x \in all /\ x \notin {Own, NoCred} BY <1>1
<1>5. (\E k \in p.containers : x \in has(k))
         <=> \E k \in p.containers : x \in p.mounts[k] \/ \E e \in EnvNames : x = p.env[k][e]
  BY <1>2
<1> QED BY <1>3, <1>4, <1>5

\* Every container of p has what credential c delivers.
Holds(crs, p, c) ==
    \A k \in p.containers :
        /\ crs[c].mode = "Env" => p.env[k][crs[c].env] # NoCred
        /\ crs[c].mode = "ProjectedVolume" => c \in p.mounts[k]

\* What a delivery does to a pod: it adds, it adds nothing else than the
\* credential, it leaves no container out, and when it changes a container
\* the credential is in it.
Delivers(crs, p, c, q) ==
    /\ PodOK(q)
    /\ Extends(p, q)
    /\ Carried(q) \subseteq Carried(p) \cup {c}
    /\ c # NoCred => Holds(crs, q, c)
    /\ q.bound = p.bound
    /\ q.env # p.env \/ q.mounts # p.mounts => c \in Carried(q)

\* A variable is delivered to every container that lacks it.
LEMMA EnvInjected ==
  ASSUME NEW p, PodOK(p), NEW c \in CredNames, creds[c] \in CredType, creds[c].mode = "Env"
  PROVE  Delivers(creds, p, c, injectEnv(p, c))
<1> DEFINE v == creds[c].env
           V == CredNames \cup {Own, NoCred}
           new(k) == IF k \in p.containers /\ p.env[k][v] = NoCred
                        THEN [p.env[k] EXCEPT ![v] = c] ELSE p.env[k]
           env == [k \in Containers |-> new(k)]
           q == injectEnv(p, c)
<1>1. v \in EnvNames BY DEF CredType
<1>2. q = [p EXCEPT !.env = env] BY DEF injectEnv
<1>3. /\ p \in PodType /\ p.env \in [Containers -> [EnvNames -> V]]
      /\ p.containers \subseteq Containers /\ p.mounts \in [Containers -> SUBSET CredNames]
  BY DEF PodOK, PodType
<1>4. ASSUME NEW k \in Containers
      PROVE  /\ new(k) \in [EnvNames -> V]
             /\ \A e \in EnvNames :
                   new(k)[e] = IF e = v /\ k \in p.containers /\ p.env[k][v] = NoCred
                               THEN c ELSE p.env[k][e]
  BY <1>1, <1>3
<1> HIDE DEF new, q
<1>5. env \in [Containers -> [EnvNames -> V]] /\ \A k \in Containers : env[k] = new(k)
  BY <1>4
<1> HIDE DEF env
<1>6. /\ q \in PodType /\ q.env = env
      /\ q.label = p.label /\ q.serviceAccount = p.serviceAccount /\ q.models = p.models
      /\ q.optOut = p.optOut /\ q.containers = p.containers /\ q.mounts = p.mounts
      /\ q.volumes = p.volumes /\ q.bound = p.bound
  BY <1>2, <1>3, <1>5 DEF PodType
<1> HIDE DEF v
<1>7. PodOK(q)
  <2>1. Consistent(q)
    BY <1>3, <1>4, <1>5, <1>6 DEF PodOK, Consistent
  <2> QED BY <1>6, <2>1 DEF PodOK
<1>8. Extends(p, q)
  BY <1>4, <1>5, <1>6 DEF Extends, SameAsk
<1>9. Carried(q) \subseteq Carried(p) \cup {c}
  <2> SUFFICES ASSUME NEW x \in Carried(q), x # c PROVE x \in Carried(p)
    OBVIOUS
  <2>1. x \notin {Own, NoCred} BY CarriedBy
  <2>2. PICK k \in p.containers : x \in p.mounts[k] \/ \E e \in EnvNames : x = env[k][e]
    BY <1>6, CarriedBy
  <2>3. \A e \in EnvNames : env[k][e] = c \/ env[k][e] = p.env[k][e]
    BY <1>3, <1>4, <1>5
  <2> QED BY <2>1, <2>2, <2>3, CarriedBy
<1>10. c # NoCred => Holds(creds, q, c)
  BY <1>1, <1>3, <1>4, <1>5, <1>6 DEF Holds, v
<1>11. env # p.env => c \in Carried(q)
  <2> SUFFICES ASSUME env # p.env PROVE c \in Carried(q) OBVIOUS
  <2>1. c \notin {Own, NoCred} BY MarkersAssumption
  <2>2. PICK k \in Containers : env[k] # p.env[k]
    <3>1. DOMAIN env = Containers /\ DOMAIN p.env = Containers BY <1>3, <1>5
    <3>2. env = [k \in Containers |-> env[k]] /\ p.env = [k \in Containers |-> p.env[k]]
      BY <1>3, <1>5
    <3> QED BY <3>1, <3>2
  <2>3. k \in p.containers /\ p.env[k][v] = NoCred BY <1>5, <2>2 DEF new
  <2>4. env[k][v] = c BY <1>1, <1>4, <1>5, <2>3 DEF v
  <2> QED BY <1>1, <1>6, <2>1, <2>3, <2>4, CarriedBy DEF v
<1> QED BY <1>6, <1>7, <1>8, <1>9, <1>10, <1>11 DEF Delivers, q

\* A volume is delivered to every container.
LEMMA VolumeInjected ==
  ASSUME NEW p, PodOK(p), NEW c \in CredNames, creds[c] \in CredType,
         creds[c].mode = "ProjectedVolume"
  PROVE  Delivers(creds, p, c, injectVolume(p, c))
<1> DEFINE mounts == [k \in Containers |->
                         IF k \in p.containers THEN p.mounts[k] \cup {c} ELSE p.mounts[k]]
           q == injectVolume(p, c)
<1>1. q = [p EXCEPT !.volumes = p.volumes \cup {c}, !.mounts = mounts] BY DEF injectVolume
<1>2. /\ p \in PodType /\ p.mounts \in [Containers -> SUBSET CredNames]
      /\ p.containers \subseteq Containers /\ p.volumes \subseteq CredNames
  BY DEF PodOK, PodType
<1>3. /\ mounts \in [Containers -> SUBSET CredNames]
      /\ \A k \in Containers :
            mounts[k] = IF k \in p.containers THEN p.mounts[k] \cup {c} ELSE p.mounts[k]
  BY <1>2
<1> HIDE DEF mounts, q
<1>4. /\ q \in PodType /\ q.mounts = mounts /\ q.volumes = p.volumes \cup {c}
      /\ q.label = p.label /\ q.serviceAccount = p.serviceAccount /\ q.models = p.models
      /\ q.optOut = p.optOut /\ q.containers = p.containers /\ q.env = p.env
      /\ q.bound = p.bound
  BY <1>1, <1>2, <1>3 DEF PodType
<1>5. PodOK(q)
  <2>1. Consistent(q)
    BY <1>2, <1>3, <1>4 DEF PodOK, Consistent
  <2> QED BY <1>4, <2>1 DEF PodOK
<1>6. Extends(p, q)
  BY <1>3, <1>4 DEF Extends, SameAsk
<1>7. Carried(q) \subseteq Carried(p) \cup {c}
  <2> SUFFICES ASSUME NEW x \in Carried(q), x # c PROVE x \in Carried(p)
    OBVIOUS
  <2>1. x \notin {Own, NoCred} BY CarriedBy
  <2>2. PICK k \in p.containers : x \in mounts[k] \/ \E e \in EnvNames : x = p.env[k][e]
    BY <1>4, CarriedBy
  <2>3. mounts[k] \subseteq p.mounts[k] \cup {c} BY <1>2, <1>3
  <2> QED BY <2>1, <2>2, <2>3, CarriedBy
<1>8. Holds(creds, q, c) BY <1>2, <1>3, <1>4 DEF Holds
<1>9. mounts # p.mounts => c \in Carried(q)
  <2> SUFFICES ASSUME mounts # p.mounts PROVE c \in Carried(q) OBVIOUS
  <2>1. c \notin {Own, NoCred} BY MarkersAssumption
  <2>2. PICK k \in Containers : mounts[k] # p.mounts[k] BY <1>2, <1>3
  <2>3. k \in p.containers /\ c \in mounts[k] BY <1>3, <2>2
  <2> QED BY <1>4, <2>1, <2>3, CarriedBy
<1> QED BY <1>4, <1>5, <1>6, <1>7, <1>8, <1>9 DEF Delivers, q

\* So a credential is delivered, whatever its mode.
LEMMA Injected ==
  ASSUME NEW p, PodOK(p), NEW c \in CredNames, creds[c] \in CredType
  PROVE  Delivers(creds, p, c, injectCredential(p, c))
<1>1. creds[c].mode \in {"None", "Env", "ProjectedVolume"} BY DEF CredType
<1>2. CASE creds[c].mode = "None"
  <2>1. injectCredential(p, c) = p BY <1>2 DEF injectCredential
  <2>2. Extends(p, p) /\ Holds(creds, p, c) BY <1>2 DEF Extends, SameAsk, Holds
  <2> QED BY <2>1, <2>2 DEF Delivers
<1>3. CASE creds[c].mode = "Env"
  <2>1. injectCredential(p, c) = injectEnv(p, c) BY <1>3 DEF injectCredential
  <2> QED BY <1>3, <2>1, EnvInjected
<1>4. CASE creds[c].mode = "ProjectedVolume"
  <2>1. injectCredential(p, c) = injectVolume(p, c) BY <1>4 DEF injectCredential
  <2> QED BY <1>4, <2>1, VolumeInjected
<1> QED BY <1>1, <1>2, <1>3, <1>4

\* A pod with more in it carries all that it did, and still holds what it held.
LEMMA ExtendsKeeps ==
  ASSUME NEW p, NEW q, PodOK(p), Extends(p, q)
  PROVE  /\ Carried(p) \subseteq Carried(q)
         /\ \A c : creds[c] \in CredType /\ Holds(creds, p, c) => Holds(creds, q, c)
<1>1. p.containers \subseteq Containers BY DEF PodOK, PodType
<1>2. ASSUME NEW x \in Carried(p) PROVE x \in Carried(q)
  <2>1. x \notin {Own, NoCred} BY CarriedBy
  <2>2. PICK k \in p.containers : x \in p.mounts[k] \/ \E e \in EnvNames : x = p.env[k][e]
    BY CarriedBy
  <2>3. k \in Containers /\ k \in q.containers BY <1>1 DEF Extends
  <2>4. x \in q.mounts[k] \/ \E e \in EnvNames : x = q.env[k][e]
    BY <2>1, <2>2, <2>3 DEF Extends
  <2> QED BY <2>1, <2>3, <2>4, CarriedBy
<1>3. ASSUME NEW c, creds[c] \in CredType, Holds(creds, p, c) PROVE Holds(creds, q, c)
  <2>1. creds[c].env \in EnvNames BY <1>3 DEF CredType
  <2>2. \A k \in q.containers : k \in Containers /\ k \in p.containers BY <1>1 DEF Extends
  <2> QED BY <1>3, <2>1, <2>2 DEF Holds, Extends
<1> QED BY <1>2, <1>3

\* Adding twice is adding.
LEMMA ExtendsTwice ==
  ASSUME NEW p, NEW q, NEW r, Extends(p, q), Extends(q, r)
  PROVE  Extends(p, r)
<1>1. \A k \in Containers : p.mounts[k] \subseteq r.mounts[k] BY DEF Extends
<1>2. \A k \in Containers : \A e \in EnvNames : p.env[k][e] \in {NoCred, r.env[k][e]}
  BY DEF Extends
<1> QED BY <1>1, <1>2 DEF Extends, SameAsk

\* A pod with the same containers, variables and mounts.
SameLoad(p, q) ==
    q.containers = p.containers /\ q.env = p.env /\ q.mounts = p.mounts

\* Such a pod carries and holds the same.
LEMMA SameLoadKeeps ==
  ASSUME NEW p, NEW q, SameLoad(p, q)
  PROVE  /\ Carried(q) = Carried(p)
         /\ \A crs, c : Holds(crs, p, c) => Holds(crs, q, c)
BY DEF SameLoad, Carried, Holds

\* The annotations are no load.
LEMMA Annotated ==
  ASSUME NEW p, PodOK(p), NEW b \in SUBSET CredNames,
         NEW s \in SUBSET ({"ClusterTokenPolicy", "TokenPolicy"} \X Nat)
  PROVE  LET q == [p EXCEPT !.bound = b, !.policies = s]
         IN  PodOK(q) /\ Extends(p, q) /\ SameLoad(p, q)
<1> DEFINE q == [p EXCEPT !.bound = b, !.policies = s]
<1>1. /\ q \in PodType
      /\ q.label = p.label /\ q.serviceAccount = p.serviceAccount /\ q.models = p.models
      /\ q.optOut = p.optOut /\ q.containers = p.containers /\ q.env = p.env
      /\ q.mounts = p.mounts /\ q.volumes = p.volumes
  BY DEF PodOK, PodType
<1> HIDE DEF q
<1>2. PodOK(q) BY <1>1 DEF PodOK, Consistent
<1>3. Extends(p, q) /\ SameLoad(p, q) BY <1>1 DEF Extends, SameAsk, SameLoad
<1> QED BY <1>2, <1>3 DEF q

\* Labels and declared models are no load.
LEMMA Relabelled ==
  ASSUME NEW p, PodOK(p), NEW l \in {x.label : x \in Pods}, NEW ms \in {x.models : x \in Pods}
  PROVE  LET q == [p EXCEPT !.label = l, !.models = ms]
         IN  PodOK(q) /\ SameLoad(p, q)
<1> DEFINE q == [p EXCEPT !.label = l, !.models = ms]
<1>1. /\ q \in PodType /\ q.containers = p.containers /\ q.env = p.env
      /\ q.mounts = p.mounts /\ q.volumes = p.volumes
  BY DEF PodOK, PodType
<1> HIDE DEF q
<1> QED BY <1>1 DEF PodOK, Consistent, SameLoad, q

\* The pod as another webhook changes it: a sidecar comes without a load, and
\* a label is no load either.
OtherChange(p, q) ==
    \/ q = [p EXCEPT !.containers = p.containers \cup {Sidecar}]
    \/ \E x \in Pods : q = [p EXCEPT !.label = x.label]

\* No credential comes or goes with such a change.
LEMMA OtherChangeAddsNoLoad ==
  ASSUME NEW p, PodOK(p), NEW q, OtherChange(p, q)
  PROVE  /\ PodOK(q) /\ q.env = p.env /\ q.mounts = p.mounts /\ q.optOut = p.optOut
         /\ Carried(q) = Carried(p)
         /\ q.label = p.label => SameAsk(p, q)
<1>1. /\ q \in PodType /\ q.env = p.env /\ q.mounts = p.mounts /\ q.optOut = p.optOut
      /\ q.volumes = p.volumes /\ q.serviceAccount = p.serviceAccount /\ q.models = p.models
      /\ p.containers \subseteq q.containers /\ q.containers \subseteq Containers
  <2>1. CASE q = [p EXCEPT !.containers = p.containers \cup {Sidecar}]
    BY <2>1, SidecarAssumption DEF PodOK, PodType
  <2>2. CASE \E x \in Pods : q = [p EXCEPT !.label = x.label]
    BY <2>2 DEF PodOK, PodType
  <2> QED BY <2>1, <2>2 DEF OtherChange
<1>2. PodOK(q) BY <1>1 DEF PodOK, Consistent
<1>3. \A k \in q.containers : k \in p.containers \/
         (q.mounts[k] = {} /\ \A e \in EnvNames : q.env[k][e] = NoCred)
  BY <1>1 DEF PodOK, Consistent
<1>4. \A x : x \in Carried(q) => x \in Carried(p)
  BY <1>1, <1>3, CarriedBy
<1>5. \A x : x \in Carried(p) => x \in Carried(q)
  BY <1>1, CarriedBy
<1> QED BY <1>1, <1>2, <1>4, <1>5 DEF SameAsk

\* At first the request and the locals are well-formed.
LEMMA TypesInit == Init => Types
<1> SUFFICES ASSUME Init PROVE Types OBVIOUS
<1>1. PodOK(pod) /\ before = pod BY PodsAssumption DEF Init, PodOK
<1>2. work = pod /\ Extends(pod, work) BY DEF Init, Idle, Extends, SameAsk
<1>3. Known({}, {}) BY FS_EmptySet DEF Known, Listed
<1> QED BY <1>1, <1>2, <1>3 DEF Init, Idle, Types, Running

\* A webhook's response ends the call.
LEMMA RespondTypes ==
  ASSUME Types, Running, NEW p, PodOK(p), NEW next \in {"others", "admitted", "refused"},
         next = "others" => phase = "mutate", Respond(p, next)
  PROVE  Types'
<1>1. PodOK(pod)' /\ PodOK(before)' /\ PodOK(work)'
  BY DEF Respond, Types, PodOK
<1>2. Extends(pod, work)' BY DEF Respond, Extends, SameAsk
<1>3. Known({}, {}) BY FS_EmptySet DEF Known, Listed
<1>4. /\ declared' \in Seq(Declaration) /\ order' \in Seq(CredNames)
      /\ DOMAIN seen' = {"cluster", "tokens"} /\ Known(seen'.cluster, seen'.tokens)
      /\ bound' \subseteq CredNames
      /\ sources' \subseteq {"ClusterTokenPolicy", "TokenPolicy"} \X Nat
      /\ reads' = "none" /\ work' = pod' /\ phase' = next
  BY <1>3 DEF Respond
<1>5. calls' \in 0..2 /\ (next = "others" => calls' \in 1..2)
  BY DEF Respond, Types
<1>6. Known(seen.cluster, seen.tokens)' BY <1>4 DEF Known
<1>7. (Running <=> reads # "none")' BY <1>4 DEF Running
<1> QED BY <1>1, <1>2, <1>4, <1>5, <1>6, <1>7 DEF Types

\* A request comes in with a fresh pod.
LEMMA ReceiveTypes ==
  ASSUME Types, NEW p, PodOK(p), NEW first \in {"mutate", "validate"}, Receive(p, first)
  PROVE  Types'
<1>1. PodOK(pod)' /\ PodOK(before)' /\ PodOK(work)'
  BY DEF Receive, PodOK
<1>2. Extends(pod, work)' BY DEF Receive, Extends, SameAsk
<1> QED BY <1>1, <1>2 DEF Receive, Types, Running, Known

\* Every step keeps the types.
LEMMA TypesStep ==
  ASSUME TypeInv, [Next]_vars PROVE Types'
<1>0. Types /\ Stores /\ StoredPolicies BY StoredKnown DEF TypeInv
<1>u. ASSUME UNCHANGED <<pod, before, phase, local, calls>> PROVE Types'
  BY <1>0, <1>u DEF Types, local, Running, PodOK, Extends, SameAsk, Known, Consistent
<1>1. CASE UNCHANGED vars BY <1>u, <1>1 DEF vars, history
<1>2. CASE EditPolicies \/ EditClaims \/ EditCredentials
  BY <1>u, <1>2 DEF EditPolicies, EditClaims, EditCredentials, Edit
<1>3. ASSUME NEW p \in Pods, CreatePod(p) PROVE Types'
  BY <1>0, <1>3, PodsAssumption, ReceiveTypes DEF CreatePod, PodOK
<1>4. ASSUME NEW p \in Pods, UpdatePod(p) PROVE Types'
  <2>1. PodOK([pod EXCEPT !.label = p.label, !.models = p.models])
    BY <1>0, Relabelled DEF Types
  <2> QED BY <1>0, <1>4, <2>1, ReceiveTypes DEF UpdatePod
<1>5. ASSUME NEW p, OtherChange(pod, p), OtherWebhook(p) PROVE Types'
  <2>1. PodOK(p) BY <1>0, <1>5, OtherChangeAddsNoLoad DEF Types
  <2>2. PodOK(pod)' /\ PodOK(before)' /\ PodOK(work)'
    BY <1>0, <1>5, <2>1 DEF OtherWebhook, PodOK, Types
  <2>3. Extends(pod, work)' BY <1>5 DEF OtherWebhook, Extends, SameAsk
  <2> QED BY <1>0, <1>5, <2>2, <2>3 DEF OtherWebhook, Types, Running, Known
<1>6. CASE StartValidation
  BY <1>0, <1>6 DEF StartValidation, history, Types, Running, PodOK, Extends, SameAsk, Known,
     Consistent
<1>7. ASSUME Running, Pass PROVE Types'
  BY <1>0, <1>7, RespondTypes DEF Pass, PassPhase, Types
<1>8. CASE ListClaims
  <2>1. CASE Pass BY <1>7, <1>8, <2>1 DEF ListClaims
  <2>2. CASE ~Pass
    <3>1. /\ declared' = declaredModelsForPod(pod) /\ reads' = "cluster" /\ Running
          /\ reads = "claims"
          /\ UNCHANGED <<stored, pod, phase, seen, order, work, bound, sources, history>>
      BY <1>8, <2>2 DEF ListClaims
    <3>2. declared' \in Seq(Declaration)
      BY <1>0, <3>1, DeclaredModels, AskedFor DEF Types, PodOK, Stores
    <3> QED BY <1>0, <3>1, <3>2
        DEF Types, history, Running, PodOK, Extends, SameAsk, Known, Consistent
  <2> QED BY <2>1, <2>2
<1>9. CASE ListClusterPolicies
  <2>1. DOMAIN seen' = {"cluster", "tokens"} /\ Known(seen'.cluster, seen'.tokens)
    BY <1>0, <1>9 DEF ListClusterPolicies, Types, Known, StoredPolicies
  <2> QED BY <1>0, <1>9, <2>1
      DEF ListClusterPolicies, Types, history, Running, PodOK, Extends, SameAsk, Known, Consistent
<1>10. CASE ListTokenPolicies
  <2>1. DOMAIN seen' = {"cluster", "tokens"} /\ Known(seen'.cluster, seen'.tokens)
    BY <1>0, <1>10 DEF ListTokenPolicies, Types, Known, StoredPolicies
  <2> QED BY <1>0, <1>10, <2>1
      DEF ListTokenPolicies, Types, history, Running, PodOK, Extends, SameAsk, Known, Consistent
<1>11. CASE Validate
  <2>1. Running BY <1>11 DEF Validate, Running
  <2>2. Respond(pod, "admitted") \/ Respond(pod, "refused") BY <1>11 DEF Validate
  <2> QED BY <1>0, <2>1, <2>2, RespondTypes DEF Types
<1>12. CASE StartBinding
  <2>0. Running BY <1>12 DEF StartBinding, Running
  <2>1. CASE Pass BY <1>7, <2>0, <2>1
  <2>2. CASE ~Pass
    <3>1. /\ order' = credOrder(resolveEffective) /\ sources' = resolveEffective.sources
          /\ reads' = "credential" /\ phase = "mutate" /\ reads = "namespace"
          /\ UNCHANGED <<stored, pod, phase, declared, seen, work, bound, history>>
      BY <1>12, <2>2 DEF StartBinding
    <3>2. credOrder(resolveEffective) = OrderOf(resolveEffective, declared)
      BY Zenon DEF credOrder, OrderOf
    <3>3. order' \in Seq(CredNames)
      BY <1>0, <3>1, <3>2, OrderServes DEF Types, resolveEffective
    <3>4. sources' \subseteq {"ClusterTokenPolicy", "TokenPolicy"} \X Nat
      BY <1>0, <3>1, ResolvedSources DEF Types, resolveEffective
    <3> QED BY <1>0, <3>1, <3>3, <3>4
        DEF Types, history, Running, PodOK, Extends, SameAsk, Known, Consistent
  <2> QED BY <2>1, <2>2
<1>13. CASE BindCredential
  <2> DEFINE c == Head(order)
  <2>1. /\ reads = "credential" /\ order # <<>> /\ order' = Tail(order)
        /\ work' = IF creds[c] # Absent /\ credentialAuthorizes(c)
                      THEN injectCredential(work, c) ELSE work
        /\ bound' = IF work'.env # work.env \/ work'.mounts # work.mounts
                      THEN bound \cup {c} ELSE bound
        /\ UNCHANGED <<stored, pod, phase, reads, declared, seen, sources, history>>
    BY <1>13 DEF BindCredential
  <2>2. c \in CredNames /\ order' \in Seq(CredNames) BY <1>0, <2>1 DEF Types
  <2> HIDE DEF c
  <2>3. PodOK(work') /\ Extends(work, work')
    <3>1. CASE creds[c] # Absent /\ credentialAuthorizes(c)
      <4>1. creds[c] \in CredType BY <1>0, <2>2, <3>1, CredsAssumption DEF Stores
      <4> QED BY <1>0, <2>1, <2>2, <3>1, <4>1, Injected DEF Types, Delivers
    <3>2. CASE ~(creds[c] # Absent /\ credentialAuthorizes(c))
      BY <1>0, <2>1, <3>2 DEF Types, Extends, SameAsk
    <3> QED BY <3>1, <3>2
  <2>4. Extends(pod, work') BY <1>0, <2>3, ExtendsTwice DEF Types
  <2>5. bound' \subseteq CredNames BY <1>0, <2>1, <2>2 DEF Types
  <2>6. PodOK(pod)' /\ PodOK(before)' /\ PodOK(work)' /\ Extends(pod, work)'
    BY <1>0, <2>1, <2>3, <2>4 DEF Types, history, PodOK, Consistent, Extends, SameAsk
  <2> QED BY <1>0, <2>1, <2>2, <2>5, <2>6 DEF Types, history, Running, Known
<1>14. CASE FinishMutate
  <2> DEFINE b == IF bound = {} THEN work.bound ELSE bound
             s == IF sources = {} THEN work.policies ELSE sources
             q == [work EXCEPT !.bound = b, !.policies = s]
  <2>1. Respond(q, "others") /\ reads = "credential" BY <1>14 DEF FinishMutate
  <2>2. /\ b \in SUBSET CredNames
        /\ s \in SUBSET ({"ClusterTokenPolicy", "TokenPolicy"} \X Nat)
    BY <1>0 DEF Types, PodOK, PodType
  <2> HIDE DEF b, s
  <2>3. PodOK(q) BY <1>0, <2>2, Annotated DEF Types
  <2>4. Running /\ phase = "mutate" BY <1>0, <2>1 DEF Types, Running
  <2> HIDE DEF q
  <2> QED BY <1>0, <2>1, <2>3, <2>4, RespondTypes
<1>15. CASE CallFails
  BY <1>0, <1>15, RespondTypes DEF CallFails, PassPhase, Types, Running
<1>18. CASE BindFails
  <2>1. Respond(pod, "refused") /\ reads = "credential" BY <1>18 DEF BindFails
  <2>2. Running BY <1>0, <2>1 DEF Types, Running
  <2> QED BY <1>0, <2>1, <2>2, RespondTypes DEF Types
<1>16. OtherWebhook([pod EXCEPT !.containers = @ \cup {Sidecar}]) => Types'
  BY <1>5 DEF OtherChange
<1>17. \A p \in Pods : OtherWebhook([pod EXCEPT !.label = p.label]) => Types'
  BY <1>5 DEF OtherChange
<1> QED BY <1>1, <1>2, <1>3, <1>4, <1>6, <1>8, <1>9, <1>10, <1>11, <1>12, <1>13, <1>14, <1>15,
           <1>16, <1>17, <1>18 DEF Next, Webhook

-----------------------------------------------------------------------------
(* The theorems on types *)

\* The strengthened type invariant is an invariant.
LEMMA TypeInvariant == Spec => []TypeInv
<1>1. Init => TypeInv BY StoresInit, TypesInit DEF TypeInv
<1>2. TypeInv /\ [Next]_vars => TypeInv' BY StoresStep, TypesStep DEF TypeInv
<1> QED BY <1>1, <1>2, PTL DEF Spec

\* The request, the stored objects and the webhook's locals keep the shape of
\* the Go types, whatever other webhooks make of the pod.
THEOREM TypesKept == Spec => []TypeOK
<1>1. TypeInv => TypeOK
  <2>1. \A s : s \in Seq(CredNames) => ToSet(s) \subseteq CredNames BY DEF ToSet
  <2> QED BY <2>1 DEF TypeInv, Types, Stores, TypeOK, PodOK
<1> QED BY <1>1, TypeInvariant, PTL

\* DESIGN.md:145. No webhook call, the second one of a reinvocation included,
\* replaces or removes a variable or a mount of the pod.
THEOREM OnlyAdded == Spec => InjectionOnlyAdds
<1> DEFINE Kept == \A k \in Containers :
              /\ pod.mounts[k] \subseteq pod'.mounts[k]
              /\ \A e \in EnvNames : pod.env[k][e] \in {NoCred, pod'.env[k][e]}
           Busy == Running \/ phase = "others"
<1>1. ASSUME TypeInv, Busy, [Next]_vars PROVE Kept
  <2>0. Types BY <1>1 DEF TypeInv
  <2>1. CASE pod' = pod BY <2>1
  <2>2. CASE FinishMutate
    <3> DEFINE b == IF bound = {} THEN work.bound ELSE bound
               s == IF sources = {} THEN work.policies ELSE sources
               q == [work EXCEPT !.bound = b, !.policies = s]
    <3>1. pod' = q BY <2>2 DEF FinishMutate, Respond
    <3>2. /\ b \in SUBSET CredNames
          /\ s \in SUBSET ({"ClusterTokenPolicy", "TokenPolicy"} \X Nat)
      BY <2>0 DEF Types, PodOK, PodType
    <3> HIDE DEF b, s
    <3>3. Extends(work, q) BY <2>0, <3>2, Annotated DEF Types
    <3> HIDE DEF q
    <3>4. Extends(pod, pod') BY <2>0, <3>1, <3>3, ExtendsTwice DEF Types
    <3> QED BY <3>4 DEF Extends
  <2>3. ASSUME NEW p, OtherChange(pod, p), OtherWebhook(p) PROVE Kept
    <3>1. pod' = p BY <2>3 DEF OtherWebhook
    <3>2. p.env = pod.env /\ p.mounts = pod.mounts
      BY <2>0, <2>3, OtherChangeAddsNoLoad DEF Types
    <3> QED BY <3>1, <3>2
  <2>4. OtherWebhook([pod EXCEPT !.containers = @ \cup {Sidecar}]) => Kept
    BY <2>3 DEF OtherChange
  <2>5. \A p \in Pods : OtherWebhook([pod EXCEPT !.label = p.label]) => Kept
    BY <2>3 DEF OtherChange
  <2>6. \A p : ~CreatePod(p) /\ ~UpdatePod(p)
    BY <1>1 DEF CreatePod, UpdatePod, Receive, Running
  <2>7. pod' = pod \/ FinishMutate
          \/ OtherWebhook([pod EXCEPT !.containers = @ \cup {Sidecar}])
          \/ \E p \in Pods : OtherWebhook([pod EXCEPT !.label = p.label])
    BY <1>1, <2>6 DEF Next, vars, Webhook, EditPolicies, EditClaims, EditCredentials, Edit,
       StartValidation, ListClaims, ListClusterPolicies, ListTokenPolicies, Validate,
       StartBinding, BindCredential, CallFails, BindFails, Pass, Respond
  <2> HIDE DEF Kept
  <2> QED BY <2>1, <2>2, <2>4, <2>5, <2>7
<1>2. TypeInv /\ [Next]_vars => [Busy => Kept]_vars BY <1>1
<1> QED BY <1>2, TypeInvariant, PTL DEF Spec, InjectionOnlyAdds

-----------------------------------------------------------------------------
(* The verdict *)

\* A running call that nothing was written into has read what is stored.
CurrentRead ==
    steady /\ reads \notin {"none", "claims"} =>
        /\ ~exempt
        /\ declared = DeclaredNow(pod)
        /\ reads # "cluster" => seen.cluster = P!Named(cluster)
        /\ reads \in {"namespace", "credential"} => seen.tokens = P!Named(tokens)

\* So has any call of a request that nothing was written into.
Current == CurrentRead /\ (calm /\ Running => steady)

\* A finished request was refused exactly when the stored objects say so.
Refusable(p) ==
    /\ ~exempt
    /\ EffNow(p).governed
    /\ EffNow(p).enforcement = "Enforce"
    /\ \E i \in DOMAIN DeclaredNow(p) : ~Permit(EffNow(p), DeclaredNow(p)[i].name).allowed

Verdict ==
    phase \in {"admitted", "refused"} /\ steady =>
        (phase = "refused" <=> Refusable(pod))

\* What is resolved depends on nothing but the stored objects and the pod.
LEMMA Stable ==
  ASSUME UNCHANGED stored
  PROVE  /\ \A p : EffNow(p)' = EffNow(p)
         /\ \A p : DeclaredNow(p)' = DeclaredNow(p)
         /\ P!Named(cluster)' = P!Named(cluster) /\ P!Named(tokens)' = P!Named(tokens)
         /\ exempt' = exempt
BY DEF stored, policies, EffNow, DeclaredNow

\* The steps of a request: the API server's and the webhooks'.
Requesting ==
    \/ \E p \in Pods : CreatePod(p) \/ UpdatePod(p)
    \/ OtherWebhook([pod EXCEPT !.containers = @ \cup {Sidecar}])
    \/ \E p \in Pods : OtherWebhook([pod EXCEPT !.label = p.label])
    \/ StartValidation
    \/ Webhook

\* A step leaves the stored objects alone or ends the calm.
LEMMA CalmSteps ==
  ASSUME [Next]_vars, calm' \/ steady'
  PROVE  UNCHANGED stored /\ (Requesting \/ UNCHANGED vars)
BY DEF Next, Requesting, vars, EditPolicies, EditClaims, EditCredentials, Edit, CreatePod,
   UpdatePod, Receive, OtherWebhook, StartValidation, Webhook, ListClaims,
   ListClusterPolicies, ListTokenPolicies, Validate, StartBinding, BindCredential,
   FinishMutate, CallFails, BindFails, Pass, Respond

\* A step leaves what was read current.
LEMMA CurrentReadStep ==
  ASSUME TypeInv, CurrentRead, [Next]_vars PROVE CurrentRead'
<1> SUFFICES ASSUME steady', reads' \notin {"none", "claims"}
             PROVE  /\ ~exempt'
                    /\ declared' = DeclaredNow(pod)'
                    /\ reads' # "cluster" => seen'.cluster = P!Named(cluster)'
                    /\ reads' \in {"namespace", "credential"} => seen'.tokens = P!Named(tokens)'
  BY DEF CurrentRead
<1>1. UNCHANGED stored /\ (Requesting \/ UNCHANGED vars) BY CalmSteps
<1>2. /\ \A p : DeclaredNow(p)' = DeclaredNow(p)
      /\ P!Named(cluster)' = P!Named(cluster) /\ P!Named(tokens)' = P!Named(tokens)
      /\ exempt' = exempt
  BY <1>1, Stable
<1>3. ASSUME UNCHANGED <<steady, pod, declared, seen>>, reads' = reads
      PROVE  /\ ~exempt'
             /\ declared' = DeclaredNow(pod)'
             /\ reads' # "cluster" => seen'.cluster = P!Named(cluster)'
             /\ reads' \in {"namespace", "credential"} => seen'.tokens = P!Named(tokens)'
  <2>1. DeclaredNow(pod)' = DeclaredNow(pod) BY <1>1, <1>3 DEF DeclaredNow, stored
  <2> QED BY <1>2, <1>3, <2>1 DEF CurrentRead
<1>4. CASE UNCHANGED vars BY <1>3, <1>4 DEF vars, local, history
<1>5. CASE ListClaims
  <2>1. /\ ~exempt /\ declared' = declaredModelsForPod(pod) /\ reads' = "cluster"
        /\ UNCHANGED pod
    BY <1>5 DEF ListClaims, Pass, Respond
  <2>2. declared' = DeclaredNow(pod) BY <2>1, DeclaredModels DEF DeclaredNow
  <2>3. DeclaredNow(pod)' = DeclaredNow(pod) BY <1>1, <2>1 DEF DeclaredNow, stored
  <2> QED BY <1>2, <2>1, <2>2, <2>3
<1>6. CASE ListClusterPolicies
  <2>1. /\ reads = "cluster" /\ reads' = "tokens"
        /\ seen' = [seen EXCEPT !.cluster = P!Named(cluster)]
        /\ UNCHANGED <<steady, pod, declared>>
    BY <1>6 DEF ListClusterPolicies, history
  <2>2. DeclaredNow(pod)' = DeclaredNow(pod) BY <1>1, <2>1 DEF DeclaredNow, stored
  <2>3. seen'.cluster = P!Named(cluster) BY <2>1 DEF TypeInv, Types
  <2> QED BY <1>2, <2>1, <2>2, <2>3 DEF CurrentRead
<1>7. CASE ListTokenPolicies
  <2>1. /\ reads = "tokens" /\ reads' = "namespace"
        /\ seen' = [seen EXCEPT !.tokens = P!Named(tokens)]
        /\ UNCHANGED <<steady, pod, declared>>
    BY <1>7 DEF ListTokenPolicies, history
  <2>2. DeclaredNow(pod)' = DeclaredNow(pod) BY <1>1, <2>1 DEF DeclaredNow, stored
  <2>3. seen'.tokens = P!Named(tokens) /\ seen'.cluster = seen.cluster
    BY <2>1 DEF TypeInv, Types
  <2> QED BY <1>2, <2>1, <2>2, <2>3 DEF CurrentRead
<1>8. CASE StartBinding
  <2>1. /\ reads = "namespace" /\ reads' = "credential"
        /\ UNCHANGED <<steady, pod, declared, seen>>
    BY <1>8 DEF StartBinding, Pass, Respond, history
  <2>2. DeclaredNow(pod)' = DeclaredNow(pod) BY <1>1, <2>1 DEF DeclaredNow, stored
  <2> QED BY <1>2, <2>1, <2>2 DEF CurrentRead
<1>9. CASE BindCredential BY <1>3, <1>9 DEF BindCredential, history
<1>10. ~Validate /\ ~FinishMutate /\ ~CallFails /\ ~BindFails /\ ~StartValidation
  BY DEF Validate, FinishMutate, CallFails, BindFails, StartValidation, Respond
<1>11. /\ \A p : ~CreatePod(p) /\ ~UpdatePod(p) /\ ~OtherWebhook(p)
  BY DEF CreatePod, UpdatePod, Receive, OtherWebhook
<1> QED BY <1>1, <1>4, <1>5, <1>6, <1>7, <1>8, <1>9, <1>10, <1>11 DEF Requesting, Webhook

\* While the calm lasts, the running call is steady.
LEMMA CurrentStep ==
  ASSUME TypeInv, Current, [Next]_vars PROVE Current'
<1>1. CurrentRead' BY CurrentReadStep DEF Current
<1>2. ASSUME calm', Running' PROVE steady'
  <2>1. Requesting \/ UNCHANGED vars BY <1>2, CalmSteps
  <2>2. CASE UNCHANGED vars BY <1>2, <2>2 DEF vars, history, Current, Running
  <2>3. \A p : CreatePod(p) \/ UpdatePod(p) \/ OtherWebhook(p) => steady'
    BY DEF CreatePod, UpdatePod, Receive, OtherWebhook
  <2>4. StartValidation => steady' BY DEF StartValidation
  <2>5. CASE Webhook
    <3>1. ~CallFails /\ ~BindFails
      BY <1>2 DEF CallFails, BindFails, Respond, PassPhase, Running
    <3>2. /\ Running
          /\ UNCHANGED <<calm, steady>>
      BY <2>5, <3>1 DEF Webhook, ListClaims, ListClusterPolicies, ListTokenPolicies, Validate,
         StartBinding, BindCredential, FinishMutate, Pass, history, Running, TypeInv, Types
    <3> QED BY <1>2, <3>2 DEF Current
  <2> QED BY <2>1, <2>2, <2>3, <2>4, <2>5 DEF Requesting
<1> QED BY <1>1, <1>2 DEF Current

\* Whether a pod is refused depends on nothing but what is stored and the pod.
LEMMA RefusableStable ==
  ASSUME UNCHANGED stored, UNCHANGED pod
  PROVE  Refusable(pod)' <=> Refusable(pod)
<1>1. EffNow(pod)' = EffNow(pod) /\ DeclaredNow(pod)' = DeclaredNow(pod) /\ exempt' = exempt
  BY DEF stored, policies, EffNow, DeclaredNow
<1> QED BY <1>1 DEF Refusable

\* A step leaves the verdict what the stored objects say.
LEMMA VerdictStep ==
  ASSUME TypeInv, Current, Verdict, [Next]_vars PROVE Verdict'
<1> SUFFICES ASSUME phase' \in {"admitted", "refused"}, steady'
             PROVE  phase' = "refused" <=> Refusable(pod)'
  BY DEF Verdict
<1>1. UNCHANGED stored /\ (Requesting \/ UNCHANGED vars) BY CalmSteps
<1>2. CASE UNCHANGED vars
  BY <1>1, <1>2, RefusableStable DEF vars, history, Verdict
<1>3. CASE Validate
  <2>1. /\ phase = "validate" /\ reads = "namespace" /\ UNCHANGED <<pod, steady>>
        /\ phase' = IF RefusesPod(resolveEffective) THEN "refused" ELSE "admitted"
    BY <1>3 DEF Validate, Respond
  <2>2. /\ ~exempt /\ declared = DeclaredNow(pod)
        /\ seen.cluster = P!Named(cluster) /\ seen.tokens = P!Named(tokens)
    BY <2>1 DEF Current, CurrentRead
  <2>3. resolveEffective = EffNow(pod) BY <2>2 DEF resolveEffective, EffNow
  <2>4. RefusesPod(resolveEffective) <=> Refusable(pod)
    BY <2>2, <2>3 DEF RefusesPod, Refusable
  <2> QED BY <1>1, <2>1, <2>4, RefusableStable
<1>4. CASE ListClaims
  <2>1. Pass /\ (exempt \/ (phase = "mutate" /\ pod.optOut) \/ declaredModelsForPod(pod) = <<>>)
        /\ Running
    BY <1>4 DEF ListClaims, Running
  <2>2. phase = "validate" /\ phase' = "admitted" /\ UNCHANGED pod
    BY <2>1 DEF Pass, PassPhase, Respond, Running
  <2>3. exempt \/ DeclaredNow(pod) = <<>>
    BY <2>1, <2>2, DeclaredModels DEF DeclaredNow
  <2>4. ~Refusable(pod) BY <2>3 DEF Refusable
  <2> QED BY <1>1, <2>2, <2>4, RefusableStable
<1>5. ~CallFails /\ ~BindFails /\ ~FinishMutate /\ ~StartValidation
  BY DEF CallFails, BindFails, FinishMutate, StartValidation, Respond
<1>6. ~ListClusterPolicies /\ ~ListTokenPolicies
  BY DEF ListClusterPolicies, ListTokenPolicies, Running
<1>7. ~StartBinding BY DEF StartBinding, Pass, PassPhase, Respond
<1>8. ~BindCredential BY DEF BindCredential, TypeInv, Types
<1>9. \A p : ~CreatePod(p) /\ ~UpdatePod(p) /\ ~OtherWebhook(p)
  BY DEF CreatePod, UpdatePod, Receive, OtherWebhook
<1> QED BY <1>1, <1>2, <1>3, <1>4, <1>5, <1>6, <1>7, <1>8, <1>9 DEF Requesting, Webhook

\* DESIGN.md:117-121. A pod is refused exactly when its namespace is not
\* exempt, some policy applies, the mode is Enforce and some tier refuses a
\* model that it declares, as of the last webhook call: unless something is
\* written during that call or the call fails.
THEOREM VerdictsFollowPolicy == Spec => []VerdictFollowsPolicy
<1> DEFINE Inv == TypeInv /\ Current /\ Verdict
<1>1. Init => Inv
  <2>1. Init => TypeInv BY StoresInit, TypesInit DEF TypeInv
  <2>2. Init => Current /\ Verdict BY DEF Init, Idle, Current, CurrentRead, Verdict, Running
  <2> QED BY <2>1, <2>2
<1>2. Inv /\ [Next]_vars => Inv'
  BY StoresStep, TypesStep, CurrentStep, VerdictStep DEF TypeInv
<1>3. Inv => VerdictFollowsPolicy
  <2> SUFFICES ASSUME Inv, phase \in {"admitted", "refused"}, steady
               PROVE  phase = "refused" <=>
                         /\ ~exempt
                         /\ P!Applicable(pod) # {}
                         /\ P!Effective(pod).enforcement = "Enforce"
                         /\ \E m \in DeclaredSet(pod) : ~Permitted(pod, m)
    BY DEF VerdictFollowsPolicy
  <2>1. StoredPolicies /\ ClaimsOK(claims) /\ pod \in PodType
    BY StoredKnown DEF TypeInv, Types, Stores, PodOK
  <2>2. phase = "refused" <=> Refusable(pod) BY DEF Verdict
  <2>3. EffNow(pod).governed <=> P!Applicable(pod) # {} BY <2>1, GovernedIsApplicable
  <2>4. P!Effective(pod) = EffNow(pod) BY EffectiveIsEff
  <2>5. \A m : Permitted(pod, m) <=> Permit(EffNow(pod), m).allowed
    BY <2>1, PermittedIsAllowed
  <2>6. DeclaredSet(pod) = {DeclaredNow(pod)[i].name : i \in DOMAIN DeclaredNow(pod)}
    BY <2>1, DeclaredIsDeclared
  <2>7. (\E m \in DeclaredSet(pod) : ~Permitted(pod, m)) <=>
            \E i \in DOMAIN DeclaredNow(pod) :
               ~Permit(EffNow(pod), DeclaredNow(pod)[i].name).allowed
    BY <2>5, <2>6
  <2> QED BY <2>2, <2>3, <2>4, <2>7 DEF Refusable
<1> QED BY <1>1, <1>2, <1>3, PTL DEF Spec

-----------------------------------------------------------------------------
(* The credentials *)

\* p's namespace may bind c, and c serves a declared model.
Title(p, c) == Bindable(c) /\ Serves(EffNow(p), DeclaredNow(p), c)

\* What the webhook's copy carries more than its author sent, it carries by
\* title, and so will what is still to bind.
Earned ==
    calm => /\ \A c \in Carried(work) \ Carried(before) : Title(pod, c)
            /\ reads = "credential" =>
                  \A c \in ToSet(order) : Serves(EffNow(pod), DeclaredNow(pod), c)

\* A credential with a title waits to be bound or is in every container; once
\* a mutating call has ended, it is there.
ToBeServed(p) ==
    ~failed /\ calls > 0 /\ ~exempt /\ ~p.optOut /\ EffNow(p).governed

Served ==
    calm =>
        /\ reads = "credential" =>
              \A c \in CredNames :
                  Title(pod, c) => c \in ToSet(order) \/ Holds(creds, work, c)
        /\ phase \in {"others", "validate", "admitted", "refused"} /\ ToBeServed(pod) =>
              \A c \in CredNames : Title(pod, c) => Holds(creds, pod, c)

\* A title depends on nothing but what is stored and what the pod asks.
LEMMA TitleStable ==
  ASSUME UNCHANGED stored, pod \in PodType, pod' \in PodType, SameAsk(pod, pod')
  PROVE  /\ EffNow(pod)' = EffNow(pod) /\ DeclaredNow(pod)' = DeclaredNow(pod)
         /\ \A c : Title(pod, c)' <=> Title(pod, c)
<1>1. EffNow(pod)' = Resolve(P!Named(cluster), P!Named(tokens), nsLabel, pod')
      /\ DeclaredNow(pod)' = DeclaredOf(claims, pod')
  BY DEF stored, policies, EffNow, DeclaredNow
<1>2. EffNow(pod)' = EffNow(pod) /\ DeclaredNow(pod)' = DeclaredNow(pod)
  BY <1>1, SameAsked DEF EffNow, DeclaredNow
<1>3. \A c : Bindable(c)' <=> Bindable(c)
  BY DEF stored, policies, Bindable, credentialAuthorizes
<1> QED BY <1>2, <1>3 DEF Title

\* Only a credential that exists in the schema is granted.
LEMMA ServesNamed ==
  ASSUME StoredPolicies, ClaimsOK(claims), NEW p \in PodType, NEW c,
         Serves(EffNow(p), DeclaredNow(p), c)
  PROVE  c \in CredNames
<1>1. DeclaredNow(p) \in Seq(Declaration) BY AskedFor DEF DeclaredNow
<1> DEFINE o == OrderOf(EffNow(p), DeclaredNow(p))
<1>2. o \in Seq(CredNames) /\ c \in ToSet(o)
  BY <1>1, OrderServes DEF StoredPolicies, EffNow
<1> HIDE DEF o
<1> QED BY <1>2 DEF ToSet

\* What StartBinding sets out to bind.
LEMMA OrderSet ==
  ASSUME TypeInv, Current, calm, StartBinding, reads' = "credential"
  PROVE  \A c : c \in ToSet(order') <=> Serves(EffNow(pod), DeclaredNow(pod), c)
<1>1. reads = "namespace" /\ order' = credOrder(resolveEffective)
  BY DEF StartBinding, Pass, Respond
<1>2. /\ declared = DeclaredNow(pod)
      /\ seen.cluster = P!Named(cluster) /\ seen.tokens = P!Named(tokens)
  BY <1>1 DEF Current, CurrentRead, StartBinding, Running
<1>3. resolveEffective = EffNow(pod) BY <1>2 DEF resolveEffective, EffNow
<1>4. credOrder(resolveEffective) = OrderOf(EffNow(pod), DeclaredNow(pod))
  BY <1>2, <1>3, Zenon DEF credOrder, OrderOf
<1>5. StoredPolicies /\ DeclaredNow(pod) \in Seq(Declaration)
  BY <1>2, StoredKnown DEF TypeInv, Types
<1> QED BY <1>1, <1>4, <1>5, OrderServes DEF StoredPolicies, EffNow

\* What binding one credential does.
LEMMA BindStep ==
  ASSUME TypeInv, BindCredential
  PROVE  /\ UNCHANGED <<stored, pod, phase, reads, before, calm, failed, calls>>
         /\ reads = "credential" /\ phase = "mutate"
         /\ Extends(work, work')
         /\ \E c \in CredNames :
               /\ ToSet(order) = {c} \cup ToSet(order')
               /\ Carried(work') \subseteq Carried(work) \cup (IF Bindable(c) THEN {c} ELSE {})
               /\ Bindable(c) /\ c # NoCred => Holds(creds, work', c)
<1> DEFINE c == Head(order)
<1>1. /\ reads = "credential" /\ order # <<>> /\ order' = Tail(order)
      /\ work' = IF creds[c] # Absent /\ credentialAuthorizes(c)
                    THEN injectCredential(work, c) ELSE work
      /\ UNCHANGED <<stored, pod, phase, reads, before, calm, failed, calls>>
  BY DEF BindCredential, history
<1>2. c \in CredNames /\ ToSet(order) = {c} \cup ToSet(order')
  <2>1. order \in Seq(CredNames) BY DEF TypeInv, Types
  <2>2. c \in CredNames /\ order = <<c>> \o order' /\ order' \in Seq(CredNames) BY <1>1, <2>1
  <2> DEFINE one == <<c>>
  <2>3. one \in Seq(CredNames) BY <2>2
  <2>4. ToSet(one) = {c} BY DEF ToSet
  <2> HIDE DEF one, c
  <2>5. order = one \o order' BY <2>2 DEF one
  <2>6. ToSet(one \o order') = ToSet(one) \cup ToSet(order') BY <2>2, <2>3, ToSetOfConcat
  <2> QED BY <2>2, <2>4, <2>5, <2>6
<1>3. PodOK(work) /\ phase = "mutate" BY <1>1 DEF TypeInv, Types
<1> HIDE DEF c
<1>4. CASE Bindable(c)
  <2>1. creds[c] \in CredType
    BY <1>2, <1>4, CredsAssumption DEF TypeInv, Stores, Bindable
  <2>2. Delivers(creds, work, c, work') BY <1>1, <1>2, <1>3, <1>4, <2>1, Injected DEF Bindable
  <2> QED BY <1>1, <1>2, <1>3, <1>4, <2>2 DEF Delivers
<1>5. CASE ~Bindable(c)
  <2>1. work' = work BY <1>1, <1>5 DEF Bindable
  <2>2. Extends(work, work') BY <2>1 DEF Extends, SameAsk
  <2> QED BY <1>1, <1>2, <1>3, <1>5, <2>1, <2>2
<1> QED BY <1>4, <1>5

\* What ends a mutating call.
LEMMA FinishStep ==
  ASSUME TypeInv, FinishMutate
  PROVE  /\ UNCHANGED <<stored, before, calm, failed>>
         /\ reads = "credential" /\ order = <<>> /\ reads' = "none" /\ phase' = "others"
         /\ PodOK(pod') /\ SameAsk(pod, pod') /\ pod'.optOut = pod.optOut
         /\ work' = pod' /\ Carried(pod') = Carried(work)
         /\ \A c : Holds(creds, work, c) => Holds(creds, pod', c)
<1> DEFINE b == IF bound = {} THEN work.bound ELSE bound
           s == IF sources = {} THEN work.policies ELSE sources
           q == [work EXCEPT !.bound = b, !.policies = s]
<1>1. /\ pod' = q /\ work' = q /\ reads = "credential" /\ order = <<>>
      /\ reads' = "none" /\ phase' = "others" /\ UNCHANGED <<stored, before, calm, failed>>
  BY DEF FinishMutate, Respond
<1>2. /\ b \in SUBSET CredNames
      /\ s \in SUBSET ({"ClusterTokenPolicy", "TokenPolicy"} \X Nat)
      /\ PodOK(work) /\ Extends(pod, work)
  BY DEF TypeInv, Types, PodOK, PodType
<1> HIDE DEF b, s
<1>3. PodOK(q) /\ Extends(work, q) /\ SameLoad(work, q) BY <1>2, Annotated
<1> HIDE DEF q
<1>4. Carried(q) = Carried(work) /\ \A c : Holds(creds, work, c) => Holds(creds, q, c)
  BY <1>3, SameLoadKeeps
<1>5. SameAsk(pod, q) /\ q.optOut = pod.optOut BY <1>2, <1>3 DEF Extends, SameAsk
<1> QED BY <1>1, <1>3, <1>4, <1>5

\* A step binds nothing without a title.
LEMMA EarnedStep ==
  ASSUME TypeInv, Current, Earned, [Next]_vars PROVE Earned'
<1> DEFINE Goal == /\ \A c \in Carried(work)' \ Carried(before)' : Title(pod, c)'
                   /\ reads' = "credential" =>
                         \A c \in ToSet(order)' : Serves(EffNow(pod), DeclaredNow(pod), c)'
<1> SUFFICES ASSUME calm' PROVE Goal BY DEF Earned
<1>0. /\ Carried(work)' = Carried(work') /\ Carried(before)' = Carried(before')
      /\ ToSet(order)' = ToSet(order')
  BY DEF Carried, ToSet
<1>1. UNCHANGED stored /\ (Requesting \/ UNCHANGED vars) BY CalmSteps
<1>2. PodOK(pod) /\ PodOK(pod') /\ PodOK(work)
  <2>1. Types' BY TypesStep
  <2>2. PodOK(pod)' BY <2>1 DEF Types
  <2> QED BY <2>2 DEF TypeInv, Types, PodOK, Consistent
\* The pod asks the same as before and no more is carried.
<1>3. ASSUME calm, UNCHANGED before, SameAsk(pod, pod'), Carried(work') \subseteq Carried(work),
             reads' = "credential" => reads = "credential" /\ order' = order
      PROVE  Goal
  <2>1. /\ EffNow(pod)' = EffNow(pod) /\ DeclaredNow(pod)' = DeclaredNow(pod)
        /\ \A c : Title(pod, c)' <=> Title(pod, c)
    BY <1>1, <1>2, <1>3, TitleStable DEF PodOK
  <2>2. \A c : Serves(EffNow(pod), DeclaredNow(pod), c)'
                  <=> Serves(EffNow(pod), DeclaredNow(pod), c)
    BY <2>1
  <2> QED BY <1>0, <1>3, <2>1, <2>2 DEF Earned
<1>4. CASE UNCHANGED vars
  BY <1>3, <1>4 DEF vars, local, history, SameAsk, Carried
<1>5. ASSUME UNCHANGED <<pod, before, work>>, calm, reads' # "credential"
      PROVE  Goal
  BY <1>3, <1>5 DEF SameAsk
<1>6. ASSUME UNCHANGED before, calm, NEW next, Respond(pod, next)
      PROVE  Goal
  <2>1. work' = pod /\ pod' = pod /\ reads' = "none" BY <1>6 DEF Respond
  <2>2. Carried(pod) \subseteq Carried(work) BY <1>2, ExtendsKeeps DEF TypeInv, Types
  <2> QED BY <1>3, <1>6, <2>1, <2>2 DEF SameAsk
<1>7. ASSUME NEW p, CreatePod(p) \/ UpdatePod(p)
      PROVE  Goal
  <2>1. work' = before' /\ reads' = "claims" BY <1>7 DEF CreatePod, UpdatePod, Receive
  <2> QED BY <1>0, <2>1
<1>8. ASSUME NEW p, OtherChange(pod, p), OtherWebhook(p)
      PROVE  Goal
  <2>1. /\ phase = "others" /\ pod' = p /\ work' = p /\ reads' = "claims" /\ calm
        /\ p.label = pod.label /\ UNCHANGED before
    BY <1>8 DEF OtherWebhook
  <2>2. SameAsk(pod, p) /\ Carried(p) = Carried(pod)
    BY <1>2, <1>8, <2>1, OtherChangeAddsNoLoad
  <2>3. work = pod BY <2>1 DEF TypeInv, Types
  <2> QED BY <1>3, <2>1, <2>2, <2>3
<1>9. CASE StartBinding
  <2>1. CASE reads' = "credential"
    <3>1. /\ UNCHANGED <<pod, before, work, calm>>
      BY <1>9, <2>1 DEF StartBinding, Pass, Respond, history
    <3>2. \A c : c \in ToSet(order') <=> Serves(EffNow(pod), DeclaredNow(pod), c)
      BY <1>9, <2>1, <3>1, OrderSet
    <3>3. /\ EffNow(pod)' = EffNow(pod) /\ DeclaredNow(pod)' = DeclaredNow(pod)
          /\ \A c : Title(pod, c)' <=> Title(pod, c)
      BY <1>1, <1>2, <3>1, TitleStable DEF PodOK, SameAsk
    <3>4. \A c : Serves(EffNow(pod), DeclaredNow(pod), c)'
                    <=> Serves(EffNow(pod), DeclaredNow(pod), c)
      BY <3>3
    <3> QED BY <1>0, <3>1, <3>2, <3>3, <3>4 DEF Earned
  <2>2. CASE reads' # "credential"
    <3>1. Respond(pod, PassPhase) /\ UNCHANGED <<before, calm>>
      BY <1>9, <2>2 DEF StartBinding, Pass, Respond
    <3> QED BY <1>6, <3>1
  <2> QED BY <2>1, <2>2
<1>10. CASE BindCredential
  <2>1. UNCHANGED <<stored, pod, before, calm>> /\ reads = "credential" /\ reads' = reads
    BY <1>10, BindStep
  <2>2. PICK c \in CredNames :
           /\ ToSet(order) = {c} \cup ToSet(order')
           /\ Carried(work') \subseteq Carried(work) \cup (IF Bindable(c) THEN {c} ELSE {})
    BY <1>10, BindStep
  <2>3. /\ EffNow(pod)' = EffNow(pod) /\ DeclaredNow(pod)' = DeclaredNow(pod)
        /\ \A x : Title(pod, x)' <=> Title(pod, x)
    BY <1>2, <2>1, TitleStable DEF PodOK, SameAsk
  <2>4. \A x : Serves(EffNow(pod), DeclaredNow(pod), x)'
                  <=> Serves(EffNow(pod), DeclaredNow(pod), x)
    BY <2>3
  <2>5. /\ \A x \in Carried(work) \ Carried(before) : Title(pod, x)
        /\ \A x \in ToSet(order) : Serves(EffNow(pod), DeclaredNow(pod), x)
    BY <2>1 DEF Earned
  <2>6. Bindable(c) => Title(pod, c) BY <2>2, <2>5 DEF Title
  <2> QED BY <1>0, <2>1, <2>2, <2>3, <2>4, <2>5, <2>6
<1>11. CASE FinishMutate
  <2>1. /\ UNCHANGED <<before, calm>> /\ SameAsk(pod, pod') /\ reads' = "none"
        /\ work' = pod' /\ Carried(pod') = Carried(work)
    BY <1>11, FinishStep
  <2> QED BY <1>3, <2>1
<1>12. CASE ListClaims \/ ListClusterPolicies \/ ListTokenPolicies \/ Validate \/ CallFails
            \/ BindFails \/ StartValidation
  <2>1. \/ \E next : Respond(pod, next) /\ UNCHANGED <<before, calm>>
        \/ UNCHANGED <<pod, before, work, calm>> /\ reads' # "credential"
        \/ Validate
    BY <1>12 DEF ListClaims, Pass, ListClusterPolicies, ListTokenPolicies, CallFails, BindFails,
       Respond,
       StartValidation, history
  <2>2. CASE Validate
    <3>1. /\ phase = "validate" /\ reads = "namespace" /\ reads' = "none"
          /\ pod' = pod /\ work' = pod /\ UNCHANGED <<before, calm>>
      BY <2>2 DEF Validate, Respond
    <3>2. work = pod BY <3>1 DEF TypeInv, Types
    <3> QED BY <1>5, <3>1, <3>2
  <2> QED BY <1>5, <1>6, <2>1, <2>2
<1>13. /\ OtherWebhook([pod EXCEPT !.containers = @ \cup {Sidecar}])
             => \E p : OtherChange(pod, p) /\ OtherWebhook(p)
       /\ \A x \in Pods : OtherWebhook([pod EXCEPT !.label = x.label])
             => \E p : OtherChange(pod, p) /\ OtherWebhook(p)
  BY DEF OtherChange
<1>14. \/ UNCHANGED vars
       \/ \E p : CreatePod(p) \/ UpdatePod(p)
       \/ \E p : OtherChange(pod, p) /\ OtherWebhook(p)
       \/ StartBinding \/ BindCredential \/ FinishMutate
       \/ ListClaims \/ ListClusterPolicies \/ ListTokenPolicies \/ Validate \/ CallFails
       \/ BindFails \/ StartValidation
  BY <1>1, <1>13 DEF Requesting, Webhook
<1> QED BY <1>4, <1>7, <1>8, <1>9, <1>10, <1>11, <1>12, <1>14

\* A step forgets no container.
LEMMA ServedStep ==
  ASSUME TypeInv, Current, Served, [Next]_vars PROVE Served'
<1> DEFINE Ended(f) == f \in {"others", "validate", "admitted", "refused"}
           Waiting == reads' = "credential" =>
                        \A c \in CredNames :
                           Title(pod, c)' => c \in ToSet(order') \/ Holds(creds', work', c)
           Done == Ended(phase') /\ ToBeServed(pod)' =>
                      \A c \in CredNames : Title(pod, c)' => Holds(creds', pod', c)
<1> SUFFICES ASSUME calm' PROVE Waiting /\ Done
  <2>1. /\ ToSet(order)' = ToSet(order')
        /\ \A c : Holds(creds, work, c)' <=> Holds(creds', work', c)
        /\ \A c : Holds(creds, pod, c)' <=> Holds(creds', pod', c)
    BY DEF ToSet, Holds
  <2> QED BY <2>1 DEF Served
<1>1. UNCHANGED stored /\ (Requesting \/ UNCHANGED vars) BY CalmSteps
<1>2. PodOK(pod) /\ PodOK(pod') /\ PodOK(work) /\ UNCHANGED creds
  <2>1. Types' BY TypesStep
  <2>2. PodOK(pod)' BY <2>1 DEF Types
  <2> QED BY <1>1, <2>2 DEF TypeInv, Types, PodOK, Consistent, stored
\* The same pod keeps its titles.
<1>3. ASSUME UNCHANGED pod
      PROVE  /\ \A c : Title(pod, c)' <=> Title(pod, c)
             /\ EffNow(pod)' = EffNow(pod) /\ DeclaredNow(pod)' = DeclaredNow(pod)
             /\ exempt' = exempt
  BY <1>1, <1>2, <1>3, TitleStable DEF PodOK, SameAsk, stored
\* The pod was served before.
<1>4. ASSUME UNCHANGED <<pod, failed, calls>>, calm, Ended(phase') => Ended(phase)
      PROVE  Done
  <2>1. ToBeServed(pod)' => ToBeServed(pod) BY <1>3, <1>4 DEF ToBeServed
  <2> QED BY <1>2, <1>3, <1>4, <2>1 DEF Served
<1>5. CASE UNCHANGED vars
  <2>1. UNCHANGED <<pod, failed, calls, calm, phase, reads, order, work>>
    BY <1>5 DEF vars, local, history
  <2>2. Waiting BY <1>2, <1>3, <2>1 DEF Served
  <2>3. Done BY <1>4, <2>1
  <2> QED BY <2>2, <2>3
<1>6. ASSUME NEW p, CreatePod(p) \/ UpdatePod(p) \/ OtherWebhook(p) PROVE Waiting /\ Done
  <2>1. reads' = "claims" /\ (phase' = "mutate" \/ calls' = 0)
    BY <1>6 DEF CreatePod, UpdatePod, Receive, OtherWebhook
  <2>2. calls' = 0 => ~ToBeServed(pod)' BY DEF ToBeServed
  <2> QED BY <2>1, <2>2
<1>7. CASE StartValidation
  <2>1. /\ UNCHANGED <<pod, failed, calls, calm>> /\ phase = "others" /\ reads' = "claims"
    BY <1>7 DEF StartValidation, history
  <2> QED BY <1>4, <2>1
<1>8. CASE ListClusterPolicies \/ ListTokenPolicies
  <2>1. UNCHANGED <<pod, failed, calls, calm, phase>> /\ reads' # "credential"
    BY <1>8 DEF ListClusterPolicies, ListTokenPolicies, history
  <2> QED BY <1>4, <2>1
<1>9. CASE Validate
  <2>1. UNCHANGED <<pod, failed, calls, calm>> /\ phase = "validate" /\ reads' = "none"
    BY <1>9 DEF Validate, Respond
  <2> QED BY <1>4, <2>1
<1>10. CASE ListClaims
  <2>1. CASE ~Pass
    <3>1. UNCHANGED <<pod, failed, calls, calm, phase>> /\ reads' = "cluster"
      BY <1>10, <2>1 DEF ListClaims, history
    <3> QED BY <1>4, <3>1
  <2>2. CASE Pass /\ phase # "mutate"
    <3>1. UNCHANGED <<pod, failed, calls, calm>> /\ reads' = "none"
      BY <2>2 DEF Pass, Respond
    <3>2. phase = "validate" BY <1>10, <2>2 DEF ListClaims, Running
    <3> QED BY <1>4, <3>1, <3>2
  <2>3. CASE Pass /\ phase = "mutate"
    <3>1. UNCHANGED pod /\ reads' = "none" BY <2>3 DEF Pass, Respond
    <3>2. reads = "claims" BY <1>10 DEF ListClaims
    <3>3. exempt \/ pod.optOut \/ declaredModelsForPod(pod) = <<>>
      BY <1>10, <2>3, <3>1, <3>2 DEF ListClaims
    <3>4. exempt \/ pod.optOut \/ DeclaredNow(pod) = <<>>
      BY <3>3, DeclaredModels DEF DeclaredNow
    <3>5. DeclaredNow(pod) = <<>> => \A c : ~Title(pod, c) BY DEF Title, Serves
    <3>6. exempt \/ pod.optOut => ~ToBeServed(pod)' BY <1>3, <3>1 DEF ToBeServed
    <3> QED BY <1>3, <3>1, <3>4, <3>5, <3>6
  <2> QED BY <2>1, <2>2, <2>3
<1>11. CASE StartBinding
  <2>1. CASE reads' = "credential"
    <3>1. UNCHANGED <<pod, phase, calm, work>> /\ phase = "mutate"
      BY <1>11, <2>1 DEF StartBinding, Pass, Respond, history
    <3>2. \A c : c \in ToSet(order') <=> Serves(EffNow(pod), DeclaredNow(pod), c)
      BY <1>11, <2>1, <3>1, OrderSet
    <3>3. Waiting BY <1>3, <3>1, <3>2 DEF Title
    <3> QED BY <3>1, <3>3
  <2>2. CASE reads' # "credential"
    <3>1. /\ phase = "mutate" /\ reads = "namespace" /\ ~resolveEffective.governed
          /\ UNCHANGED <<pod, calm>>
      BY <1>11, <2>2 DEF StartBinding, Pass, Respond
    <3>2. seen.cluster = P!Named(cluster) /\ seen.tokens = P!Named(tokens)
      BY <3>1 DEF Current, CurrentRead, Running
    <3>3. ~EffNow(pod).governed BY <3>1, <3>2 DEF resolveEffective, EffNow
    <3>4. ~ToBeServed(pod)' BY <1>3, <3>1, <3>3 DEF ToBeServed
    <3> QED BY <2>2, <3>4
  <2> QED BY <2>1, <2>2
<1>12. CASE BindCredential
  <2>1. /\ UNCHANGED <<pod, phase, reads, calm>> /\ reads = "credential" /\ phase = "mutate"
        /\ Extends(work, work')
    BY <1>12, BindStep
  <2>2. PICK c \in CredNames :
           /\ ToSet(order) = {c} \cup ToSet(order')
           /\ Bindable(c) /\ c # NoCred => Holds(creds, work', c)
    BY <1>12, BindStep
  <2>3. ASSUME NEW x \in CredNames, Title(pod, x), Holds(creds, work, x)
        PROVE  Holds(creds, work', x)
    <3>1. creds[x] \in CredType
      BY <2>3, CredsAssumption DEF Title, Bindable, TypeInv, Stores
    <3> QED BY <1>2, <2>1, <2>3, <3>1, ExtendsKeeps
  <2>4. Title(pod, c) => Holds(creds, work', c) BY <2>2 DEF Title, Serves
  <2>5. \A x \in CredNames : Title(pod, x) => x \in ToSet(order) \/ Holds(creds, work, x)
    BY <2>1 DEF Served
  <2>6. Waiting BY <1>2, <1>3, <2>1, <2>2, <2>3, <2>4, <2>5
  <2> QED BY <2>1, <2>6
<1>13. CASE FinishMutate
  <2>1. /\ UNCHANGED calm /\ SameAsk(pod, pod') /\ reads = "credential" /\ reads' = "none"
        /\ order = <<>> /\ \A c : Holds(creds, work, c) => Holds(creds, pod', c)
    BY <1>13, FinishStep
  <2>2. \A c : Title(pod, c)' <=> Title(pod, c)
    BY <1>1, <1>2, <2>1, TitleStable DEF PodOK
  <2>3. ToSet(order) = {} BY <2>1 DEF ToSet
  <2>4. \A c \in CredNames : Title(pod, c) => Holds(creds, work, c)
    BY <2>1, <2>3 DEF Served
  <2> QED BY <1>2, <2>1, <2>2, <2>4
<1>14. CASE CallFails \/ BindFails
  <2>1. reads' = "none" /\ failed' BY <1>14 DEF CallFails, BindFails, Respond
  <2>2. ~ToBeServed(pod)' BY <2>1 DEF ToBeServed
  <2> QED BY <2>1, <2>2
<1> HIDE DEF Waiting, Done
<1> QED BY <1>1, <1>5, <1>6, <1>7, <1>8, <1>9, <1>10, <1>11, <1>12, <1>13, <1>14
    DEF Requesting, Webhook

\* The invariants of the credentials hold together.
LEMMA CredentialInvariant == Spec => [](TypeInv /\ Current /\ Earned /\ Served)
<1> DEFINE Inv == TypeInv /\ Current /\ Earned /\ Served
<1>1. Init => Inv
  <2>1. Init => TypeInv BY StoresInit, TypesInit DEF TypeInv
  <2>2. Init => Current /\ Earned BY DEF Init, Idle, Current, CurrentRead, Earned, Running
  <2>3. Init => Served BY DEF Init, Idle, Served
  <2> QED BY <2>1, <2>2, <2>3
<1>2. Inv /\ [Next]_vars => Inv'
  BY StoresStep, TypesStep, CurrentStep, EarnedStep, ServedStep DEF TypeInv
<1> QED BY <1>1, <1>2, PTL DEF Spec

\* pod_webhook.go:139-178. A pod whose creation ended carries, beside what its
\* author gave it, only credentials that its namespace may bind and that
\* serve a declared model which no tier refuses; what a failing call had bound
\* by then is not among them.
THEOREM EveryCredentialEarned == Spec => []CredentialsAreEarned
<1>1. TypeInv /\ Earned => CredentialsAreEarned
  <2> SUFFICES ASSUME TypeInv, Earned, phase \in {"admitted", "refused"}, calm,
                      NEW c \in Carried(pod) \ Carried(before)
               PROVE  /\ Bindable(c)
                      /\ \E m \in DeclaredSet(pod) : Permitted(pod, m) /\ c \in ServedBy(pod, m)
    BY DEF CredentialsAreEarned
  <2>1. StoredPolicies /\ ClaimsOK(claims) /\ pod \in PodType
    BY StoredKnown DEF TypeInv, Types, Stores, PodOK
  <2>2. work = pod BY DEF TypeInv, Types, Running
  <2>3. Title(pod, c) BY <2>2 DEF Earned
  <2>4. Bindable(c) /\ Serves(EffNow(pod), DeclaredNow(pod), c) BY <2>3 DEF Title
  <2> QED BY <2>1, <2>4, ServesAsPromised
<1> QED BY <1>1, CredentialInvariant, PTL

\* pod_webhook.go:171-238. Whatever other webhooks add to a governed pod, each
\* of its containers ends up with every credential that serves the pod.
THEOREM NoContainerForgotten == Spec => []EveryContainerServed
<1>1. TypeInv /\ Served => EveryContainerServed
  <2> SUFFICES ASSUME TypeInv, Served, phase \in {"admitted", "refused"}, calm, ~failed,
                      calls > 0, ~exempt, ~pod.optOut, P!Applicable(pod) # {},
                      NEW m \in DeclaredSet(pod), Permitted(pod, m),
                      NEW c \in ServedBy(pod, m), Bindable(c), NEW k \in pod.containers
               PROVE  /\ creds[c].mode = "Env" => pod.env[k][creds[c].env] # NoCred
                      /\ creds[c].mode = "ProjectedVolume" => c \in pod.mounts[k]
    BY DEF EveryContainerServed
  <2>1. StoredPolicies /\ ClaimsOK(claims) /\ pod \in PodType
    BY StoredKnown DEF TypeInv, Types, Stores, PodOK
  <2>2. ToBeServed(pod) BY <2>1, GovernedIsApplicable DEF ToBeServed
  <2>3. Serves(EffNow(pod), DeclaredNow(pod), c) BY <2>1, ServesAsPromised
  <2>4. c \in CredNames BY <2>1, <2>3, ServesNamed
  <2>5. Holds(creds, pod, c) BY <2>2, <2>3, <2>4 DEF Title, Served
  <2> QED BY <2>5 DEF Holds
<1> QED BY <1>1, CredentialInvariant, PTL

-----------------------------------------------------------------------------
(* The record *)

\* What the running call has recorded is what its copy of the pod holds beyond
\* the pod; and the pod is its author's until the first mutating call ends.
Record ==
    /\ calls = 0 => pod = before
    /\ reads # "credential" => bound = {}
    /\ work.bound = pod.bound
    /\ bound \subseteq Carried(work)
    /\ Carried(work) \ Carried(pod) \subseteq bound
    /\ RecordMatchesPod

\* A step leaves the record true.
LEMMA RecordStep ==
  ASSUME TypeInv, Record, [Next]_vars PROVE Record'
<1>0. /\ Carried(work)' = Carried(work') /\ Carried(pod)' = Carried(pod')
      /\ Carried(before)' = Carried(before')
  BY DEF Carried
<1>1. PodOK(pod) /\ PodOK(work) /\ Extends(pod, work) BY DEF TypeInv, Types
<1>2. ASSUME UNCHANGED <<pod, before, work, bound, calls>>,
             reads = "credential" => reads' = "credential"
      PROVE  Record'
  BY <1>0, <1>2 DEF Record, RecordMatchesPod
\* A call ends with a pod whose record is true.
<1>3. ASSUME NEW p, NEW next, Respond(p, next), calls = 0 => pod = before,
             p.bound \ before.bound \subseteq Carried(p),
             phase = "mutate" /\ calls = 0 => Carried(p) \ Carried(before) \subseteq p.bound,
             phase # "mutate" => p = pod
      PROVE  Record'
  <2>1. /\ pod' = p /\ work' = p /\ bound' = {} /\ before' = before
        /\ calls' = IF phase = "mutate" THEN calls + 1 ELSE calls
        /\ reads' = "none"
    BY <1>3 DEF Respond
  <2>2. calls \in 0..2 BY DEF TypeInv, Types
  <2>3. calls' = 0 => pod' = before' BY <1>3, <2>1, <2>2
  <2>4. calls' = 1 => Carried(p) \ Carried(before) \subseteq p.bound
    BY <1>3, <2>1, <2>2 DEF Record, RecordMatchesPod
  <2> QED BY <1>0, <1>3, <2>1, <2>3, <2>4 DEF Record, RecordMatchesPod
<1>4. ASSUME NEW next, Respond(pod, next) PROVE Record'
  <2>1. phase = "mutate" /\ calls = 0 => Carried(pod) \ Carried(before) \subseteq pod.bound
    BY DEF Record
  <2> QED BY <1>3, <1>4, <2>1 DEF Record, RecordMatchesPod
<1>5. ASSUME NEW p, CreatePod(p) \/ UpdatePod(p) PROVE Record'
  <2>1. pod' = before' /\ work' = before' /\ calls' = 0 /\ bound' = bound
    BY <1>5 DEF CreatePod, UpdatePod, Receive
  <2>2. bound = {} BY <1>5 DEF CreatePod, UpdatePod, Receive, Record, TypeInv, Types, Running
  <2> QED BY <1>0, <2>1, <2>2 DEF Record, RecordMatchesPod
<1>6. ASSUME NEW p, OtherChange(pod, p), OtherWebhook(p) PROVE Record'
  <2>1. pod' = p /\ work' = p /\ calls' = 1 /\ calls = 1 /\ UNCHANGED <<before, bound>>
        /\ reads = "none"
    BY <1>6 DEF OtherWebhook, TypeInv, Types, Running
  <2>2. Carried(p) = Carried(pod) BY <1>1, <1>6, OtherChangeAddsNoLoad
  <2>3. p.bound = pod.bound BY <1>1, <1>6 DEF OtherChange, PodOK, PodType
  <2>4. work = pod BY <2>1 DEF TypeInv, Types
  <2> QED BY <1>0, <2>1, <2>2, <2>3, <2>4 DEF Record, RecordMatchesPod
<1>7. CASE BindCredential
  <2>1. UNCHANGED <<pod, before, calls, reads>> /\ reads = "credential" /\ Extends(work, work')
    BY <1>7, BindStep DEF BindCredential
  <2> DEFINE c == Head(order)
  <2>2. /\ work' = IF creds[c] # Absent /\ credentialAuthorizes(c)
                      THEN injectCredential(work, c) ELSE work
        /\ bound' = IF work'.env # work.env \/ work'.mounts # work.mounts
                      THEN bound \cup {c} ELSE bound
        /\ order # <<>>
    BY <1>7 DEF BindCredential
  <2>3. c \in CredNames BY <2>2 DEF TypeInv, Types
  <2> HIDE DEF c
  <2>4. CASE creds[c] # Absent /\ credentialAuthorizes(c)
    <3>1. creds[c] \in CredType BY <2>3, <2>4, CredsAssumption DEF TypeInv, Stores
    <3>2. Delivers(creds, work, c, work') BY <1>1, <2>2, <2>3, <2>4, <3>1, Injected
    <3>3. Carried(work) \subseteq Carried(work') BY <1>1, <2>1, ExtendsKeeps
    <3>4. CASE work'.env # work.env \/ work'.mounts # work.mounts
      BY <1>0, <2>1, <2>2, <3>2, <3>3, <3>4 DEF Delivers, Record, RecordMatchesPod
    <3>5. CASE work'.env = work.env /\ work'.mounts = work.mounts
      <4>1. Carried(work') = Carried(work)
        BY <2>1, <3>5, SameLoadKeeps DEF SameLoad, Extends
      <4> QED BY <1>0, <2>1, <2>2, <3>2, <3>5, <4>1 DEF Delivers, Record, RecordMatchesPod
    <3> QED BY <3>4, <3>5
  <2>5. CASE ~(creds[c] # Absent /\ credentialAuthorizes(c))
    <3>1. work' = work /\ bound' = bound BY <2>2, <2>5
    <3> QED BY <1>2, <2>1, <3>1
  <2> QED BY <2>4, <2>5
<1>8. CASE FinishMutate
  <2> DEFINE b == IF bound = {} THEN work.bound ELSE bound
             s == IF sources = {} THEN work.policies ELSE sources
             q == [work EXCEPT !.bound = b, !.policies = s]
  <2>1. Respond(q, "others") /\ phase = "mutate"
    BY <1>8 DEF FinishMutate, TypeInv, Types
  <2>2. /\ b \in SUBSET CredNames
        /\ s \in SUBSET ({"ClusterTokenPolicy", "TokenPolicy"} \X Nat)
    BY <1>1 DEF TypeInv, Types, PodOK, PodType
  <2>3. b = IF bound = {} THEN pod.bound ELSE bound BY DEF Record
  <2> HIDE DEF b, s
  <2>4. q.bound = b BY <1>1 DEF PodOK, PodType
  <2>5. Carried(q) = Carried(work) BY <1>1, <2>2, Annotated, SameLoadKeeps
  <2>6. Carried(pod) \subseteq Carried(work) BY <1>1, ExtendsKeeps
  <2> HIDE DEF q
  <2>7. q.bound \ before.bound \subseteq Carried(q)
    BY <2>3, <2>4, <2>5, <2>6 DEF Record, RecordMatchesPod
  <2>8. calls = 0 => Carried(q) \ Carried(before) \subseteq q.bound
    BY <2>3, <2>4, <2>5 DEF Record
  <2> QED BY <1>3, <2>1, <2>7, <2>8 DEF Record
<1>9. \/ /\ UNCHANGED <<pod, before, work, bound, calls>>
         /\ reads = "credential" => reads' = "credential"
      \/ \E next : Respond(pod, next)
      \/ \E p : CreatePod(p) \/ UpdatePod(p)
      \/ \E p : OtherChange(pod, p) /\ OtherWebhook(p)
      \/ BindCredential \/ FinishMutate
  <2>1. /\ OtherWebhook([pod EXCEPT !.containers = @ \cup {Sidecar}])
              => \E p : OtherChange(pod, p) /\ OtherWebhook(p)
        /\ \A x \in Pods : OtherWebhook([pod EXCEPT !.label = x.label])
              => \E p : OtherChange(pod, p) /\ OtherWebhook(p)
    BY DEF OtherChange
  <2>2. CASE EditPolicies \/ EditClaims \/ EditCredentials \/ UNCHANGED vars
    BY <2>2 DEF EditPolicies, EditClaims, EditCredentials, Edit, vars, local, history
  <2>3. CASE StartValidation BY <2>3 DEF StartValidation, TypeInv, Types, Running
  <2>4. CASE Webhook
    BY <2>4 DEF Webhook, ListClaims, ListClusterPolicies, ListTokenPolicies, Validate,
       StartBinding, CallFails, BindFails, Pass, history
  <2> QED BY <2>1, <2>2, <2>3, <2>4 DEF Next
<1> QED BY <1>2, <1>4, <1>5, <1>6, <1>7, <1>8, <1>9

\* common_types.go:22-24. The record of bound credentials names none that no
\* container holds, and after the first mutating call it names every one that
\* was injected, whatever is edited and whichever calls fail.
THEOREM RecordHolds == Spec => []RecordMatchesPod
<1> DEFINE Inv == TypeInv /\ Record
<1>1. Init => Inv
  <2>1. Init => TypeInv BY StoresInit, TypesInit DEF TypeInv
  <2>2. Init => Record BY DEF Init, Idle, Record, RecordMatchesPod
  <2> QED BY <2>1, <2>2
<1>2. Inv /\ [Next]_vars => Inv'
  BY StoresStep, TypesStep, RecordStep DEF TypeInv
<1>3. Inv => RecordMatchesPod BY DEF Record
<1> QED BY <1>1, <1>2, <1>3, PTL DEF Spec

=============================================================================
