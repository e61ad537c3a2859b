------------------------------ MODULE SeqFacts ------------------------------
(***************************************************************************)
(* What the community modules' folds, flattening and sorts compute, for    *)
(* every input. The code is built from loops over slices; the models say   *)
(* FoldLeft, FlattenSeq and a choice from SetToSeqs instead, and this      *)
(* module proves that these do what the loops do. An operator cannot be a  *)
(* parameter of these facts, so the body of a loop is a function step of   *)
(* the accumulator and the element, and the comparison of a sort is a      *)
(* relation R, a set of pairs. Induction is by a least counterexample.     *)
(***************************************************************************)
EXTENDS Integers, Sequences, SequencesExt, FiniteSetTheorems, TLAPS

-----------------------------------------------------------------------------
(* Least and greatest elements *)


\* A set of naturals that is not empty has a least element.
LEMMA NatMin ==
  ASSUME NEW T \in SUBSET Nat, T # {}
  PROVE  \E x \in T : \A y \in T : x <= y
<1> DEFINE U == {0..k : k \in T}
<1>1. U \subseteq FiniteSubsetsOf(Nat)
  <2> SUFFICES ASSUME NEW k \in T PROVE 0..k \in FiniteSubsetsOf(Nat)
    OBVIOUS
  <2>1. IsFiniteSet(0..k) BY FS_Interval
  <2> QED BY <2>1 DEF FiniteSubsetsOf
<1>2. U # {} OBVIOUS
<1> HIDE DEF U
<1>3. PICK m \in U : \A y \in U : ~(<<y, m>> \in StrictSubsetOrdering(Nat))
  BY <1>1, <1>2, FS_StrictSubsetOrderingWellFounded, WFMin, Zenon
<1>4. PICK x \in T : m = 0..x BY DEF U
<1>5. ASSUME NEW y \in T, y < x PROVE FALSE
  <2>1. 0..y \in U BY DEF U
  <2>2. 0..y \in SUBSET Nat /\ 0..x \in SUBSET Nat OBVIOUS
  <2>3. 0..y \subseteq 0..x /\ x \in 0..x /\ x \notin 0..y BY <1>5
  <2>4. <<0..y, m>> \notin StrictSubsetOrdering(Nat) BY <2>1, <1>3
  <2> QED BY <2>2, <2>3, <2>4, <1>4, Zenon DEF StrictSubsetOrdering
<1>6. QED
  BY <1>5

\* Max and Min of the community modules return what they are named for.
LEMMA MaxOf ==
  ASSUME NEW n \in Nat, NEW S \in SUBSET (1..n), S # {}
  PROVE  Max(S) \in S /\ \A y \in S : y <= Max(S)
<1> DEFINE T == {k \in Nat : \A y \in S : y <= k}
<1>1. T \in SUBSET Nat /\ T # {} OBVIOUS
<1> HIDE DEF T
<1>2. PICK k \in T : \A j \in T : k <= j BY <1>1, NatMin
<1>3. k \in Nat /\ \A y \in S : y <= k BY <1>2 DEF T
<1>4. k \in S
  <2> SUFFICES ASSUME k \notin S PROVE FALSE OBVIOUS
  <2> PICK y \in S : TRUE OBVIOUS
  <2>1. k # 0
    <3>1. y \in 1..n /\ y <= k BY <1>3
    <3> QED BY <3>1
  <2>2. k - 1 \in T BY <2>1, <1>3 DEF T
  <2> QED BY <2>2, <1>2, <1>3
<1>5. QED BY <1>3, <1>4 DEF Max

\* The same for Min, of any set of naturals.
LEMMA MinOf ==
  ASSUME NEW S \in SUBSET Nat, S # {}
  PROVE  Min(S) \in S /\ \A y \in S : Min(S) <= y
BY NatMin DEF Min

\* A sequence over a set is a sequence over every larger one.
LEMMA SeqSubset ==
  ASSUME NEW A, NEW B, A \subseteq B, NEW s \in Seq(A)
  PROVE  s \in Seq(B)
OBVIOUS

\* A sequence is one over the set of its own elements.
LEMMA ToSetTyped ==
  ASSUME NEW A, NEW s \in Seq(A)
  PROVE  ToSet(s) \subseteq A /\ s \in Seq(ToSet(s))
<1>1. ToSet(s) \subseteq A /\ \A i \in 1..Len(s) : s[i] \in ToSet(s) BY DEF ToSet
<1>2. s = [i \in 1..Len(s) |-> s[i]] /\ Len(s) \in Nat OBVIOUS
<1>3. [i \in 1..Len(s) |-> s[i]] \in Seq(ToSet(s)) BY <1>1, <1>2
<1> QED BY <1>1, <1>2, <1>3

-----------------------------------------------------------------------------
(* Finite sets *)

\* A family of subsets of a finite set has a member from which no element can
\* be taken without leaving the family: induction over finite sets.
LEMMA FiniteMin ==
  ASSUME NEW S, IsFiniteSet(S), NEW U \in SUBSET (SUBSET S), U # {}
  PROVE  \E m \in U : \A x \in m : m \ {x} \notin U
<1>1. U \subseteq FiniteSubsetsOf(S) BY FS_FiniteSubsetsOfFinite
<1>2. PICK m \in U : \A y \in U : ~(<<y, m>> \in StrictSubsetOrdering(S))
  BY <1>1, FS_StrictSubsetOrderingWellFounded, WFMin, Zenon
<1>3. ASSUME NEW x \in m, m \ {x} \in U PROVE FALSE
  <2>1. <<m \ {x}, m>> \notin StrictSubsetOrdering(S) BY <1>2, <1>3
  <2>2. m \ {x} \in SUBSET S /\ m \in SUBSET S OBVIOUS
  <2>3. m \ {x} \subseteq m /\ m \ {x} # m OBVIOUS
  <2> QED BY <2>1, <2>2, <2>3, Zenon DEF StrictSubsetOrdering
<1> QED BY <1>3

-----------------------------------------------------------------------------
(* Folds *)

\* f computes a fold over every subset of S: c takes an element out, the rest
\* is folded, and step adds that element to the result.
IsIter(f, S, c, step, base) ==
    \A s \in SUBSET S : f[s] = IF s = {} THEN base ELSE step[f[s \ {c[s]}], c[s]]

\* c takes an element out of every set of elements of S.
Takes(c, S) == \A s \in SUBSET S : s # {} => c[s] \in s

\* Two such computations agree on the sets that both cover,
LEMMA IterUnique ==
  ASSUME NEW S, IsFiniteSet(S), NEW c, Takes(c, S), NEW step, NEW base,
         NEW s1 \in SUBSET S, NEW s2 \in SUBSET S, NEW f, NEW g,
         IsIter(f, s1, c, step, base), IsIter(g, s2, c, step, base),
         NEW t \in SUBSET (s1 \cap s2)
  PROVE  f[t] = g[t]
<1> DEFINE U == {u \in SUBSET (s1 \cap s2) : f[u] # g[u]}
<1> SUFFICES ASSUME U # {} PROVE FALSE OBVIOUS
<1>1. U \in SUBSET (SUBSET S) OBVIOUS
<1> HIDE DEF U
<1>2. PICK m \in U : \A x \in m : m \ {x} \notin U BY <1>1, FiniteMin
<1>3. m \in SUBSET (s1 \cap s2) /\ f[m] # g[m] BY DEF U
<1>4. m # {} BY <1>3 DEF IsIter
<1>5. c[m] \in m BY <1>3, <1>4 DEF Takes
<1>6. f[m \ {c[m]}] = g[m \ {c[m]}] BY <1>2, <1>3, <1>5 DEF U
<1>7. /\ f[m] = step[f[m \ {c[m]}], c[m]]
      /\ g[m] = step[g[m \ {c[m]}], c[m]]
  BY <1>3, <1>4 DEF IsIter
<1> QED BY <1>3, <1>6, <1>7

\* and there is one, with its results in A, for every finite set.
THEOREM IterExists ==
  ASSUME NEW S, IsFiniteSet(S), NEW c, Takes(c, S), NEW A, NEW base \in A,
         NEW step \in [A \X S -> A]
  PROVE  \E f \in [SUBSET S -> A] : IsIter(f, S, c, step, base)
<1> DEFINE Iter(f, V) == f \in [SUBSET V -> A] /\ IsIter(f, V, c, step, base)
           U == {V \in SUBSET S : ~\E f : Iter(f, V)}
<1> SUFFICES ASSUME U # {} PROVE FALSE OBVIOUS
<1>1. U \in SUBSET (SUBSET S) OBVIOUS
<1> HIDE DEF U
<1>2. PICK V \in U : \A x \in V : V \ {x} \notin U BY <1>1, FiniteMin
<1>3. V \in SUBSET S /\ ~\E f : Iter(f, V) BY DEF U
<1>4. ASSUME NEW t \in SUBSET V, t # V PROVE \E f : Iter(f, t)
  <2>1. PICK x \in V : x \notin t BY <1>4
  <2>2. V \ {x} \in SUBSET S /\ V \ {x} \notin U BY <1>2, <1>3
  <2>3. PICK f : Iter(f, V \ {x}) BY <2>2 DEF U
  <2> DEFINE g == [u \in SUBSET t |-> f[u]]
  <2>4. g \in [SUBSET t -> A] BY <2>1, <2>3
  <2>5. IsIter(g, t, c, step, base)
    <3> SUFFICES ASSUME NEW u \in SUBSET t
                 PROVE  g[u] = IF u = {} THEN base ELSE step[g[u \ {c[u]}], c[u]]
      BY DEF IsIter
    <3>1. u \in SUBSET (V \ {x}) /\ u \ {c[u]} \in SUBSET t BY <2>1
    <3>2. f[u] = IF u = {} THEN base ELSE step[f[u \ {c[u]}], c[u]] BY <2>3, <3>1 DEF IsIter
    <3> QED BY <3>1, <3>2
  <2> QED BY <2>4, <2>5
<1> DEFINE F(t) == CHOOSE f : Iter(f, t)
           h == [t \in SUBSET V |->
                   IF t = V THEN IF V = {} THEN base
                                 ELSE step[F(V \ {c[V]})[V \ {c[V]}], c[V]]
                   ELSE F(t)[t]]
<1> HIDE DEF Iter
<1>5. \A t \in SUBSET V : t # V => Iter(F(t), t) BY <1>4
<1> HIDE DEF F
<1>6. \A t \in SUBSET V : t # V => F(t)[t] \in A BY <1>5 DEF Iter
<1>7. \A t \in SUBSET V : t # {} => c[t] \in t /\ c[t] \in S BY <1>3 DEF Takes
<1>8. h \in [SUBSET V -> A]
  <2>1. V # {} => step[F(V \ {c[V]})[V \ {c[V]}], c[V]] \in A
    <3> SUFFICES ASSUME V # {} PROVE step[F(V \ {c[V]})[V \ {c[V]}], c[V]] \in A
      OBVIOUS
    <3>1. c[V] \in V /\ c[V] \in S BY <1>7
    <3>2. V \ {c[V]} \in SUBSET V /\ V \ {c[V]} # V BY <3>1
    <3>3. F(V \ {c[V]})[V \ {c[V]}] \in A BY <3>2, <1>6
    <3> QED BY <3>1, <3>3
  <2> QED BY <2>1, <1>6
<1>9. IsIter(h, V, c, step, base)
  <2> SUFFICES ASSUME NEW t \in SUBSET V
               PROVE  h[t] = IF t = {} THEN base ELSE step[h[t \ {c[t]}], c[t]]
    BY DEF IsIter
  <2>1. CASE t = {}
    <3>1. CASE t = V BY <2>1, <3>1
    <3>2. CASE t # V
      <4>1. h[t] = F(t)[t] BY <3>2
      <4>2. F(t)[t] = base BY <1>5, <2>1, <3>2 DEF Iter, IsIter
      <4> QED BY <2>1, <4>1, <4>2
    <3> QED BY <3>1, <3>2
  <2>2. CASE t # {}
    <3> DEFINE r == t \ {c[t]}
    <3>1. c[t] \in t /\ r \in SUBSET V /\ r \in SUBSET t /\ r # V /\ r # t BY <2>2, <1>7
    <3>2. h[r] = F(r)[r] BY <3>1
    <3>3. CASE t = V
      <4>1. h[t] = step[F(r)[r], c[t]] BY <2>2, <3>3
      <4> QED BY <2>2, <3>2, <4>1
    <3>4. CASE t # V
      <4>1. h[t] = F(t)[t] BY <3>4
      <4>2. F(t)[t] = step[F(t)[r], c[t]] BY <1>5, <2>2, <3>4 DEF Iter, IsIter
      <4>3. F(t)[r] = F(r)[r]
        <5>1. IsIter(F(t), t, c, step, base) /\ IsIter(F(r), r, c, step, base)
          BY <1>5, <3>1, <3>4 DEF Iter
        <5>2. t \in SUBSET S /\ r \in SUBSET S /\ r \in SUBSET (t \cap r) BY <3>1, <1>3
        <5> DEFINE ft == F(t)
                   fr == F(r)
        <5> HIDE DEF r, ft, fr
        <5>3. IsIter(ft, t, c, step, base) /\ IsIter(fr, r, c, step, base)
          BY <5>1 DEF ft, fr
        <5>4. ft[r] = fr[r] BY <5>2, <5>3, IterUnique
        <5> QED BY <5>4 DEF ft, fr
      <4> HIDE DEF h, r
      <4> QED BY <2>2, <3>2, <4>1, <4>2, <4>3 DEF r
    <3> QED BY <3>3, <3>4
  <2> QED BY <2>1, <2>2
<1> QED BY <1>3, <1>8, <1>9 DEF Iter

-----------------------------------------------------------------------------
(* Sums over sets, in the order in which CHOOSE takes the elements *)

Picks(N) == [s \in SUBSET N |-> CHOOSE x \in s : TRUE]

Plus(v, N) == [x \in Nat \X N |-> v[x[2]] + x[1]]

\* f[s] is the sum of v over s, for every set s of elements of N.
IsSum(f, v, N) == f \in [SUBSET N -> Nat] /\ IsIter(f, N, Picks(N), Plus(v, N), 0)

\* Every non-empty subset has an element to take.
LEMMA PicksTakes == ASSUME NEW N PROVE Takes(Picks(N), N)
BY DEF Takes, Picks

\* Every finite set has such a function,
LEMMA SumExists ==
  ASSUME NEW N, IsFiniteSet(N), NEW v \in [N -> Nat]
  PROVE  \E f : IsSum(f, v, N)
<1>1. Plus(v, N) \in [Nat \X N -> Nat]
  <2> SUFFICES ASSUME NEW x \in Nat \X N PROVE v[x[2]] + x[1] \in Nat BY DEF Plus
  <2>1. x[1] \in Nat /\ x[2] \in N OBVIOUS
  <2>2. v[x[2]] \in Nat BY <2>1
  <2> QED BY <2>1, <2>2
<1>2. 0 \in Nat OBVIOUS
<1> DEFINE A == Nat
<1> HIDE DEF A
<1>3. Plus(v, N) \in [A \X N -> A] /\ 0 \in A BY <1>1, <1>2 DEF A
<1>4. \E f \in [SUBSET N -> A] : IsIter(f, N, Picks(N), Plus(v, N), 0)
  BY <1>3, PicksTakes, IterExists
<1> QED BY <1>4 DEF IsSum, A

\* whose sums do not depend on the order:
LEMMA SumSplit ==
  ASSUME NEW N, IsFiniteSet(N), NEW v \in [N -> Nat], NEW f, IsSum(f, v, N)
  PROVE  /\ f[{}] = 0
         /\ \A s \in SUBSET N : f[s] \in Nat /\ \A x \in s : f[s] = v[x] + f[s \ {x}]
<1>1. f[{}] = 0 BY DEF IsSum, IsIter
<1>2. \A s \in SUBSET N : f[s] \in Nat BY DEF IsSum
<1>3. \A x \in N : v[x] \in Nat OBVIOUS
<1>4. ASSUME NEW s \in SUBSET N, s # {}
      PROVE  \E c \in s : f[s] = v[c] + f[s \ {c}]
  <2> DEFINE c == Picks(N)[s]
  <2>1. c \in s BY <1>4, PicksTakes DEF Takes
  <2>2. f[s] = Plus(v, N)[f[s \ {c}], c] BY <1>4 DEF IsSum, IsIter
  <2> HIDE DEF c
  <2>3. f[s \ {c}] \in Nat /\ c \in N BY <1>2, <2>1
  <2>4. <<f[s \ {c}], c>> \in Nat \X N BY <2>3
  <2>5. Plus(v, N)[f[s \ {c}], c] = v[c] + f[s \ {c}] BY <2>4 DEF Plus
  <2> QED BY <2>1, <2>2, <2>5
<1> DEFINE U == {s \in SUBSET N : \E x \in s : f[s] # v[x] + f[s \ {x}]}
<1>5. U = {}
  <2> SUFFICES ASSUME U # {} PROVE FALSE OBVIOUS
  <2>1. U \in SUBSET (SUBSET N) OBVIOUS
  <2> HIDE DEF U
  <2>2. PICK m \in U : \A x \in m : m \ {x} \notin U BY <2>1, FiniteMin
  <2>3. m \in SUBSET N BY DEF U
  <2>4. PICK x \in m : f[m] # v[x] + f[m \ {x}] BY DEF U
  <2>5. PICK c \in m : f[m] = v[c] + f[m \ {c}] BY <1>4, <2>3, <2>4
  <2>6. c # x BY <2>4, <2>5
  <2>7. f[m \ {c}] = v[x] + f[(m \ {c}) \ {x}]
    <3>1. m \ {c} \in SUBSET N /\ x \in m \ {c} BY <2>3, <2>6
    <3> QED BY <2>2, <3>1 DEF U
  <2>8. f[m \ {x}] = v[c] + f[(m \ {x}) \ {c}]
    <3>1. m \ {x} \in SUBSET N /\ c \in m \ {x} BY <2>3, <2>6
    <3> QED BY <2>2, <3>1 DEF U
  <2>9. (m \ {c}) \ {x} = (m \ {x}) \ {c} OBVIOUS
  <2> DEFINE r == f[(m \ {x}) \ {c}]
  <2>10. r \in Nat /\ v[x] \in Nat /\ v[c] \in Nat
    <3>1. (m \ {x}) \ {c} \in SUBSET N /\ x \in N /\ c \in N BY <2>3
    <3> QED BY <1>2, <1>3, <3>1
  <2> HIDE DEF r
  <2>11. f[m] = v[c] + (v[x] + r) BY <2>5, <2>7, <2>9 DEF r
  <2>12. f[m \ {x}] = v[c] + r BY <2>8 DEF r
  <2>13. v[c] + (v[x] + r) = v[x] + (v[c] + r) BY <2>10
  <2> QED BY <2>4, <2>11, <2>12, <2>13
<1> QED BY <1>1, <1>2, <1>5

\* the sum over a union of disjoint sets is the sum of the sums,
LEMMA SumDisjoint ==
  ASSUME NEW N, IsFiniteSet(N), NEW v \in [N -> Nat], NEW f, IsSum(f, v, N),
         NEW s \in SUBSET N, NEW t \in SUBSET N, s \cap t = {}
  PROVE  f[s \cup t] = f[s] + f[t]
<1>1. /\ f[{}] = 0
      /\ \A r \in SUBSET N : f[r] \in Nat /\ \A x \in r : f[r] = v[x] + f[r \ {x}]
  BY SumSplit
<1> DEFINE U == {r \in SUBSET t : f[s \cup r] # f[s] + f[r]}
<1> SUFFICES ASSUME U # {} PROVE FALSE OBVIOUS
<1>2. U \in SUBSET (SUBSET t) /\ IsFiniteSet(t) BY FS_Subset
<1> HIDE DEF U
<1>3. PICK m \in U : \A x \in m : m \ {x} \notin U BY <1>2, FiniteMin
<1>4. m \in SUBSET t /\ f[s \cup m] # f[s] + f[m] BY DEF U
<1>5. m # {}
  <2> SUFFICES ASSUME m = {} PROVE FALSE OBVIOUS
  <2>1. s \cup m = s /\ f[s] \in Nat /\ f[m] = 0 BY <1>1
  <2>2. f[s] + 0 = f[s] BY <2>1
  <2> QED BY <1>4, <2>1, <2>2
<1>6. PICK x \in m : TRUE BY <1>5
<1>7. f[s \cup (m \ {x})] = f[s] + f[m \ {x}]
  <2>1. m \ {x} \in SUBSET t BY <1>4
  <2> QED BY <1>3, <2>1 DEF U
<1>8. f[m] = v[x] + f[m \ {x}] BY <1>1, <1>4
<1>9. f[s \cup m] = v[x] + f[s \cup (m \ {x})]
  <2>1. s \cup m \in SUBSET N /\ x \in s \cup m BY <1>4
  <2>2. (s \cup m) \ {x} = s \cup (m \ {x}) BY <1>4
  <2> QED BY <1>1, <2>1, <2>2
<1>10. v[x] \in Nat /\ f[s] \in Nat /\ f[m \ {x}] \in Nat
  <2>1. x \in N /\ m \ {x} \in SUBSET N BY <1>4
  <2> QED BY <1>1, <2>1
<1> QED BY <1>4, <1>7, <1>8, <1>9, <1>10

\* and a part sums to no more than the whole.
LEMMA SumMonotone ==
  ASSUME NEW N, IsFiniteSet(N), NEW v \in [N -> Nat], NEW f, IsSum(f, v, N),
         NEW t \in SUBSET N, NEW s \in SUBSET t
  PROVE  f[s] \in Nat /\ f[t] \in Nat /\ f[s] <= f[t]
<1>1. s \in SUBSET N /\ t \ s \in SUBSET N /\ s \cap (t \ s) = {} /\ s \cup (t \ s) = t
  OBVIOUS
<1>2. f[s] \in Nat /\ f[t \ s] \in Nat /\ f[t] \in Nat BY <1>1, SumSplit
<1>3. f[t] = f[s] + f[t \ s] BY <1>1, SumDisjoint
<1> QED BY <1>2, <1>3

\* Elements without a value add nothing.
LEMMA SumZero ==
  ASSUME NEW N, IsFiniteSet(N), NEW v \in [N -> Nat], NEW f, IsSum(f, v, N),
         NEW t \in SUBSET N, \A x \in t : v[x] = 0
  PROVE  f[t] = 0
<1>1. /\ f[{}] = 0
      /\ \A r \in SUBSET N : f[r] \in Nat /\ \A x \in r : f[r] = v[x] + f[r \ {x}]
  BY SumSplit
<1> DEFINE U == {r \in SUBSET t : f[r] # 0}
<1> SUFFICES ASSUME U # {} PROVE FALSE OBVIOUS
<1>2. U \in SUBSET (SUBSET t) /\ IsFiniteSet(t) BY FS_Subset
<1> HIDE DEF U
<1>3. PICK m \in U : \A x \in m : m \ {x} \notin U BY <1>2, FiniteMin
<1>4. m \in SUBSET t /\ f[m] # 0 BY DEF U
<1>5. PICK x \in m : TRUE BY <1>1, <1>4
<1>6. m \ {x} \in SUBSET t /\ m \in SUBSET N BY <1>4
<1>7. f[m \ {x}] = 0 BY <1>3, <1>6 DEF U
<1>8. f[m] = v[x] + f[m \ {x}] /\ v[x] = 0 BY <1>1, <1>4, <1>6
<1> QED BY <1>4, <1>7, <1>8

-----------------------------------------------------------------------------
(* Loops: FoldLeft is the Go loop "for _, p := range seq" *)

\* f is the recursive function that FoldLeft chooses: it folds the first
\* elements, then adds the last.
IsLoop(f, seq, step, base) ==
    \A s \in SUBSET (DOMAIN seq) :
        f[s] = IF s = {} THEN base ELSE step[f[s \ {Max(s)}], seq[Max(s)]]

\* There is one, with its results in A.
THEOREM LoopExists ==
  ASSUME NEW S, NEW seq \in Seq(S), NEW A, NEW base \in A, NEW step \in [A \X S -> A]
  PROVE  \E f \in [SUBSET (DOMAIN seq) -> A] : IsLoop(f, seq, step, base)
<1> DEFINE n == Len(seq)
           D == 1..n
           c == [s \in SUBSET D |-> Max(s)]
           at == [x \in A \X D |-> step[x[1], seq[x[2]]]]
<1>1. n \in Nat /\ DOMAIN seq = D /\ \A i \in D : seq[i] \in S OBVIOUS
<1>2. IsFiniteSet(D) BY <1>1, FS_Interval
<1>3. \A s \in SUBSET D : s # {} => Max(s) \in s BY <1>1, MaxOf
<1>4. Takes(c, D) BY <1>3 DEF Takes
<1>5. at \in [A \X D -> A] BY <1>1
<1> HIDE DEF at, c, D, n
<1>6. PICK f \in [SUBSET D -> A] : IsIter(f, D, c, at, base)
  BY <1>2, <1>4, <1>5, IterExists
<1>7. ASSUME NEW s \in SUBSET D
      PROVE  f[s] = IF s = {} THEN base ELSE step[f[s \ {Max(s)}], seq[Max(s)]]
  <2>1. c[s] = Max(s) BY DEF c
  <2>2. CASE s = {} BY <1>6, <2>2 DEF IsIter
  <2>3. CASE s # {}
    <3>1. f[s] = at[f[s \ {Max(s)}], Max(s)] BY <1>6, <2>1, <2>3 DEF IsIter
    <3>2. f[s \ {Max(s)}] \in A /\ Max(s) \in D BY <1>3, <2>3
    <3> QED BY <2>3, <3>1, <3>2 DEF at
  <2> QED BY <2>2, <2>3
<1> QED BY <1>1, <1>6, <1>7 DEF IsLoop

\* The first rounds of a loop, as sets of places in the slice.
LEMMA Rounds ==
  ASSUME NEW n \in Nat
  PROVE  /\ 1..0 = {} /\ {} \in SUBSET (1..n)
         /\ \A i \in 1..n : /\ 1..i \in SUBSET (1..n) /\ 1..i # {}
                            /\ Max(1..i) = i /\ (1..i) \ {i} = 1..(i - 1)
<1> SUFFICES ASSUME NEW i \in 1..n
             PROVE  /\ 1..i \in SUBSET (1..n) /\ 1..i # {}
                    /\ Max(1..i) = i /\ (1..i) \ {i} = 1..(i - 1)
  OBVIOUS
<1>1. i \in Nat /\ 1..i \in SUBSET (1..n) /\ i \in 1..i OBVIOUS
<1>2. Max(1..i) \in 1..i /\ i <= Max(1..i) BY <1>1, MaxOf
<1>3. Max(1..i) = i BY <1>1, <1>2
<1> QED BY <1>1, <1>3

\* Induction over the rounds: Good holds pairs of a round and an accumulator.
THEOREM RoundInduction ==
  ASSUME NEW n \in Nat, NEW g, NEW Good, <<0, g[0]>> \in Good,
         \A k \in 1..n : <<k - 1, g[k - 1]>> \in Good => <<k, g[k]>> \in Good
  PROVE  <<n, g[n]>> \in Good
<1> DEFINE T == {k \in 0..n : <<k, g[k]>> \notin Good}
<1> SUFFICES ASSUME T # {} PROVE FALSE OBVIOUS
<1>1. T \in SUBSET Nat OBVIOUS
<1>2. PICK x \in T : \A y \in T : x <= y BY <1>1, NatMin
<1>3. x # 0 OBVIOUS
<1>4. x \in 1..n /\ x - 1 \in 0..n /\ x - 1 < x BY <1>3
<1>5. <<x - 1, g[x - 1]>> \in Good BY <1>2, <1>4
<1> QED BY <1>4, <1>5

\* h, the function a fold chooses, computes the loop as long as what it has
\* so far is in A, where step says what the body does.
Computes(h, seq, step, base, A) ==
    /\ h[{}] = base
    /\ \A t \in SUBSET (DOMAIN seq) :
          t # {} /\ h[t \ {Max(t)}] \in A => h[t] = step[h[t \ {Max(t)}], seq[Max(t)]]

\* g holds the accumulator after each round of the loop that h computes.
RoundsOf(g, h, seq, step, base) ==
    /\ g[0] = base
    /\ \A i \in 1..Len(seq) : g[i] = step[g[i - 1], seq[i]]
    /\ h[DOMAIN seq] = g[Len(seq)]

\* The loop of a chosen function, round by round.
THEOREM LoopRounds ==
  ASSUME NEW S, NEW seq \in Seq(S), NEW A, NEW base \in A, NEW step \in [A \X S -> A],
         NEW h, Computes(h, seq, step, base, A)
  PROVE  \E g \in [0..Len(seq) -> A] : RoundsOf(g, h, seq, step, base)
<1> DEFINE n == Len(seq)
           g == [i \in 0..n |-> h[1..i]]
           Good == {kx \in (0..n) \X A : kx[2] = g[kx[1]]}
<1>1. n \in Nat /\ DOMAIN seq = 1..n /\ \A i \in 1..n : seq[i] \in S OBVIOUS
<1> HIDE DEF n
<1>2. g[0] = base
  <2>1. 0 \in 0..n /\ 1..0 = {} BY <1>1
  <2> QED BY <2>1 DEF Computes
<1>3. ASSUME NEW i \in 1..n, g[i - 1] \in A
      PROVE  g[i] = step[g[i - 1], seq[i]] /\ g[i] \in A
  <2>1. /\ 1..i \in SUBSET (DOMAIN seq) /\ 1..i # {}
        /\ Max(1..i) = i /\ (1..i) \ {i} = 1..(i - 1)
    BY <1>1, Rounds
  <2>2. i \in 0..n /\ i - 1 \in 0..n /\ seq[i] \in S BY <1>1
  <2>3. g[i] = h[1..i] /\ g[i - 1] = h[1..(i - 1)] BY <2>2
  <2> HIDE DEF g
  <2>4. h[1..i] = step[h[1..(i - 1)], seq[i]] BY <1>3, <2>1, <2>3 DEF Computes
  <2> QED BY <1>3, <2>2, <2>3, <2>4
<1>4. DOMAIN g = 0..n /\ g = [i \in 0..n |-> g[i]] /\ g[n] = h[DOMAIN seq] BY <1>1
<1> HIDE DEF g
<1>5. ASSUME NEW k \in 0..n PROVE g[k] \in A
  <2>1. k \in Nat /\ <<0, g[0]>> \in Good BY <1>1, <1>2
  <2>2. ASSUME NEW i \in 1..k, <<i - 1, g[i - 1]>> \in Good
        PROVE  <<i, g[i]>> \in Good
    <3>1. g[i - 1] \in A /\ i \in 1..n /\ i \in 0..n BY <1>1, <2>2
    <3> QED BY <3>1, <1>3
  <2> HIDE DEF Good
  <2>3. <<k, g[k]>> \in Good BY <2>1, <2>2, RoundInduction
  <2> QED BY <2>3 DEF Good
<1>6. \A i \in 1..n : g[i] = step[g[i - 1], seq[i]]
  <2> SUFFICES ASSUME NEW i \in 1..n PROVE g[i] = step[g[i - 1], seq[i]] OBVIOUS
  <2>1. i - 1 \in 0..n BY <1>1
  <2> QED BY <2>1, <1>3, <1>5
<1>7. g \in [0..n -> A] BY <1>4, <1>5
<1> QED BY <1>2, <1>4, <1>6, <1>7 DEF RoundsOf, n

\* x is what the last element that sets its field v wrote.
LastSet(x, seq, v, unset, base) ==
    \/ x = base /\ \A i \in 1..Len(seq) : v[seq[i]] = unset
    \/ \E i \in 1..Len(seq) :
          /\ v[seq[i]] # unset
          /\ \A j \in (i + 1)..Len(seq) : v[seq[j]] = unset
          /\ x = v[seq[i]]

\* The loop in which every element that sets a field overwrites what came
\* before: f computes it,
Overwriting(f, seq, v, unset, base) ==
    f = [s \in SUBSET (DOMAIN seq) |->
            IF s = {} THEN base
            ELSE IF v[seq[Max(s)]] = unset THEN f[s \ {Max(s)}] ELSE v[seq[Max(s)]]]

\* it can be computed,
LEMMA OverwritingExists ==
  ASSUME NEW S, NEW seq \in Seq(S), NEW v, NEW unset, NEW base
  PROVE  \E f : Overwriting(f, seq, v, unset, base)
<1> DEFINE A == {base} \cup {v[p] : p \in S}
           step == [x \in A \X S |-> IF v[x[2]] = unset THEN x[1] ELSE v[x[2]]]
<1>1. base \in A /\ step \in [A \X S -> A] OBVIOUS
<1> HIDE DEF A
<1>2. \A a \in A, p \in S : step[a, p] = IF v[p] = unset THEN a ELSE v[p] OBVIOUS
<1> HIDE DEF step
<1>3. PICK f \in [SUBSET (DOMAIN seq) -> A] : IsLoop(f, seq, step, base)
  BY <1>1, LoopExists
<1>4. \A s \in SUBSET (DOMAIN seq) : s # {} => seq[Max(s)] \in S
  <2>1. Len(seq) \in Nat /\ DOMAIN seq = 1..Len(seq) /\ \A i \in DOMAIN seq : seq[i] \in S
    OBVIOUS
  <2>2. \A s \in SUBSET (DOMAIN seq) : s # {} => Max(s) \in DOMAIN seq BY <2>1, MaxOf
  <2> QED BY <2>1, <2>2
<1>5. \A s \in SUBSET (DOMAIN seq) :
         f[s] = IF s = {} THEN base
                ELSE IF v[seq[Max(s)]] = unset THEN f[s \ {Max(s)}] ELSE v[seq[Max(s)]]
  BY <1>2, <1>3, <1>4 DEF IsLoop
<1>6. f = [s \in SUBSET (DOMAIN seq) |-> f[s]] OBVIOUS
<1> QED BY <1>5, <1>6 DEF Overwriting

\* and it returns what was written last.
THEOREM LastWins ==
  ASSUME NEW S, NEW seq \in Seq(S), NEW v, NEW unset, NEW base, NEW f,
         Overwriting(f, seq, v, unset, base)
  PROVE  LastSet(f[DOMAIN seq], seq, v, unset, base)
<1> DEFINE n == Len(seq)
           g == [i \in 0..n |-> f[1..i]]
           Good(k) == \/ g[k] = base /\ \A i \in 1..k : v[seq[i]] = unset
                      \/ \E i \in 1..k :
                            /\ v[seq[i]] # unset
                            /\ \A j \in (i + 1)..k : v[seq[j]] = unset
                            /\ g[k] = v[seq[i]]
           X == {k \in 0..n : ~Good(k)}
<1>0. n \in Nat /\ DOMAIN seq = 1..n OBVIOUS
<1>1. g[0] = base /\ g[n] = f[DOMAIN seq]
  <2>1. f[{}] = base BY <1>0, Rounds DEF Overwriting
  <2> QED BY <2>1, <1>0, Rounds
<1>2. \A i \in 1..n : g[i] = IF v[seq[i]] = unset THEN g[i - 1] ELSE v[seq[i]]
  <2> SUFFICES ASSUME NEW i \in 1..n
               PROVE  g[i] = IF v[seq[i]] = unset THEN g[i - 1] ELSE v[seq[i]]
    OBVIOUS
  <2>1. /\ 1..i \in SUBSET (DOMAIN seq) /\ 1..i # {}
        /\ Max(1..i) = i /\ (1..i) \ {i} = 1..(i - 1)
    BY <1>0, Rounds
  <2>2. f[1..i] = IF v[seq[i]] = unset THEN f[1..(i - 1)] ELSE v[seq[i]]
    <3> DEFINE s == 1..i
    <3>1. f[s] = IF v[seq[Max(s)]] = unset THEN f[s \ {Max(s)}] ELSE v[seq[Max(s)]]
      <4> HIDE DEF s, g
      <4>1. s \in SUBSET (DOMAIN seq) /\ s # {} BY <2>1 DEF s
      <4> QED BY <4>1 DEF Overwriting
    <3> QED BY <2>1, <3>1
  <2>3. i \in 0..n /\ i - 1 \in 0..n BY <1>0
  <2> QED BY <2>2, <2>3
<1> HIDE DEF g
<1> SUFFICES ASSUME X # {} PROVE FALSE
  <2>1. n \in 0..n BY <1>0
  <2>2. Good(n) BY <2>1
  <2> QED BY <2>2, <1>1 DEF LastSet
<1> HIDE DEF n, Good
<1>3. X \in SUBSET Nat BY <1>0
<1>4. PICK x \in X : \A y \in X : x <= y BY <1>3, NatMin
<1>5. CASE x = 0
  <2>1. Good(0) BY <1>1 DEF Good
  <2> QED BY <2>1, <1>5
<1>6. CASE x # 0
  <2>1. x \in Nat /\ x \in 1..n /\ x - 1 \in 0..n /\ x - 1 < x /\ x - 1 \in Nat
    BY <1>6, <1>0
  <2>2. Good(x - 1) BY <2>1, <1>4
  <2>3. g[x] = IF v[seq[x]] = unset THEN g[x - 1] ELSE v[seq[x]] BY <2>1, <1>2
  <2>4. CASE v[seq[x]] # unset
    <3>1. x \in 1..x /\ (x + 1)..x = {} BY <2>1
    <3> QED BY <3>1, <2>1, <2>3, <2>4 DEF Good
  <2>5. CASE v[seq[x]] = unset
    <3>1. \A i \in 1..x : i = x \/ i \in 1..(x - 1) BY <2>1
    <3>2. \A i \in 1..(x - 1) : i \in 1..x /\ \A j \in (i + 1)..x : j = x \/ j \in (i + 1)..(x - 1)
      BY <2>1
    <3>3. CASE g[x - 1] = base /\ \A i \in 1..(x - 1) : v[seq[i]] = unset
      BY <3>1, <3>3, <2>1, <2>3, <2>5 DEF Good
    <3>4. CASE \E i \in 1..(x - 1) :
                  /\ v[seq[i]] # unset
                  /\ \A j \in (i + 1)..(x - 1) : v[seq[j]] = unset
                  /\ g[x - 1] = v[seq[i]]
      <4> PICK i \in 1..(x - 1) :
                  /\ v[seq[i]] # unset
                  /\ \A j \in (i + 1)..(x - 1) : v[seq[j]] = unset
                  /\ g[x - 1] = v[seq[i]]
        BY <3>4
      <4>1. i \in 1..x /\ \A j \in (i + 1)..x : v[seq[j]] = unset BY <3>2, <2>5
      <4>2. g[x] = v[seq[i]] BY <2>3, <2>5
      <4> QED BY <4>1, <4>2, <2>1 DEF Good
    <3> QED BY <3>3, <3>4, <2>2 DEF Good
  <2> QED BY <2>4, <2>5
<1> QED BY <1>5, <1>6

-----------------------------------------------------------------------------
(* Concatenation *)

\* f is the recursive function that FlattenSeq chooses.
IsFlatten(f, n, ss) ==
    f = [i \in 1..n |-> IF i = 1 THEN ss[i] ELSE f[i - 1] \o ss[i]]

\* There is such a function.
LEMMA FlattenExists ==
  ASSUME NEW ss, NEW n \in Nat
  PROVE  \E f : IsFlatten(f, n, ss)
<1> DEFINE T == {k \in Nat : ~\E f : IsFlatten(f, k, ss)}
<1> SUFFICES ASSUME T # {} PROVE FALSE OBVIOUS
<1>1. PICK x \in T : \A y \in T : x <= y BY NatMin
<1>2. x \in Nat /\ ~\E f : IsFlatten(f, x, ss) OBVIOUS
<1>3. CASE x = 0
  <2> DEFINE f == [i \in 1..x |-> <<>>]
  <2>1. \A i \in 1..x : FALSE BY <1>3
  <2>2. IsFlatten(f, x, ss) BY <2>1 DEF IsFlatten
  <2> QED BY <2>2, <1>2
<1>4. CASE x # 0
  <2>1. x - 1 \in Nat /\ x - 1 \notin T BY <1>1, <1>2, <1>4
  <2>2. PICK f : IsFlatten(f, x - 1, ss) BY <2>1
  <2> DEFINE g == [i \in 1..x |-> IF i = 1 THEN ss[i]
                                  ELSE IF i = x THEN f[x - 1] \o ss[x] ELSE f[i]]
  <2>3. ASSUME NEW i \in 1..x
        PROVE  g[i] = IF i = 1 THEN ss[i] ELSE g[i - 1] \o ss[i]
    <3>1. \A j \in 1..(x-1) : j \in 1..x /\ g[j] = f[j]
      BY <2>1, <2>2, <1>2 DEF IsFlatten
    <3>2. CASE i = 1 BY <3>2
    <3>3. CASE i # 1 /\ i = x
      <4>1. x - 1 \in 1..(x-1) BY <3>3, <1>2
      <4>2. g[x - 1] = f[x - 1] BY <4>1, <3>1
      <4>3. g[i] = f[x - 1] \o ss[x] BY <3>3
      <4> HIDE DEF g
      <4> QED BY <4>2, <4>3, <3>3
    <3>4. CASE i # 1 /\ i # x
      <4>1. i \in 1..(x-1) /\ i - 1 \in 1..(x-1) BY <3>4, <1>2
      <4>2. g[i] = f[i] /\ g[i-1] = f[i-1] BY <4>1, <3>1
      <4>3. f[i] = f[i-1] \o ss[i] BY <4>1, <3>4, <2>2 DEF IsFlatten
      <4> HIDE DEF g
      <4> QED BY <4>2, <4>3, <3>4
    <3> QED BY <3>2, <3>3, <3>4
  <2>4. IsFlatten(g, x, ss)
    <3>1. g = [i \in 1..x |-> g[i]] OBVIOUS
    <3> HIDE DEF g
    <3> QED BY <2>3, <3>1 DEF IsFlatten
  <2> QED BY <2>4, <1>2
<1> QED BY <1>3, <1>4

\* Concatenation unites the elements.
LEMMA ToSetOfConcat ==
  ASSUME NEW S, NEW s \in Seq(S), NEW t \in Seq(S)
  PROVE  /\ s \o t \in Seq(S)
         /\ ToSet(s \o t) = ToSet(s) \cup ToSet(t)
<1>1. s \o t \in Seq(S) /\ Len(s \o t) = Len(s) + Len(t) OBVIOUS
<1>2. \A i \in 1..Len(s) : i \in 1..Len(s \o t) /\ (s \o t)[i] = s[i] BY <1>1
<1>3. \A i \in 1..Len(t) : Len(s) + i \in 1..Len(s \o t) /\ (s \o t)[Len(s) + i] = t[i] BY <1>1
<1>4. \A i \in 1..Len(s \o t) : (s \o t)[i] \in ToSet(s) \cup ToSet(t)
  <2> SUFFICES ASSUME NEW i \in 1..Len(s \o t) PROVE (s \o t)[i] \in ToSet(s) \cup ToSet(t)
    OBVIOUS
  <2>1. CASE i <= Len(s)
    <3>1. i \in 1..Len(s) BY <2>1, <1>1
    <3> QED BY <3>1, <1>2 DEF ToSet
  <2>2. CASE ~(i <= Len(s))
    <3> DEFINE k == i - Len(s)
    <3>1. k \in 1..Len(t) /\ i = Len(s) + k BY <2>2, <1>1
    <3> QED BY <3>1, <1>3 DEF ToSet
  <2> QED BY <2>1, <2>2
<1>5. DOMAIN (s \o t) = 1..Len(s \o t) /\ DOMAIN s = 1..Len(s) /\ DOMAIN t = 1..Len(t) BY <1>1
<1>6. ToSet(s \o t) \subseteq ToSet(s) \cup ToSet(t) BY <1>4, <1>5 DEF ToSet
<1>7. ToSet(s) \cup ToSet(t) \subseteq ToSet(s \o t) 
  <2> HIDE DEF ToSet
  <2>1. \A i \in 1..Len(s) : s[i] \in ToSet(s \o t) BY <1>2, <1>5 DEF ToSet
  <2>2. \A i \in 1..Len(t) : t[i] \in ToSet(s \o t) BY <1>3, <1>5 DEF ToSet
  <2> QED BY <2>1, <2>2, <1>5 DEF ToSet
<1> QED BY <1>1, <1>6, <1>7

\* Appending slices to each other loses no element and invents none.
THEOREM FlattenSeqContents ==
  ASSUME NEW S, NEW ss \in Seq(Seq(S))
  PROVE  /\ FlattenSeq(ss) \in Seq(S)
         /\ ToSet(FlattenSeq(ss)) = UNION {ToSet(ss[i]) : i \in DOMAIN ss}
<1> DEFINE n == Len(ss)
           Part(k) == UNION {ToSet(ss[i]) : i \in 1..k}
<1>0. n \in Nat /\ DOMAIN ss = 1..n /\ \A i \in 1..n : ss[i] \in Seq(S) OBVIOUS
<1>1. CASE n = 0
  <2>1. FlattenSeq(ss) = ss /\ ss = <<>> BY <1>1 DEF FlattenSeq
  <2>2. ss \in Seq(S) /\ DOMAIN ss = {} BY <2>1
  <2> QED BY <2>1, <2>2 DEF ToSet
<1>2. CASE n # 0
  <2> DEFINE h == CHOOSE f : f = [i \in 1..Len(ss) |-> IF i = 1 THEN ss[i] ELSE f[i - 1] \o ss[i]]
  <2>1. FlattenSeq(ss) = h[n] BY <1>2, Zenon DEF FlattenSeq
  <2>2. IsFlatten(h, n, ss)
    <3>1. \E f : IsFlatten(f, n, ss) BY <1>0, FlattenExists
    <3>2. h = CHOOSE f : IsFlatten(f, n, ss) BY Zenon DEF IsFlatten
    <3> HIDE DEF h
    <3> QED BY <3>1, <3>2, Zenon
  <2> HIDE DEF h, n
  <2> DEFINE Good(k) == h[k] \in Seq(S) /\ ToSet(h[k]) = Part(k)
             T == {k \in 1..n : ~Good(k)}
  <2> SUFFICES ASSUME T # {} PROVE FALSE
    <3>1. n \in 1..n BY <1>0, <1>2
    <3>2. Good(n) BY <3>1
    <3> QED BY <3>2, <2>1, <1>0
  <2> HIDE DEF Part, Good
  <2>3. T \in SUBSET Nat BY <1>0
  <2>4. PICK x \in T : \A y \in T : x <= y BY <2>3, NatMin
  <2>5. x \in Nat /\ x \in 1..n /\ ~Good(x) BY <2>3
  <2>6. CASE x = 1
    <3>1. h[x] = ss[x] BY <2>2, <2>5, <2>6 DEF IsFlatten
    <3>2. 1..x = {x} BY <2>6
    <3>3. Part(x) = ToSet(ss[x]) BY <3>2 DEF Part
    <3> QED BY <3>1, <3>3, <2>5, <1>0 DEF Good
  <2>7. CASE x # 1
    <3>1. x - 1 \in 1..n /\ x - 1 < x BY <2>5, <2>7, <1>0
    <3>2. Good(x - 1) BY <3>1, <2>4
    <3>3. h[x] = h[x-1] \o ss[x] BY <2>2, <2>5, <2>7 DEF IsFlatten
    <3>4. h[x-1] \in Seq(S) /\ ss[x] \in Seq(S) BY <3>2, <2>5, <1>0 DEF Good
    <3>5. h[x] \in Seq(S) /\ ToSet(h[x]) = Part(x-1) \cup ToSet(ss[x])
      BY <3>2, <3>3, <3>4, ToSetOfConcat DEF Good
    <3>6. 1..x = (1..(x-1)) \cup {x} BY <2>5
    <3>7. Part(x) = Part(x-1) \cup ToSet(ss[x]) BY <3>6 DEF Part
    <3> QED BY <3>5, <3>7, <2>5 DEF Good
  <2> QED BY <2>6, <2>7
<1> QED BY <1>1, <1>2

\* All that the first n parts of ss hold is in flat,
HasAll(flat, ss, n) ==
    \A a \in 1..n : \A b \in 1..Len(ss[a]) :
        \E h \in 1..Len(flat) : flat[h] = ss[a][b]

\* and whatever is in flat comes from a place in them, and after all that is
\* before that place.
InTurn(flat, ss, n) ==
    \A i \in 1..Len(flat) : \E j \in 1..n : \E k \in 1..Len(ss[j]) :
        /\ flat[i] = ss[j][k]
        /\ \A a \in 1..j : \A b \in 1..Len(ss[a]) :
              a < j \/ b < k => \E h \in 1..(i - 1) : flat[h] = ss[a][b]

\* One more part is appended.
LEMMA InTurnStep ==
  ASSUME NEW S, NEW n \in Nat, NEW ss, NEW flat \in Seq(S), ss[n + 1] \in Seq(S),
         \A a \in 1..n : Len(ss[a]) \in Nat,
         HasAll(flat, ss, n), InTurn(flat, ss, n)
  PROVE  /\ flat \o ss[n + 1] \in Seq(S)
         /\ HasAll(flat \o ss[n + 1], ss, n + 1)
         /\ InTurn(flat \o ss[n + 1], ss, n + 1)
<1> DEFINE t == ss[n + 1]
           new == flat \o t
           p == Len(flat)
<1>0. t \in Seq(S) /\ p \in Nat /\ Len(t) \in Nat OBVIOUS
<1>1. new \in Seq(S) /\ Len(new) = p + Len(t) BY <1>0
<1>2. \A i \in 1..p : i \in 1..Len(new) /\ new[i] = flat[i] BY <1>0, <1>1
<1>3. \A k \in 1..Len(t) : p + k \in 1..Len(new) /\ new[p + k] = t[k] BY <1>0, <1>1
<1>4. \A i \in 1..Len(new) : i \in 1..p \/ \E k \in 1..Len(t) : i = p + k
  <2> SUFFICES ASSUME NEW i \in 1..Len(new), ~(i \in 1..p) PROVE \E k \in 1..Len(t) : i = p + k
    OBVIOUS
  <2>1. i - p \in 1..Len(t) /\ i = p + (i - p) BY <1>0, <1>1
  <2> QED BY <2>1
<1> HIDE DEF new, p
<1>5. \A a \in 1..(n + 1) : a = n + 1 \/ a \in 1..n OBVIOUS
<1>6. HasAll(new, ss, n + 1)
  <2> SUFFICES ASSUME NEW a \in 1..(n + 1), NEW b \in 1..Len(ss[a])
               PROVE  \E h \in 1..Len(new) : new[h] = ss[a][b]
    BY DEF HasAll
  <2>1. CASE a = n + 1 BY <2>1, <1>3
  <2>2. CASE a \in 1..n
    <3>1. PICK h \in 1..Len(flat) : flat[h] = ss[a][b] BY <2>2 DEF HasAll
    <3> QED BY <3>1, <1>2 DEF p
  <2> QED BY <2>1, <2>2, <1>5
<1>7. InTurn(new, ss, n + 1)
  <2> DEFINE Place(i, j, k) ==
        /\ new[i] = ss[j][k]
        /\ \A a \in 1..j : \A b \in 1..Len(ss[a]) :
              a < j \/ b < k => \E h \in 1..(i - 1) : new[h] = ss[a][b]
  <2> SUFFICES ASSUME NEW i \in 1..Len(new)
               PROVE  \E j \in 1..(n + 1) : \E k \in 1..Len(ss[j]) : Place(i, j, k)
    BY DEF InTurn
  <2> HIDE DEF Place
  <2>1. CASE i \in 1..p
    <3>1. PICK j \in 1..n : \E k \in 1..Len(ss[j]) :
             /\ flat[i] = ss[j][k]
             /\ \A a \in 1..j : \A b \in 1..Len(ss[a]) :
                   a < j \/ b < k => \E h \in 1..(i - 1) : flat[h] = ss[a][b]
      BY <2>1 DEF InTurn, p
    <3>2. PICK k \in 1..Len(ss[j]) :
             /\ flat[i] = ss[j][k]
             /\ \A a \in 1..j : \A b \in 1..Len(ss[a]) :
                   a < j \/ b < k => \E h \in 1..(i - 1) : flat[h] = ss[a][b]
      BY <3>1
    <3>3. \A h \in 1..(i - 1) : new[h] = flat[h] BY <2>1, <1>0, <1>2 DEF p
    <3>4. new[i] = ss[j][k] BY <3>2, <2>1, <1>2
    <3>5. Place(i, j, k) BY <3>2, <3>3, <3>4 DEF Place
    <3> QED BY <3>5
  <2>2. ASSUME NEW k \in 1..Len(t), i = p + k PROVE Place(i, n + 1, k)
    <3>1. new[i] = ss[n + 1][k] BY <2>2, <1>3
    <3>2. ASSUME NEW a \in 1..n, NEW b \in 1..Len(ss[a])
          PROVE  \E h \in 1..(i - 1) : new[h] = ss[a][b]
      <4>1. PICK h \in 1..p : flat[h] = ss[a][b] BY DEF HasAll, p
      <4>2. h \in 1..(i - 1) /\ new[h] = flat[h] BY <2>2, <1>0, <1>2 DEF p
      <4> QED BY <4>1, <4>2
    <3>3. ASSUME NEW b \in 1..Len(t), b < k PROVE \E h \in 1..(i - 1) : new[h] = t[b]
      <4>1. p + b \in 1..(i - 1) BY <2>2, <3>3, <1>0 DEF p
      <4> QED BY <4>1, <1>3
    <3>4. ~(n + 1 < n + 1) /\ \A a \in 1..(n + 1) : a = n + 1 \/ a \in 1..n BY <1>5
    <3> QED BY <3>1, <3>2, <3>3, <3>4 DEF Place
  <2> QED BY <2>1, <2>2, <1>4
<1> QED BY <1>1, <1>6, <1>7 DEF new

\* Appending slices to each other keeps their order.
THEOREM FlattenInTurn ==
  ASSUME NEW S, NEW ss \in Seq(Seq(S))
  PROVE  InTurn(FlattenSeq(ss), ss, Len(ss)) /\ HasAll(FlattenSeq(ss), ss, Len(ss))
<1> DEFINE n == Len(ss)
<1>0. n \in Nat /\ \A i \in 1..n : ss[i] \in Seq(S) OBVIOUS
<1>1. CASE n = 0
  <2>1. FlattenSeq(ss) = ss /\ 1..Len(ss) = {} BY <1>1 DEF FlattenSeq
  <2> QED BY <2>1 DEF InTurn, HasAll
<1>2. CASE n # 0
  <2> DEFINE h == CHOOSE f : f = [i \in 1..Len(ss) |-> IF i = 1 THEN ss[i] ELSE f[i - 1] \o ss[i]]
  <2>1. FlattenSeq(ss) = h[n] BY <1>2, Zenon DEF FlattenSeq
  <2>2. IsFlatten(h, n, ss)
    <3>1. \E f : IsFlatten(f, n, ss) BY <1>0, FlattenExists
    <3>2. h = CHOOSE f : IsFlatten(f, n, ss) BY Zenon DEF IsFlatten
    <3> HIDE DEF h
    <3> QED BY <3>1, <3>2, Zenon
  <2> HIDE DEF h, n
  <2> DEFINE Good(k) == h[k] \in Seq(S) /\ HasAll(h[k], ss, k) /\ InTurn(h[k], ss, k)
             T == {k \in 1..n : ~Good(k)}
  <2> SUFFICES ASSUME T # {} PROVE FALSE
    <3>1. n \in 1..n BY <1>0, <1>2
    <3>2. Good(n) BY <3>1
    <3> QED BY <3>2, <2>1 DEF n
  <2> HIDE DEF Good
  <2>3. T \in SUBSET Nat BY <1>0
  <2>4. PICK x \in T : \A y \in T : x <= y BY <2>3, NatMin
  <2>5. x \in Nat /\ x \in 1..n /\ ~Good(x) BY <2>3
  <2>6. CASE x = 1
    <3>1. h[1] = ss[1] /\ ss[1] \in Seq(S) BY <2>2, <2>5, <2>6, <1>0 DEF IsFlatten
    <3>2. HasAll(ss[1], ss, 1) BY DEF HasAll
    <3>3. InTurn(ss[1], ss, 1)
      <4> SUFFICES ASSUME NEW i \in 1..Len(ss[1])
                   PROVE  \A b \in 1..Len(ss[1]) : b < i => \E g \in 1..(i - 1) : ss[1][g] = ss[1][b]
        <5>1. 1 \in 1..1 /\ ~(1 < 1) /\ \A a \in 1..1 : a = 1 OBVIOUS
        <5> QED BY <5>1 DEF InTurn
      <4> QED BY <3>1
    <3> QED BY <3>1, <3>2, <3>3, <2>5, <2>6 DEF Good
  <2>7. CASE x # 1
    <3> DEFINE m == x - 1
    <3>1. m \in 1..n /\ m < x /\ m \in Nat /\ x = m + 1 BY <2>5, <2>7, <1>0
    <3>2. Good(m) BY <3>1, <2>4
    <3>3. h[x] = h[m] \o ss[x] BY <2>2, <2>5, <2>7 DEF IsFlatten
    <3>4. ss[m + 1] \in Seq(S) /\ \A a \in 1..m : Len(ss[a]) \in Nat BY <3>1, <2>5, <1>0
    <3> HIDE DEF m
    <3>5. Good(m + 1) BY <3>1, <3>2, <3>3, <3>4, InTurnStep DEF Good
    <3> QED BY <3>5, <3>1, <2>5
  <2> QED BY <2>6, <2>7
<1> QED BY <1>1, <1>2

-----------------------------------------------------------------------------
(* Sorts *)

\* R orders the elements of S.
StrictOrder(S, R) ==
    /\ \A x \in S : <<x, x>> \notin R
    /\ \A x, y, z \in S : <<x, y>> \in R /\ <<y, z>> \in R => <<x, z>> \in R
    /\ \A x, y \in S : x = y \/ <<x, y>> \in R \/ <<y, x>> \in R

\* A finite set that is ordered has a last element,
LEMMA LastExists ==
  ASSUME NEW S, IsFiniteSet(S), NEW R, StrictOrder(S, R), NEW W \in SUBSET S, W # {}
  PROVE  \E m \in W : \A y \in W \ {m} : <<y, m>> \in R
<1> DEFINE HasLast(V) == \E m \in V : \A y \in V \ {m} : <<y, m>> \in R
           U == {V \in SUBSET S : V # {} /\ ~HasLast(V)}
<1> SUFFICES ASSUME U # {} PROVE FALSE OBVIOUS
<1>1. U \in SUBSET (SUBSET S) OBVIOUS
<1> HIDE DEF U
<1>2. PICK V \in U : \A x \in V : V \ {x} \notin U BY <1>1, FiniteMin
<1>3. V \in SUBSET S /\ V # {} /\ ~HasLast(V) BY DEF U
<1>4. PICK x \in V : TRUE BY <1>3
<1>5. V \ {x} = {} \/ HasLast(V \ {x}) BY <1>2, <1>3 DEF U
<1>6. CASE V \ {x} = {} BY <1>3, <1>6
<1>7. CASE HasLast(V \ {x})
  <2> PICK m \in V \ {x} : \A y \in (V \ {x}) \ {m} : <<y, m>> \in R BY <1>7
  <2>1. <<x, m>> \in R \/ <<m, x>> \in R BY <1>3 DEF StrictOrder
  <2>2. CASE <<x, m>> \in R
    <3>1. \A y \in V \ {m} : <<y, m>> \in R BY <2>2
    <3> QED BY <3>1, <1>3
  <2>3. CASE <<m, x>> \in R
    <3>1. \A y \in V \ {x} : <<y, x>> \in R BY <2>3, <1>3 DEF StrictOrder
    <3> QED BY <3>1, <1>3
  <2> QED BY <2>1, <2>2, <2>3
<1> QED BY <1>5, <1>6, <1>7

\* s is in order.
InOrder(s, R) == \A i, j \in DOMAIN s : i < j => <<s[i], s[j]>> \in R

\* and a sequence of its elements in order: what sort.Slice leaves behind
\* exists.
THEOREM SortExists ==
  ASSUME NEW S, IsFiniteSet(S), NEW R, StrictOrder(S, R)
  PROVE  \E s \in SetToSeqs(S) : InOrder(s, R)
<1> DEFINE HasSort(V) == \E s \in SetToSeqs(V) : InOrder(s, R)
           U == {V \in SUBSET S : ~HasSort(V)}
<1> SUFFICES ASSUME U # {} PROVE FALSE OBVIOUS
<1>1. U \in SUBSET (SUBSET S) OBVIOUS
<1> HIDE DEF U
<1>2. PICK V \in U : \A x \in V : V \ {x} \notin U BY <1>1, FiniteMin
<1>3. V \in SUBSET S /\ ~HasSort(V) /\ IsFiniteSet(V) BY FS_Subset DEF U
<1>4. CASE V = {}
  <2> DEFINE s == [i \in 1..0 |-> i]
  <2>1. Cardinality(V) = 0 BY <1>4, FS_EmptySet
  <2>2. 1..0 = {} OBVIOUS
  <2>3. s \in SetToSeqs(V) BY <2>1, <2>2, <1>4 DEF SetToSeqs
  <2>4. InOrder(s, R) BY <2>2 DEF InOrder
  <2> QED BY <2>3, <2>4, <1>3
<1>5. CASE V # {}
  <2>1. PICK m \in V : \A y \in V \ {m} : <<y, m>> \in R BY <1>3, <1>5, LastExists
  <2> DEFINE W == V \ {m}
             k == Cardinality(W)
  <2>2. HasSort(W) BY <1>2, <1>3 DEF U
  <2>3. PICK s \in SetToSeqs(W) : InOrder(s, R) BY <2>2
  <2>4. k \in Nat /\ Cardinality(V) = k + 1
    <3>1. IsFiniteSet(W) /\ Cardinality(W) = Cardinality(V) - 1 /\ Cardinality(V) \in Nat
      BY <1>3, FS_RemoveElement, FS_CardinalityType
    <3>2. Cardinality(W) \in Nat BY <3>1, FS_CardinalityType
    <3> QED BY <3>1, <3>2
  <2>5. s \in [1..k -> W] /\ \A i, j \in 1..k : i # j => s[i] # s[j]
    BY DEF SetToSeqs
  <2> HIDE DEF k
  <2> DEFINE t == [i \in 1..(k + 1) |-> IF i = k + 1 THEN m ELSE s[i]]
  <2>6. \A i \in 1..(k+1) : i = k+1 \/ i \in 1..k BY <2>4
  <2>7. t \in [1..(k+1) -> V] BY <2>5, <2>6
  <2>8. \A i, j \in 1..(k+1) : i # j => t[i] # t[j] BY <2>5, <2>6
  <2>9. t \in SetToSeqs(V) BY <2>4, <2>7, <2>8 DEF SetToSeqs
  <2>10. InOrder(t, R)
    <3> SUFFICES ASSUME NEW i \in 1..(k+1), NEW j \in 1..(k+1), i < j
                 PROVE  <<t[i], t[j]>> \in R
      BY DEF InOrder
    <3>1. i \in 1..k /\ t[i] = s[i] BY <2>4
    <3>2. CASE j = k + 1
      BY <3>1, <3>2, <2>1, <2>5
    <3>3. CASE j # k + 1
      <4>1. j \in 1..k BY <3>3, <2>4
      <4> QED BY <4>1, <3>1, <3>3, <2>3, <2>5 DEF InOrder
    <3> QED BY <3>2, <3>3
  <2> QED BY <2>9, <2>10, <1>3
<1> QED BY <1>4, <1>5

\* A sequence of the elements of a set, each once, has all of them.
THEOREM SetToSeqsContents ==
  ASSUME NEW S, IsFiniteSet(S), NEW s \in SetToSeqs(S)
  PROVE  s \in Seq(S) /\ Len(s) = Cardinality(S) /\ ToSet(s) = S
<1> DEFINE k == Cardinality(S)
<1>1. k \in Nat BY FS_CardinalityType
<1>2. s \in [1..k -> S] /\ \A i, j \in 1..k : i # j => s[i] # s[j] BY DEF SetToSeqs
<1>3. s \in Seq(S) /\ Len(s) = k BY <1>1, <1>2
<1>4. s \in Injection(1..k, S) BY <1>2 DEF Injection, IsInjective
<1>5. IsFiniteSet(1..k) /\ Cardinality(1..k) = k BY <1>1, FS_Interval
<1>6. s \in Surjection(1..k, S) BY <1>4, <1>5, FS_Injection
<1>7. ToSet(s) = S BY <1>2, <1>6 DEF Surjection, ToSet
<1> QED BY <1>3, <1>7

=============================================================================
