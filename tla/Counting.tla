------------------------------ MODULE Counting ------------------------------
(***************************************************************************)
(* Lemmas about counting and adding up, which the other proofs share: the  *)
(* least of some numbers, sums over a set, the sizes of finite sets, whole *)
(* division, and the business days of any calendar.                        *)
(***************************************************************************)
EXTENDS BusinessDays, FiniteSetTheorems, WellFoundedInduction, TLAPS

\* A set of numbers has a first one.
LEMMA LeastIn ==
  ASSUME NEW S \in SUBSET Nat, S # {}
  PROVE  \E x \in S : \A y \in S : x <= y
<1> DEFINE Less == {pair \in Nat \X Nat : pair[1] < pair[2]}
<1>1. OpToRel(<, Nat) = Less
  BY DEF OpToRel
<1>2. IsWellFoundedOn(Less, Nat)
  BY <1>1, NatLessThanWellFounded
<1>3. PICK x \in S : \A y \in S : ~(<<y, x>> \in Less)
  <2> HIDE DEF Less
  <2> QED BY <1>2, WFMin
<1>4. \A y \in S : y \in Nat /\ x \in Nat /\ ~(y < x)
  BY <1>3
<1>5. \A y \in S : x <= y
  BY <1>4
<1> QED BY <1>5

\* A set of numbers below another one has a last one.
LEMMA LastIn ==
  ASSUME NEW n \in Nat, NEW S \in SUBSET (1..n), S # {}
  PROVE  \E x \in S : \A y \in S : y <= x
<1> DEFINE Back == {n - x : x \in S}
<1>1. \A x \in S : x \in Nat /\ n - x \in Nat
  OBVIOUS
<1>2. Back \in SUBSET Nat /\ Back # {} /\ \A x \in S : n - x \in Back
  BY <1>1
<1>3. \A b \in Back : \E x \in S : b = n - x
  OBVIOUS
<1> HIDE DEF Back
<1>4. PICK b \in Back : \A c \in Back : b <= c
  BY <1>2, LeastIn
<1>5. PICK x \in S : b = n - x
  BY <1>3
<1>6. \A y \in S : n - x <= n - y
  BY <1>2, <1>4, <1>5
<1>7. \A y \in S : y <= x
  BY <1>1, <1>6
<1> QED BY <1>7

-----------------------------------------------------------------------------
(* Sums.  The folds of the models add the weights of a set in some order;  *)
(* they are what any order gives.                                          *)
FirstOf(s) == CHOOSE x \in s : TRUE

Adds(g, w, s) == g[s] = IF s = {} THEN 0 ELSE w[FirstOf(s)] + g[s \ {FirstOf(s)}]

\* What the fold of MapThenSumSet computes.
IsFoldOf(g, w, S) ==
  g = [s \in SUBSET S |-> IF s = {} THEN 0 ELSE w[FirstOf(s)] + g[s \ {FirstOf(s)}]]

\* The sums of the weights w over the subsets of S.
Sums(g, w, S) ==
  /\ g \in [SUBSET S -> Nat] /\ g[{}] = 0
  /\ \A s \in SUBSET S : \A x \in s : g[s] = w[x] + g[s \ {x}]

LEMMA OneLess ==
  ASSUME NEW S, IsFiniteSet(S), NEW s \in SUBSET S, NEW x \in s
  PROVE  /\ IsFiniteSet(s) /\ s \ {x} \in SUBSET S /\ Cardinality(s) \in Nat
         /\ Cardinality(s \ {x}) \in Nat /\ Cardinality(s) = Cardinality(s \ {x}) + 1
<1>1. IsFiniteSet(s)
  BY FS_Subset
<1>2. Cardinality(s) \in Nat /\ IsFiniteSet(s \ {x}) /\ Cardinality(s \ {x}) = Cardinality(s) - 1
  BY <1>1, FS_CardinalityType, FS_RemoveElement
<1>3. Cardinality(s \ {x}) \in Nat
  BY <1>2, FS_CardinalityType
<1> QED BY <1>1, <1>2, <1>3

LEMMA FirstOfIs == ASSUME NEW s, s # {} PROVE FirstOf(s) \in s
  BY DEF FirstOf

LEMMA FoldExists ==
  ASSUME NEW S, IsFiniteSet(S), NEW w \in [S -> Nat]
  PROVE  \E g : IsFoldOf(g, w, S)
<1> DEFINE UpTo(g, n) == /\ g \in [SUBSET S -> Nat]
                         /\ \A s \in SUBSET S : Cardinality(s) <= n => Adds(g, w, s)
           Bad == {n \in Nat : ~ \E g : UpTo(g, n)}
<1>1. Bad = {}
  <2> SUFFICES ASSUME Bad # {} PROVE FALSE
    OBVIOUS
  <2>1. PICK m \in Bad : \A n \in Bad : m <= n
    <3>1. Bad \in SUBSET Nat
      OBVIOUS
    <3> HIDE DEF Bad
    <3> QED BY <3>1, LeastIn
  <2>2. m \in Nat /\ ~ \E g : UpTo(g, m)
    BY <2>1
  <2>3. CASE m = 0
    <3>1. PICK g : g = [s \in SUBSET S |-> 0]
      OBVIOUS
    <3>2. ASSUME NEW s \in SUBSET S, Cardinality(s) <= 0 PROVE Adds(g, w, s)
      <4>1. s = {}
        <5> SUFFICES ASSUME NEW x \in s PROVE FALSE
          OBVIOUS
        <5>1. /\ Cardinality(s \ {x}) \in Nat /\ Cardinality(s) = Cardinality(s \ {x}) + 1
          BY OneLess
        <5> QED BY <3>2, <5>1
      <4> QED BY <3>1, <4>1 DEF Adds
    <3>3. g \in [SUBSET S -> Nat]
      BY <3>1
    <3> QED BY <2>2, <2>3, <3>2, <3>3
  <2>4. CASE m # 0
    <3>1. m - 1 \in Nat /\ m - 1 \notin Bad
      <4>1. m - 1 \in Nat /\ ~(m <= m - 1)
        BY <2>2, <2>4
      <4> QED BY <2>1, <4>1
    <3>2. PICK g : UpTo(g, m - 1)
      BY <3>1
    <3>3. PICK h : h = [s \in SUBSET S |-> IF s = {} THEN 0 ELSE w[FirstOf(s)] + g[s \ {FirstOf(s)}]]
      OBVIOUS
    <3>4. ASSUME NEW s \in SUBSET S, s # {}
          PROVE  /\ FirstOf(s) \in S /\ s \ {FirstOf(s)} \in SUBSET S /\ w[FirstOf(s)] \in Nat
                 /\ g[s \ {FirstOf(s)}] \in Nat /\ Cardinality(s) \in Nat /\ Cardinality(s \ {FirstOf(s)}) \in Nat
                 /\ Cardinality(s) = Cardinality(s \ {FirstOf(s)}) + 1
      <4>1. FirstOf(s) \in s
        BY <3>4, FirstOfIs
      <4>2. s \ {FirstOf(s)} \in SUBSET S /\ w[FirstOf(s)] \in Nat
        BY <4>1
      <4> QED BY <3>2, <4>1, <4>2, OneLess
    <3>5. h \in [SUBSET S -> Nat]
      <4>1. ASSUME NEW s \in SUBSET S PROVE h[s] \in Nat
        <5>1. CASE s = {}
          BY <3>3, <5>1
        <5>2. CASE s # {}
          <6>1. h[s] = w[FirstOf(s)] + g[s \ {FirstOf(s)}]
            BY <3>3, <5>2
          <6>2. PICK a, b \in Nat : a = w[FirstOf(s)] /\ b = g[s \ {FirstOf(s)}]
            BY <3>4, <5>2
          <6>3. h[s] = a + b
            BY <6>1, <6>2
          <6> QED BY <6>3
        <5> QED BY <5>1, <5>2
      <4> QED BY <3>3, <4>1
    <3>6. ASSUME NEW s \in SUBSET S, Cardinality(s) <= m PROVE Adds(h, w, s)
      <4>1. CASE s = {}
        BY <3>3, <4>1 DEF Adds
      <4>2. CASE s # {}
        <5> PICK rest : rest = s \ {FirstOf(s)}
          OBVIOUS
        <5>1. rest \in SUBSET S /\ Cardinality(rest) <= m - 1
          BY <2>2, <3>4, <3>6, <4>2
        <5>2. Adds(g, w, rest)
          BY <3>2, <5>1
        <5>3. h[rest] = g[rest]
          BY <3>3, <5>1, <5>2 DEF Adds
        <5> QED BY <3>3, <4>2, <5>3 DEF Adds
      <4> QED BY <4>1, <4>2
    <3> QED BY <2>2, <3>5, <3>6
  <2> QED BY <2>3, <2>4
<1>2. Cardinality(S) \in Nat
  BY FS_CardinalityType
<1>3. PICK g : UpTo(g, Cardinality(S))
  BY <1>1, <1>2
<1>4. ASSUME NEW s \in SUBSET S PROVE Adds(g, w, s)
  <2>1. Cardinality(s) <= Cardinality(S)
    BY FS_Subset
  <2> QED BY <1>3, <2>1
<1>5. g = [s \in SUBSET S |-> g[s]]
  BY <1>3
<1>6. g = [s \in SUBSET S |-> IF s = {} THEN 0 ELSE w[FirstOf(s)] + g[s \ {FirstOf(s)}]]
  BY <1>4, <1>5 DEF Adds
<1> QED BY <1>6 DEF IsFoldOf

LEMMA FoldSums ==
  ASSUME NEW S, IsFiniteSet(S), NEW w \in [S -> Nat], NEW g, IsFoldOf(g, w, S)
  PROVE  Sums(g, w, S)
<1> DEFINE Good(s) == g[s] \in Nat /\ \A x \in s : g[s] = w[x] + g[s \ {x}]
           Bad == {n \in Nat : \E s \in SUBSET S : Cardinality(s) = n /\ ~Good(s)}
<1>1. ASSUME NEW s \in SUBSET S PROVE Adds(g, w, s)
  BY DEF IsFoldOf, Adds
<1>2. Bad = {}
  <2> SUFFICES ASSUME Bad # {} PROVE FALSE
    OBVIOUS
  <2>1. PICK m \in Bad : \A n \in Bad : m <= n
    <3>1. Bad \in SUBSET Nat
      OBVIOUS
    <3> HIDE DEF Bad
    <3> QED BY <3>1, LeastIn
  <2>2. PICK s \in SUBSET S : Cardinality(s) = m /\ ~Good(s)
    BY <2>1
  <2>3. m \in Nat /\ s # {}
    <3>1. ASSUME s = {} PROVE Good(s)
      <4>1. g[s] = 0
        BY <1>1, <3>1 DEF Adds
      <4> QED BY <3>1, <4>1
    <3> QED BY <2>1, <2>2, <3>1
  <2>4. ASSUME NEW x \in s PROVE Good(s \ {x}) /\ s \ {x} \in SUBSET S /\ w[x] \in Nat
    <3>1. s \ {x} \in SUBSET S /\ Cardinality(s \ {x}) \in Nat /\ m = Cardinality(s \ {x}) + 1
      BY <2>2, OneLess
    <3>2. Cardinality(s \ {x}) \notin Bad
      <4>1. ~(m <= Cardinality(s \ {x}))
        BY <3>1
      <4> HIDE DEF Bad
      <4> QED BY <2>1, <4>1
    <3>3. Good(s \ {x})
      <4> HIDE DEF Good
      <4> QED BY <3>1, <3>2
    <3> QED BY <3>1, <3>3
  <2>5. PICK c : c = FirstOf(s) /\ c \in s
    BY <2>3, FirstOfIs
  <2>6. g[s] = w[c] + g[s \ {c}]
    BY <1>1, <2>3, <2>5 DEF Adds
  <2>7. g[s \ {c}] \in Nat /\ w[c] \in Nat
    BY <2>4, <2>5
  <2>8. ASSUME NEW x \in s PROVE g[s] = w[x] + g[s \ {x}]
    <3>1. CASE x = c
      BY <2>6, <3>1
    <3>2. CASE x # c
      <4>1. x \in s \ {c} /\ c \in s \ {x} /\ (s \ {c}) \ {x} = (s \ {x}) \ {c}
        BY <2>5, <3>2
      <4>2. g[s \ {c}] = w[x] + g[(s \ {c}) \ {x}]
        BY <2>4, <2>5, <4>1
      <4>3. g[s \ {x}] = w[c] + g[(s \ {x}) \ {c}]
        BY <2>4, <2>5, <4>1
      <4>4. PICK both : both = (s \ {c}) \ {x} /\ both \in SUBSET S
        OBVIOUS
      <4>5. g[s \ {c}] = w[x] + g[both] /\ g[s \ {x}] = w[c] + g[both]
        BY <4>1, <4>2, <4>3, <4>4
      <4>6. g[both] \in Nat
        <5>1. Cardinality(s \ {c}) \in Nat /\ m = Cardinality(s \ {c}) + 1
          BY <2>2, <2>5, OneLess
        <5>2. s \ {c} \in SUBSET S /\ x \in s \ {c}
          BY <4>1
        <5>3. Cardinality((s \ {c}) \ {x}) \in Nat /\ Cardinality(s \ {c}) = Cardinality((s \ {c}) \ {x}) + 1
          BY <5>2, OneLess
        <5>4. Cardinality(both) \in Nat /\ ~(m <= Cardinality(both))
          BY <2>3, <4>4, <5>1, <5>3
        <5>5. Cardinality(both) \notin Bad
          BY <2>1, <5>4
        <5>6. Good(both)
          <6> HIDE DEF Good
          <6> QED BY <4>4, <5>4, <5>5
        <5> QED BY <5>6
      <4>7. w[x] \in Nat
        BY <2>4
      <4> QED BY <2>6, <2>7, <4>5, <4>6, <4>7
    <3> QED BY <3>1, <3>2
  <2>9. g[s] \in Nat
    BY <2>6, <2>7
  <2> QED BY <2>2, <2>8, <2>9
<1>3. ASSUME NEW s \in SUBSET S PROVE Good(s)
  <2>1. Cardinality(s) \in Nat
    BY FS_Subset, FS_CardinalityType
  <2> HIDE DEF Good
  <2> QED BY <1>2, <2>1
<1>4. g \in [SUBSET S -> Nat]
  <2>1. g = [s \in SUBSET S |-> g[s]]
    BY DEF IsFoldOf
  <2> QED BY <1>3, <2>1
<1>5. g[{}] = 0
  BY <1>1 DEF Adds
<1> QED BY <1>3, <1>4, <1>5 DEF Sums

LEMMA SumTyped ==
  ASSUME NEW S, NEW w, NEW g, Sums(g, w, S), NEW s \in SUBSET S
  PROVE  g[s] \in Nat
  BY DEF Sums

\* More of what is added is no less.
LEMMA SumGrows ==
  ASSUME NEW S, IsFiniteSet(S), NEW w \in [S -> Nat], NEW g, Sums(g, w, S),
         NEW s \in SUBSET S, NEW t \in SUBSET s
  PROVE  g[t] <= g[s]
<1> DEFINE Bad == {n \in Nat : \E r \in SUBSET S : Cardinality(r) = n /\ t \subseteq r /\ ~(g[t] <= g[r])}
<1>1. Bad = {}
  <2> SUFFICES ASSUME Bad # {} PROVE FALSE
    OBVIOUS
  <2>1. PICK m \in Bad : \A n \in Bad : m <= n
    <3>1. Bad \in SUBSET Nat
      OBVIOUS
    <3> HIDE DEF Bad
    <3> QED BY <3>1, LeastIn
  <2>2. PICK r \in SUBSET S : Cardinality(r) = m /\ t \subseteq r /\ ~(g[t] <= g[r])
    BY <2>1
  <2>3. g[t] \in Nat /\ g[r] \in Nat
    BY <2>2, SumTyped
  <2>4. PICK x \in r : x \notin t
    <3>1. t # r
      BY <2>2, <2>3
    <3> QED BY <2>2, <3>1
  <2>5. PICK rest : rest = r \ {x} /\ rest \in SUBSET S /\ t \subseteq rest
    <3>1. r \ {x} \in SUBSET S /\ t \subseteq r \ {x}
      BY <2>2, <2>4
    <3> QED BY <3>1
  <2>6. Cardinality(rest) \in Nat /\ m = Cardinality(rest) + 1
    BY <2>2, <2>4, <2>5, OneLess
  <2>7. g[r] = w[x] + g[rest] /\ w[x] \in Nat /\ g[rest] \in Nat
    BY <2>2, <2>4, <2>5 DEF Sums
  <2>8. ~(g[t] <= g[rest])
    BY <2>2, <2>3, <2>7
  <2>9. Cardinality(rest) \in Bad
    BY <2>5, <2>6, <2>8
  <2>10. ~(m <= Cardinality(rest))
    BY <2>6
  <2> HIDE DEF Bad
  <2> QED BY <2>1, <2>9, <2>10
<1>2. Cardinality(s) \in Nat
  BY FS_Subset, FS_CardinalityType
<1> QED BY <1>1, <1>2

\* Sums of the same weights are the same.
LEMMA SumsMeet ==
  ASSUME NEW S, NEW w, NEW g, Sums(g, w, S), NEW R, NEW v, NEW h, Sums(h, v, R),
         NEW t, IsFiniteSet(t), t \subseteq S, t \subseteq R, \A x \in t : w[x] = v[x]
  PROVE  g[t] = h[t]
<1> DEFINE Bad == {n \in Nat : \E r \in SUBSET t : Cardinality(r) = n /\ g[r] # h[r]}
<1>1. Bad = {}
  <2> SUFFICES ASSUME Bad # {} PROVE FALSE
    OBVIOUS
  <2>1. PICK m \in Bad : \A n \in Bad : m <= n
    <3>1. Bad \in SUBSET Nat
      OBVIOUS
    <3> HIDE DEF Bad
    <3> QED BY <3>1, LeastIn
  <2>2. PICK r \in SUBSET t : Cardinality(r) = m /\ g[r] # h[r]
    BY <2>1
  <2>3. PICK x : x \in r
    <3>1. r # {}
      BY <2>2 DEF Sums
    <3> QED BY <3>1
  <2>4. PICK rest : rest = r \ {x} /\ rest \in SUBSET t
    BY <2>2
  <2>5. Cardinality(rest) \in Nat /\ m = Cardinality(rest) + 1
    BY <2>2, <2>3, <2>4, OneLess
  <2>6. r \in SUBSET S /\ r \in SUBSET R /\ w[x] = v[x]
    BY <2>2, <2>3
  <2>7. g[r] = w[x] + g[rest] /\ h[r] = v[x] + h[rest]
    BY <2>3, <2>4, <2>6 DEF Sums
  <2>8. g[rest] # h[rest]
    BY <2>2, <2>6, <2>7
  <2>9. Cardinality(rest) \in Bad
    BY <2>4, <2>5, <2>8
  <2>10. ~(m <= Cardinality(rest))
    BY <2>5
  <2> HIDE DEF Bad
  <2> QED BY <2>1, <2>9, <2>10
<1>2. Cardinality(t) \in Nat
  BY FS_CardinalityType
<1> QED BY <1>1, <1>2

\* Adding up the parts of a set that no two share.
Disjoint(P, S) ==
  (\A x \in S : IsFiniteSet(P[x])) /\ \A x, y \in S : x # y => P[x] \cap P[y] = {}

LEMMA PartsAddUp ==
  ASSUME NEW S, IsFiniteSet(S), NEW P, Disjoint(P, S),
         NEW w, \A x \in S : w[x] = Cardinality(P[x]), NEW g, Sums(g, w, S)
  PROVE  /\ IsFiniteSet(UNION {P[x] : x \in S})
         /\ g[S] = Cardinality(UNION {P[x] : x \in S})
<1> DEFINE All(r) == UNION {P[x] : x \in r}
           Good(r) == IsFiniteSet(All(r)) /\ g[r] = Cardinality(All(r))
           Bad == {n \in Nat : \E r \in SUBSET S : Cardinality(r) = n /\ ~Good(r)}
<1>1. Bad = {}
  <2> SUFFICES ASSUME Bad # {} PROVE FALSE
    OBVIOUS
  <2>1. PICK m \in Bad : \A n \in Bad : m <= n
    <3>1. Bad \in SUBSET Nat
      OBVIOUS
    <3> HIDE DEF Bad
    <3> QED BY <3>1, LeastIn
  <2>2. PICK r \in SUBSET S : Cardinality(r) = m /\ ~Good(r)
    BY <2>1
  <2>3. PICK x : x \in r
    <3>1. ASSUME r = {} PROVE Good(r)
      <4>1. All(r) = {}
        BY <3>1
      <4>2. g[r] = 0
        BY <3>1 DEF Sums
      <4> QED BY <4>1, <4>2, FS_EmptySet
    <3> QED BY <2>2, <3>1
  <2>4. PICK rest : rest = r \ {x} /\ rest \in SUBSET S
    <3>1. r \ {x} \in SUBSET S
      BY <2>2
    <3> QED BY <3>1
  <2>5. Cardinality(rest) \in Nat /\ m = Cardinality(rest) + 1
    BY <2>2, <2>3, <2>4, OneLess
  <2>6. Good(rest)
    <3>1. ~(m <= Cardinality(rest))
      BY <2>5
    <3>2. Cardinality(rest) \notin Bad
      <4> HIDE DEF Bad
      <4> QED BY <2>1, <3>1
    <3> HIDE DEF Good
    <3> QED BY <2>4, <2>5, <3>2
  <2>7. g[r] = w[x] + g[rest] /\ w[x] = Cardinality(P[x])
    BY <2>2, <2>3, <2>4 DEF Sums
  <2>8. All(r) = All(rest) \cup P[x]
    BY <2>3, <2>4
  <2>9. All(rest) \cap P[x] = {}
    BY <2>2, <2>3, <2>4 DEF Disjoint
  <2>10. IsFiniteSet(P[x])
    BY <2>2, <2>3 DEF Disjoint
  <2> PICK a : a = All(rest)
    OBVIOUS
  <2>11. IsFiniteSet(a \cup P[x]) /\ Cardinality(a \cup P[x]) = Cardinality(a) + Cardinality(P[x]) - Cardinality(a \cap P[x])
    BY <2>6, <2>10, FS_Union
  <2>12. Cardinality(a \cap P[x]) = 0 /\ Cardinality(a) \in Nat /\ Cardinality(P[x]) \in Nat
    BY <2>6, <2>9, <2>10, FS_EmptySet, FS_CardinalityType
  <2>13. Cardinality(a \cup P[x]) = Cardinality(P[x]) + Cardinality(a)
    BY <2>11, <2>12
  <2>14. Good(r)
    BY <2>6, <2>7, <2>8, <2>11, <2>13
  <2> QED BY <2>2, <2>14
<1>2. Cardinality(S) \in Nat
  BY FS_CardinalityType
<1>3. Good(S)
  <2> HIDE DEF Good
  <2> QED BY <1>1, <1>2
<1> QED BY <1>3

-----------------------------------------------------------------------------
(* Finite sets.                                                            *)

\* What a function makes of a finite set is finite.
LEMMA ImageFinite ==
  ASSUME NEW S, IsFiniteSet(S), NEW f
  PROVE  /\ IsFiniteSet({f[x] : x \in S}) /\ Cardinality({f[x] : x \in S}) \in Nat
         /\ Cardinality({f[x] : x \in S}) <= Cardinality(S)
<1>1. PICK T : T = {f[x] : x \in S}
  OBVIOUS
<1>2. PICK F : F = [x \in S |-> f[x]]
  OBVIOUS
<1>3. F \in Surjection(S, T)
  BY <1>1, <1>2 DEF Surjection
<1>4. IsFiniteSet(T) /\ Cardinality(T) <= Cardinality(S)
  BY <1>3, FS_Surjection
<1>5. Cardinality(T) \in Nat
  BY <1>4, FS_CardinalityType
<1> QED BY <1>1, <1>4, <1>5

\* The part of a finite set is finite, and no more.
LEMMA PartFinite ==
  ASSUME NEW S, IsFiniteSet(S), NEW T \in SUBSET S
  PROVE  /\ IsFiniteSet(T) /\ Cardinality(T) \in Nat /\ Cardinality(S) \in Nat
         /\ Cardinality(T) <= Cardinality(S)
  BY FS_Subset, FS_CardinalityType

LEMMA ApartAdd ==
  ASSUME NEW S, IsFiniteSet(S), NEW T, IsFiniteSet(T), S \cap T = {}
  PROVE  IsFiniteSet(S \cup T) /\ Cardinality(S \cup T) = Cardinality(S) + Cardinality(T)
<1>1. Cardinality(S \cap T) = 0 /\ Cardinality(S) \in Nat /\ Cardinality(T) \in Nat
  BY FS_EmptySet, FS_CardinalityType
<1>2. IsFiniteSet(S \cup T) /\ Cardinality(S \cup T) = Cardinality(S) + Cardinality(T) - Cardinality(S \cap T)
  BY FS_Union
<1> QED BY <1>1, <1>2

-----------------------------------------------------------------------------
(* Whole division.                                                         *)

LEMMA DivIs ==
  ASSUME NEW a \in Nat, NEW b \in Nat, b > 0
  PROVE  a \div b \in Nat /\ b * (a \div b) <= a /\ a < b * (a \div b) + b
  OBVIOUS

LEMMA ProductGrows ==
  ASSUME NEW b \in Nat, NEW j \in Int, NEW k \in Int, j <= k
  PROVE  b * j <= b * k /\ b * j \in Int /\ b * k \in Int
  OBVIOUS

LEMMA ProductNext ==
  ASSUME NEW b \in Nat, NEW j \in Int, NEW k \in Int, j < k
  PROVE  b * j + b <= b * k
<1>1. j + 1 <= k /\ j + 1 \in Int
  OBVIOUS
<1>2. b * (j + 1) <= b * k
  BY <1>1, ProductGrows
<1>3. b * (j + 1) = b * j + b
  OBVIOUS
<1> QED BY <1>2, <1>3

LEMMA DivUnique ==
  ASSUME NEW a \in Nat, NEW b \in Nat, b > 0, NEW k \in Int, b * k <= a, a < b * k + b
  PROVE  a \div b = k
<1>1. PICK q \in Nat : q = a \div b /\ b * q <= a /\ a < b * q + b
  BY DivIs
<1>2. b * q \in Int /\ b * k \in Int
  BY <1>1, ProductGrows
<1>3. ~(q < k) /\ ~(k < q)
  BY <1>1, <1>2, ProductNext
<1> QED BY <1>1, <1>3

LEMMA DivBelow ==
  ASSUME NEW a \in Nat, NEW b \in Nat, b > 0, NEW k \in Nat
  PROVE  a \div b < k <=> a < b * k
<1>1. PICK q \in Nat : q = a \div b /\ b * q <= a /\ a < b * q + b
  BY DivIs
<1>2. b * q \in Int /\ b * k \in Int
  BY <1>1, ProductGrows
<1>3. CASE q < k
  BY <1>1, <1>2, <1>3, ProductNext
<1>4. CASE ~(q < k)
  <2>1. b * k <= b * q
    BY <1>1, <1>4, ProductGrows
  <2> QED BY <1>1, <1>2, <1>4, <2>1
<1> QED BY <1>3, <1>4

-----------------------------------------------------------------------------
(* Business days.                                                          *)

\* The business days after a date and up to another one are finitely many,
\* and there are none before any date has passed.
LEMMA CountType ==
  ASSUME NEW from \in Nat, NEW to \in Nat, NEW off
  PROVE  /\ IsFiniteSet({day \in (from + 1)..to : IsBusinessDay(day, off)})
         /\ BusinessDaysBetween(from, to, off) \in Nat
         /\ to <= from => BusinessDaysBetween(from, to, off) = 0
<1> DEFINE Worked == {day \in (from + 1)..to : IsBusinessDay(day, off)}
<1>1. IsFiniteSet(Worked)
  <2>1. IsFiniteSet((from + 1)..to)
    BY FS_Interval
  <2> QED BY <2>1, FS_Subset, Worked \subseteq (from + 1)..to
<1>2. Cardinality(Worked) \in Nat
  BY <1>1, FS_CardinalityType
<1>3. to <= from => Worked = {}
  OBVIOUS
<1> QED BY <1>1, <1>2, <1>3, FS_EmptySet DEF BusinessDaysBetween

\* One date more adds one business day when it is worked and none otherwise:
\* the step of both loops of business-days.ts.
LEMMA CountNextDate ==
  ASSUME NEW from \in Nat, NEW to \in Nat, from <= to, NEW off
  PROVE  BusinessDaysBetween(from, to + 1, off) =
           IF IsBusinessDay(to + 1, off) THEN BusinessDaysBetween(from, to, off) + 1
                                         ELSE BusinessDaysBetween(from, to, off)
<1> DEFINE Worked(end) == {day \in (from + 1)..end : IsBusinessDay(day, off)}
<1>1. IsFiniteSet(Worked(to)) /\ Cardinality(Worked(to)) \in Nat
  BY CountType DEF BusinessDaysBetween
<1>2. CASE IsBusinessDay(to + 1, off)
  <2>1. Worked(to + 1) = Worked(to) \cup {to + 1} /\ to + 1 \notin Worked(to)
    BY <1>2
  <2> HIDE DEF Worked
  <2>2. Cardinality(Worked(to + 1)) = Cardinality(Worked(to)) + 1
    BY <1>1, <2>1, FS_AddElement
  <2> QED BY <1>2, <2>2 DEF BusinessDaysBetween, Worked
<1>3. CASE ~ IsBusinessDay(to + 1, off)
  <2>1. Worked(to + 1) = Worked(to)
    BY <1>3
  <2> QED BY <1>3, <2>1 DEF BusinessDaysBetween
<1> QED BY <1>2, <1>3

\* The count never decreases, and a worked date makes it larger than it was
\* on any earlier date.
LEMMA CountMonotonic ==
  ASSUME NEW from \in Nat, NEW early \in Nat, NEW late \in Nat, early <= late, NEW off
  PROVE  /\ BusinessDaysBetween(from, early, off) <= BusinessDaysBetween(from, late, off)
         /\ early < late /\ from < late /\ IsBusinessDay(late, off)
              => BusinessDaysBetween(from, early, off) < BusinessDaysBetween(from, late, off)
<1> DEFINE Worked(end) == {day \in (from + 1)..end : IsBusinessDay(day, off)}
<1>1. /\ IsFiniteSet(Worked(late)) /\ Cardinality(Worked(late)) \in Nat
      /\ Cardinality(Worked(early)) \in Nat
  BY CountType DEF BusinessDaysBetween
<1>2. Worked(early) \in SUBSET Worked(late)
  OBVIOUS
<1>3. early < late /\ from < late /\ IsBusinessDay(late, off) => Worked(early) # Worked(late)
  <2> SUFFICES ASSUME early < late, from < late, IsBusinessDay(late, off)
               PROVE  Worked(early) # Worked(late)
    OBVIOUS
  <2>1. late \in Worked(late) /\ late \notin Worked(early)
    OBVIOUS
  <2> QED BY <2>1
<1> HIDE DEF Worked
<1>4. /\ Cardinality(Worked(early)) <= Cardinality(Worked(late))
      /\ Cardinality(Worked(late)) = Cardinality(Worked(early)) => Worked(late) = Worked(early)
  BY <1>1, <1>2, FS_Subset
<1> QED BY <1>1, <1>3, <1>4 DEF BusinessDaysBetween, Worked

\* A step that ran out has a due date: the date AddBusinessDays chooses exists,
\* lies before today, and is the start of the step or a worked date.
LEMMA DueDateExists ==
  ASSUME NEW from \in Nat, NEW days \in Nat, NEW off, NEW now \in Nat,
         IsPast(from, days, off, now)
  PROVE  LET due == AddBusinessDays(from, days, off, now) IN
         /\ due \in from..now
         /\ BusinessDaysBetween(from, due, off) = days
         /\ due = from \/ IsBusinessDay(due, off)
<1> DEFINE Ends == {day \in from..now : BusinessDaysBetween(from, day, off) = days}
<1>1. Ends \in SUBSET Nat /\ Ends # {}
  BY DEF IsPast
<1>2. PICK least \in Ends : \A day \in Ends : least <= day
  <2> HIDE DEF Ends
  <2> QED BY <1>1, LeastIn
<1>3. least = from \/ IsBusinessDay(least, off)
  <2> SUFFICES ASSUME least # from, ~ IsBusinessDay(least, off) PROVE FALSE
    OBVIOUS
  <2>1. least - 1 \in Nat /\ from <= least - 1 /\ least - 1 \in from..now /\ least = (least - 1) + 1
    BY <1>2
  <2>2. BusinessDaysBetween(from, (least - 1) + 1, off) = BusinessDaysBetween(from, least - 1, off)
    BY <2>1, CountNextDate
  <2>3. least - 1 \in Ends
    BY <2>1, <2>2, <1>2
  <2> QED BY <1>2, <2>1, <2>3
<1>4. \E day \in from..now :
        /\ BusinessDaysBetween(from, day, off) = days
        /\ day = from \/ IsBusinessDay(day, off)
  BY <1>2, <1>3
<1> QED BY <1>4 DEF AddBusinessDays

\* A term begins with no business day behind it.
LEMMA NothingCounted ==
  ASSUME NEW from \in Nat, NEW off
  PROVE  BusinessDaysBetween(from, from, off) = 0
<1>1. from <= from
  OBVIOUS
<1> QED BY <1>1, CountType

\* When enough business days follow, some date is the last of the term.
LEMMA TermEnds ==
  ASSUME NEW from \in Nat, NEW days \in Nat, NEW off, NEW horizon \in Nat,
         days <= BusinessDaysBetween(from, horizon, off), from <= horizon
  PROVE  \E day \in from..horizon : BusinessDaysBetween(from, day, off) = days
<1> DEFINE Enough == {day \in from..horizon : days <= BusinessDaysBetween(from, day, off)}
<1>1. Enough \in SUBSET Nat /\ Enough # {}
  <2>1. horizon \in Enough
    OBVIOUS
  <2> QED BY <2>1
<1>2. PICK least \in Enough : \A day \in Enough : least <= day
  <2> HIDE DEF Enough
  <2> QED BY <1>1, LeastIn
<1>3. least \in from..horizon /\ days <= BusinessDaysBetween(from, least, off)
  BY <1>2
<1>6. BusinessDaysBetween(from, least, off) \in Nat /\ least \in Nat /\ from <= least
  <2>1. least \in Nat /\ from <= least
    BY <1>3
  <2> QED BY <2>1, CountType
<1>4. CASE least = from
  <2>1. BusinessDaysBetween(from, from, off) = 0
    BY NothingCounted
  <2>2. days = 0
    BY <1>3, <1>4, <2>1
  <2> QED BY <1>3, <1>4, <2>1, <2>2
<1>5. CASE least # from
  <2>1. /\ least - 1 \in Nat /\ from <= least - 1 /\ least - 1 <= horizon
        /\ least = (least - 1) + 1
    BY <1>3, <1>6, <1>5
  <2>2. BusinessDaysBetween(from, least - 1, off) \in Nat
    BY <2>1, CountType
  <2>3. BusinessDaysBetween(from, (least - 1) + 1, off) <= BusinessDaysBetween(from, least - 1, off) + 1
    BY <2>1, <2>2, CountNextDate
  <2>4. ~ (days <= BusinessDaysBetween(from, least - 1, off))
    <3>1. least - 1 \notin Enough
      BY <1>2, <1>3, <2>1
    <3> QED BY <2>1, <3>1
  <2>5. BusinessDaysBetween(from, least, off) = days
    <3> HIDE DEF Enough
    <3> QED BY <1>3, <1>6, <2>1, <2>2, <2>3, <2>4
  <2> QED BY <1>3, <2>5
<1> QED BY <1>4, <1>5

\* The two ways the code tells that a term ran out agree: today is after the
\* date addBusinessDays gives, or the business days were over before today.
LEMMA DueDateMeets ==
  ASSUME NEW from \in Nat, NEW days \in Nat, days > 0, NEW off, NEW horizon \in Nat,
         NEW now \in Nat, from <= horizon, days <= BusinessDaysBetween(from, horizon, off)
  PROVE  LET due == AddBusinessDays(from, days, off, horizon) IN
         due \in from..horizon /\ (now <= due <=> ~ IsPast(from, days, off, now))
<1> DEFINE due == AddBusinessDays(from, days, off, horizon)
           Count(day) == BusinessDaysBetween(from, day, off)
<1>1. PICK last \in from..horizon : Count(last) = days
  BY TermEnds
<1>2. /\ due \in from..horizon /\ Count(due) = days
      /\ due = from \/ IsBusinessDay(due, off)
  <2> DEFINE later == AddBusinessDays(from, days, off, horizon + 1)
  <2>1. IsPast(from, days, off, horizon + 1) /\ horizon + 1 \in Nat
    BY <1>1 DEF IsPast
  <2>2. /\ later \in from..(horizon + 1) /\ Count(later) = days
        /\ later = from \/ IsBusinessDay(later, off)
    BY <2>1, DueDateExists
  <2> HIDE DEF later
  <2>3. later \in Nat /\ last \in Nat /\ later # from
    <3>1. Count(from) = 0
      BY NothingCounted
    <3> QED BY <1>1, <2>2, <3>1
  <2>4. ~ (last < later)
    BY <1>1, <2>2, <2>3, CountMonotonic
  <2>5. later \in from..horizon
    BY <1>1, <2>2, <2>3, <2>4
  <2> QED BY <2>2, <2>5 DEF AddBusinessDays
<1> HIDE DEF due
<1>3. due \in Nat /\ from < due
  <2>1. Count(from) = 0
    BY NothingCounted
  <2> QED BY <1>2, <2>1
<1>4. now > due => IsPast(from, days, off, now)
  BY <1>2, <1>3 DEF IsPast
<1>5. ASSUME IsPast(from, days, off, now) PROVE now > due
  <2>1. PICK day \in from..now : day < now /\ Count(day) = days
    BY <1>5 DEF IsPast
  <2>2. ~ (day < due)
    BY <1>2, <1>3, <2>1, CountMonotonic
  <2> QED BY <1>3, <2>1, <2>2
<1> QED BY <1>2, <1>3, <1>4, <1>5 DEF due
=============================================================================
