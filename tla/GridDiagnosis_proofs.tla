------------------------- MODULE GridDiagnosis_proofs -------------------------
(***************************************************************************)
(* Theorems about GridDiagnosis, for all grids, tables and chunk sizes.    *)
(***************************************************************************)
EXTENDS GridDiagnosis, WellOrder, FiniteSetTheorems, SequenceTheorems, TLAPS

-----------------------------------------------------------------------------
(* Arithmetic.                                                             *)

\* The greatest and the least element of a set are what they are said to be.
LEMMA MaxIs ==
  ASSUME NEW S, NEW m \in S, S \subseteq Int, \A x \in S : x <= m
  PROVE  Max(S) = m
<1>1. \A x \in S : m >= x
  OBVIOUS
<1>2. Max(S) \in S /\ \A x \in S : Max(S) >= x
  BY <1>1 DEF Max
<1>3. Max(S) \in Int /\ m \in Int /\ Max(S) >= m /\ Max(S) <= m
  BY <1>2
<1>4. QED
  BY <1>3

LEMMA MinIs ==
  ASSUME NEW S, NEW m \in S, S \subseteq Int, \A x \in S : m <= x
  PROVE  Min(S) = m
<1>1. Min(S) \in S /\ \A x \in S : Min(S) <= x
  BY DEF Min
<1>2. Min(S) \in Int /\ m \in Int /\ Min(S) <= m /\ m <= Min(S)
  BY <1>1
<1>3. QED
  BY <1>2

LEMMA OfTwo ==
  ASSUME NEW a \in Int, NEW b \in Int
  PROVE  /\ Min({a, b}) = IF a <= b THEN a ELSE b
         /\ Max({a, b}) = IF a <= b THEN b ELSE a
<1> DEFINE S == {a, b}
<1>1. S \subseteq Int /\ a \in S /\ b \in S
  OBVIOUS
<1>2. CASE a <= b
  <2>1. (\A x \in S : a <= x) /\ \A x \in S : x <= b
    BY <1>2
  <2> HIDE DEF S
  <2>2. Min(S) = a /\ Max(S) = b
    BY <1>1, <2>1, MaxIs, MinIs
  <2>3. QED
    BY <1>2, <2>2 DEF S
<1>3. CASE ~(a <= b)
  <2>1. (\A x \in S : b <= x) /\ \A x \in S : x <= a
    BY <1>3
  <2> HIDE DEF S
  <2>2. Min(S) = b /\ Max(S) = a
    BY <1>1, <2>1, MaxIs, MinIs
  <2>3. QED
    BY <1>3, <2>2 DEF S
<1>4. QED
  BY <1>2, <1>3

Percent == 0..100

LEMMA Clipped ==
  ASSUME NEW p \in Int
  PROVE  /\ Clip(p) = IF p < 0 THEN 0 ELSE IF p <= 100 THEN p ELSE 100
         /\ Clip(p) \in Percent
<1>1. Min({100, p}) = IF 100 <= p THEN 100 ELSE p
  BY OfTwo
<1>2. Max({0, Min({100, p})}) = IF 0 <= Min({100, p}) THEN Min({100, p}) ELSE 0
  BY <1>1, OfTwo
<1>3. QED
  BY <1>1, <1>2 DEF Clip, Percent

LEMMA PositivePart ==
  ASSUME NEW x \in Int
  PROVE  Max({0, x}) = IF 0 <= x THEN x ELSE 0
BY OfTwo

LEMMA Shared ==
  ASSUME NEW prob \in Percent, NEW p \in Int
  PROVE  Share(prob, p) \in Percent
<1>1. prob * p \in Int
  BY DEF Percent
<1>2. (prob * p) \div 100 \in Int
  BY <1>1
<1>3. QED
  BY <1>2, Clipped DEF Share

\* All of it is shared when the ice is certain.
LEMMA SharedAll ==
  ASSUME NEW p \in Percent
  PROVE  Share(100, p) = p
<1>1. (100 * p) \div 100 = p
  BY DEF Percent
<1>2. QED
  BY <1>1, Clipped DEF Share, Percent

Probabilities == [ToSet(Types) -> Percent]

LEMMA TypesAre ==
  /\ ToSet(Types) = {"freezing_rain", "freezing_rain_on_ground", "ice_pellets",
                     "freezing_drizzle", "snow", "rain"}
  /\ Nothing \in Probabilities
<1>1. ToSet(Types) = {"freezing_rain", "freezing_rain_on_ground", "ice_pellets",
                     "freezing_drizzle", "snow", "rain"}
  <2>1. DOMAIN Types = 1..6
    BY DEF Types
  <2>2. 1..6 = {1, 2, 3, 4, 5, 6}
    OBVIOUS
  <2>3. ToSet(Types) = {Types[i] : i \in {1, 2, 3, 4, 5, 6}}
    BY <2>1, <2>2 DEF ToSet
  <2>4. QED
    BY <2>3 DEF Types
<1>2. QED
  BY <1>1 DEF Nothing, Probabilities, Percent

LEMMA UnitProducts ==
  /\ JoulePerKg \in Nat \ {0} /\ 5 * JoulePerKg \in Nat \ {0} /\ 10 * JoulePerKg \in Nat \ {0}
  /\ JoulePerKg * JoulePerKg \in Nat \ {0} /\ 50 * JoulePerKg * JoulePerKg \in Nat \ {0}
  /\ SmallArea \in Nat \ {0} /\ SmallArea = 2 * JoulePerKg /\ ShallowRefreezing = JoulePerKg
<1>1. JoulePerKg \in Nat \ {0}
  BY UnitsAssumption
<1>2. JoulePerKg * JoulePerKg \in Nat \ {0}
  BY <1>1
<1>3. 50 * JoulePerKg * JoulePerKg = 50 * (JoulePerKg * JoulePerKg)
  BY <1>1
<1>4. QED
  BY <1>1, <1>2, <1>3 DEF SmallArea, ShallowRefreezing

LEMMA IceTyped ==
  ASSUME Tables, NEW prob \in Percent, NEW r \in Int, NEW m \in Int
  PROVE  Freezing(prob, r, m) \in Percent /\ PelletIce(r, m) \in Percent
<1>1. FreezingIce(r, m) \in Int
  <2> DEFINE line == -21 * r + 2 * m + 4580 * JoulePerKg
  <2>1. line \in Int
    BY UnitProducts
  <2> HIDE DEF line
  <2>2. line * m \in Int
    BY <2>1
  <2>3. (line * m) \div (50 * JoulePerKg * JoulePerKg) \in Int /\ line \div (10 * JoulePerKg) \in Int
    <3> DEFINE x == line * m
               y == 50 * JoulePerKg * JoulePerKg
               z == 10 * JoulePerKg
    <3>1. x \in Int /\ y \in Nat \ {0} /\ z \in Nat \ {0}
      BY <2>2, UnitProducts
    <3> HIDE DEF x, y, z
    <3>2. x \div y \in Int /\ line \div z \in Int
      BY <2>1, <3>1
    <3>3. QED
      BY <3>2 DEF x, y, z
  <2>4. QED
    BY <2>3 DEF FreezingIce, line
<1>2. Freezing(prob, r, m) \in Percent
  <2>1. Clip(FreezingIce(r, m)) \in Int
    BY <1>1, Clipped DEF Percent
  <2>2. Share(prob, Clip(FreezingIce(r, m))) \in Percent
    BY <2>1, Shared
  <2>3. (100 - prob) + Share(prob, Clip(FreezingIce(r, m))) \in Int
    BY <2>2 DEF Percent
  <2>4. QED
    BY <2>3, Clipped DEF Freezing
<1>3. PelletIce(r, m) \in Percent
  <2>1. CASE m <= -JoulePerKg
    BY <2>1 DEF PelletIce, Percent
  <2>2. CASE ~(m <= -JoulePerKg)
    <3>1. LogMelt(m) \in Int
      BY <2>2, UnitProducts DEF Tables, TablesOver, Percent
    <3>2. (23 * r) \div (10 * JoulePerKg) \in Int
      <4> DEFINE z == 10 * JoulePerKg
      <4>1. z \in Nat \ {0}
        BY UnitProducts
      <4> HIDE DEF z
      <4>2. (23 * r) \div z \in Int
        BY <4>1
      <4>3. QED
        BY <4>2 DEF z
    <3>3. QED
      BY <2>2, <3>1, <3>2, Clipped DEF PelletIce
  <2>3. QED
    BY <2>1, <2>2
<1>4. QED
  BY <1>2, <1>3

-----------------------------------------------------------------------------
(* Sums.                                                                  *)

\* F[s] is the sum over s, for the subsets s of U.
Sums(F, f, U) ==
  F = [s \in SUBSET U |-> IF s = {} THEN 0
                          ELSE LET x == CHOOSE y \in s : TRUE IN f[x] + F[s \ {x}]]

SumsFor(f, U) == CHOOSE F : Sums(F, f, U)

LEMMA SumsAreFolds ==
  ASSUME NEW f, NEW U
  PROVE  SumFunctionOnSet(f, U) = SumsFor(f, U)[U]
BY DEF SumFunctionOnSet, FoldFunctionOnSet, MapThenFoldSet, SumsFor, Sums

LEMMA ChosenOne ==
  ASSUME NEW s, s # {}
  PROVE  (CHOOSE y \in s : TRUE) \in s
OBVIOUS

\* One element less.
LEMMA OneLess ==
  ASSUME NEW n \in Nat, NEW s, IsFiniteSet(s), Cardinality(s) = n + 1, NEW x \in s
  PROVE  IsFiniteSet(s \ {x}) /\ Cardinality(s \ {x}) = n
<1>1. IsFiniteSet(s \ {x}) /\ Cardinality(s \ {x}) = Cardinality(s) - 1
  BY FS_RemoveElement
<1>2. QED
  BY <1>1

\* The sums over the subsets of a finite set exist: those of at most n
\* elements, for each n.
LEMMA SumsExist ==
  ASSUME NEW f, NEW U, IsFiniteSet(U)
  PROVE  Sums(SumsFor(f, U), f, U)
<1> DEFINE Step(F, s) == LET x == CHOOSE y \in s : TRUE IN f[x] + F[s \ {x}]
           Small(n) == {s \in SUBSET U : Cardinality(s) <= n}
           Goes(F, n) == \A s \in Small(n) : F[s] = IF s = {} THEN 0 ELSE Step(F, s)
           S == {n \in Nat : \E F : Goes(F, n)}
<1>1. \A s \in SUBSET U : IsFiniteSet(s) /\ Cardinality(s) \in Nat /\ (Cardinality(s) = 0 <=> s = {})
  BY FS_Subset, FS_CardinalityType, FS_EmptySet
<1>2. 0 \in S
  <2>1. \A s \in Small(0) : s = {}
    BY <1>1
  <2>2. Goes([s \in SUBSET U |-> 0], 0)
    BY <2>1
  <2>3. QED
    BY <2>2
<1>3. ASSUME NEW n \in Nat, n \in S
      PROVE  n + 1 \in S
  <2>1. PICK F : Goes(F, n)
    BY <1>3
  <2> DEFINE G == [s \in SUBSET U |-> IF Cardinality(s) <= n THEN F[s] ELSE Step(F, s)]
  <2>2. ASSUME NEW s \in Small(n + 1)
        PROVE  G[s] = IF s = {} THEN 0 ELSE Step(G, s)
    <3> DEFINE x == CHOOSE y \in s : TRUE
               t == s \ {x}
    <3>1. s \in SUBSET U /\ t \in SUBSET U /\ IsFiniteSet(s) /\ Cardinality(s) \in Nat /\ Cardinality(s) <= n + 1
      BY <1>1
    <3>2. CASE s = {}
      <4>1. Cardinality(s) <= n
        BY <3>1, <3>2, <1>1
      <4>2. G[s] = F[s] /\ s \in Small(n)
        BY <3>1, <4>1
      <4>3. F[s] = 0
        BY <2>1, <3>2, <4>2
      <4> HIDE DEF G
      <4>4. QED
        BY <3>2, <4>2, <4>3
    <3>3. CASE s # {}
      <4>1. x \in s
        BY <3>3, ChosenOne
      <4>2. Cardinality(t) = Cardinality(s) - 1 /\ Cardinality(t) \in Nat
        BY <1>1, <3>1, <4>1, FS_RemoveElement
      <4>3. Cardinality(t) <= n
        BY <3>1, <4>2
      <4>4. G[t] = F[t]
        BY <3>1, <4>3
      <4>5. G[s] = Step(F, s)
        <5>1. CASE Cardinality(s) <= n
          <6>1. G[s] = F[s] /\ s \in Small(n)
            BY <3>1, <5>1
          <6>2. F[s] = Step(F, s)
            BY <2>1, <3>3, <6>1
          <6> HIDE DEF G, Step
          <6>3. QED
            BY <6>1, <6>2
        <5>2. CASE ~(Cardinality(s) <= n)
          BY <3>1, <5>2
        <5>3. QED
          BY <5>1, <5>2
      <4>6. Step(F, s) = f[x] + F[t] /\ Step(G, s) = f[x] + G[t]
        OBVIOUS
      <4> HIDE DEF G, Step, t, x
      <4>7. QED
        BY <3>3, <4>4, <4>5, <4>6
    <3>4. QED
      BY <3>2, <3>3
  <2> HIDE DEF G
  <2>3. Goes(G, n + 1)
    BY <2>2
  <2> HIDE DEF Goes
  <2>4. QED
    BY <2>3
<1> HIDE DEF S
<1>4. Nat \subseteq S
  BY <1>2, <1>3, NatSetInduction
<1>5. PICK F : Goes(F, Cardinality(U))
  <2>1. Cardinality(U) \in S
    BY <1>1, <1>4
  <2> HIDE DEF Goes
  <2>2. QED
    BY <2>1 DEF S
<1> DEFINE G == [s \in SUBSET U |-> F[s]]
<1>6. ASSUME NEW s \in SUBSET U
      PROVE  G[s] = IF s = {} THEN 0 ELSE Step(G, s)
  <2>1. s \in Small(Cardinality(U))
    BY FS_Subset
  <2>2. F[s] = IF s = {} THEN 0 ELSE Step(F, s)
    BY <1>5, <2>1
  <2> DEFINE x == CHOOSE y \in s : TRUE
             t == s \ {x}
  <2>3. G[s] = F[s] /\ G[t] = F[t]
    OBVIOUS
  <2>4. Step(F, s) = f[x] + F[t] /\ Step(G, s) = f[x] + G[t]
    OBVIOUS
  <2> HIDE DEF G, Step, t, x
  <2>5. QED
    BY <2>2, <2>3, <2>4
<1>7. Sums(G, f, U)
  <2>1. G = [s \in SUBSET U |-> G[s]]
    OBVIOUS
  <2> HIDE DEF G
  <2>2. [s \in SUBSET U |-> G[s]] = [s \in SUBSET U |-> IF s = {} THEN 0 ELSE Step(G, s)]
    BY <1>6
  <2>3. QED
    BY <2>1, <2>2 DEF Sums
<1>8. QED
  BY <1>7 DEF SumsFor

\* What a sum is does not depend on the larger set.
LEMMA SumsAgree ==
  ASSUME NEW f, NEW U, IsFiniteSet(U), NEW V \in SUBSET U
  PROVE  SumsFor(f, U)[V] = SumFunctionOnSet(f, V)
<1> DEFINE F == SumsFor(f, U)
           G == SumsFor(f, V)
           S == {n \in Nat : \A s \in SUBSET V : Cardinality(s) = n => F[s] = G[s]}
<1>1. /\ \A s \in SUBSET U :
           F[s] = IF s = {} THEN 0 ELSE LET x == CHOOSE y \in s : TRUE IN f[x] + F[s \ {x}]
      /\ \A s \in SUBSET V :
           G[s] = IF s = {} THEN 0 ELSE LET x == CHOOSE y \in s : TRUE IN f[x] + G[s \ {x}]
  <2>1. Sums(F, f, U) /\ Sums(G, f, V)
    BY SumsExist, FS_Subset
  <2> HIDE DEF F, G
  <2>2. QED
    BY <2>1 DEF Sums
<1>2. \A s \in SUBSET V : s \in SUBSET U /\ IsFiniteSet(s) /\ Cardinality(s) \in Nat /\ (Cardinality(s) = 0 <=> s = {})
  BY FS_Subset, FS_CardinalityType, FS_EmptySet
<1> HIDE DEF F, G
<1>3. 0 \in S
  BY <1>1, <1>2
<1>4. ASSUME NEW n \in Nat, n \in S
      PROVE  n + 1 \in S
  <2> SUFFICES ASSUME NEW s \in SUBSET V, Cardinality(s) = n + 1 PROVE F[s] = G[s]
    OBVIOUS
  <2> DEFINE x == CHOOSE y \in s : TRUE
             t == s \ {x}
  <2>1. s # {} /\ s \in SUBSET U /\ IsFiniteSet(s)
    BY <1>2
  <2>2. x \in s
    BY <2>1, ChosenOne
  <2>3. F[s] = f[x] + F[t] /\ G[s] = f[x] + G[t]
    BY <1>1, <2>1
  <2> HIDE DEF x
  <2>4. t \in SUBSET V /\ Cardinality(t) = n
    BY <2>1, <2>2, OneLess
  <2> HIDE DEF t
  <2>5. F[t] = G[t]
    BY <1>4, <2>4
  <2>6. QED
    BY <2>3, <2>5
<1> HIDE DEF S
<1>5. Nat \subseteq S
  BY <1>3, <1>4, NatSetInduction
<1>6. F[V] = G[V]
  BY <1>2, <1>5 DEF S
<1>7. QED
  BY <1>6, SumsAreFolds DEF F, G

\* The sum begins with whichever element is chosen.
LEMMA SumBegin ==
  ASSUME NEW f, NEW U, IsFiniteSet(U)
  PROVE  SumFunctionOnSet(f, U) = IF U = {} THEN 0
                           ELSE LET x == CHOOSE y \in U : TRUE IN f[x] + SumFunctionOnSet(f, U \ {x})
<1> DEFINE F == SumsFor(f, U)
           x == CHOOSE y \in U : TRUE
<1>1. Sums(F, f, U)
  BY SumsExist
<1>2. F[U \ {x}] = SumFunctionOnSet(f, U \ {x}) /\ F[U] = SumFunctionOnSet(f, U)
  BY SumsAgree
<1> HIDE DEF F
<1>3. F[U] = IF U = {} THEN 0 ELSE f[x] + F[U \ {x}]
  BY <1>1 DEF Sums
<1> HIDE DEF x
<1>4. SumFunctionOnSet(f, U) = IF U = {} THEN 0 ELSE f[x] + SumFunctionOnSet(f, U \ {x})
  BY <1>2, <1>3
<1>5. QED
  BY <1>4 DEF x

\* It might as well begin with any other.
LEMMA SumLess ==
  ASSUME NEW f, NEW U, IsFiniteSet(U), \A x \in U : f[x] \in Int
  PROVE  /\ SumFunctionOnSet(f, {}) = 0
         /\ SumFunctionOnSet(f, U) \in Int
         /\ \A x \in U : SumFunctionOnSet(f, U) = f[x] + SumFunctionOnSet(f, U \ {x})
<1> DEFINE total(s) == SumFunctionOnSet(f, s)
           S == {n \in Nat : \A s \in SUBSET U : Cardinality(s) <= n =>
                   total(s) \in Int /\ \A x \in s : total(s) = f[x] + total(s \ {x})}
<1>1. \A s \in SUBSET U : IsFiniteSet(s) /\ Cardinality(s) \in Nat /\ (Cardinality(s) = 0 <=> s = {})
  BY FS_Subset, FS_CardinalityType, FS_EmptySet
<1>2. total({}) = 0
  BY <1>1, SumBegin
<1>3. ASSUME NEW s \in SUBSET U, s # {}
      PROVE  \E x \in s : total(s) = f[x] + total(s \ {x})
  <2> DEFINE x == CHOOSE y \in s : TRUE
  <2>1. x \in s
    BY <1>3, ChosenOne
  <2>2. total(s) = f[x] + total(s \ {x})
    BY <1>1, <1>3, SumBegin
  <2> HIDE DEF x, total
  <2>3. QED
    BY <2>1, <2>2
<1> HIDE DEF total
<1>4. 0 \in S
  BY <1>1, <1>2
<1>5. ASSUME NEW n \in Nat, n \in S
      PROVE  n + 1 \in S
  <2>0. \A s \in SUBSET U : Cardinality(s) <= n + 1 => Cardinality(s) <= n \/ Cardinality(s) = n + 1
    BY <1>1
  <2> SUFFICES ASSUME NEW s \in SUBSET U, Cardinality(s) = n + 1
               PROVE  total(s) \in Int /\ \A x \in s : total(s) = f[x] + total(s \ {x})
    BY <1>5, <2>0
  <2>1. s # {} /\ IsFiniteSet(s)
    BY <1>1
  <2>2. PICK x \in s : total(s) = f[x] + total(s \ {x})
    BY <1>3, <2>1
  <2>3. \A y \in s : /\ s \ {y} \in SUBSET U /\ Cardinality(s \ {y}) = n
                     /\ f[y] \in Int
    BY <2>1, OneLess
  <2>4. \A y \in s : /\ total(s \ {y}) \in Int
                     /\ \A z \in s \ {y} : total(s \ {y}) = f[z] + total((s \ {y}) \ {z})
    BY <1>5, <2>3
  <2>5. total(s) \in Int
    BY <2>2, <2>3, <2>4
  <2>6. ASSUME NEW y \in s, y # x
        PROVE  total(s) = f[y] + total(s \ {y})
    <3> DEFINE t == (s \ {x}) \ {y}
    <3>1. (s \ {y}) \ {x} = t /\ x \in s \ {y} /\ y \in s \ {x}
      BY <2>6
    <3>2. total(s \ {x}) = f[y] + total(t) /\ total(s \ {y}) = f[x] + total(t)
      BY <2>4, <3>1
    <3>3. t \in SUBSET U /\ Cardinality(t) <= n
      <4>1. Cardinality(s \ {x}) = n /\ IsFiniteSet(s \ {x}) /\ t \in SUBSET U
        BY <2>1, <2>2, OneLess
      <4>2. Cardinality(t) = n - 1
        BY <3>1, <4>1, FS_RemoveElement
      <4>3. QED
        BY <4>1, <4>2
    <3>4. total(t) \in Int
      BY <1>5, <3>3
    <3> HIDE DEF t
    <3>5. QED
      BY <2>2, <2>3, <3>2, <3>4
  <2>7. QED
    BY <2>2, <2>5, <2>6
<1> HIDE DEF S
<1>6. Nat \subseteq S
  BY <1>4, <1>5, NatSetInduction
<1>7. total(U) \in Int /\ \A x \in U : total(U) = f[x] + total(U \ {x})
  BY <1>1, <1>6 DEF S
<1>8. QED
  BY <1>2, <1>7 DEF total

LEMMA SameSum ==
  ASSUME NEW f, NEW g, NEW U, IsFiniteSet(U), \A x \in U : f[x] = g[x]
  PROVE  SumFunctionOnSet(f, U) = SumFunctionOnSet(g, U)
<1> DEFINE S == {n \in Nat : \A s \in SUBSET U : Cardinality(s) = n => SumFunctionOnSet(f, s) = SumFunctionOnSet(g, s)}
<1>1. \A s \in SUBSET U : IsFiniteSet(s) /\ Cardinality(s) \in Nat /\ (Cardinality(s) = 0 <=> s = {})
  BY FS_Subset, FS_CardinalityType, FS_EmptySet
<1>2. 0 \in S
  <2>1. SumFunctionOnSet(f, {}) = 0 /\ SumFunctionOnSet(g, {}) = 0
    BY FS_EmptySet, SumBegin
  <2>2. QED
    BY <1>1, <2>1
<1>3. ASSUME NEW n \in Nat, n \in S
      PROVE  n + 1 \in S
  <2> SUFFICES ASSUME NEW s \in SUBSET U, Cardinality(s) = n + 1
               PROVE  SumFunctionOnSet(f, s) = SumFunctionOnSet(g, s)
    OBVIOUS
  <2> DEFINE x == CHOOSE y \in s : TRUE
  <2>1. s # {} /\ IsFiniteSet(s)
    BY <1>1
  <2>2. x \in s
    BY <2>1, ChosenOne
  <2>3. /\ SumFunctionOnSet(f, s) = f[x] + SumFunctionOnSet(f, s \ {x})
        /\ SumFunctionOnSet(g, s) = g[x] + SumFunctionOnSet(g, s \ {x})
    BY <2>1, SumBegin
  <2> HIDE DEF x
  <2>4. s \ {x} \in SUBSET U /\ Cardinality(s \ {x}) = n
    BY <2>1, <2>2, OneLess
  <2>5. SumFunctionOnSet(f, s \ {x}) = SumFunctionOnSet(g, s \ {x}) /\ f[x] = g[x]
    BY <1>3, <2>2, <2>4
  <2>6. QED
    BY <2>3, <2>5
<1> HIDE DEF S
<1>4. Nat \subseteq S
  BY <1>2, <1>3, NatSetInduction
<1>5. QED
  BY <1>1, <1>4 DEF S

-----------------------------------------------------------------------------
(* Loops.  A fold over a sequence is the last of the states of its loop,   *)
(* which are found one by one; the step of each loop has a name here.      *)

LevelStep(c, acc, i) ==
  LET n == Len(c.tw)
      signs == SignsNumba(c)
  IN  IF i <= n /\ signs[i] = signs[acc.start] THEN acc
      ELSE [start |-> Min({i, n}), count |-> acc.count + 1, areas |-> EndSegment(c, acc, i)]

FillStep(c, s, i) ==
  LET start == ProfileStart(c)
      raw == [k \in LevelsOf(c) |-> IF k < start THEN 0 ELSE Sign(c.tw[k])]
      later == {j \in (start + 1)..Len(c.tw) : raw[j] # 0}
  IN  IF s[i] # 0 THEN s
      ELSE [s EXCEPT ![i] = IF i > start THEN s[i - 1]
                            ELSE IF later # {} THEN raw[Min(later)] ELSE 1]

CodeStep(p, acc, type) ==
  IF p[type] > acc.highest THEN [highest |-> p[type], code |-> CodeOf[type]] ELSE acc

LayerStep(c, acc, i) ==
  LET extend(l) == [l EXCEPT !.low = Min({@, c.h[i]}), !.high = Max({@, c.h[i]}),
                             !.coldest = Min({@, c.t[i]})]
  IN  IF c.moist[i] = Last(acc).moist THEN Append(Front(acc), extend(Last(acc)))
      ELSE Append(acc, NewLayer(c, i))

IconNew(c, i) == [moist |-> c.moist[i], start |-> i, depth |-> 0, coldest |-> c.t[i]]
IconClose(c, l, i) == [l EXCEPT !.depth = c.hh[l.start] - c.hh[i]]
IconLayerStep(c, acc, i) ==
  LET l == Last(acc)
  IN  IF c.moist[i] # l.moist THEN Front(acc) \o <<IconClose(c, l, i), IconNew(c, i)>>
      ELSE Append(Front(acc), [l EXCEPT !.coldest = Min({@, c.t[i]})])

Sublimation(layers) ==
  FoldLeft(LAMBDA top, l : IF ~l.moist /\ l.depth > SubDepth THEN Max({top, l.start}) ELSE top,
           -1, layers)
ScanStep(layers, relaxed, acc, l) ==
  LET sublimation == Sublimation(layers)
  IN  IF ~l.moist \/ (~relaxed /\ l.depth <= GenDepth) THEN acc
      ELSE [lowest |-> l.coldest,
            valid |-> acc.valid \/ l.start >= sublimation,
            best |-> IF l.start >= sublimation /\ (~acc.valid \/ l.coldest < acc.best)
                       THEN l.coldest ELSE acc.best,
            any |-> TRUE]

\* What one may take out of the sets of numbers up to m + 1.
LEMMA PrefixMax ==
  ASSUME NEW m \in Nat
  PROVE  /\ \A s \in SUBSET (1..(m + 1)) : m + 1 \in s => Max(s) = m + 1 /\ s \ {m + 1} \in SUBSET (1..m)
         /\ \A s \in SUBSET (1..(m + 1)) : m + 1 \notin s => s \in SUBSET (1..m)
         /\ Max(1..(m + 1)) = m + 1 /\ (1..(m + 1)) \ {m + 1} = 1..m
<1>1. ASSUME NEW s \in SUBSET (1..(m + 1)), m + 1 \in s
      PROVE  Max(s) = m + 1
  <2>1. s \subseteq Int /\ \A x \in s : x <= m + 1
    OBVIOUS
  <2>2. QED
    BY <1>1, <2>1, MaxIs
<1>2. Max(1..(m + 1)) = m + 1
  BY <1>1
<1>3. QED
  BY <1>1, <1>2

LEMMA SubsetMax ==
  ASSUME NEW m \in Nat, NEW s \in SUBSET (1..m), s # {}
  PROVE  Max(s) \in s /\ s \ {Max(s)} \in SUBSET (1..m)
<1>1. s \subseteq Nat /\ s \subseteq Int /\ \A x \in s : x \in Nat /\ x <= m
  OBVIOUS
<1>2. PICK x \in s : \A y \in s : y <= x
  BY <1>1, NatHasGreatest
<1>3. Max(s) = x
  BY <1>1, <1>2, MaxIs
<1>4. QED
  BY <1>3

\* The loop over the pairs of levels of _icon_energies.
EnergyLoop(c, signs, base, seq) == FoldLeft(LAMBDA acc, i : EnergyStep(c, signs, acc, i), base, seq)
EnergyStates(c, signs, base, seq, n) ==
  CHOOSE r : /\ r[0] = base
             /\ r[n] = EnergyLoop(c, signs, base, seq)
             /\ \A k \in 1..n : r[k] = EnergyStep(c, signs, r[k - 1], seq[k])
EnergyRun(c, signs, base, seq, n) ==
  LET r == EnergyStates(c, signs, base, seq, n)
  IN  /\ r[0] = base
      /\ r[n] = EnergyLoop(c, signs, base, seq)
      /\ \A k \in 1..n : r[k] = EnergyStep(c, signs, r[k - 1], seq[k])

LEMMA EnergyFold ==
  ASSUME NEW c, NEW signs, NEW n \in Nat, NEW seq, DOMAIN seq = 1..n, NEW base
  PROVE  EnergyRun(c, signs, base, seq, n)
<1> DEFINE op(acc, x) == EnergyStep(c, signs, acc, x)
           Step(F, s) == op(F[s \ {Max(s)}], seq[Max(s)])
           Goes(F, m) == \A s \in SUBSET (1..m) : F[s] = IF s = {} THEN base ELSE Step(F, s)
           Is(F) == F = [s \in SUBSET (1..n) |-> IF s = {} THEN base ELSE Step(F, s)]
           fold == CHOOSE F : Is(F)
           S == {m \in Nat : \E F : Goes(F, m)}
<1>1. EnergyLoop(c, signs, base, seq) = fold[1..n]
  BY DEF EnergyLoop, FoldLeft, MapThenFoldSet
<1> HIDE DEF op
<1>2. 0 \in S
  <2>1. Goes([s \in SUBSET (1..0) |-> base], 0)
    OBVIOUS
  <2>2. QED
    BY <2>1
<1>3. ASSUME NEW m \in Nat, m \in S
      PROVE  m + 1 \in S
  <2>1. PICK F : Goes(F, m)
    BY <1>3
  <2> DEFINE G == [s \in SUBSET (1..(m + 1)) |-> IF m + 1 \in s THEN Step(F, s) ELSE F[s]]
  <2>2. ASSUME NEW s \in SUBSET (1..(m + 1))
        PROVE  G[s] = IF s = {} THEN base ELSE Step(G, s)
    <3>1. CASE m + 1 \in s
      <4>1. Max(s) = m + 1 /\ s \ {m + 1} \in SUBSET (1..(m + 1)) /\ m + 1 \notin s \ {m + 1}
        BY <3>1, PrefixMax
      <4>2. G[s] = Step(F, s) /\ G[s \ {m + 1}] = F[s \ {m + 1}]
        BY <3>1, <4>1
      <4> HIDE DEF G
      <4>3. QED
        BY <3>1, <4>1, <4>2
    <3>2. CASE m + 1 \notin s /\ s # {}
      <4>1. s \in SUBSET (1..m) /\ s \ {Max(s)} \in SUBSET (1..m)
        BY <3>2, PrefixMax, SubsetMax
      <4>2. m + 1 \notin s \ {Max(s)} /\ s \ {Max(s)} \in SUBSET (1..(m + 1))
        BY <3>2
      <4>3. G[s] = F[s] /\ G[s \ {Max(s)}] = F[s \ {Max(s)}]
        BY <3>2, <4>2
      <4>4. F[s] = Step(F, s)
        BY <2>1, <3>2, <4>1
      <4> HIDE DEF G
      <4>5. QED
        BY <3>2, <4>3, <4>4
    <3>3. CASE s = {}
      <4>1. G[s] = F[s] /\ s \in SUBSET (1..m)
        BY <3>3
      <4>2. F[s] = base
        BY <2>1, <3>3, <4>1
      <4> HIDE DEF G
      <4>3. QED
        BY <3>3, <4>1, <4>2
    <3>4. QED
      BY <3>1, <3>2, <3>3
  <2> HIDE DEF G, Step
  <2>3. QED
    BY <2>2
<1>4. n \in S
  <2> HIDE DEF S
  <2>1. QED
    BY <1>2, <1>3, NatSetInduction
<1>5. \A s \in SUBSET (1..n) : fold[s] = IF s = {} THEN base ELSE Step(fold, s)
  <2>1. PICK F : Goes(F, n)
    BY <1>4
  <2> DEFINE G == [s \in SUBSET (1..n) |-> F[s]]
  <2>2. ASSUME NEW s \in SUBSET (1..n)
        PROVE  G[s] = IF s = {} THEN base ELSE Step(G, s)
    BY <2>1, SubsetMax
  <2>3. Is(G)
    <3>1. G = [s \in SUBSET (1..n) |-> G[s]]
      OBVIOUS
    <3> HIDE DEF G, Step
    <3>2. QED
      BY <2>2, <3>1
  <2> HIDE DEF G, Is
  <2>4. Is(fold)
    BY <2>3
  <2> HIDE DEF fold, Step
  <2>5. QED
    BY <2>4 DEF Is
<1> HIDE DEF fold, S
<1> DEFINE r == [k \in 0..n |-> fold[1..k]]
<1>6. r[0] = base /\ r[n] = fold[1..n]
  <2>1. 1..0 = {} /\ 1..0 \in SUBSET (1..n) /\ 0 \in 0..n /\ n \in 0..n
    OBVIOUS
  <2>2. fold[1..0] = base
    BY <1>5, <2>1
  <2>3. QED
    BY <2>1, <2>2
<1>7. ASSUME NEW k \in 1..n
      PROVE  r[k] = op(r[k - 1], seq[k])
  <2>1. k - 1 \in Nat /\ (k - 1) + 1 = k
    OBVIOUS
  <2>2. Max(1..k) = k /\ (1..k) \ {k} = 1..(k - 1)
    BY <2>1, PrefixMax
  <2>3. k \in 1..k /\ (\A j \in 1..k : j \in 1..n) /\ k \in 0..n /\ k - 1 \in 0..n
    OBVIOUS
  <2>4. fold[1..k] = Step(fold, 1..k)
    BY <1>5, <2>3
  <2>5. Step(fold, 1..k) = op(fold[1..(k - 1)], seq[k])
    BY <2>2
  <2>6. QED
    BY <2>3, <2>4, <2>5
<1>8. \E R : /\ R[0] = base
              /\ R[n] = EnergyLoop(c, signs, base, seq)
              /\ \A k \in 1..n : R[k] = EnergyStep(c, signs, R[k - 1], seq[k])
  BY <1>1, <1>6, <1>7 DEF op
<1>9. QED
  BY <1>8 DEF EnergyStates, EnergyRun

\* The loop over the levels of the Firdewsa areas.
LevelLoop(c, base, seq) == FoldLeft(LAMBDA acc, i : LevelStep(c, acc, i), base, seq)
LevelStates(c, base, seq, n) ==
  CHOOSE r : /\ r[0] = base
             /\ r[n] = LevelLoop(c, base, seq)
             /\ \A k \in 1..n : r[k] = LevelStep(c, r[k - 1], seq[k])
LevelRun(c, base, seq, n) ==
  LET r == LevelStates(c, base, seq, n)
  IN  /\ r[0] = base
      /\ r[n] = LevelLoop(c, base, seq)
      /\ \A k \in 1..n : r[k] = LevelStep(c, r[k - 1], seq[k])

LEMMA LevelFold ==
  ASSUME NEW c, NEW n \in Nat, NEW seq, DOMAIN seq = 1..n, NEW base
  PROVE  LevelRun(c, base, seq, n)
<1> DEFINE op(acc, x) == LevelStep(c, acc, x)
           Step(F, s) == op(F[s \ {Max(s)}], seq[Max(s)])
           Goes(F, m) == \A s \in SUBSET (1..m) : F[s] = IF s = {} THEN base ELSE Step(F, s)
           Is(F) == F = [s \in SUBSET (1..n) |-> IF s = {} THEN base ELSE Step(F, s)]
           fold == CHOOSE F : Is(F)
           S == {m \in Nat : \E F : Goes(F, m)}
<1>1. LevelLoop(c, base, seq) = fold[1..n]
  BY DEF LevelLoop, FoldLeft, MapThenFoldSet
<1> HIDE DEF op
<1>2. 0 \in S
  <2>1. Goes([s \in SUBSET (1..0) |-> base], 0)
    OBVIOUS
  <2>2. QED
    BY <2>1
<1>3. ASSUME NEW m \in Nat, m \in S
      PROVE  m + 1 \in S
  <2>1. PICK F : Goes(F, m)
    BY <1>3
  <2> DEFINE G == [s \in SUBSET (1..(m + 1)) |-> IF m + 1 \in s THEN Step(F, s) ELSE F[s]]
  <2>2. ASSUME NEW s \in SUBSET (1..(m + 1))
        PROVE  G[s] = IF s = {} THEN base ELSE Step(G, s)
    <3>1. CASE m + 1 \in s
      <4>1. Max(s) = m + 1 /\ s \ {m + 1} \in SUBSET (1..(m + 1)) /\ m + 1 \notin s \ {m + 1}
        BY <3>1, PrefixMax
      <4>2. G[s] = Step(F, s) /\ G[s \ {m + 1}] = F[s \ {m + 1}]
        BY <3>1, <4>1
      <4> HIDE DEF G
      <4>3. QED
        BY <3>1, <4>1, <4>2
    <3>2. CASE m + 1 \notin s /\ s # {}
      <4>1. s \in SUBSET (1..m) /\ s \ {Max(s)} \in SUBSET (1..m)
        BY <3>2, PrefixMax, SubsetMax
      <4>2. m + 1 \notin s \ {Max(s)} /\ s \ {Max(s)} \in SUBSET (1..(m + 1))
        BY <3>2
      <4>3. G[s] = F[s] /\ G[s \ {Max(s)}] = F[s \ {Max(s)}]
        BY <3>2, <4>2
      <4>4. F[s] = Step(F, s)
        BY <2>1, <3>2, <4>1
      <4> HIDE DEF G
      <4>5. QED
        BY <3>2, <4>3, <4>4
    <3>3. CASE s = {}
      <4>1. G[s] = F[s] /\ s \in SUBSET (1..m)
        BY <3>3
      <4>2. F[s] = base
        BY <2>1, <3>3, <4>1
      <4> HIDE DEF G
      <4>3. QED
        BY <3>3, <4>1, <4>2
    <3>4. QED
      BY <3>1, <3>2, <3>3
  <2> HIDE DEF G, Step
  <2>3. QED
    BY <2>2
<1>4. n \in S
  <2> HIDE DEF S
  <2>1. QED
    BY <1>2, <1>3, NatSetInduction
<1>5. \A s \in SUBSET (1..n) : fold[s] = IF s = {} THEN base ELSE Step(fold, s)
  <2>1. PICK F : Goes(F, n)
    BY <1>4
  <2> DEFINE G == [s \in SUBSET (1..n) |-> F[s]]
  <2>2. ASSUME NEW s \in SUBSET (1..n)
        PROVE  G[s] = IF s = {} THEN base ELSE Step(G, s)
    BY <2>1, SubsetMax
  <2>3. Is(G)
    <3>1. G = [s \in SUBSET (1..n) |-> G[s]]
      OBVIOUS
    <3> HIDE DEF G, Step
    <3>2. QED
      BY <2>2, <3>1
  <2> HIDE DEF G, Is
  <2>4. Is(fold)
    BY <2>3
  <2> HIDE DEF fold, Step
  <2>5. QED
    BY <2>4 DEF Is
<1> HIDE DEF fold, S
<1> DEFINE r == [k \in 0..n |-> fold[1..k]]
<1>6. r[0] = base /\ r[n] = fold[1..n]
  <2>1. 1..0 = {} /\ 1..0 \in SUBSET (1..n) /\ 0 \in 0..n /\ n \in 0..n
    OBVIOUS
  <2>2. fold[1..0] = base
    BY <1>5, <2>1
  <2>3. QED
    BY <2>1, <2>2
<1>7. ASSUME NEW k \in 1..n
      PROVE  r[k] = op(r[k - 1], seq[k])
  <2>1. k - 1 \in Nat /\ (k - 1) + 1 = k
    OBVIOUS
  <2>2. Max(1..k) = k /\ (1..k) \ {k} = 1..(k - 1)
    BY <2>1, PrefixMax
  <2>3. k \in 1..k /\ (\A j \in 1..k : j \in 1..n) /\ k \in 0..n /\ k - 1 \in 0..n
    OBVIOUS
  <2>4. fold[1..k] = Step(fold, 1..k)
    BY <1>5, <2>3
  <2>5. Step(fold, 1..k) = op(fold[1..(k - 1)], seq[k])
    BY <2>2
  <2>6. QED
    BY <2>3, <2>4, <2>5
<1>8. \E R : /\ R[0] = base
              /\ R[n] = LevelLoop(c, base, seq)
              /\ \A k \in 1..n : R[k] = LevelStep(c, R[k - 1], seq[k])
  BY <1>1, <1>6, <1>7 DEF op
<1>9. QED
  BY <1>8 DEF LevelStates, LevelRun

\* The loop that fills the signs.
FillLoop(c, base, seq) == FoldLeft(LAMBDA acc, i : FillStep(c, acc, i), base, seq)
FillStates(c, base, seq, n) ==
  CHOOSE r : /\ r[0] = base
             /\ r[n] = FillLoop(c, base, seq)
             /\ \A k \in 1..n : r[k] = FillStep(c, r[k - 1], seq[k])
FillRun(c, base, seq, n) ==
  LET r == FillStates(c, base, seq, n)
  IN  /\ r[0] = base
      /\ r[n] = FillLoop(c, base, seq)
      /\ \A k \in 1..n : r[k] = FillStep(c, r[k - 1], seq[k])

LEMMA FillFold ==
  ASSUME NEW c, NEW n \in Nat, NEW seq, DOMAIN seq = 1..n, NEW base
  PROVE  FillRun(c, base, seq, n)
<1> DEFINE op(acc, x) == FillStep(c, acc, x)
           Step(F, s) == op(F[s \ {Max(s)}], seq[Max(s)])
           Goes(F, m) == \A s \in SUBSET (1..m) : F[s] = IF s = {} THEN base ELSE Step(F, s)
           Is(F) == F = [s \in SUBSET (1..n) |-> IF s = {} THEN base ELSE Step(F, s)]
           fold == CHOOSE F : Is(F)
           S == {m \in Nat : \E F : Goes(F, m)}
<1>1. FillLoop(c, base, seq) = fold[1..n]
  BY DEF FillLoop, FoldLeft, MapThenFoldSet
<1> HIDE DEF op
<1>2. 0 \in S
  <2>1. Goes([s \in SUBSET (1..0) |-> base], 0)
    OBVIOUS
  <2>2. QED
    BY <2>1
<1>3. ASSUME NEW m \in Nat, m \in S
      PROVE  m + 1 \in S
  <2>1. PICK F : Goes(F, m)
    BY <1>3
  <2> DEFINE G == [s \in SUBSET (1..(m + 1)) |-> IF m + 1 \in s THEN Step(F, s) ELSE F[s]]
  <2>2. ASSUME NEW s \in SUBSET (1..(m + 1))
        PROVE  G[s] = IF s = {} THEN base ELSE Step(G, s)
    <3>1. CASE m + 1 \in s
      <4>1. Max(s) = m + 1 /\ s \ {m + 1} \in SUBSET (1..(m + 1)) /\ m + 1 \notin s \ {m + 1}
        BY <3>1, PrefixMax
      <4>2. G[s] = Step(F, s) /\ G[s \ {m + 1}] = F[s \ {m + 1}]
        BY <3>1, <4>1
      <4> HIDE DEF G
      <4>3. QED
        BY <3>1, <4>1, <4>2
    <3>2. CASE m + 1 \notin s /\ s # {}
      <4>1. s \in SUBSET (1..m) /\ s \ {Max(s)} \in SUBSET (1..m)
        BY <3>2, PrefixMax, SubsetMax
      <4>2. m + 1 \notin s \ {Max(s)} /\ s \ {Max(s)} \in SUBSET (1..(m + 1))
        BY <3>2
      <4>3. G[s] = F[s] /\ G[s \ {Max(s)}] = F[s \ {Max(s)}]
        BY <3>2, <4>2
      <4>4. F[s] = Step(F, s)
        BY <2>1, <3>2, <4>1
      <4> HIDE DEF G
      <4>5. QED
        BY <3>2, <4>3, <4>4
    <3>3. CASE s = {}
      <4>1. G[s] = F[s] /\ s \in SUBSET (1..m)
        BY <3>3
      <4>2. F[s] = base
        BY <2>1, <3>3, <4>1
      <4> HIDE DEF G
      <4>3. QED
        BY <3>3, <4>1, <4>2
    <3>4. QED
      BY <3>1, <3>2, <3>3
  <2> HIDE DEF G, Step
  <2>3. QED
    BY <2>2
<1>4. n \in S
  <2> HIDE DEF S
  <2>1. QED
    BY <1>2, <1>3, NatSetInduction
<1>5. \A s \in SUBSET (1..n) : fold[s] = IF s = {} THEN base ELSE Step(fold, s)
  <2>1. PICK F : Goes(F, n)
    BY <1>4
  <2> DEFINE G == [s \in SUBSET (1..n) |-> F[s]]
  <2>2. ASSUME NEW s \in SUBSET (1..n)
        PROVE  G[s] = IF s = {} THEN base ELSE Step(G, s)
    BY <2>1, SubsetMax
  <2>3. Is(G)
    <3>1. G = [s \in SUBSET (1..n) |-> G[s]]
      OBVIOUS
    <3> HIDE DEF G, Step
    <3>2. QED
      BY <2>2, <3>1
  <2> HIDE DEF G, Is
  <2>4. Is(fold)
    BY <2>3
  <2> HIDE DEF fold, Step
  <2>5. QED
    BY <2>4 DEF Is
<1> HIDE DEF fold, S
<1> DEFINE r == [k \in 0..n |-> fold[1..k]]
<1>6. r[0] = base /\ r[n] = fold[1..n]
  <2>1. 1..0 = {} /\ 1..0 \in SUBSET (1..n) /\ 0 \in 0..n /\ n \in 0..n
    OBVIOUS
  <2>2. fold[1..0] = base
    BY <1>5, <2>1
  <2>3. QED
    BY <2>1, <2>2
<1>7. ASSUME NEW k \in 1..n
      PROVE  r[k] = op(r[k - 1], seq[k])
  <2>1. k - 1 \in Nat /\ (k - 1) + 1 = k
    OBVIOUS
  <2>2. Max(1..k) = k /\ (1..k) \ {k} = 1..(k - 1)
    BY <2>1, PrefixMax
  <2>3. k \in 1..k /\ (\A j \in 1..k : j \in 1..n) /\ k \in 0..n /\ k - 1 \in 0..n
    OBVIOUS
  <2>4. fold[1..k] = Step(fold, 1..k)
    BY <1>5, <2>3
  <2>5. Step(fold, 1..k) = op(fold[1..(k - 1)], seq[k])
    BY <2>2
  <2>6. QED
    BY <2>3, <2>4, <2>5
<1>8. \E R : /\ R[0] = base
              /\ R[n] = FillLoop(c, base, seq)
              /\ \A k \in 1..n : R[k] = FillStep(c, R[k - 1], seq[k])
  BY <1>1, <1>6, <1>7 DEF op
<1>9. QED
  BY <1>8 DEF FillStates, FillRun

\* The scan of the types.
CodeLoop(p, base, seq) == FoldLeft(LAMBDA acc, i : CodeStep(p, acc, i), base, seq)
CodeStates(p, base, seq, n) ==
  CHOOSE r : /\ r[0] = base
             /\ r[n] = CodeLoop(p, base, seq)
             /\ \A k \in 1..n : r[k] = CodeStep(p, r[k - 1], seq[k])
CodeRun(p, base, seq, n) ==
  LET r == CodeStates(p, base, seq, n)
  IN  /\ r[0] = base
      /\ r[n] = CodeLoop(p, base, seq)
      /\ \A k \in 1..n : r[k] = CodeStep(p, r[k - 1], seq[k])

LEMMA CodeFold ==
  ASSUME NEW p, NEW n \in Nat, NEW seq, DOMAIN seq = 1..n, NEW base
  PROVE  CodeRun(p, base, seq, n)
<1> DEFINE op(acc, x) == CodeStep(p, acc, x)
           Step(F, s) == op(F[s \ {Max(s)}], seq[Max(s)])
           Goes(F, m) == \A s \in SUBSET (1..m) : F[s] = IF s = {} THEN base ELSE Step(F, s)
           Is(F) == F = [s \in SUBSET (1..n) |-> IF s = {} THEN base ELSE Step(F, s)]
           fold == CHOOSE F : Is(F)
           S == {m \in Nat : \E F : Goes(F, m)}
<1>1. CodeLoop(p, base, seq) = fold[1..n]
  BY DEF CodeLoop, FoldLeft, MapThenFoldSet
<1> HIDE DEF op
<1>2. 0 \in S
  <2>1. Goes([s \in SUBSET (1..0) |-> base], 0)
    OBVIOUS
  <2>2. QED
    BY <2>1
<1>3. ASSUME NEW m \in Nat, m \in S
      PROVE  m + 1 \in S
  <2>1. PICK F : Goes(F, m)
    BY <1>3
  <2> DEFINE G == [s \in SUBSET (1..(m + 1)) |-> IF m + 1 \in s THEN Step(F, s) ELSE F[s]]
  <2>2. ASSUME NEW s \in SUBSET (1..(m + 1))
        PROVE  G[s] = IF s = {} THEN base ELSE Step(G, s)
    <3>1. CASE m + 1 \in s
      <4>1. Max(s) = m + 1 /\ s \ {m + 1} \in SUBSET (1..(m + 1)) /\ m + 1 \notin s \ {m + 1}
        BY <3>1, PrefixMax
      <4>2. G[s] = Step(F, s) /\ G[s \ {m + 1}] = F[s \ {m + 1}]
        BY <3>1, <4>1
      <4> HIDE DEF G
      <4>3. QED
        BY <3>1, <4>1, <4>2
    <3>2. CASE m + 1 \notin s /\ s # {}
      <4>1. s \in SUBSET (1..m) /\ s \ {Max(s)} \in SUBSET (1..m)
        BY <3>2, PrefixMax, SubsetMax
      <4>2. m + 1 \notin s \ {Max(s)} /\ s \ {Max(s)} \in SUBSET (1..(m + 1))
        BY <3>2
      <4>3. G[s] = F[s] /\ G[s \ {Max(s)}] = F[s \ {Max(s)}]
        BY <3>2, <4>2
      <4>4. F[s] = Step(F, s)
        BY <2>1, <3>2, <4>1
      <4> HIDE DEF G
      <4>5. QED
        BY <3>2, <4>3, <4>4
    <3>3. CASE s = {}
      <4>1. G[s] = F[s] /\ s \in SUBSET (1..m)
        BY <3>3
      <4>2. F[s] = base
        BY <2>1, <3>3, <4>1
      <4> HIDE DEF G
      <4>3. QED
        BY <3>3, <4>1, <4>2
    <3>4. QED
      BY <3>1, <3>2, <3>3
  <2> HIDE DEF G, Step
  <2>3. QED
    BY <2>2
<1>4. n \in S
  <2> HIDE DEF S
  <2>1. QED
    BY <1>2, <1>3, NatSetInduction
<1>5. \A s \in SUBSET (1..n) : fold[s] = IF s = {} THEN base ELSE Step(fold, s)
  <2>1. PICK F : Goes(F, n)
    BY <1>4
  <2> DEFINE G == [s \in SUBSET (1..n) |-> F[s]]
  <2>2. ASSUME NEW s \in SUBSET (1..n)
        PROVE  G[s] = IF s = {} THEN base ELSE Step(G, s)
    BY <2>1, SubsetMax
  <2>3. Is(G)
    <3>1. G = [s \in SUBSET (1..n) |-> G[s]]
      OBVIOUS
    <3> HIDE DEF G, Step
    <3>2. QED
      BY <2>2, <3>1
  <2> HIDE DEF G, Is
  <2>4. Is(fold)
    BY <2>3
  <2> HIDE DEF fold, Step
  <2>5. QED
    BY <2>4 DEF Is
<1> HIDE DEF fold, S
<1> DEFINE r == [k \in 0..n |-> fold[1..k]]
<1>6. r[0] = base /\ r[n] = fold[1..n]
  <2>1. 1..0 = {} /\ 1..0 \in SUBSET (1..n) /\ 0 \in 0..n /\ n \in 0..n
    OBVIOUS
  <2>2. fold[1..0] = base
    BY <1>5, <2>1
  <2>3. QED
    BY <2>1, <2>2
<1>7. ASSUME NEW k \in 1..n
      PROVE  r[k] = op(r[k - 1], seq[k])
  <2>1. k - 1 \in Nat /\ (k - 1) + 1 = k
    OBVIOUS
  <2>2. Max(1..k) = k /\ (1..k) \ {k} = 1..(k - 1)
    BY <2>1, PrefixMax
  <2>3. k \in 1..k /\ (\A j \in 1..k : j \in 1..n) /\ k \in 0..n /\ k - 1 \in 0..n
    OBVIOUS
  <2>4. fold[1..k] = Step(fold, 1..k)
    BY <1>5, <2>3
  <2>5. Step(fold, 1..k) = op(fold[1..(k - 1)], seq[k])
    BY <2>2
  <2>6. QED
    BY <2>3, <2>4, <2>5
<1>8. \E R : /\ R[0] = base
              /\ R[n] = CodeLoop(p, base, seq)
              /\ \A k \in 1..n : R[k] = CodeStep(p, R[k - 1], seq[k])
  BY <1>1, <1>6, <1>7 DEF op
<1>9. QED
  BY <1>8 DEF CodeStates, CodeRun

\* The loop that builds the layers.
LayerLoop(c, base, seq) == FoldLeft(LAMBDA acc, i : LayerStep(c, acc, i), base, seq)
LayerStates(c, base, seq, n) ==
  CHOOSE r : /\ r[0] = base
             /\ r[n] = LayerLoop(c, base, seq)
             /\ \A k \in 1..n : r[k] = LayerStep(c, r[k - 1], seq[k])
LayerRun(c, base, seq, n) ==
  LET r == LayerStates(c, base, seq, n)
  IN  /\ r[0] = base
      /\ r[n] = LayerLoop(c, base, seq)
      /\ \A k \in 1..n : r[k] = LayerStep(c, r[k - 1], seq[k])

LEMMA LayerFold ==
  ASSUME NEW c, NEW n \in Nat, NEW seq, DOMAIN seq = 1..n, NEW base
  PROVE  LayerRun(c, base, seq, n)
<1> DEFINE op(acc, x) == LayerStep(c, acc, x)
           Step(F, s) == op(F[s \ {Max(s)}], seq[Max(s)])
           Goes(F, m) == \A s \in SUBSET (1..m) : F[s] = IF s = {} THEN base ELSE Step(F, s)
           Is(F) == F = [s \in SUBSET (1..n) |-> IF s = {} THEN base ELSE Step(F, s)]
           fold == CHOOSE F : Is(F)
           S == {m \in Nat : \E F : Goes(F, m)}
<1>1. LayerLoop(c, base, seq) = fold[1..n]
  BY DEF LayerLoop, FoldLeft, MapThenFoldSet
<1> HIDE DEF op
<1>2. 0 \in S
  <2>1. Goes([s \in SUBSET (1..0) |-> base], 0)
    OBVIOUS
  <2>2. QED
    BY <2>1
<1>3. ASSUME NEW m \in Nat, m \in S
      PROVE  m + 1 \in S
  <2>1. PICK F : Goes(F, m)
    BY <1>3
  <2> DEFINE G == [s \in SUBSET (1..(m + 1)) |-> IF m + 1 \in s THEN Step(F, s) ELSE F[s]]
  <2>2. ASSUME NEW s \in SUBSET (1..(m + 1))
        PROVE  G[s] = IF s = {} THEN base ELSE Step(G, s)
    <3>1. CASE m + 1 \in s
      <4>1. Max(s) = m + 1 /\ s \ {m + 1} \in SUBSET (1..(m + 1)) /\ m + 1 \notin s \ {m + 1}
        BY <3>1, PrefixMax
      <4>2. G[s] = Step(F, s) /\ G[s \ {m + 1}] = F[s \ {m + 1}]
        BY <3>1, <4>1
      <4> HIDE DEF G
      <4>3. QED
        BY <3>1, <4>1, <4>2
    <3>2. CASE m + 1 \notin s /\ s # {}
      <4>1. s \in SUBSET (1..m) /\ s \ {Max(s)} \in SUBSET (1..m)
        BY <3>2, PrefixMax, SubsetMax
      <4>2. m + 1 \notin s \ {Max(s)} /\ s \ {Max(s)} \in SUBSET (1..(m + 1))
        BY <3>2
      <4>3. G[s] = F[s] /\ G[s \ {Max(s)}] = F[s \ {Max(s)}]
        BY <3>2, <4>2
      <4>4. F[s] = Step(F, s)
        BY <2>1, <3>2, <4>1
      <4> HIDE DEF G
      <4>5. QED
        BY <3>2, <4>3, <4>4
    <3>3. CASE s = {}
      <4>1. G[s] = F[s] /\ s \in SUBSET (1..m)
        BY <3>3
      <4>2. F[s] = base
        BY <2>1, <3>3, <4>1
      <4> HIDE DEF G
      <4>3. QED
        BY <3>3, <4>1, <4>2
    <3>4. QED
      BY <3>1, <3>2, <3>3
  <2> HIDE DEF G, Step
  <2>3. QED
    BY <2>2
<1>4. n \in S
  <2> HIDE DEF S
  <2>1. QED
    BY <1>2, <1>3, NatSetInduction
<1>5. \A s \in SUBSET (1..n) : fold[s] = IF s = {} THEN base ELSE Step(fold, s)
  <2>1. PICK F : Goes(F, n)
    BY <1>4
  <2> DEFINE G == [s \in SUBSET (1..n) |-> F[s]]
  <2>2. ASSUME NEW s \in SUBSET (1..n)
        PROVE  G[s] = IF s = {} THEN base ELSE Step(G, s)
    BY <2>1, SubsetMax
  <2>3. Is(G)
    <3>1. G = [s \in SUBSET (1..n) |-> G[s]]
      OBVIOUS
    <3> HIDE DEF G, Step
    <3>2. QED
      BY <2>2, <3>1
  <2> HIDE DEF G, Is
  <2>4. Is(fold)
    BY <2>3
  <2> HIDE DEF fold, Step
  <2>5. QED
    BY <2>4 DEF Is
<1> HIDE DEF fold, S
<1> DEFINE r == [k \in 0..n |-> fold[1..k]]
<1>6. r[0] = base /\ r[n] = fold[1..n]
  <2>1. 1..0 = {} /\ 1..0 \in SUBSET (1..n) /\ 0 \in 0..n /\ n \in 0..n
    OBVIOUS
  <2>2. fold[1..0] = base
    BY <1>5, <2>1
  <2>3. QED
    BY <2>1, <2>2
<1>7. ASSUME NEW k \in 1..n
      PROVE  r[k] = op(r[k - 1], seq[k])
  <2>1. k - 1 \in Nat /\ (k - 1) + 1 = k
    OBVIOUS
  <2>2. Max(1..k) = k /\ (1..k) \ {k} = 1..(k - 1)
    BY <2>1, PrefixMax
  <2>3. k \in 1..k /\ (\A j \in 1..k : j \in 1..n) /\ k \in 0..n /\ k - 1 \in 0..n
    OBVIOUS
  <2>4. fold[1..k] = Step(fold, 1..k)
    BY <1>5, <2>3
  <2>5. Step(fold, 1..k) = op(fold[1..(k - 1)], seq[k])
    BY <2>2
  <2>6. QED
    BY <2>3, <2>4, <2>5
<1>8. \E R : /\ R[0] = base
              /\ R[n] = LayerLoop(c, base, seq)
              /\ \A k \in 1..n : R[k] = LayerStep(c, R[k - 1], seq[k])
  BY <1>1, <1>6, <1>7 DEF op
<1>9. QED
  BY <1>8 DEF LayerStates, LayerRun

\* The same with the layers of the ICON mode.
IconLayerLoop(c, base, seq) == FoldLeft(LAMBDA acc, i : IconLayerStep(c, acc, i), base, seq)
IconLayerStates(c, base, seq, n) ==
  CHOOSE r : /\ r[0] = base
             /\ r[n] = IconLayerLoop(c, base, seq)
             /\ \A k \in 1..n : r[k] = IconLayerStep(c, r[k - 1], seq[k])
IconLayerRun(c, base, seq, n) ==
  LET r == IconLayerStates(c, base, seq, n)
  IN  /\ r[0] = base
      /\ r[n] = IconLayerLoop(c, base, seq)
      /\ \A k \in 1..n : r[k] = IconLayerStep(c, r[k - 1], seq[k])

LEMMA IconLayerFold ==
  ASSUME NEW c, NEW n \in Nat, NEW seq, DOMAIN seq = 1..n, NEW base
  PROVE  IconLayerRun(c, base, seq, n)
<1> DEFINE op(acc, x) == IconLayerStep(c, acc, x)
           Step(F, s) == op(F[s \ {Max(s)}], seq[Max(s)])
           Goes(F, m) == \A s \in SUBSET (1..m) : F[s] = IF s = {} THEN base ELSE Step(F, s)
           Is(F) == F = [s \in SUBSET (1..n) |-> IF s = {} THEN base ELSE Step(F, s)]
           fold == CHOOSE F : Is(F)
           S == {m \in Nat : \E F : Goes(F, m)}
<1>1. IconLayerLoop(c, base, seq) = fold[1..n]
  BY DEF IconLayerLoop, FoldLeft, MapThenFoldSet
<1> HIDE DEF op
<1>2. 0 \in S
  <2>1. Goes([s \in SUBSET (1..0) |-> base], 0)
    OBVIOUS
  <2>2. QED
    BY <2>1
<1>3. ASSUME NEW m \in Nat, m \in S
      PROVE  m + 1 \in S
  <2>1. PICK F : Goes(F, m)
    BY <1>3
  <2> DEFINE G == [s \in SUBSET (1..(m + 1)) |-> IF m + 1 \in s THEN Step(F, s) ELSE F[s]]
  <2>2. ASSUME NEW s \in SUBSET (1..(m + 1))
        PROVE  G[s] = IF s = {} THEN base ELSE Step(G, s)
    <3>1. CASE m + 1 \in s
      <4>1. Max(s) = m + 1 /\ s \ {m + 1} \in SUBSET (1..(m + 1)) /\ m + 1 \notin s \ {m + 1}
        BY <3>1, PrefixMax
      <4>2. G[s] = Step(F, s) /\ G[s \ {m + 1}] = F[s \ {m + 1}]
        BY <3>1, <4>1
      <4> HIDE DEF G
      <4>3. QED
        BY <3>1, <4>1, <4>2
    <3>2. CASE m + 1 \notin s /\ s # {}
      <4>1. s \in SUBSET (1..m) /\ s \ {Max(s)} \in SUBSET (1..m)
        BY <3>2, PrefixMax, SubsetMax
      <4>2. m + 1 \notin s \ {Max(s)} /\ s \ {Max(s)} \in SUBSET (1..(m + 1))
        BY <3>2
      <4>3. G[s] = F[s] /\ G[s \ {Max(s)}] = F[s \ {Max(s)}]
        BY <3>2, <4>2
      <4>4. F[s] = Step(F, s)
        BY <2>1, <3>2, <4>1
      <4> HIDE DEF G
      <4>5. QED
        BY <3>2, <4>3, <4>4
    <3>3. CASE s = {}
      <4>1. G[s] = F[s] /\ s \in SUBSET (1..m)
        BY <3>3
      <4>2. F[s] = base
        BY <2>1, <3>3, <4>1
      <4> HIDE DEF G
      <4>3. QED
        BY <3>3, <4>1, <4>2
    <3>4. QED
      BY <3>1, <3>2, <3>3
  <2> HIDE DEF G, Step
  <2>3. QED
    BY <2>2
<1>4. n \in S
  <2> HIDE DEF S
  <2>1. QED
    BY <1>2, <1>3, NatSetInduction
<1>5. \A s \in SUBSET (1..n) : fold[s] = IF s = {} THEN base ELSE Step(fold, s)
  <2>1. PICK F : Goes(F, n)
    BY <1>4
  <2> DEFINE G == [s \in SUBSET (1..n) |-> F[s]]
  <2>2. ASSUME NEW s \in SUBSET (1..n)
        PROVE  G[s] = IF s = {} THEN base ELSE Step(G, s)
    BY <2>1, SubsetMax
  <2>3. Is(G)
    <3>1. G = [s \in SUBSET (1..n) |-> G[s]]
      OBVIOUS
    <3> HIDE DEF G, Step
    <3>2. QED
      BY <2>2, <3>1
  <2> HIDE DEF G, Is
  <2>4. Is(fold)
    BY <2>3
  <2> HIDE DEF fold, Step
  <2>5. QED
    BY <2>4 DEF Is
<1> HIDE DEF fold, S
<1> DEFINE r == [k \in 0..n |-> fold[1..k]]
<1>6. r[0] = base /\ r[n] = fold[1..n]
  <2>1. 1..0 = {} /\ 1..0 \in SUBSET (1..n) /\ 0 \in 0..n /\ n \in 0..n
    OBVIOUS
  <2>2. fold[1..0] = base
    BY <1>5, <2>1
  <2>3. QED
    BY <2>1, <2>2
<1>7. ASSUME NEW k \in 1..n
      PROVE  r[k] = op(r[k - 1], seq[k])
  <2>1. k - 1 \in Nat /\ (k - 1) + 1 = k
    OBVIOUS
  <2>2. Max(1..k) = k /\ (1..k) \ {k} = 1..(k - 1)
    BY <2>1, PrefixMax
  <2>3. k \in 1..k /\ (\A j \in 1..k : j \in 1..n) /\ k \in 0..n /\ k - 1 \in 0..n
    OBVIOUS
  <2>4. fold[1..k] = Step(fold, 1..k)
    BY <1>5, <2>3
  <2>5. Step(fold, 1..k) = op(fold[1..(k - 1)], seq[k])
    BY <2>2
  <2>6. QED
    BY <2>3, <2>4, <2>5
<1>8. \E R : /\ R[0] = base
              /\ R[n] = IconLayerLoop(c, base, seq)
              /\ \A k \in 1..n : R[k] = IconLayerStep(c, R[k - 1], seq[k])
  BY <1>1, <1>6, <1>7 DEF op
<1>9. QED
  BY <1>8 DEF IconLayerStates, IconLayerRun

\* The scan of the layers.
ScanLoop(layers, relaxed, base, seq) == FoldLeft(LAMBDA acc, i : ScanStep(layers, relaxed, acc, i), base, seq)
ScanStates(layers, relaxed, base, seq, n) ==
  CHOOSE r : /\ r[0] = base
             /\ r[n] = ScanLoop(layers, relaxed, base, seq)
             /\ \A k \in 1..n : r[k] = ScanStep(layers, relaxed, r[k - 1], seq[k])
ScanRun(layers, relaxed, base, seq, n) ==
  LET r == ScanStates(layers, relaxed, base, seq, n)
  IN  /\ r[0] = base
      /\ r[n] = ScanLoop(layers, relaxed, base, seq)
      /\ \A k \in 1..n : r[k] = ScanStep(layers, relaxed, r[k - 1], seq[k])

LEMMA ScanFold ==
  ASSUME NEW layers, NEW relaxed, NEW n \in Nat, NEW seq, DOMAIN seq = 1..n, NEW base
  PROVE  ScanRun(layers, relaxed, base, seq, n)
<1> DEFINE op(acc, x) == ScanStep(layers, relaxed, acc, x)
           Step(F, s) == op(F[s \ {Max(s)}], seq[Max(s)])
           Goes(F, m) == \A s \in SUBSET (1..m) : F[s] = IF s = {} THEN base ELSE Step(F, s)
           Is(F) == F = [s \in SUBSET (1..n) |-> IF s = {} THEN base ELSE Step(F, s)]
           fold == CHOOSE F : Is(F)
           S == {m \in Nat : \E F : Goes(F, m)}
<1>1. ScanLoop(layers, relaxed, base, seq) = fold[1..n]
  BY DEF ScanLoop, FoldLeft, MapThenFoldSet
<1> HIDE DEF op
<1>2. 0 \in S
  <2>1. Goes([s \in SUBSET (1..0) |-> base], 0)
    OBVIOUS
  <2>2. QED
    BY <2>1
<1>3. ASSUME NEW m \in Nat, m \in S
      PROVE  m + 1 \in S
  <2>1. PICK F : Goes(F, m)
    BY <1>3
  <2> DEFINE G == [s \in SUBSET (1..(m + 1)) |-> IF m + 1 \in s THEN Step(F, s) ELSE F[s]]
  <2>2. ASSUME NEW s \in SUBSET (1..(m + 1))
        PROVE  G[s] = IF s = {} THEN base ELSE Step(G, s)
    <3>1. CASE m + 1 \in s
      <4>1. Max(s) = m + 1 /\ s \ {m + 1} \in SUBSET (1..(m + 1)) /\ m + 1 \notin s \ {m + 1}
        BY <3>1, PrefixMax
      <4>2. G[s] = Step(F, s) /\ G[s \ {m + 1}] = F[s \ {m + 1}]
        BY <3>1, <4>1
      <4> HIDE DEF G
      <4>3. QED
        BY <3>1, <4>1, <4>2
    <3>2. CASE m + 1 \notin s /\ s # {}
      <4>1. s \in SUBSET (1..m) /\ s \ {Max(s)} \in SUBSET (1..m)
        BY <3>2, PrefixMax, SubsetMax
      <4>2. m + 1 \notin s \ {Max(s)} /\ s \ {Max(s)} \in SUBSET (1..(m + 1))
        BY <3>2
      <4>3. G[s] = F[s] /\ G[s \ {Max(s)}] = F[s \ {Max(s)}]
        BY <3>2, <4>2
      <4>4. F[s] = Step(F, s)
        BY <2>1, <3>2, <4>1
      <4> HIDE DEF G
      <4>5. QED
        BY <3>2, <4>3, <4>4
    <3>3. CASE s = {}
      <4>1. G[s] = F[s] /\ s \in SUBSET (1..m)
        BY <3>3
      <4>2. F[s] = base
        BY <2>1, <3>3, <4>1
      <4> HIDE DEF G
      <4>3. QED
        BY <3>3, <4>1, <4>2
    <3>4. QED
      BY <3>1, <3>2, <3>3
  <2> HIDE DEF G, Step
  <2>3. QED
    BY <2>2
<1>4. n \in S
  <2> HIDE DEF S
  <2>1. QED
    BY <1>2, <1>3, NatSetInduction
<1>5. \A s \in SUBSET (1..n) : fold[s] = IF s = {} THEN base ELSE Step(fold, s)
  <2>1. PICK F : Goes(F, n)
    BY <1>4
  <2> DEFINE G == [s \in SUBSET (1..n) |-> F[s]]
  <2>2. ASSUME NEW s \in SUBSET (1..n)
        PROVE  G[s] = IF s = {} THEN base ELSE Step(G, s)
    BY <2>1, SubsetMax
  <2>3. Is(G)
    <3>1. G = [s \in SUBSET (1..n) |-> G[s]]
      OBVIOUS
    <3> HIDE DEF G, Step
    <3>2. QED
      BY <2>2, <3>1
  <2> HIDE DEF G, Is
  <2>4. Is(fold)
    BY <2>3
  <2> HIDE DEF fold, Step
  <2>5. QED
    BY <2>4 DEF Is
<1> HIDE DEF fold, S
<1> DEFINE r == [k \in 0..n |-> fold[1..k]]
<1>6. r[0] = base /\ r[n] = fold[1..n]
  <2>1. 1..0 = {} /\ 1..0 \in SUBSET (1..n) /\ 0 \in 0..n /\ n \in 0..n
    OBVIOUS
  <2>2. fold[1..0] = base
    BY <1>5, <2>1
  <2>3. QED
    BY <2>1, <2>2
<1>7. ASSUME NEW k \in 1..n
      PROVE  r[k] = op(r[k - 1], seq[k])
  <2>1. k - 1 \in Nat /\ (k - 1) + 1 = k
    OBVIOUS
  <2>2. Max(1..k) = k /\ (1..k) \ {k} = 1..(k - 1)
    BY <2>1, PrefixMax
  <2>3. k \in 1..k /\ (\A j \in 1..k : j \in 1..n) /\ k \in 0..n /\ k - 1 \in 0..n
    OBVIOUS
  <2>4. fold[1..k] = Step(fold, 1..k)
    BY <1>5, <2>3
  <2>5. Step(fold, 1..k) = op(fold[1..(k - 1)], seq[k])
    BY <2>2
  <2>6. QED
    BY <2>3, <2>4, <2>5
<1>8. \E R : /\ R[0] = base
              /\ R[n] = ScanLoop(layers, relaxed, base, seq)
              /\ \A k \in 1..n : R[k] = ScanStep(layers, relaxed, R[k - 1], seq[k])
  BY <1>1, <1>6, <1>7 DEF op
<1>9. QED
  BY <1>8 DEF ScanStates, ScanRun

-----------------------------------------------------------------------------
(* Areas.                                                                  *)

Alternating(e) ==
  /\ e \in Seq(Int)
  /\ \A k \in 1..Len(e) : Magnitude(e[k]) >= SmallArea
  /\ \A k \in 1..(Len(e) - 1) : Sign(e[k]) = -Sign(e[k + 1])

LEMMA MergeAlternates ==
  ASSUME NEW a, Alternating(a), NEW e \in Int, Magnitude(e) >= SmallArea
  PROVE  Alternating(Merge(a, e))
<1> DEFINE n == Len(a)
<1>1. SmallArea \in Nat \ {0} /\ n \in Nat /\ a \in Seq(Int)
  BY UnitProducts DEF Alternating
<1>2. CASE a # <<>> /\ Sign(Last(a)) = Sign(e)
  <2> DEFINE b == [a EXCEPT ![n] = @ + e]
  <2>1. n >= 1 /\ a[n] \in Int /\ Last(a) = a[n]
    BY <1>1, <1>2 DEF Last
  <2>2. Merge(a, e) = b
    BY <1>2 DEF Merge
  <2>3. b \in Seq(Int) /\ Len(b) = n /\ b[n] = a[n] + e /\ \A k \in 1..(n - 1) : b[k] = a[k]
    BY <1>1, <2>1
  <2>4. Sign(b[n]) = Sign(a[n]) /\ Magnitude(b[n]) >= SmallArea
    <3>1. Magnitude(a[n]) >= SmallArea /\ Sign(a[n]) = Sign(e)
      BY <1>1, <1>2, <2>1 DEF Alternating
    <3>2. e \in Int /\ a[n] \in Int /\ Magnitude(e) >= SmallArea
      BY <2>1
    <3> DEFINE x == a[n]
    <3> HIDE DEF x, b
    <3>3. b[n] = x + e /\ Sign(x) = Sign(e) /\ Magnitude(x) >= SmallArea /\ x \in Int
      BY <2>3, <3>1, <3>2 DEF x
    <3>4. Sign(x + e) = Sign(x) /\ Magnitude(x + e) >= SmallArea
      BY <1>1, <3>2, <3>3 DEF Magnitude, Sign
    <3>5. QED
      BY <3>3, <3>4 DEF x
  <2> HIDE DEF b
  <2>5. ASSUME NEW k \in 1..n
        PROVE  Magnitude(b[k]) >= SmallArea /\ Sign(b[k]) = Sign(a[k])
    <3>1. CASE k = n
      BY <2>4, <3>1
    <3>2. CASE k # n
      <4>1. k \in 1..(n - 1)
        BY <1>1, <3>2
      <4>2. b[k] = a[k] /\ Magnitude(a[k]) >= SmallArea
        BY <2>3, <4>1 DEF Alternating
      <4>3. QED
        BY <4>2
    <3>3. QED
      BY <3>1, <3>2
  <2>6. ASSUME NEW k \in 1..(n - 1)
        PROVE  Sign(b[k]) = -Sign(b[k + 1])
    <3>1. k \in 1..n /\ k + 1 \in 1..n
      BY <1>1
    <3>2. Sign(a[k]) = -Sign(a[k + 1])
      BY DEF Alternating
    <3>3. QED
      BY <2>5, <3>1, <3>2
  <2>7. QED
    BY <2>2, <2>3, <2>5, <2>6 DEF Alternating
<1>3. CASE ~(a # <<>> /\ Sign(Last(a)) = Sign(e))
  <2> DEFINE b == Append(a, e)
  <2>1. Merge(a, e) = b
    BY <1>3 DEF Merge
  <2>2. b \in Seq(Int) /\ Len(b) = n + 1 /\ b[n + 1] = e /\ \A k \in 1..n : b[k] = a[k]
    BY <1>1
  <2>3. n # 0 => Sign(b[n]) = -Sign(b[n + 1])
    <3> SUFFICES ASSUME n # 0 PROVE Sign(b[n]) = -Sign(b[n + 1])
      OBVIOUS
    <3>1. n >= 1 /\ a[n] \in Int /\ Last(a) = a[n] /\ a # <<>> /\ b[n] = a[n]
      BY <1>1, <2>2 DEF Last
    <3>2. Magnitude(a[n]) >= SmallArea /\ Sign(a[n]) # Sign(e)
      BY <1>1, <1>3, <3>1 DEF Alternating
    <3>3. QED
      BY <1>1, <2>2, <3>1, <3>2 DEF Magnitude, Sign
  <2> HIDE DEF b
  <2>4. ASSUME NEW k \in 1..(n + 1)
        PROVE  Magnitude(b[k]) >= SmallArea
    <3>1. k \in 1..n \/ k = n + 1
      BY <1>1
    <3>2. QED
      BY <2>2, <3>1 DEF Alternating
  <2>5. ASSUME NEW k \in 1..n
        PROVE  Sign(b[k]) = -Sign(b[k + 1])
    <3>1. CASE k = n
      BY <1>1, <2>3, <3>1
    <3>2. CASE k # n
      <4>1. k \in 1..(n - 1) /\ k + 1 \in 1..n
        BY <1>1, <3>2
      <4>2. b[k] = a[k] /\ b[k + 1] = a[k + 1] /\ Sign(a[k]) = -Sign(a[k + 1])
        BY <2>2, <4>1 DEF Alternating
      <4>3. QED
        BY <4>2
    <3>3. QED
      BY <3>1, <3>2
  <2>6. (n + 1) - 1 = n
    BY <1>1
  <2>7. QED
    BY <2>1, <2>2, <2>4, <2>5, <2>6 DEF Alternating
<1>4. QED
  BY <1>2, <1>3

\* The lowest ones alternate as well, read from the surface up.
LEMMA LowestAlternates ==
  ASSUME NEW c, NEW a, Alternating(a)
  PROVE  /\ Alternating(LowestNumba(c, a)) /\ Len(LowestNumba(c, a)) <= AreaLimit(c)
         /\ Len(LowestNumba(c, a)) \in Nat /\ LowestNumba(c, a) \in Seq(Int)
<1> DEFINE n == Len(a)
           m == Min({AreaLimit(c), n})
           b == LowestNumba(c, a)
<1>1. n \in Nat /\ a \in Seq(Int) /\ AreaLimit(c) \in {2, 3}
  BY DEF Alternating, AreaLimit
<1>2. m \in Nat /\ m <= n /\ m <= AreaLimit(c)
  BY <1>1, OfTwo
<1>3. b = [k \in 1..m |-> a[n + 1 - k]]
  BY DEF LowestNumba
<1> HIDE DEF m, b
<1>4. \A k \in 1..m : n + 1 - k \in 1..n /\ a[n + 1 - k] \in Int
  BY <1>1, <1>2
<1>5. b \in Seq(Int) /\ Len(b) = m /\ \A k \in 1..m : b[k] = a[n + 1 - k]
  BY <1>2, <1>3, <1>4
<1>6. \A k \in 1..m : Magnitude(b[k]) >= SmallArea
  BY <1>4, <1>5 DEF Alternating
<1>7. ASSUME NEW k \in 1..(m - 1)
      PROVE  Sign(b[k]) = -Sign(b[k + 1])
  <2> DEFINE i == n - k
  <2>1. /\ i \in 1..(n - 1) /\ i + 1 = n + 1 - k /\ i = n + 1 - (k + 1)
        /\ k \in 1..m /\ k + 1 \in 1..m
    BY <1>1, <1>2
  <2>10. b[k] = a[i + 1] /\ b[k + 1] = a[i] /\ a[i] \in Int /\ a[i + 1] \in Int
    BY <1>4, <1>5, <2>1
  <2>2. Sign(a[i]) = -Sign(a[i + 1])
    BY <2>1 DEF Alternating
  <2> HIDE DEF i
  <2>3. QED
    BY <2>10, <2>2 DEF Sign
<1>8. QED
  BY <1>2, <1>5, <1>6, <1>7 DEF Alternating, b

LEMMA Columned ==
  ASSUME NEW c, Prepared(c)
  PROVE  /\ c.tw \in Seq(Int) /\ Len(c.tw) \in Nat \ {0} /\ LevelsOf(c) = 1..Len(c.tw)
         /\ \A i \in 1..Len(c.tw) : c.tw[i] \in Int /\ c.h[i] \in Int /\ c.t[i] \in Int
         /\ Surface(c) \in Int
<1> DEFINE n == Len(c.tw)
<1>1. c.tw \in Seq(Int) /\ c.tw # <<>>
  BY DEF Prepared
<1>2. n \in Nat \ {0} /\ DOMAIN c.tw = 1..n /\ \A i \in 1..n : c.tw[i] \in Int
  BY <1>1
<1>3. c.t \in [1..n -> Int] /\ c.h \in [1..n -> Int]
  BY DEF Prepared
<1>4. Surface(c) \in Int
  BY <1>2 DEF Surface
<1> HIDE DEF n
<1>5. \A i \in 1..n : c.h[i] \in Int /\ c.t[i] \in Int
  BY <1>3
<1>6. QED
  BY <1>1, <1>2, <1>4, <1>5 DEF LevelsOf, n

LEMMA SegmentTyped ==
  ASSUME NEW c, Prepared(c), NEW i \in 1..Len(c.tw), NEW j \in 1..Len(c.tw)
  PROVE  SegmentEnergy(c, i, j) \in Int
<1> DEFINE K == i..(j - 1)
           f == [k \in K |-> EnergyUnit * (c.tw[k] + c.tw[k + 1]) * (c.h[k] - c.h[k + 1])]
<1>1. IsFiniteSet(K)
  BY Columned, FS_Interval
<1>2. ASSUME NEW k \in K
      PROVE  f[k] \in Int
  <2> DEFINE x == c.tw[k] + c.tw[k + 1]
             y == c.h[k] - c.h[k + 1]
  <2>1. k \in 1..Len(c.tw) /\ k + 1 \in 1..Len(c.tw)
    BY Columned
  <2>2. /\ c.tw[k] \in Int /\ c.tw[k + 1] \in Int /\ c.h[k] \in Int /\ c.h[k + 1] \in Int
        /\ EnergyUnit \in Int
    BY <2>1, Columned, UnitsAssumption
  <2> HIDE DEF f
  <2>20. x \in Int
    BY <2>2
  <2>21. y \in Int
    BY <2>2
  <2> HIDE DEF x, y
  <2>3. EnergyUnit * x * y \in Int
    BY <2>2, <2>20, <2>21
  <2>4. QED
    BY <2>3 DEF f, x, y
<1>3. DOMAIN f = K /\ SegmentEnergy(c, i, j) = SumFunctionOnSet(f, K)
  BY DEF SegmentEnergy, SumFunction
<1> HIDE DEF K, f
<1>4. QED
  BY <1>1, <1>2, <1>3, SumLess

\* The state of the pass over the levels.
Passing(c, acc) ==
  /\ acc = [start |-> acc.start, count |-> acc.count, areas |-> acc.areas]
  /\ acc.start \in 1..Len(c.tw) /\ acc.count \in Nat /\ Alternating(acc.areas)

LEMMA LevelKeeps ==
  ASSUME NEW c, Prepared(c), NEW acc, Passing(c, acc), NEW i \in 2..(Len(c.tw) + 1)
  PROVE  Passing(c, LevelStep(c, acc, i))
<1> DEFINE n == Len(c.tw)
           energy == SegmentEnergy(c, acc.start, i - 1)
           b == EndSegment(c, acc, i)
<1>1. n \in Nat \ {0} /\ i - 1 \in 1..n /\ energy \in Int
  BY Columned, SegmentTyped DEF Passing
<1>2. Alternating(b)
  <2>1. CASE acc.count > 0 /\ Magnitude(energy) >= SmallArea
    <3>1. b = Merge(acc.areas, energy)
      BY <2>1 DEF EndSegment
    <3> HIDE DEF b, energy
    <3>2. QED
      BY <1>1, <2>1, <3>1, MergeAlternates DEF Passing
  <2>2. CASE ~(acc.count > 0 /\ Magnitude(energy) >= SmallArea)
    BY <2>2 DEF EndSegment, Passing
  <2>3. QED
    BY <2>1, <2>2
<1>3. Min({i, n}) \in 1..n
  BY <1>1, OfTwo
<1> DEFINE next == [start |-> Min({i, n}), count |-> acc.count + 1, areas |-> b]
<1>4. LevelStep(c, acc, i) = acc \/ LevelStep(c, acc, i) = next
  BY DEF LevelStep
<1> HIDE DEF b
<1>5. Passing(c, next)
  BY <1>2, <1>3 DEF Passing
<1> HIDE DEF next
<1>6. QED
  BY <1>4, <1>5

LEMMA EmptyAlternates == Alternating(<<>>)
BY DEF Alternating

LEMMA EnergiesAlternate ==
  ASSUME NEW c, Prepared(c)
  PROVE  /\ Alternating(EnergiesNumba(c)) /\ Len(EnergiesNumba(c)) <= AreaLimit(c)
         /\ Len(EnergiesNumba(c)) \in Nat /\ EnergiesNumba(c) \in Seq(Int)
<1> DEFINE n == Len(c.tw)
           seq == [k \in 1..n |-> k + 1]
           base == [start |-> 1, count |-> 0, areas |-> <<>>]
<1>1. EnergiesNumba(c) = LowestNumba(c, LevelLoop(c, base, seq).areas)
  BY DEF EnergiesNumba, LevelLoop, LevelStep
<1>2. n \in Nat \ {0} /\ DOMAIN seq = 1..n
  BY Columned
<1> DEFINE r == LevelStates(c, base, seq, n)
<1>3. /\ r[0] = base
      /\ r[n] = LevelLoop(c, base, seq)
      /\ \A k \in 1..n : r[k] = LevelStep(c, r[k - 1], seq[k])
  <2> HIDE DEF base, seq
  <2>1. LevelRun(c, base, seq, n)
    BY <1>2, LevelFold
  <2>2. QED
    BY <2>1 DEF LevelRun
<1> HIDE DEF r
<1> DEFINE S == {k \in Nat : k <= n => Passing(c, r[k])}
<1>4. 0 \in S
  <2>1. Passing(c, base)
    BY <1>2, EmptyAlternates DEF Passing
  <2> HIDE DEF base
  <2>2. QED
    BY <1>3, <2>1
<1>5. ASSUME NEW k \in Nat, k \in S
      PROVE  k + 1 \in S
  <2> SUFFICES ASSUME k + 1 <= n PROVE Passing(c, r[k + 1])
    OBVIOUS
  <2>1. k + 1 \in 1..n /\ Passing(c, r[k]) /\ seq[k + 1] = k + 2 /\ k + 2 \in 2..(n + 1)
    BY <1>2, <1>5
  <2>2. r[k + 1] = LevelStep(c, r[k], k + 2)
    <3> HIDE DEF seq, base
    <3>1. (k + 1) - 1 = k
      OBVIOUS
    <3>2. r[k + 1] = LevelStep(c, r[(k + 1) - 1], seq[k + 1])
      BY <1>3, <2>1
    <3>3. QED
      BY <2>1, <3>1, <3>2
  <2>3. QED
    BY <2>1, <2>2, LevelKeeps
<1> HIDE DEF S
<1>6. n \in S
  BY <1>2, <1>4, <1>5, NatSetInduction
<1>7. Alternating(r[n].areas)
  BY <1>2, <1>6 DEF S, Passing
<1>8. EnergiesNumba(c) = LowestNumba(c, r[n].areas)
  <2> HIDE DEF base, seq
  <2>1. QED
    BY <1>1, <1>3
<1>9. QED
  BY <1>7, <1>8, LowestAlternates

-----------------------------------------------------------------------------
(* Areas between interpolated crossings.                                   *)

LEMMA StartIsLevel ==
  ASSUME NEW c, Prepared(c)
  PROVE  ProfileStart(c) \in 1..Len(c.tw)
<1> DEFINE below == {i \in LevelsOf(c) : c.h[i] <= Cutoff}
<1>1. CASE below = {}
  BY <1>1, Columned DEF ProfileStart
<1>2. CASE below # {}
  <2>1. below \subseteq Nat /\ below \subseteq Int /\ below \subseteq 1..Len(c.tw)
    BY Columned
  <2> HIDE DEF below
  <2>2. PICK x \in below : \A y \in below : x <= y
    BY <1>2, <2>1, NatHasLeast
  <2>3. Min(below) = x
    BY <2>1, <2>2, MinIs
  <2>4. ProfileStart(c) = Min(below)
    BY <1>2 DEF ProfileStart, below
  <2>5. QED
    BY <2>1, <2>3, <2>4
<1>3. QED
  BY <1>1, <1>2

Raw(c) == [k \in LevelsOf(c) |-> IF k < ProfileStart(c) THEN 0 ELSE Sign(c.tw[k])]
Later(c) == {j \in (ProfileStart(c) + 1)..Len(c.tw) : Raw(c)[j] # 0}

\* The sign of the first level.
FirstSign(c) ==
  LET start == ProfileStart(c)
  IN  IF c.tw[start] # 0 THEN Sign(c.tw[start])
      ELSE IF Later(c) # {} THEN Sign(c.tw[Min(Later(c))]) ELSE 1

\* The signs are filled down to level m.
Filled(c, s, m) ==
  LET start == ProfileStart(c)
      n == Len(c.tw)
  IN  /\ s \in [1..n -> {-1, 0, 1}]
      /\ \A j \in 1..n : j < start => s[j] = 0
      /\ \A j \in 1..n : j > m => s[j] = Raw(c)[j]
      /\ start <= m => s[start] = FirstSign(c)
      /\ \A j \in 1..n : start < j /\ j <= m => s[j] = IF c.tw[j] # 0 THEN Sign(c.tw[j]) ELSE s[j - 1]
      /\ \A j \in 1..n : start <= j /\ j <= m => s[j] # 0

LEMMA SignIs ==
  ASSUME NEW x \in Int
  PROVE  Sign(x) \in {-1, 0, 1} /\ (Sign(x) = 0 <=> x = 0)
BY DEF Sign

LEMMA RawIs ==
  ASSUME NEW c, Prepared(c), NEW j \in 1..Len(c.tw)
  PROVE  /\ Raw(c)[j] = IF j < ProfileStart(c) THEN 0 ELSE Sign(c.tw[j])
         /\ Raw(c)[j] \in {-1, 0, 1}
         /\ j >= ProfileStart(c) => (Raw(c)[j] = 0 <=> c.tw[j] = 0)
<1>1. j \in LevelsOf(c) /\ c.tw[j] \in Int /\ ProfileStart(c) \in Int
  BY Columned, StartIsLevel
<1>2. Raw(c)[j] = IF j < ProfileStart(c) THEN 0 ELSE Sign(c.tw[j])
  BY <1>1 DEF Raw
<1>3. QED
  BY <1>1, <1>2, SignIs

LEMMA FirstSignIs ==
  ASSUME NEW c, Prepared(c)
  PROVE  /\ FirstSign(c) \in {-1, 1}
         /\ Later(c) # {} => Min(Later(c)) \in Later(c) /\ Min(Later(c)) \in 1..Len(c.tw)
<1> DEFINE start == ProfileStart(c)
<1>1. start \in 1..Len(c.tw) /\ c.tw[start] \in Int
  BY StartIsLevel, Columned
<1>2. ASSUME Later(c) # {}
      PROVE  /\ Min(Later(c)) \in Later(c) /\ Min(Later(c)) \in 1..Len(c.tw)
             /\ Sign(c.tw[Min(Later(c))]) \in {-1, 1}
  <2>1. Later(c) \subseteq Nat /\ Later(c) \subseteq Int /\ Later(c) \subseteq 1..Len(c.tw)
    BY <1>1, Columned DEF Later
  <2>2. PICK x \in Later(c) : \A y \in Later(c) : x <= y
    BY <1>2, <2>1, NatHasLeast
  <2>3. Min(Later(c)) = x
    BY <2>1, <2>2, MinIs
  <2>4. x \in 1..Len(c.tw) /\ Raw(c)[x] # 0 /\ x > start /\ c.tw[x] \in Int
    BY <1>1, <2>1, Columned DEF Later
  <2>5. c.tw[x] # 0
    BY <1>1, <2>4, RawIs
  <2>6. Sign(c.tw[x]) \in {-1, 1}
    BY <2>4, <2>5, SignIs
  <2>7. QED
    BY <2>1, <2>3, <2>6
<1>3. FirstSign(c) \in {-1, 1}
  <2>1. CASE c.tw[start] # 0
    BY <1>1, <2>1, SignIs DEF FirstSign
  <2>2. CASE c.tw[start] = 0
    BY <1>2, <2>2 DEF FirstSign
  <2>3. QED
    BY <2>1, <2>2
<1>4. QED
  BY <1>2, <1>3

LEMMA FillKeeps ==
  ASSUME NEW c, Prepared(c), NEW s, NEW m \in Int, m + 1 \in ProfileStart(c)..Len(c.tw), Filled(c, s, m)
  PROVE  Filled(c, FillStep(c, s, m + 1), m + 1)
<1> DEFINE start == ProfileStart(c)
           n == Len(c.tw)
           i == m + 1
           value == IF i > start THEN s[i - 1] ELSE FirstSign(c)
           t == FillStep(c, s, i)
<1>1. n \in Nat \ {0} /\ start \in 1..n /\ i \in 1..n /\ i >= start /\ i - 1 = m
  <2>1. n \in Nat \ {0} /\ start \in 1..n
    BY Columned, StartIsLevel
  <2>2. m + 1 \in start..n
    OBVIOUS
  <2> HIDE DEF n, start
  <2>3. QED
    BY <2>1, <2>2
<1>2. s[i] = Raw(c)[i] /\ s[i] = Sign(c.tw[i]) /\ c.tw[i] \in Int /\ (s[i] = 0 <=> c.tw[i] = 0)
  <2>1. i > m
    BY <1>1
  <2>2. s[i] = Raw(c)[i]
    BY <1>1, <2>1 DEF Filled
  <2>3. QED
    BY <1>1, <2>2, RawIs, Columned
<1>3. value \in {-1, 1}
  <2>1. CASE i > start
    <3>1. m \in 1..n /\ start <= m
      BY <1>1, <2>1
    <3>2. s[m] # 0 /\ s[m] \in {-1, 0, 1}
      BY <3>1 DEF Filled
    <3>3. QED
      BY <1>1, <2>1, <3>2
  <2>2. CASE ~(i > start)
    BY <2>2, FirstSignIs
  <2>3. QED
    BY <2>1, <2>2
<1>4. t = IF s[i] # 0 THEN s ELSE [s EXCEPT ![i] = value]
  <2>1. CASE i > start \/ s[i] # 0
    BY <2>1 DEF FillStep
  <2>2. CASE ~(i > start) /\ s[i] = 0
    <3>1. c.tw[start] = 0 /\ i = start
      BY <1>1, <1>2, <2>2
    <3>2. Later(c) # {} => Raw(c)[Min(Later(c))] = Sign(c.tw[Min(Later(c))])
      <4> SUFFICES ASSUME Later(c) # {} PROVE Raw(c)[Min(Later(c))] = Sign(c.tw[Min(Later(c))])
        OBVIOUS
      <4>1. Min(Later(c)) \in 1..n /\ Min(Later(c)) > start
        BY <1>1, FirstSignIs DEF Later
      <4>2. QED
        BY <1>1, <4>1, RawIs
    <3>3. t = [s EXCEPT ![i] = IF Later(c) # {} THEN Raw(c)[Min(Later(c))] ELSE 1]
      BY <2>2 DEF FillStep, Raw, Later
    <3>4. QED
      BY <2>2, <3>1, <3>2, <3>3 DEF FirstSign
  <2>3. QED
    BY <2>1, <2>2
<1> HIDE DEF t, value
<1>5. /\ t \in [1..n -> {-1, 0, 1}] /\ t[i] # 0
      /\ t[i] = IF c.tw[i] # 0 THEN Sign(c.tw[i]) ELSE value
      /\ \A j \in 1..n : j # i => t[j] = s[j]
  BY <1>1, <1>2, <1>3, <1>4 DEF Filled
<1>6. i > start => value = t[i - 1]
  BY <1>1, <1>5 DEF value
<1>7. i = start => t[i] = FirstSign(c)
  BY <1>2, <1>5 DEF value, FirstSign
<1>8. i > start => t[start] = FirstSign(c)
  BY <1>1, <1>5 DEF Filled
<1>9. ASSUME NEW j \in 1..n, start < j, j <= i
      PROVE  t[j] = IF c.tw[j] # 0 THEN Sign(c.tw[j]) ELSE t[j - 1]
  <2>1. CASE j = i
    BY <1>5, <1>6, <1>9, <2>1
  <2>2. CASE j # i
    <3>1. j <= m /\ j - 1 \in 1..n /\ j - 1 # i
      BY <1>1, <1>9, <2>2
    <3>2. s[j] = IF c.tw[j] # 0 THEN Sign(c.tw[j]) ELSE s[j - 1]
      BY <1>9, <3>1 DEF Filled
    <3>3. QED
      BY <1>5, <2>2, <3>1, <3>2
  <2>3. QED
    BY <2>1, <2>2
<1>10. ASSUME NEW j \in 1..n
       PROVE  /\ j < start => t[j] = 0
              /\ j > i => t[j] = Raw(c)[j]
              /\ start <= j /\ j <= i => t[j] # 0
  <2>1. CASE j = i
    BY <1>1, <1>5, <2>1
  <2>2. CASE j # i
    <3>1. t[j] = s[j] /\ (j > i => j > m) /\ (j <= i => j <= m)
      BY <1>1, <1>5, <2>2
    <3>2. QED
      BY <3>1 DEF Filled
  <2>3. QED
    BY <2>1, <2>2
<1>11. start <= i => t[start] = FirstSign(c)
  BY <1>1, <1>7, <1>8
<1>12. QED
  BY <1>5, <1>9, <1>10, <1>11 DEF Filled, t

LEMMA LoopFills ==
  ASSUME NEW c, Prepared(c), NEW base, base = Raw(c), NEW size \in Nat,
         size = Len(c.tw) - ProfileStart(c) + 1, NEW seq, DOMAIN seq = 1..size,
         \A k \in 1..size : seq[k] = ProfileStart(c) + k - 1
  PROVE  Filled(c, FillLoop(c, base, seq), Len(c.tw))
<1> DEFINE r == FillStates(c, base, seq, size)
<1>4. /\ r[0] = base
      /\ r[size] = FillLoop(c, base, seq)
      /\ \A k \in 1..size : r[k] = FillStep(c, r[k - 1], seq[k])
  <2>1. FillRun(c, base, seq, size)
    BY FillFold
  <2>2. QED
    BY <2>1 DEF FillRun
<1> HIDE DEF r
<1> DEFINE start == ProfileStart(c)
           n == Len(c.tw)
<1>2. n \in Nat \ {0} /\ start \in 1..n /\ size = n - start + 1
  BY Columned, StartIsLevel
<1>3. \A k \in 1..size : seq[k] = start + k - 1
  OBVIOUS
<1> DEFINE S == {k \in Nat : k <= size => Filled(c, r[k], start + k - 1)}
<1>5. 0 \in S
  <2>1. Filled(c, base, start + 0 - 1)
    <3>1. base \in [1..n -> {-1, 0, 1}] /\ \A j \in 1..n : j < start => base[j] = 0
      <4>1. base \in [1..n -> {-1, 0, 1}]
        <5>1. base = [k \in 1..n |-> base[k]]
          BY Columned DEF Raw
        <5>2. \A k \in 1..n : base[k] \in {-1, 0, 1}
          BY RawIs
        <5>3. QED
          BY <5>1, <5>2
      <4>2. QED
        BY <4>1, RawIs
    <3>2. \A j \in 1..n : ~(start <= start + 0 - 1) /\ (start < j => ~(j <= start + 0 - 1))
                          /\ (start <= j => ~(j <= start + 0 - 1))
      BY <1>2
    <3>3. 1 \in 1..n
      BY <1>2
    <3>4. QED
      BY <3>1, <3>2, <3>3 DEF Filled
  <2>2. QED
    BY <1>4, <2>1
<1>6. ASSUME NEW k \in Nat, k \in S
      PROVE  k + 1 \in S
  <2> SUFFICES ASSUME k + 1 <= size PROVE Filled(c, r[k + 1], start + (k + 1) - 1)
    OBVIOUS
  <2> DEFINE m == start + k - 1
  <2>1. /\ k + 1 \in 1..size /\ Filled(c, r[k], m) /\ (k + 1) - 1 = k
        /\ m \in Int /\ m + 1 \in start..n /\ start + (k + 1) - 1 = m + 1
    BY <1>2, <1>6
  <2>2. seq[k + 1] = m + 1
    BY <1>3, <2>1
  <2> HIDE DEF m, start
  <2>3. r[k + 1] = FillStep(c, r[(k + 1) - 1], seq[k + 1])
    BY <1>4, <2>1
  <2>4. r[k + 1] = FillStep(c, r[k], m + 1)
    BY <2>1, <2>2, <2>3
  <2>5. Filled(c, FillStep(c, r[k], m + 1), m + 1)
    BY <2>1, FillKeeps DEF start
  <2>6. QED
    BY <2>1, <2>4, <2>5
<1> HIDE DEF S
<1>7. size \in S
  BY <1>2, <1>5, <1>6, NatSetInduction
<1>8. start + size - 1 = n
  BY <1>2
<1>9. QED
  BY <1>2, <1>4, <1>7, <1>8 DEF S

LEMMA SignsAreFilled ==
  ASSUME NEW c, Prepared(c)
  PROVE  Filled(c, IconSignsNumba(c), Len(c.tw))
<1> DEFINE start == ProfileStart(c)
           n == Len(c.tw)
           base == Raw(c)
           size == n - start + 1
           seq == <<start>> \o BelowStart(c)
<1>1. IconSignsNumba(c) = FillLoop(c, base, seq)
  BY DEF IconSignsNumba, FillLoop, FillStep, Raw
<1>2. n \in Nat \ {0} /\ start \in 1..n /\ size \in Nat
  BY Columned, StartIsLevel
<1>3. DOMAIN seq = 1..size /\ \A k \in 1..size : seq[k] = start + k - 1
  <2>1. BelowStart(c) \in Seq(Int) /\ Len(BelowStart(c)) = n - start
        /\ \A k \in 1..(n - start) : BelowStart(c)[k] = start + k
    <3> DEFINE rest == n - start
    <3>1. BelowStart(c) = [k \in 1..rest |-> start + k]
      BY DEF BelowStart
    <3>2. rest \in Nat /\ start \in Int
      BY <1>2
    <3> HIDE DEF rest, start
    <3>3. BelowStart(c) \in Seq(Int) /\ Len(BelowStart(c)) = rest
          /\ \A k \in 1..rest : BelowStart(c)[k] = start + k
      BY <3>1, <3>2
    <3>4. QED
      BY <3>3 DEF rest
  <2>2. <<start>> \in Seq(Int) /\ Len(<<start>>) = 1 /\ <<start>>[1] = start
    BY <1>2
  <2>3. seq \in Seq(Int) /\ Len(seq) = 1 + (n - start)
        /\ \A k \in 1..(1 + (n - start)) :
              seq[k] = IF k <= 1 THEN <<start>>[k] ELSE BelowStart(c)[k - 1]
    BY <2>1, <2>2
  <2> HIDE DEF seq
  <2>4. ASSUME NEW k \in 1..size
        PROVE  seq[k] = start + k - 1
    <3>1. CASE k = 1
      BY <1>2, <2>2, <2>3, <3>1
    <3>2. CASE k # 1
      <4>1. k - 1 \in 1..(n - start) /\ ~(k <= 1) /\ k \in 1..(1 + (n - start))
        BY <1>2, <3>2
      <4>2. BelowStart(c)[k - 1] = start + (k - 1)
        BY <2>1, <4>1
      <4>3. seq[k] = BelowStart(c)[k - 1]
        BY <2>3, <4>1
      <4>4. QED
        BY <1>2, <4>2, <4>3
    <3>3. QED
      BY <3>1, <3>2
  <2>5. QED
    BY <1>2, <2>3, <2>4
<1> HIDE DEF seq, base
<1>5. base = Raw(c)
  BY DEF base
<1>6. size \in Nat /\ DOMAIN seq = 1..size /\ \A k \in 1..size : seq[k] = ProfileStart(c) + k - 1
  BY <1>2, <1>3
<1>7. size = Len(c.tw) - ProfileStart(c) + 1
  OBVIOUS
<1> HIDE DEF size, n, start
<1>8. Filled(c, FillLoop(c, base, seq), Len(c.tw))
  BY <1>5, <1>6, <1>7, LoopFills
<1>9. QED
  BY <1>1, <1>8

\* Where the sign changes from a level to the next, the lower one is not zero.
LEMMA SignsChange ==
  ASSUME NEW c, Prepared(c), NEW k \in ProfileStart(c)..(Len(c.tw) - 1),
         IconSignsNumba(c)[k] # IconSignsNumba(c)[k + 1]
  PROVE  CrossingSpan(c, k) \in Nat \ {0}
<1> DEFINE s == IconSignsNumba(c)
           n == Len(c.tw)
           start == ProfileStart(c)
<1>1. start \in 1..n /\ n \in Nat /\ k \in 1..n /\ k + 1 \in 1..n /\ start < k + 1 /\ (k + 1) - 1 = k
  BY StartIsLevel, Columned
<1>2. Filled(c, s, n)
  BY SignsAreFilled
<1> HIDE DEF s
<1>3. s[k + 1] = IF c.tw[k + 1] # 0 THEN Sign(c.tw[k + 1]) ELSE s[(k + 1) - 1]
  BY <1>1, <1>2 DEF Filled
<1>4. c.tw[k + 1] # 0 /\ c.tw[k] \in Int /\ c.tw[k + 1] \in Int
  BY <1>1, <1>3, Columned DEF s
<1> DEFINE x == c.tw[k]
           y == c.tw[k + 1]
<1>5. CrossingSpan(c, k) = Magnitude(x) + Magnitude(y)
  BY DEF CrossingSpan
<1>6. x \in Int /\ y \in Int /\ y # 0
  BY <1>4
<1> HIDE DEF x, y
<1>7. QED
  BY <1>5, <1>6 DEF Magnitude

-----------------------------------------------------------------------------
(* Energies between interpolated crossings.                                *)

LEMMA LayerTyped ==
  ASSUME NEW c, Prepared(c), NEW i \in 1..(Len(c.tw) - 1)
  PROVE  /\ LayerEnergy(c, i) \in Int
         /\ CrossingSpan(c, i) \in Nat \ {0} => UpperEnergy(c, i) \in Int /\ LowerEnergy(c, i) \in Int
<1> DEFINE x == c.tw[i]
           y == c.tw[i + 1]
           d == c.h[i] - c.h[i + 1]
           span == CrossingSpan(c, i)
<1>1. i \in 1..Len(c.tw) /\ i + 1 \in 1..Len(c.tw)
  BY Columned
<1>2. x \in Int /\ y \in Int /\ c.h[i] \in Int /\ c.h[i + 1] \in Int /\ EnergyUnit \in Int
  BY <1>1, Columned, UnitsAssumption
<1>3. d \in Int /\ Thickness(c, i) = d
  BY <1>2 DEF Thickness
<1>4. span = Magnitude(x) + Magnitude(y)
  BY DEF CrossingSpan
<1>5. /\ LayerEnergy(c, i) = EnergyUnit * span * d
      /\ UpperEnergy(c, i) = (EnergyUnit * x * x * d) \div span
      /\ LowerEnergy(c, i) = (EnergyUnit * y * y * d) \div span
  BY <1>3 DEF LayerEnergy, UpperEnergy, LowerEnergy
<1> HIDE DEF x, y, d, span
<1>6. span \in Int
  BY <1>2, <1>4 DEF Magnitude
<1>7. EnergyUnit * span * d \in Int /\ EnergyUnit * x * x * d \in Int /\ EnergyUnit * y * y * d \in Int
  BY <1>2, <1>3, <1>6
<1> DEFINE u == EnergyUnit * x * x * d
           l == EnergyUnit * y * y * d
<1>8. u \in Int /\ l \in Int /\ UpperEnergy(c, i) = u \div span /\ LowerEnergy(c, i) = l \div span
  BY <1>5, <1>7
<1> HIDE DEF u, l
<1>9. span \in Nat \ {0} => u \div span \in Int /\ l \div span \in Int
  BY <1>8
<1>10. QED
  BY <1>5, <1>7, <1>8, <1>9 DEF span

\* The state of the pass that has reached level m.
Summed(s, acc, m) ==
  /\ acc = [sign |-> s[m], segment |-> acc.segment, keep |-> acc.keep,
            areas |-> acc.areas, melting |-> acc.melting]
  /\ s[m] \in {-1, 0, 1} /\ acc.segment \in Int /\ acc.melting \in Int /\ Alternating(acc.areas)

LEMMA AppendAlternates ==
  ASSUME NEW a, Alternating(a), NEW e \in Int
  PROVE  Alternating(IconAppend(a, e))
<1>1. SmallArea \in Int /\ Magnitude(e) \in Int
  BY UnitProducts DEF Magnitude
<1>2. CASE Magnitude(e) < SmallArea
  BY <1>2 DEF IconAppend
<1>3. CASE ~(Magnitude(e) < SmallArea)
  <2>1. Magnitude(e) >= SmallArea
    BY <1>1, <1>3
  <2>2. IconAppend(a, e) = Merge(a, e)
    BY <1>3 DEF IconAppend
  <2>3. QED
    BY <2>1, <2>2, MergeAlternates
<1>4. QED
  BY <1>2, <1>3

LEMMA EnergyKeeps ==
  ASSUME NEW c, Prepared(c), NEW acc, NEW i \in ProfileStart(c)..(Len(c.tw) - 1),
         Summed(IconSignsNumba(c), acc, i)
  PROVE  Summed(IconSignsNumba(c), EnergyStep(c, IconSignsNumba(c), acc, i), i + 1)
<1> DEFINE n == Len(c.tw)
           s == IconSignsNumba(c)
           upper == UpperEnergy(c, i)
           lower == LowerEnergy(c, i)
           layer == LayerEnergy(c, i)
           b == IF acc.keep THEN IconAppend(acc.areas, acc.segment + acc.sign * upper) ELSE acc.areas
<1>1. i \in 1..(n - 1) /\ i \in 1..n /\ i + 1 \in 1..n
  BY StartIsLevel, Columned
<1>2. s[i] \in {-1, 0, 1} /\ s[i + 1] \in {-1, 0, 1}
  <2>1. s \in [1..n -> {-1, 0, 1}]
    BY SignsAreFilled DEF Filled
  <2> HIDE DEF s, n
  <2>2. QED
    BY <1>1, <2>1
<1>3. layer \in Int
  BY <1>1, LayerTyped
<1>4. s[i] # s[i + 1] => upper \in Int /\ lower \in Int
  BY <1>1, LayerTyped, SignsChange
<1> HIDE DEF n, s, upper, lower, layer
<1>5. /\ acc.sign = s[i] /\ acc.segment \in Int /\ acc.melting \in Int /\ Alternating(acc.areas)
  BY DEF Summed, s
<1>6. CASE s[i + 1] = acc.sign
  <2> DEFINE next == [sign |-> acc.sign, segment |-> acc.segment + acc.sign * layer, keep |-> acc.keep,
                      areas |-> acc.areas,
                      melting |-> acc.melting + (IF acc.sign > 0 THEN layer ELSE 0)]
  <2>1. EnergyStep(c, s, acc, i)
          = [acc EXCEPT !.segment = @ + acc.sign * layer, !.melting = @ + (IF acc.sign > 0 THEN layer ELSE 0)]
    BY <1>6 DEF EnergyStep, layer
  <2>2. acc = [sign |-> s[i], segment |-> acc.segment, keep |-> acc.keep,
               areas |-> acc.areas, melting |-> acc.melting]
    BY DEF Summed, s
  <2>3. EnergyStep(c, s, acc, i) = next
    BY <1>5, <2>1, <2>2
  <2>4. acc.segment + acc.sign * layer \in Int /\ acc.melting + (IF acc.sign > 0 THEN layer ELSE 0) \in Int
    BY <1>2, <1>3, <1>5
  <2>5. Summed(s, next, i + 1)
    BY <1>2, <1>5, <1>6, <2>4 DEF Summed
  <2> HIDE DEF next
  <2>6. QED
    BY <2>3, <2>5 DEF s
<1>7. CASE s[i + 1] # acc.sign
  <2> DEFINE melting == acc.melting + (IF acc.sign > 0 THEN upper ELSE 0) + (IF s[i + 1] > 0 THEN lower ELSE 0)
             next == [sign |-> s[i + 1], segment |-> s[i + 1] * lower, keep |-> TRUE,
                      areas |-> b, melting |-> melting]
  <2>1. EnergyStep(c, s, acc, i) = next
    BY <1>7 DEF EnergyStep, upper, lower
  <2>2. upper \in Int /\ lower \in Int
    BY <1>4, <1>5, <1>7
  <2>3. s[i + 1] * lower \in Int /\ acc.segment + acc.sign * upper \in Int /\ melting \in Int
    <3>1. s[i + 1] * lower \in Int
      BY <1>2, <2>2
    <3>2. acc.sign * upper \in Int
      BY <1>2, <1>5, <2>2
    <3> DEFINE first == IF acc.sign > 0 THEN upper ELSE 0
               then == IF s[i + 1] > 0 THEN lower ELSE 0
    <3>3. first \in Int /\ then \in Int
      BY <2>2
    <3>4. melting = acc.melting + first + then
      OBVIOUS
    <3> HIDE DEF first, then, melting
    <3>5. acc.segment + acc.sign * upper \in Int /\ melting \in Int
      BY <1>5, <3>2, <3>3, <3>4
    <3>6. QED
      BY <3>1, <3>5 DEF melting
  <2>4. Alternating(b)
    <3> DEFINE e == acc.segment + acc.sign * upper
    <3>1. e \in Int
      BY <2>3
    <3> HIDE DEF e
    <3>2. Alternating(IconAppend(acc.areas, e))
      BY <1>5, <3>1, AppendAlternates
    <3>3. QED
      BY <1>5, <3>2 DEF e
  <2> HIDE DEF b, melting
  <2>5. Summed(s, next, i + 1)
    BY <1>2, <2>3, <2>4 DEF Summed
  <2> HIDE DEF next
  <2>6. QED
    BY <2>1, <2>5 DEF s
<1>8. QED
  BY <1>6, <1>7

LEMMA LoopSums ==
  ASSUME NEW c, Prepared(c), NEW s, s = IconSignsNumba(c), NEW base, Summed(s, base, ProfileStart(c)),
         NEW size \in Nat, size = Len(c.tw) - ProfileStart(c), NEW seq, DOMAIN seq = 1..size,
         \A k \in 1..size : seq[k] = ProfileStart(c) + k - 1
  PROVE  Summed(s, EnergyLoop(c, s, base, seq), Len(c.tw))
<1> DEFINE start == ProfileStart(c)
           n == Len(c.tw)
<1>1. n \in Nat /\ start \in 1..n /\ start + size = n
  BY StartIsLevel, Columned
<1> DEFINE r == EnergyStates(c, s, base, seq, size)
<1>2. /\ r[0] = base
      /\ r[size] = EnergyLoop(c, s, base, seq)
      /\ \A k \in 1..size : r[k] = EnergyStep(c, s, r[k - 1], seq[k])
  <2>1. EnergyRun(c, s, base, seq, size)
    BY EnergyFold
  <2>2. QED
    BY <2>1 DEF EnergyRun
<1> HIDE DEF r
<1> DEFINE S == {k \in Nat : k <= size => Summed(s, r[k], start + k)}
<1>3. 0 \in S
  BY <1>1, <1>2
<1>4. ASSUME NEW k \in Nat, k \in S
      PROVE  k + 1 \in S
  <2> SUFFICES ASSUME k + 1 <= size PROVE Summed(s, r[k + 1], start + (k + 1))
    OBVIOUS
  <2> DEFINE i == start + k
  <2>1. /\ k + 1 \in 1..size /\ (k + 1) - 1 = k /\ Summed(s, r[k], i) /\ i + 1 = start + (k + 1)
        /\ i \in start..(n - 1) /\ start + (k + 1) - 1 = i
    <3>1. Summed(s, r[k], i)
      BY <1>4
    <3> HIDE DEF n, start
    <3>2. start \in Nat /\ n \in Nat
      BY <1>1
    <3>3. QED
      BY <1>1, <3>1, <3>2
  <2>2. seq[k + 1] = i
    BY <2>1
  <2> HIDE DEF i, n, start
  <2>3. r[k + 1] = EnergyStep(c, s, r[k], i)
    BY <1>2, <2>1, <2>2
  <2>4. Summed(s, EnergyStep(c, s, r[k], i), i + 1)
    BY <2>1, EnergyKeeps DEF n, start
  <2>5. QED
    BY <2>1, <2>3, <2>4
<1> HIDE DEF S
<1>5. size \in S
  BY <1>3, <1>4, NatSetInduction
<1>6. QED
  BY <1>1, <1>2, <1>5 DEF S

LEMMA IconEnergiesAlternate ==
  ASSUME NEW c, Prepared(c)
  PROVE  LET e == IconEnergiesNumba(c)
         IN  /\ Alternating(e.surfaceUp) /\ Len(e.surfaceUp) <= AreaLimit(c)
             /\ Len(e.surfaceUp) \in Nat /\ e.surfaceUp \in Seq(Int) /\ e.melting \in Int
<1> DEFINE s == IconSignsNumba(c)
           n == Len(c.tw)
           start == ProfileStart(c)
           size == n - start
           base == [sign |-> s[start], segment |-> 0, keep |-> FALSE, areas |-> <<>>, melting |-> 0]
           seq == [k \in 1..size |-> start + k - 1]
           last == EnergyLoop(c, s, base, seq)
           areas == IF last.keep THEN IconAppend(last.areas, last.segment) ELSE last.areas
<1>1. IconEnergiesNumba(c) = [surfaceUp |-> LowestNumba(c, areas), melting |-> last.melting]
  BY DEF IconEnergiesNumba, EnergyLoop
<1>2. start \in 1..n /\ size \in Nat
  BY StartIsLevel, Columned
<1>3. s[start] \in {-1, 0, 1}
  <2>1. s \in [1..n -> {-1, 0, 1}]
    BY SignsAreFilled DEF Filled
  <2> HIDE DEF s, n, start
  <2>2. QED
    BY <1>2, <2>1
<1>4. Summed(s, base, start)
  <2> HIDE DEF s
  <2>1. QED
    BY <1>3, EmptyAlternates DEF Summed
<1>5. DOMAIN seq = 1..size /\ \A k \in 1..size : seq[k] = start + k - 1
  OBVIOUS
<1>6. size = Len(c.tw) - ProfileStart(c) /\ s = IconSignsNumba(c) /\ n = Len(c.tw) /\ start = ProfileStart(c)
  OBVIOUS
<1> HIDE DEF seq, base, size, start, s, n
<1>7. Summed(s, last, n)
  BY <1>2, <1>4, <1>5, <1>6, LoopSums
<1> HIDE DEF last
<1>8. Alternating(areas) /\ last.melting \in Int
  BY <1>7, AppendAlternates DEF Summed
<1> HIDE DEF areas
<1>9. QED
  BY <1>1, <1>8, LowestAlternates

-----------------------------------------------------------------------------
(* The code of a result is that of a type with a positive probability.     *)

CodeOfScan(p, acc) ==
  /\ acc.highest \in Percent
  /\ \E type \in ToSet(Types) : acc.code = CodeOf[type] /\ p[type] = acc.highest

LEMMA ScanKeepsCode ==
  ASSUME NEW p \in Probabilities, NEW acc, CodeOfScan(p, acc), NEW type \in ToSet(Types)
  PROVE  /\ CodeOfScan(p, CodeStep(p, acc, type))
         /\ CodeStep(p, acc, type).highest >= acc.highest
         /\ CodeStep(p, acc, type).highest >= p[type]
<1>1. p[type] \in Percent /\ acc.highest \in Percent
  BY DEF Probabilities, CodeOfScan
<1>2. CASE p[type] > acc.highest
  <2>1. CodeStep(p, acc, type) = [highest |-> p[type], code |-> CodeOf[type]]
    BY <1>2 DEF CodeStep
  <2>2. QED
    BY <1>1, <1>2, <2>1 DEF CodeOfScan, Percent
<1>3. CASE ~(p[type] > acc.highest)
  BY <1>1, <1>3 DEF CodeStep, Percent
<1>4. QED
  BY <1>2, <1>3

\* The scan of the six types, one after the other.
LEMMA CodeScans ==
  ASSUME NEW p
  PROVE  \E r : /\ r[0] = [highest |-> p.freezing_rain, code |-> 3]
                /\ r[1] = CodeStep(p, r[0], "freezing_rain_on_ground")
                /\ r[2] = CodeStep(p, r[1], "ice_pellets")
                /\ r[3] = CodeStep(p, r[2], "freezing_drizzle")
                /\ r[4] = CodeStep(p, r[3], "snow")
                /\ r[5] = CodeStep(p, r[4], "rain")
                /\ CodeNumba(p) = IF r[5].highest <= 0 THEN NoPrecip ELSE r[5].code
<1> DEFINE base == [highest |-> p.freezing_rain, code |-> 3]
           seq == Tail(Types)
           last == CodeLoop(p, base, seq)
<1>1. CodeNumba(p) = IF last.highest <= 0 THEN NoPrecip ELSE last.code
  BY DEF CodeNumba, CodeLoop, CodeStep
<1>2. /\ DOMAIN seq = 1..5 /\ seq[1] = "freezing_rain_on_ground" /\ seq[2] = "ice_pellets"
      /\ seq[3] = "freezing_drizzle" /\ seq[4] = "snow" /\ seq[5] = "rain"
  BY DEF Types
<1> DEFINE r == CodeStates(p, base, seq, 5)
<1>3. /\ r[0] = base
      /\ r[5] = last
      /\ \A k \in 1..5 : r[k] = CodeStep(p, r[k - 1], seq[k])
  <2> HIDE DEF base, seq
  <2>1. 5 \in Nat /\ DOMAIN seq = 1..5
    BY <1>2
  <2>2. CodeRun(p, base, seq, 5)
    BY <2>1, CodeFold
  <2>3. QED
    BY <2>2 DEF CodeRun
<1> HIDE DEF base, seq, last, r
<1>4. 1 \in 1..5 /\ 2 \in 1..5 /\ 3 \in 1..5 /\ 4 \in 1..5 /\ 5 \in 1..5
  OBVIOUS
<1>5. 1 - 1 = 0 /\ 2 - 1 = 1 /\ 3 - 1 = 2 /\ 4 - 1 = 3 /\ 5 - 1 = 4
  OBVIOUS
<1>6. r[1] = CodeStep(p, r[1 - 1], seq[1]) /\ r[2] = CodeStep(p, r[2 - 1], seq[2])
      /\ r[3] = CodeStep(p, r[3 - 1], seq[3]) /\ r[4] = CodeStep(p, r[4 - 1], seq[4])
      /\ r[5] = CodeStep(p, r[5 - 1], seq[5])
  BY <1>3, <1>4
<1>7. /\ r[1] = CodeStep(p, r[0], "freezing_rain_on_ground") /\ r[2] = CodeStep(p, r[1], "ice_pellets")
      /\ r[3] = CodeStep(p, r[2], "freezing_drizzle") /\ r[4] = CodeStep(p, r[3], "snow")
      /\ r[5] = CodeStep(p, r[4], "rain")
  BY <1>2, <1>5, <1>6
<1>8. r[0] = [highest |-> p.freezing_rain, code |-> 3]
  BY <1>3 DEF base
<1>9. CodeNumba(p) = IF r[5].highest <= 0 THEN NoPrecip ELSE r[5].code
  BY <1>1, <1>3
<1>10. QED
  BY <1>7, <1>8, <1>9

LEMMA CodeIsOfType ==
  ASSUME NEW p \in Probabilities
  PROVE  /\ CodeNumba(p) # NoPrecip => \E type \in ToSet(Types) : CodeNumba(p) = CodeOf[type] /\ p[type] > 0
         /\ CodeNumba(p) = NoPrecip => \A type \in ToSet(Types) : p[type] = 0
<1>5. PICK r : /\ r[0] = [highest |-> p.freezing_rain, code |-> 3]
               /\ r[1] = CodeStep(p, r[0], "freezing_rain_on_ground")
               /\ r[2] = CodeStep(p, r[1], "ice_pellets")
               /\ r[3] = CodeStep(p, r[2], "freezing_drizzle")
               /\ r[4] = CodeStep(p, r[3], "snow")
               /\ r[5] = CodeStep(p, r[4], "rain")
               /\ CodeNumba(p) = IF r[5].highest <= 0 THEN NoPrecip ELSE r[5].code
  BY CodeScans
<1> DEFINE last == r[5]
<1>1. CodeNumba(p) = IF last.highest <= 0 THEN NoPrecip ELSE last.code
  BY <1>5
<1>4. CodeOfScan(p, r[0]) /\ r[0].highest = p["freezing_rain"]
  BY <1>5, TypesAre DEF CodeOfScan, CodeOf, Probabilities
<1>6. CodeOfScan(p, r[0]) /\ r[0].highest = p["freezing_rain"]
  BY <1>4
<1>7. CodeOfScan(p, r[1]) /\ r[1].highest >= r[0].highest /\ r[1].highest >= p["freezing_rain_on_ground"]
  BY <1>5, <1>6, ScanKeepsCode, TypesAre
<1>8. CodeOfScan(p, r[2]) /\ r[2].highest >= r[1].highest /\ r[2].highest >= p["ice_pellets"]
  BY <1>5, <1>7, ScanKeepsCode, TypesAre
<1>9. CodeOfScan(p, r[3]) /\ r[3].highest >= r[2].highest /\ r[3].highest >= p["freezing_drizzle"]
  BY <1>5, <1>8, ScanKeepsCode, TypesAre
<1>10. CodeOfScan(p, r[4]) /\ r[4].highest >= r[3].highest /\ r[4].highest >= p["snow"]
  BY <1>5, <1>9, ScanKeepsCode, TypesAre
<1>11. CodeOfScan(p, r[5]) /\ r[5].highest >= r[4].highest /\ r[5].highest >= p["rain"]
  BY <1>5, <1>10, ScanKeepsCode, TypesAre
<1>12. ASSUME NEW type \in ToSet(Types)
       PROVE  p[type] \in Percent /\ last.highest >= p[type]
  <2>1. /\ r[0].highest \in Int /\ r[1].highest \in Int /\ r[2].highest \in Int
        /\ r[3].highest \in Int /\ r[4].highest \in Int /\ r[5].highest \in Int
    BY <1>6, <1>7, <1>8, <1>9, <1>10, <1>11 DEF CodeOfScan, Percent
  <2>2. p[type] \in Percent
    BY DEF Probabilities
  <2>3. \/ type = "freezing_rain" \/ type = "freezing_rain_on_ground" \/ type = "ice_pellets"
        \/ type = "freezing_drizzle" \/ type = "snow" \/ type = "rain"
    BY TypesAre
  <2>4. p[type] \in Int
    BY <2>2 DEF Percent
  <2>5. r[5].highest >= p[type]
    BY <1>6, <1>7, <1>8, <1>9, <1>10, <1>11, <2>1, <2>3, <2>4
  <2>6. QED
    BY <2>2, <2>5
<1>13. CodeOfScan(p, last)
  BY <1>11
<1> HIDE DEF last
<1>14. \A type \in ToSet(Types) : CodeOf[type] # NoPrecip
  BY TypesAre DEF CodeOf, NoPrecip
<1>15. CASE last.highest <= 0
  <2>1. \A type \in ToSet(Types) : p[type] = 0
    BY <1>12, <1>13, <1>15 DEF Percent, CodeOfScan
  <2>2. QED
    BY <1>1, <1>15, <2>1
<1>16. CASE ~(last.highest <= 0)
  <2>1. CodeNumba(p) = last.code
    BY <1>1, <1>16
  <2>2. PICK type \in ToSet(Types) : last.code = CodeOf[type] /\ p[type] = last.highest
    BY <1>13 DEF CodeOfScan
  <2>3. p[type] > 0
    BY <1>13, <1>16, <2>2 DEF CodeOfScan, Percent
  <2>4. QED
    BY <1>14, <2>1, <2>2, <2>3
<1>17. QED
  BY <1>15, <1>16

\* A code says which type is probable, and which types are not is enough to exclude it.
LEMMA CodeSays ==
  ASSUME NEW p \in Probabilities
  PROVE  /\ \A type \in ToSet(Types) : CodeNumba(p) = CodeOf[type] => p[type] > 0
         /\ (\E type \in ToSet(Types) : p[type] > 0) => CodeNumba(p) # NoPrecip
<1>1. \A a, b \in ToSet(Types) : CodeOf[a] = CodeOf[b] => a = b
  BY TypesAre DEF CodeOf
<1>2. \A type \in ToSet(Types) : CodeOf[type] # NoPrecip
  BY TypesAre DEF CodeOf, NoPrecip
<1>3. QED
  BY <1>1, <1>2, CodeIsOfType

-----------------------------------------------------------------------------
(* Layers: what matters is that their temperatures are some level's.       *)

LEMMA Moisture ==
  ASSUME NEW c, Prepared(c), NEW i \in 1..Len(c.tw)
  PROVE  c.moist[i] \in BOOLEAN
<1> DEFINE n == Len(c.tw)
<1>1. c.moist \in [1..n -> BOOLEAN]
  BY DEF Prepared
<1> HIDE DEF n
<1>2. QED
  BY <1>1 DEF n

LEMMA HalfLevels ==
  ASSUME NEW c, Prepared(c), NEW i \in 1..(Len(c.tw) + 1)
  PROVE  c.hh[i] \in Int
<1> DEFINE n == Len(c.tw)
<1>1. c.hh \in [1..(n + 1) -> Int]
  BY DEF Prepared
<1> HIDE DEF n
<1>2. QED
  BY <1>1 DEF n

LayerRecord == [moist : BOOLEAN, start : Int, low : Int, high : Int, coldest : Int]

LEMMA JoinedLength ==
  ASSUME NEW R, NEW f \in Seq(R), NEW z \in Seq(R)
  PROVE  Len(f \o z) = Len(f) + Len(z)
OBVIOUS

LEMMA TwoAdded ==
  ASSUME NEW R, NEW f \in Seq(R), NEW z \in Seq(R), Len(z) = 2
  PROVE  f \o z \in Seq(R) /\ f \o z # <<>>
<1>1. Len(f \o z) = Len(f) + Len(z)
  BY JoinedLength
<1>2. QED
  BY <1>1

\* Replacing the last element of a list, and adding one, two.
LEMMA LastReplaced ==
  ASSUME NEW R, NEW a \in Seq(R), a # <<>>, NEW x \in R, NEW y \in R
  PROVE  /\ Last(a) \in R /\ Front(a) \in Seq(R)
         /\ Append(Front(a), x) \in Seq(R) /\ Append(Front(a), x) # <<>>
         /\ Append(a, x) \in Seq(R) /\ Append(a, x) # <<>>
         /\ Front(a) \o <<x, y>> \in Seq(R) /\ Front(a) \o <<x, y>> # <<>>
<1>1. Len(a) \in Nat \ {0} /\ \A k \in 1..Len(a) : a[k] \in R
  BY EmptySeq
<1>2. Last(a) \in R
  BY <1>1 DEF Last
<1>3. Front(a) \in Seq(R)
  BY <1>1 DEF Front
<1>4. <<x, y>> \in Seq(R) /\ Len(<<x, y>>) = 2
  OBVIOUS
<1> DEFINE f == Front(a)
           z == <<x, y>>
<1> HIDE DEF f, z
<1>5. f \in Seq(R) /\ z \in Seq(R) /\ Len(z) = 2
  BY <1>3, <1>4 DEF f, z
<1>6. Append(f, x) \in Seq(R) /\ Append(f, x) # <<>>
  BY <1>5
<1>7. f \o z \in Seq(R) /\ f \o z # <<>>
  BY <1>5, TwoAdded
<1>9. Append(a, x) \in Seq(R) /\ Append(a, x) # <<>>
  OBVIOUS
<1>10. QED
  BY <1>2, <1>5, <1>6, <1>7, <1>9 DEF f, z

LEMMA LayersKept ==
  ASSUME NEW c, Prepared(c), NEW acc \in Seq(LayerRecord), acc # <<>>, NEW i \in 1..Len(c.tw)
  PROVE  LayerStep(c, acc, i) \in Seq(LayerRecord) /\ LayerStep(c, acc, i) # <<>>
<1> DEFINE l == Last(acc)
           x == [l EXCEPT !.low = Min({@, c.h[i]}), !.high = Max({@, c.h[i]}), !.coldest = Min({@, c.t[i]})]
           y == NewLayer(c, i)
<1>1. c.h[i] \in Int /\ c.t[i] \in Int /\ c.moist[i] \in BOOLEAN /\ i \in Int
  BY Columned, Moisture
<1>2. y \in LayerRecord
  BY <1>1 DEF NewLayer, LayerRecord
<1>3. l \in LayerRecord
  <2> HIDE DEF x, y, l
  <2>1. QED
    BY <1>2, LastReplaced DEF l
<1>4. LayerStep(c, acc, i) = Append(Front(acc), x) \/ LayerStep(c, acc, i) = Append(acc, y)
  BY DEF LayerStep
<1> HIDE DEF l, y
<1>5. x \in LayerRecord
  <2>1. l.low \in Int /\ l.high \in Int /\ l.coldest \in Int
    BY <1>3 DEF LayerRecord
  <2>2. Min({l.low, c.h[i]}) \in Int /\ Max({l.high, c.h[i]}) \in Int /\ Min({l.coldest, c.t[i]}) \in Int
    <3>1. \A a, b \in Int : Min({a, b}) \in Int /\ Max({a, b}) \in Int
      BY OfTwo
    <3>2. QED
      BY <1>1, <2>1, <3>1
  <2> DEFINE u == Min({l.low, c.h[i]})
             v == Max({l.high, c.h[i]})
             w == Min({l.coldest, c.t[i]})
  <2>3. x = [l EXCEPT !.low = u, !.high = v, !.coldest = w]
    OBVIOUS
  <2>4. u \in Int /\ v \in Int /\ w \in Int
    BY <2>2
  <2> HIDE DEF x, u, v, w
  <2>5. QED
    BY <1>3, <2>3, <2>4 DEF LayerRecord
<1> HIDE DEF x
<1>6. QED
  BY <1>2, <1>4, <1>5, LastReplaced

Cooled(layers, n) ==
  n \in Nat \ {0} /\ DOMAIN layers = 1..n /\ \A k \in 1..n : layers[k].coldest \in Int

LEMMA LayersAreCooled ==
  ASSUME NEW c, Prepared(c)
  PROVE  \E n : Cooled(LayersNumba(c), n)
<1> DEFINE size == Len(c.tw) - 1
           levels == [i \in LevelsOf(c) |-> i]
           seq == Tail(levels)
           base == <<NewLayer(c, 1)>>
           all == LayerLoop(c, base, seq)
<1>1. LayersNumba(c) = [k \in DOMAIN all |->
         [moist |-> all[k].moist, start |-> all[k].start,
          depth |-> all[k].high - all[k].low, coldest |-> all[k].coldest]]
  BY DEF LayersNumba, LayerLoop, LayerStep
<1>2. Len(c.tw) \in Nat \ {0} /\ LevelsOf(c) = 1..Len(c.tw) /\ 1 \in 1..Len(c.tw)
  BY Columned
<1>3. size \in Nat /\ DOMAIN seq = 1..size /\ \A k \in 1..size : seq[k] = k + 1 /\ k + 1 \in 1..Len(c.tw)
  <2> DEFINE n == Len(c.tw)
  <2>1. levels = [i \in 1..n |-> i] /\ n \in Nat \ {0} /\ size = n - 1
    BY <1>2
  <2> HIDE DEF n, levels, size
  <2>2. levels \in Seq(Int) /\ Len(levels) = n /\ levels # <<>> /\ \A k \in 1..n : levels[k] = k
    BY <2>1
  <2>3. Len(Tail(levels)) = n - 1 /\ Tail(levels) \in Seq(Int)
        /\ \A k \in 1..(n - 1) : Tail(levels)[k] = levels[k + 1]
    BY <2>1, <2>2
  <2>4. \A k \in 1..size : k + 1 \in 1..n
    BY <2>1
  <2>5. QED
    BY <2>1, <2>2, <2>3, <2>4 DEF n
<1>4. base \in Seq(LayerRecord) /\ base # <<>>
  <2>1. c.h[1] \in Int /\ c.t[1] \in Int /\ c.moist[1] \in BOOLEAN
    BY <1>2, Columned, Moisture
  <2>2. NewLayer(c, 1) \in LayerRecord
    BY <2>1 DEF NewLayer, LayerRecord
  <2>3. QED
    BY <2>2
<1> HIDE DEF base, seq, size
<1> DEFINE r == LayerStates(c, base, seq, size)
<1>5. /\ r[0] = base
      /\ r[size] = LayerLoop(c, base, seq)
      /\ \A k \in 1..size : r[k] = LayerStep(c, r[k - 1], seq[k])
  <2>1. LayerRun(c, base, seq, size)
    BY <1>3, LayerFold
  <2>2. QED
    BY <2>1 DEF LayerRun
<1> HIDE DEF r
<1> DEFINE S == {k \in Nat : k <= size => r[k] \in Seq(LayerRecord) /\ r[k] # <<>>}
<1>6. 0 \in S
  BY <1>4, <1>5
<1>7. ASSUME NEW k \in Nat, k \in S
      PROVE  k + 1 \in S
  <2> SUFFICES ASSUME k + 1 <= size PROVE r[k + 1] \in Seq(LayerRecord) /\ r[k + 1] # <<>>
    OBVIOUS
  <2>1. k + 1 \in 1..size /\ (k + 1) - 1 = k /\ r[k] \in Seq(LayerRecord) /\ r[k] # <<>>
    BY <1>3, <1>7
  <2>2. r[k + 1] = LayerStep(c, r[k], seq[k + 1]) /\ seq[k + 1] \in 1..Len(c.tw)
    BY <1>3, <1>5, <2>1
  <2>3. QED
    BY <2>1, <2>2, LayersKept
<1> HIDE DEF S
<1>8. size \in S
  BY <1>3, <1>6, <1>7, NatSetInduction
<1>9. all \in Seq(LayerRecord) /\ all # <<>>
  BY <1>3, <1>5, <1>8 DEF S
<1> HIDE DEF all
<1> DEFINE n == Len(all)
<1>10. n \in Nat \ {0} /\ DOMAIN all = 1..n /\ \A k \in 1..n : all[k] \in LayerRecord
  BY <1>9, EmptySeq
<1> HIDE DEF n
<1>11. \A k \in 1..n : all[k].coldest \in Int
  BY <1>10 DEF LayerRecord
<1>12. Cooled(LayersNumba(c), n)
  BY <1>1, <1>10, <1>11 DEF Cooled
<1>13. QED
  BY <1>12

-----------------------------------------------------------------------------
(* The probability of ice, and that the relaxed mode always has one.       *)

IconLayerRecord(n) == [moist : BOOLEAN, start : 1..n, depth : Int, coldest : Int]

LEMMA IconLayersKept ==
  ASSUME NEW c, Prepared(c), NEW acc \in Seq(IconLayerRecord(Len(c.tw))), acc # <<>>, NEW i \in 1..Len(c.tw)
  PROVE  /\ IconLayerStep(c, acc, i) \in Seq(IconLayerRecord(Len(c.tw)))
         /\ IconLayerStep(c, acc, i) # <<>>
<1> DEFINE n == Len(c.tw)
           l == Last(acc)
           low == Min({l.coldest, c.t[i]})
           x == [l EXCEPT !.coldest = Min({@, c.t[i]})]
           y == IconNew(c, i)
           z == IconClose(c, l, i)
           R == IconLayerRecord(n)
<1>1. c.t[i] \in Int /\ c.moist[i] \in BOOLEAN /\ n \in Nat
  BY Columned, Moisture
<1>2. y \in R
  BY <1>1 DEF IconNew, IconLayerRecord
<1>3. l \in R
  <2> HIDE DEF l, y, R
  <2>1. acc \in Seq(R)
    BY DEF R
  <2>2. QED
    BY <1>2, <2>1, LastReplaced DEF l
<1>4. l.start \in 1..n /\ l.coldest \in Int
  BY <1>3 DEF IconLayerRecord
<1>5. c.hh[l.start] \in Int /\ c.hh[i] \in Int
  <2> HIDE DEF n, l
  <2>1. l.start \in 1..(n + 1) /\ i \in 1..(n + 1)
    BY <1>1, <1>4 DEF n
  <2>2. QED
    BY <2>1, HalfLevels DEF n
<1>6. IconLayerStep(c, acc, i) = Append(Front(acc), x) \/ IconLayerStep(c, acc, i) = Front(acc) \o <<z, y>>
  BY DEF IconLayerStep
<1>7. z = [l EXCEPT !.depth = c.hh[l.start] - c.hh[i]]
  BY DEF IconClose
<1>8. c.hh[l.start] - c.hh[i] \in Int
  BY <1>5
<1>9. low \in Int /\ x = [l EXCEPT !.coldest = low]
  <2>1. \A a, b \in Int : Min({a, b}) \in Int
    BY OfTwo
  <2>2. QED
    BY <1>1, <1>4, <2>1
<1> HIDE DEF l, x, y, z, low, n
<1>10. x \in R /\ z \in R
  BY <1>3, <1>7, <1>8, <1>9 DEF IconLayerRecord
<1>11. acc \in Seq(R)
  BY DEF n
<1> HIDE DEF R
<1>12. IconLayerStep(c, acc, i) \in Seq(R) /\ IconLayerStep(c, acc, i) # <<>>
  <2>1. Append(Front(acc), x) \in Seq(R) /\ Append(Front(acc), x) # <<>>
    BY <1>2, <1>10, <1>11, LastReplaced
  <2>2. Front(acc) \o <<z, y>> \in Seq(R) /\ Front(acc) \o <<z, y>> # <<>>
    BY <1>2, <1>10, <1>11, LastReplaced
  <2>3. QED
    BY <1>6, <2>1, <2>2
<1>13. QED
  BY <1>12 DEF R, n

LEMMA IconLayersAreCooled ==
  ASSUME NEW c, Prepared(c)
  PROVE  \E n : Cooled(IconLayersNumba(c), n)
<1> DEFINE R == IconLayerRecord(Len(c.tw))
           size == Len(c.tw) - ProfileStart(c)
           seq == BelowStart(c)
           base == <<IconNew(c, ProfileStart(c))>>
           all == IconLayerLoop(c, base, seq)
           end == Append(Front(all), IconClose(c, Last(all), Len(c.tw) + 1))
<1>1. IconLayersNumba(c) = end
  BY DEF IconLayersNumba, IconLayerLoop, IconLayerStep, IconNew, IconClose
<1>2. Len(c.tw) \in Nat \ {0} /\ ProfileStart(c) \in 1..Len(c.tw)
  BY Columned, StartIsLevel
<1>3. size \in Nat /\ DOMAIN seq = 1..size /\ \A k \in 1..size : seq[k] \in 1..Len(c.tw)
  <2> DEFINE n == Len(c.tw)
             start == ProfileStart(c)
  <2>1. seq = [k \in 1..size |-> start + k] /\ size = n - start
    BY DEF BelowStart
  <2>2. n \in Nat /\ start \in 1..n
    BY <1>2
  <2> HIDE DEF n, start, size, seq
  <2>3. QED
    BY <2>1, <2>2 DEF n
<1>4. base \in Seq(R) /\ base # <<>>
  <2> DEFINE start == ProfileStart(c)
  <2>1. c.t[start] \in Int /\ c.moist[start] \in BOOLEAN /\ start \in 1..Len(c.tw)
    BY <1>2, Columned, Moisture
  <2>2. IconNew(c, start) \in R
    BY <2>1 DEF IconNew, IconLayerRecord
  <2> HIDE DEF R
  <2>3. QED
    BY <2>2
<1>5. all = IconLayerLoop(c, base, seq) /\ R = IconLayerRecord(Len(c.tw))
  OBVIOUS
<1> HIDE DEF base, seq, size, all, R
<1> DEFINE r == IconLayerStates(c, base, seq, size)
<1>6. /\ r[0] = base
      /\ r[size] = all
      /\ \A k \in 1..size : r[k] = IconLayerStep(c, r[k - 1], seq[k])
  <2>1. IconLayerRun(c, base, seq, size)
    BY <1>3, <1>5, IconLayerFold
  <2>2. QED
    BY <1>5, <2>1 DEF IconLayerRun
<1> HIDE DEF r
<1> DEFINE S == {k \in Nat : k <= size => r[k] \in Seq(R) /\ r[k] # <<>>}
<1>7. 0 \in S
  BY <1>4, <1>6
<1>8. ASSUME NEW k \in Nat, k \in S
      PROVE  k + 1 \in S
  <2> SUFFICES ASSUME k + 1 <= size PROVE r[k + 1] \in Seq(R) /\ r[k + 1] # <<>>
    OBVIOUS
  <2>1. k + 1 \in 1..size /\ (k + 1) - 1 = k /\ r[k] \in Seq(R) /\ r[k] # <<>>
    BY <1>3, <1>8
  <2>2. r[k + 1] = IconLayerStep(c, r[k], seq[k + 1]) /\ seq[k + 1] \in 1..Len(c.tw)
    BY <1>3, <1>6, <2>1
  <2>3. QED
    BY <1>5, <2>1, <2>2, IconLayersKept
<1> HIDE DEF S
<1>9. size \in S
  BY <1>3, <1>7, <1>8, NatSetInduction
<1>10. all \in Seq(R) /\ all # <<>>
  BY <1>3, <1>6, <1>9 DEF S
<1> DEFINE l == Last(all)
           d == c.hh[l.start] - c.hh[Len(c.tw) + 1]
           x == IconClose(c, l, Len(c.tw) + 1)
<1>11. l \in R
  <2>1. IconNew(c, ProfileStart(c)) \in R \/ R # {}
    BY <1>10, EmptySeq DEF Last
  <2>2. QED
    BY <1>10, EmptySeq DEF Last
<1>12. l.start \in 1..Len(c.tw)
  BY <1>11 DEF R, IconLayerRecord
<1> HIDE DEF l
<1>13. d \in Int
  <2>1. l.start \in 1..(Len(c.tw) + 1) /\ Len(c.tw) + 1 \in 1..(Len(c.tw) + 1)
    <3> DEFINE n == Len(c.tw)
    <3>1. n \in Nat /\ l.start \in 1..n
      BY <1>2, <1>12
    <3> HIDE DEF n
    <3>2. l.start \in 1..(n + 1) /\ n + 1 \in 1..(n + 1)
      BY <3>1
    <3>3. QED
      BY <3>2 DEF n
  <2>2. c.hh[l.start] \in Int /\ c.hh[Len(c.tw) + 1] \in Int
    BY <2>1, HalfLevels
  <2>3. QED
    BY <2>2
<1>14. x = [l EXCEPT !.depth = d]
  BY DEF IconClose
<1> HIDE DEF d, x
<1>15. x \in R
  BY <1>11, <1>13, <1>14 DEF R, IconLayerRecord
<1>16. end \in Seq(R) /\ end # <<>>
  BY <1>10, <1>15, LastReplaced DEF x, l
<1> HIDE DEF end
<1> DEFINE m == Len(end)
<1>17. m \in Nat \ {0} /\ DOMAIN end = 1..m /\ \A k \in 1..m : end[k] \in R
  BY <1>16, EmptySeq
<1> HIDE DEF m
<1>18. \A k \in 1..m : end[k].coldest \in Int
  BY <1>17 DEF R, IconLayerRecord
<1>19. Cooled(end, m)
  BY <1>17, <1>18 DEF Cooled
<1>20. QED
  BY <1>1, <1>19

\* What the scan of the layers has found.
Scanned(found) == found.lowest \in Int /\ found.best \in Int /\ (found.valid => found.any)

LEMMA ScanTyped ==
  ASSUME NEW layers, NEW relaxed, NEW n, Cooled(layers, n)
  PROVE  Scanned(LayerScan(layers, relaxed))
<1> DEFINE base == [lowest |-> 0, valid |-> FALSE, best |-> 0, any |-> FALSE]
           end == ScanLoop(layers, relaxed, base, layers)
<1>1. LayerScan(layers, relaxed) = end
  BY DEF LayerScan, ScanLoop, ScanStep, Sublimation
<1>2. end = ScanLoop(layers, relaxed, base, layers) /\ n \in Nat /\ DOMAIN layers = 1..n
  BY DEF Cooled
<1>3. Scanned(base)
  BY DEF Scanned
<1> HIDE DEF base, end
<1> DEFINE r == ScanStates(layers, relaxed, base, layers, n)
<1>4. /\ r[0] = base
      /\ r[n] = end
      /\ \A k \in 1..n : r[k] = ScanStep(layers, relaxed, r[k - 1], layers[k])
  <2>1. ScanRun(layers, relaxed, base, layers, n)
    BY <1>2, ScanFold
  <2>2. QED
    BY <1>2, <2>1 DEF ScanRun
<1> HIDE DEF r
<1> DEFINE S == {k \in Nat : k <= n => Scanned(r[k])}
<1>5. 0 \in S
  BY <1>3, <1>4
<1>6. ASSUME NEW k \in Nat, k \in S
      PROVE  k + 1 \in S
  <2> SUFFICES ASSUME k + 1 <= n PROVE Scanned(r[k + 1])
    OBVIOUS
  <2> DEFINE acc == r[k]
             l == layers[k + 1]
  <2>1. k + 1 \in 1..n /\ (k + 1) - 1 = k /\ Scanned(acc)
    BY <1>2, <1>6
  <2>2. r[k + 1] = ScanStep(layers, relaxed, acc, l)
    BY <1>4, <2>1
  <2>3. l.coldest \in Int
    BY <2>1 DEF Cooled
  <2> HIDE DEF acc, l
  <2> DEFINE next == ScanStep(layers, relaxed, acc, l)
  <2>4. next = acc \/ (next.lowest = l.coldest /\ next.best \in {l.coldest, acc.best} /\ next.any)
    BY DEF ScanStep
  <2> HIDE DEF next
  <2>5. QED
    BY <2>1, <2>2, <2>3, <2>4 DEF next, Scanned
<1> HIDE DEF S
<1>7. n \in S
  BY <1>2, <1>5, <1>6, NatSetInduction
<1>8. QED
  BY <1>1, <1>2, <1>4, <1>7 DEF S

LEMMA IceFromTyped ==
  ASSUME Tables, NEW found, Scanned(found), NEW fallback \in Int, NEW relaxed \in BOOLEAN
  PROVE  /\ IceFrom(found, fallback, relaxed).prob \in Percent
         /\ relaxed => IceFrom(found, fallback, relaxed).found
<1> DEFINE from(t) == [found |-> TRUE, prob |-> ProbIceOf(t)]
           none == [found |-> FALSE, prob |-> 0]
           ice == IceFrom(found, fallback, relaxed)
<1>1. \A t \in Int : from(t).prob \in Percent /\ from(t).found
  BY DEF Tables, TablesOver, Percent
<1>2. none.prob \in Percent
  BY DEF Percent
<1>3. /\ ice \in {from(found.best), from(found.lowest), from(fallback), none}
      /\ relaxed => ice \in {from(found.best), from(found.lowest), from(fallback)}
  <2>1. CASE found.valid
    <3>1. ice = from(found.best)
      BY <2>1 DEF IceFrom, Scanned
    <3>2. QED
      BY <3>1
  <2>2. CASE ~found.valid /\ found.any /\ relaxed
    <3>1. ice = from(found.lowest)
      BY <2>2 DEF IceFrom
    <3>2. QED
      BY <3>1
  <2>3. CASE ~found.valid /\ ~found.any /\ relaxed
    <3>1. ice = from(fallback)
      BY <2>3 DEF IceFrom
    <3>2. QED
      BY <3>1
  <2>4. CASE ~found.valid /\ ~relaxed
    <3>1. ice = none
      BY <2>4 DEF IceFrom
    <3>2. QED
      BY <2>4, <3>1
  <2>5. QED
    BY <2>1, <2>2, <2>3, <2>4
<1> HIDE DEF from, none, ice
<1>4. QED
  BY <1>1, <1>2, <1>3 DEF ice, Scanned

LEMMA IceTypedFirdewsa ==
  ASSUME Tables, NEW c, Prepared(c), NEW relaxed \in BOOLEAN
  PROVE  ProbIceNumba(LayersNumba(c), relaxed).prob \in Percent
<1> DEFINE layers == LayersNumba(c)
           found == LayerScan(layers, relaxed)
<1>1. PICK n : Cooled(layers, n)
  BY LayersAreCooled
<1> HIDE DEF layers
<1>2. layers[1].coldest \in Int
  BY <1>1 DEF Cooled
<1>3. Scanned(found)
  BY <1>1, ScanTyped
<1> HIDE DEF found
<1>4. ProbIceNumba(layers, relaxed) = IceFrom(found, layers[1].coldest, relaxed)
  BY DEF ProbIceNumba, found
<1>5. QED
  BY <1>2, <1>3, <1>4, IceFromTyped DEF layers

\* The coldest of the layers is a temperature.
LEMMA ColdestTyped ==
  ASSUME NEW layers, NEW n, Cooled(layers, n)
  PROVE  Min({l.coldest : l \in ToSet(layers)}) \in Int
<1> DEFINE S == {k \in Nat : k <= n => (k = 0 \/ \E m \in 1..k : \A j \in 1..k : layers[m].coldest <= layers[j].coldest)}
<1>1. n \in Nat \ {0} /\ DOMAIN layers = 1..n /\ \A k \in 1..n : layers[k].coldest \in Int
  BY DEF Cooled
<1>2. 0 \in S
  OBVIOUS
<1>3. ASSUME NEW k \in Nat, k \in S
      PROVE  k + 1 \in S
  <2> SUFFICES ASSUME k + 1 <= n
               PROVE  \E m \in 1..(k + 1) : \A j \in 1..(k + 1) : layers[m].coldest <= layers[j].coldest
    OBVIOUS
  <2>1. CASE k = 0
    <3>1. 1..(k + 1) = {1} /\ layers[1].coldest \in Int
      BY <1>1, <2>1
    <3>2. QED
      BY <3>1
  <2>2. CASE k # 0
    <3>1. PICK m \in 1..k : \A j \in 1..k : layers[m].coldest <= layers[j].coldest
      BY <1>1, <1>3, <2>2
    <3>2. \A j \in 1..(k + 1) : layers[j].coldest \in Int /\ (j = k + 1 \/ j \in 1..k)
      BY <1>1
    <3>3. m \in 1..(k + 1) /\ k + 1 \in 1..(k + 1)
      OBVIOUS
    <3>4. CASE layers[m].coldest <= layers[k + 1].coldest
      BY <3>1, <3>2, <3>3, <3>4
    <3>5. CASE ~(layers[m].coldest <= layers[k + 1].coldest)
      BY <3>1, <3>2, <3>3, <3>5
    <3>6. QED
      BY <3>4, <3>5
  <2>3. QED
    BY <2>1, <2>2
<1> HIDE DEF S
<1>4. n \in S
  BY <1>1, <1>2, <1>3, NatSetInduction
<1>5. PICK m \in 1..n : \A j \in 1..n : layers[m].coldest <= layers[j].coldest
  BY <1>1, <1>4 DEF S
<1> DEFINE T == {l.coldest : l \in ToSet(layers)}
<1>6. T = {layers[k].coldest : k \in 1..n}
  BY <1>1 DEF ToSet
<1>7. T \subseteq Int /\ layers[m].coldest \in T /\ \A x \in T : layers[m].coldest <= x
  BY <1>1, <1>5, <1>6
<1> HIDE DEF T
<1>8. Min(T) = layers[m].coldest
  BY <1>7, MinIs
<1>9. QED
  BY <1>1, <1>8 DEF T

LEMMA IceTypedIcon ==
  ASSUME Tables, NEW c, Prepared(c), NEW relaxed \in BOOLEAN
  PROVE  /\ IconProbIceNumba(IconLayersNumba(c), relaxed).prob \in Percent
         /\ relaxed => IconProbIceNumba(IconLayersNumba(c), relaxed).found
<1> DEFINE layers == IconLayersNumba(c)
           found == LayerScan(layers, relaxed)
           coldest == Min({l.coldest : l \in ToSet(layers)})
<1>1. PICK n : Cooled(layers, n)
  BY IconLayersAreCooled
<1> HIDE DEF layers
<1>2. coldest \in Int
  BY <1>1, ColdestTyped
<1>3. Scanned(found)
  BY <1>1, ScanTyped
<1>4. IconProbIceNumba(layers, relaxed) = IceFrom(found, coldest, relaxed)
  BY DEF IconProbIceNumba
<1> HIDE DEF found, coldest
<1>5. QED
  BY <1>2, <1>3, <1>4, IceFromTyped DEF layers

-----------------------------------------------------------------------------
(* Probabilities that fit the surface.                                     *)

Fitting(c, p) ==
  /\ p \in Probabilities
  /\ Surface(c) > 0 => p["freezing_rain"] = 0 /\ p["freezing_drizzle"] = 0
  /\ Surface(c) < 0 => p["rain"] = 0 /\ p["freezing_rain_on_ground"] = 0
  /\ p["freezing_rain_on_ground"] # 0 => c.frozen

FittingCode(c, code) ==
  /\ Surface(c) > 0 => code \notin {CodeOf.freezing_rain, CodeOf.freezing_drizzle}
  /\ Surface(c) < 0 => code \notin {CodeOf.rain, CodeOf.freezing_rain_on_ground}
  /\ code = CodeOf.freezing_rain_on_ground => c.frozen

\* Nothing, and what the results are written into.
LEMMA NothingIs ==
  /\ Nothing \in Probabilities /\ DOMAIN Nothing = ToSet(Types)
  /\ \A type \in ToSet(Types) : Nothing[type] = 0
BY TypesAre DEF Nothing

\* The shapes of the results, and the probabilities of the six types in them.
DryCold(s, d) == [Nothing EXCEPT !.snow = s, !.freezing_drizzle = d]
DryWarm(s, w) == [Nothing EXCEPT !.snow = s, !.rain = w]
Melted(s, w, g) == [Nothing EXCEPT !.snow = s, !.rain = w, !.freezing_rain_on_ground = g]
Pellets(s, w, i, g) == [Nothing EXCEPT !.snow = s, !.rain = w, !.ice_pellets = i, !.freezing_rain_on_ground = g]
MorePellets(i, s, w, g) == [Nothing EXCEPT !.ice_pellets = i, !.snow = s, !.rain = w, !.freezing_rain_on_ground = g]
Shallow(s, f, i) == [Nothing EXCEPT !.snow = s, !.freezing_rain = f, !.ice_pellets = i]
Refrozen(s, i, f) == [Nothing EXCEPT !.snow = s, !.ice_pellets = i, !.freezing_rain = f]

Result(q, freezingRain, onGround, pellets, drizzle, snow, rain) ==
  /\ q \in Probabilities
  /\ q["freezing_rain"] = freezingRain /\ q["freezing_rain_on_ground"] = onGround
  /\ q["ice_pellets"] = pellets /\ q["freezing_drizzle"] = drizzle
  /\ q["snow"] = snow /\ q["rain"] = rain

LEMMA DryColdIs ==
  ASSUME NEW s \in Percent, NEW d \in Percent
  PROVE  Result(DryCold(s, d), 0, 0, 0, d, s, 0)
<1> DEFINE p == Nothing
           q == [p EXCEPT !.snow = s, !.freezing_drizzle = d]
<1>1. /\ p \in [ToSet(Types) -> Percent] /\ p["freezing_rain"] = 0 /\ p["freezing_rain_on_ground"] = 0
      /\ p["ice_pellets"] = 0 /\ p["freezing_drizzle"] = 0 /\ p["snow"] = 0 /\ p["rain"] = 0
  BY NothingIs, TypesAre DEF Probabilities
<1>2. DryCold(s, d) = q
  BY DEF DryCold
<1> HIDE DEF p
<1>3. q \in [ToSet(Types) -> Percent]
  BY <1>1
<1>4. /\ q["freezing_rain"] = 0 /\ q["freezing_rain_on_ground"] = 0 /\ q["ice_pellets"] = 0
      /\ q["freezing_drizzle"] = d /\ q["snow"] = s /\ q["rain"] = 0
  BY <1>1, TypesAre
<1> HIDE DEF q
<1>5. QED
  BY <1>2, <1>3, <1>4 DEF Result, Probabilities

LEMMA DryWarmIs ==
  ASSUME NEW s \in Percent, NEW w \in Percent
  PROVE  Result(DryWarm(s, w), 0, 0, 0, 0, s, w)
<1> DEFINE p == Nothing
           q == [p EXCEPT !.snow = s, !.rain = w]
<1>1. /\ p \in [ToSet(Types) -> Percent] /\ p["freezing_rain"] = 0 /\ p["freezing_rain_on_ground"] = 0
      /\ p["ice_pellets"] = 0 /\ p["freezing_drizzle"] = 0 /\ p["snow"] = 0 /\ p["rain"] = 0
  BY NothingIs, TypesAre DEF Probabilities
<1>2. DryWarm(s, w) = q
  BY DEF DryWarm
<1> HIDE DEF p
<1>3. q \in [ToSet(Types) -> Percent]
  BY <1>1
<1>4. /\ q["freezing_rain"] = 0 /\ q["freezing_rain_on_ground"] = 0 /\ q["ice_pellets"] = 0
      /\ q["freezing_drizzle"] = 0 /\ q["snow"] = s /\ q["rain"] = w
  BY <1>1, TypesAre
<1> HIDE DEF q
<1>5. QED
  BY <1>2, <1>3, <1>4 DEF Result, Probabilities

LEMMA MeltedIs ==
  ASSUME NEW s \in Percent, NEW w \in Percent, NEW g \in Percent
  PROVE  Result(Melted(s, w, g), 0, g, 0, 0, s, w)
<1> DEFINE p == Nothing
           q == [p EXCEPT !.snow = s, !.rain = w, !.freezing_rain_on_ground = g]
<1>1. /\ p \in [ToSet(Types) -> Percent] /\ p["freezing_rain"] = 0 /\ p["freezing_rain_on_ground"] = 0
      /\ p["ice_pellets"] = 0 /\ p["freezing_drizzle"] = 0 /\ p["snow"] = 0 /\ p["rain"] = 0
  BY NothingIs, TypesAre DEF Probabilities
<1>2. Melted(s, w, g) = q
  BY DEF Melted
<1> HIDE DEF p
<1>3. q \in [ToSet(Types) -> Percent]
  BY <1>1
<1>4. /\ q["freezing_rain"] = 0 /\ q["freezing_rain_on_ground"] = g /\ q["ice_pellets"] = 0
      /\ q["freezing_drizzle"] = 0 /\ q["snow"] = s /\ q["rain"] = w
  BY <1>1, TypesAre
<1> HIDE DEF q
<1>5. QED
  BY <1>2, <1>3, <1>4 DEF Result, Probabilities

LEMMA PelletsIs ==
  ASSUME NEW s \in Percent, NEW w \in Percent, NEW i \in Percent, NEW g \in Percent
  PROVE  Result(Pellets(s, w, i, g), 0, g, i, 0, s, w)
<1> DEFINE p == Nothing
           q == [p EXCEPT !.snow = s, !.rain = w, !.ice_pellets = i, !.freezing_rain_on_ground = g]
<1>1. /\ p \in [ToSet(Types) -> Percent] /\ p["freezing_rain"] = 0 /\ p["freezing_rain_on_ground"] = 0
      /\ p["ice_pellets"] = 0 /\ p["freezing_drizzle"] = 0 /\ p["snow"] = 0 /\ p["rain"] = 0
  BY NothingIs, TypesAre DEF Probabilities
<1>2. Pellets(s, w, i, g) = q
  BY DEF Pellets
<1> HIDE DEF p
<1>3. q \in [ToSet(Types) -> Percent]
  BY <1>1
<1>4. /\ q["freezing_rain"] = 0 /\ q["freezing_rain_on_ground"] = g /\ q["ice_pellets"] = i
      /\ q["freezing_drizzle"] = 0 /\ q["snow"] = s /\ q["rain"] = w
  BY <1>1, TypesAre
<1> HIDE DEF q
<1>5. QED
  BY <1>2, <1>3, <1>4 DEF Result, Probabilities

LEMMA MorePelletsIs ==
  ASSUME NEW i \in Percent, NEW s \in Percent, NEW w \in Percent, NEW g \in Percent
  PROVE  Result(MorePellets(i, s, w, g), 0, g, i, 0, s, w)
<1> DEFINE p == Nothing
           q == [p EXCEPT !.ice_pellets = i, !.snow = s, !.rain = w, !.freezing_rain_on_ground = g]
<1>1. /\ p \in [ToSet(Types) -> Percent] /\ p["freezing_rain"] = 0 /\ p["freezing_rain_on_ground"] = 0
      /\ p["ice_pellets"] = 0 /\ p["freezing_drizzle"] = 0 /\ p["snow"] = 0 /\ p["rain"] = 0
  BY NothingIs, TypesAre DEF Probabilities
<1>2. MorePellets(i, s, w, g) = q
  BY DEF MorePellets
<1> HIDE DEF p
<1>3. q \in [ToSet(Types) -> Percent]
  BY <1>1
<1>4. /\ q["freezing_rain"] = 0 /\ q["freezing_rain_on_ground"] = g /\ q["ice_pellets"] = i
      /\ q["freezing_drizzle"] = 0 /\ q["snow"] = s /\ q["rain"] = w
  BY <1>1, TypesAre
<1> HIDE DEF q
<1>5. QED
  BY <1>2, <1>3, <1>4 DEF Result, Probabilities

LEMMA ShallowIs ==
  ASSUME NEW s \in Percent, NEW f \in Percent, NEW i \in Percent
  PROVE  Result(Shallow(s, f, i), f, 0, i, 0, s, 0)
<1> DEFINE p == Nothing
           q == [p EXCEPT !.snow = s, !.freezing_rain = f, !.ice_pellets = i]
<1>1. /\ p \in [ToSet(Types) -> Percent] /\ p["freezing_rain"] = 0 /\ p["freezing_rain_on_ground"] = 0
      /\ p["ice_pellets"] = 0 /\ p["freezing_drizzle"] = 0 /\ p["snow"] = 0 /\ p["rain"] = 0
  BY NothingIs, TypesAre DEF Probabilities
<1>2. Shallow(s, f, i) = q
  BY DEF Shallow
<1> HIDE DEF p
<1>3. q \in [ToSet(Types) -> Percent]
  BY <1>1
<1>4. /\ q["freezing_rain"] = f /\ q["freezing_rain_on_ground"] = 0 /\ q["ice_pellets"] = i
      /\ q["freezing_drizzle"] = 0 /\ q["snow"] = s /\ q["rain"] = 0
  BY <1>1, TypesAre
<1> HIDE DEF q
<1>5. QED
  BY <1>2, <1>3, <1>4 DEF Result, Probabilities

LEMMA RefrozenIs ==
  ASSUME NEW s \in Percent, NEW i \in Percent, NEW f \in Percent
  PROVE  Result(Refrozen(s, i, f), f, 0, i, 0, s, 0)
<1> DEFINE p == Nothing
           q == [p EXCEPT !.snow = s, !.ice_pellets = i, !.freezing_rain = f]
<1>1. /\ p \in [ToSet(Types) -> Percent] /\ p["freezing_rain"] = 0 /\ p["freezing_rain_on_ground"] = 0
      /\ p["ice_pellets"] = 0 /\ p["freezing_drizzle"] = 0 /\ p["snow"] = 0 /\ p["rain"] = 0
  BY NothingIs, TypesAre DEF Probabilities
<1>2. Refrozen(s, i, f) = q
  BY DEF Refrozen
<1> HIDE DEF p
<1>3. q \in [ToSet(Types) -> Percent]
  BY <1>1
<1>4. /\ q["freezing_rain"] = f /\ q["freezing_rain_on_ground"] = 0 /\ q["ice_pellets"] = i
      /\ q["freezing_drizzle"] = 0 /\ q["snow"] = s /\ q["rain"] = 0
  BY <1>1, TypesAre
<1> HIDE DEF q
<1>5. QED
  BY <1>2, <1>3, <1>4 DEF Result, Probabilities

\* Results that fit whatever the probabilities written are.
LEMMA Warm ==
  ASSUME NEW c, Prepared(c), ~(Surface(c) < 0), NEW g, g # 0 => c.frozen,
         NEW q, NEW i, NEW s, NEW w, Result(q, 0, g, i, 0, s, w)
  PROVE  Fitting(c, q)
BY DEF Fitting, Result

LEMMA Cold ==
  ASSUME NEW c, Prepared(c), NEW f, NEW d, Surface(c) > 0 => f = 0 /\ d = 0,
         NEW q, NEW i, NEW s, Result(q, f, 0, i, d, s, 0)
  PROVE  Fitting(c, q)
BY DEF Fitting, Result

LEMMA NothingFits ==
  ASSUME NEW c
  PROVE  Fitting(c, Nothing)
BY NothingIs, TypesAre DEF Fitting

LEMMA CodeFits ==
  ASSUME NEW c, NEW p, Fitting(c, p), NEW code,
         code \in {CodeNumba(p), IconCodeOf.hail, IconCodeOf.graupel, IconCodeOf.rain_snow_mixed, IconCodeOf.wet_snow}
  PROVE  FittingCode(c, code)
<1> DEFINE Names == {"freezing_rain", "freezing_rain_on_ground", "freezing_drizzle", "rain"}
<1>1. p \in Probabilities
  BY DEF Fitting
<1>2. \A type \in Names : type \in ToSet(Types)
  BY TypesAre
<1>3. \A type \in Names : code = CodeOf[type] => code = CodeNumba(p)
  BY DEF CodeOf, IconCodeOf
<1>4. \A type \in Names : code = CodeOf[type] => p[type] > 0
  BY <1>1, <1>2, <1>3, CodeSays
<1>5. \A type \in Names : p[type] \in Percent
  BY <1>1, <1>2 DEF Probabilities
<1>6. \A type \in Names : code = CodeOf[type] => p[type] # 0
  BY <1>4, <1>5 DEF Percent
<1>7. /\ code = CodeOf.freezing_rain => p["freezing_rain"] # 0
      /\ code = CodeOf.freezing_drizzle => p["freezing_drizzle"] # 0
      /\ code = CodeOf.rain => p["rain"] # 0
      /\ code = CodeOf.freezing_rain_on_ground => p["freezing_rain_on_ground"] # 0
  BY <1>6 DEF CodeOf
<1>8. QED
  BY <1>7 DEF Fitting, FittingCode

-----------------------------------------------------------------------------
(* The results of the Firdewsa areas.                                      *)

LEMMA NoAreasFits ==
  ASSUME NEW c, Prepared(c), NEW prob \in Percent
  PROVE  Fitting(c, NoAreas(prob, c))
<1> DEFINE rest == 100 - prob
           q == NoAreas(prob, c)
<1>1. rest \in Percent /\ Surface(c) \in Int
  BY Columned DEF Percent
<1>2. CASE Surface(c) > 0
  <2>1. q = DryWarm(prob, rest)
    BY <1>2 DEF NoAreas, DryWarm
  <2> HIDE DEF rest, q
  <2>2. Result(q, 0, 0, 0, 0, prob, rest)
    BY <1>1, <2>1, DryWarmIs
  <2>3. ~(Surface(c) < 0)
    BY <1>1, <1>2
  <2>4. QED
    BY <2>2, <2>3, Warm DEF q
<1>3. CASE ~(Surface(c) > 0)
  <2>1. q = DryCold(prob, rest)
    BY <1>3 DEF NoAreas, DryCold
  <2> HIDE DEF rest, q
  <2>2. Result(q, 0, 0, 0, rest, prob, 0)
    BY <1>1, <2>1, DryColdIs
  <2>3. QED
    BY <1>3, <2>2, Cold DEF q
<1>4. QED
  BY <1>2, <1>3

LEMMA SharesTyped ==
  ASSUME Tables, NEW prob \in Percent, NEW r \in Int, NEW m \in Int
  PROVE  /\ Share(prob, SnowIce(m)) \in Percent /\ 100 - Share(prob, SnowIce(m)) \in Percent
         /\ Share(prob, LayeredSnowIce(m)) \in Percent
         /\ Share(prob, PelletIce(r, m)) \in Percent /\ Freezing(prob, r, m) \in Percent
<1>1. /\ SnowIce(m) \in Percent /\ LayeredSnowIce(m) \in Percent
      /\ PelletIce(r, m) \in Percent /\ Freezing(prob, r, m) \in Percent
  BY IceTyped DEF Tables, TablesOver, Percent
<1>2. SnowIce(m) \in Int /\ LayeredSnowIce(m) \in Int /\ PelletIce(r, m) \in Int
  BY <1>1 DEF Percent
<1>3. /\ Share(prob, SnowIce(m)) \in Percent /\ Share(prob, LayeredSnowIce(m)) \in Percent
      /\ Share(prob, PelletIce(r, m)) \in Percent
  BY <1>2, Shared
<1>4. 100 - Share(prob, SnowIce(m)) \in Percent
  BY <1>3 DEF Percent
<1>5. QED
  BY <1>1, <1>3, <1>4

LEMMA OneAreaFits ==
  ASSUME Tables, NEW c, Prepared(c), NEW prob \in Percent, NEW m \in Int
  PROVE  Fitting(c, OneArea(m, prob, c))
<1> DEFINE s == Share(prob, SnowIce(m))
           w == 100 - s
           f == Freezing(prob, ShallowRefreezing, m)
           i == Share(prob, PelletIce(ShallowRefreezing, m))
           g == IF c.frozen THEN w ELSE 0
<1>1. ShallowRefreezing \in Int /\ Surface(c) \in Int
  BY UnitProducts, Columned
<1>2. s \in Percent /\ w \in Percent /\ f \in Percent /\ i \in Percent
  BY <1>1, SharesTyped
<1>3. g \in Percent /\ (g # 0 => c.frozen)
  BY <1>2 DEF Percent
<1> DEFINE q == OneArea(m, prob, c)
<1>4. CASE Surface(c) < 0
  <2>1. q = Shallow(s, f, i)
    BY <1>4 DEF OneArea, Shallow
  <2> HIDE DEF s, w, f, i, g, q
  <2>2. Result(q, f, 0, i, 0, s, 0)
    BY <1>2, <2>1, ShallowIs
  <2>3. ~(Surface(c) > 0)
    BY <1>1, <1>4
  <2>4. QED
    BY <2>2, <2>3, Cold DEF q
<1>5. CASE ~(Surface(c) < 0)
  <2>1. q = Melted(s, w, g)
    BY <1>5 DEF OneArea, Melted
  <2> HIDE DEF s, w, f, i, g, q
  <2>2. Result(q, 0, g, 0, 0, s, w)
    BY <1>2, <1>3, <2>1, MeltedIs
  <2>3. QED
    BY <1>3, <1>5, <2>2, Warm DEF q
<1>6. QED
  BY <1>4, <1>5

LEMMA TwoAreasFit ==
  ASSUME Tables, NEW c, Prepared(c), NEW prob \in Percent, NEW a \in Int, NEW m \in Int
  PROVE  Fitting(c, TwoAreas(a, m, prob, c))
<1> DEFINE r == Magnitude(a)
           s == Share(prob, LayeredSnowIce(m))
           i == Share(prob, PelletIce(r, m))
           f == IF Surface(c) > 0 THEN 0 ELSE Freezing(prob, r, m)
<1>1. r \in Int /\ Surface(c) \in Int
  BY Columned DEF Magnitude
<1>2. s \in Percent /\ i \in Percent /\ Freezing(prob, r, m) \in Percent
  BY <1>1, SharesTyped
<1>3. f \in Percent /\ (Surface(c) > 0 => f = 0)
  BY <1>2 DEF Percent
<1> DEFINE q == TwoAreas(a, m, prob, c)
<1>4. q = Refrozen(s, i, f)
  BY DEF TwoAreas, Refrozen
<1> HIDE DEF s, i, f, q
<1>5. Result(q, f, 0, i, 0, s, 0)
  BY <1>2, <1>3, <1>4, RefrozenIs
<1>6. QED
  BY <1>3, <1>5, Cold DEF q

\* Three areas are over a surface that is not below zero.
LEMMA ThreeAreasFit ==
  ASSUME Tables, NEW c, Prepared(c), NEW prob \in Percent, NEW a \in Int, NEW b \in Int, NEW m \in Int,
         ~(Surface(c) < 0)
  PROVE  Fitting(c, ThreeAreas(a, b, m, prob, c))
<1> DEFINE r == Magnitude(b)
           w == Freezing(prob, r, m)
           i == Share(prob, PelletIce(r, m))
           s == Share(prob, LayeredSnowIce(m + a))
           g == IF c.frozen THEN w ELSE 0
<1>1. r \in Int /\ m + a \in Int /\ Surface(c) \in Int
  BY Columned DEF Magnitude
<1>2. s \in Percent /\ i \in Percent /\ w \in Percent
  BY <1>1, SharesTyped
<1>3. g \in Percent /\ (g # 0 => c.frozen)
  BY <1>2 DEF Percent
<1> DEFINE q == ThreeAreas(a, b, m, prob, c)
<1>4. q = MorePellets(i, s, w, g)
  BY DEF ThreeAreas, MorePellets
<1> HIDE DEF s, w, i, g, q
<1>5. Result(q, 0, g, i, 0, s, w)
  BY <1>2, <1>3, <1>4, MorePelletsIs
<1>6. QED
  BY <1>3, <1>5, Warm DEF q

LEMMA AreasFit ==
  ASSUME Tables, NEW c, Prepared(c), NEW prob \in Percent, NEW e \in Seq(Int), Len(e) <= AreaLimit(c)
  PROVE  Fitting(c, AreasToProbabilities(e, prob, c))
<1>1. Surface(c) \in Int /\ AreaLimit(c) = (IF Surface(c) < 0 THEN 2 ELSE 3) /\ Len(e) \in Nat
  BY Columned DEF AreaLimit
<1>2. Len(e) = 0 \/ Len(e) = 1 \/ Len(e) = 2 \/ (Len(e) = 3 /\ ~(Surface(c) < 0))
  <2> DEFINE n == Len(e)
             limit == AreaLimit(c)
             x == Surface(c)
  <2>1. n \in Nat /\ n <= limit /\ limit = (IF x < 0 THEN 2 ELSE 3)
    BY <1>1
  <2> HIDE DEF n, limit, x
  <2>2. n = 0 \/ n = 1 \/ n = 2 \/ (n = 3 /\ ~(x < 0))
    BY <2>1
  <2>3. QED
    BY <2>2 DEF n, x
<1>3. CASE Len(e) = 0
  BY <1>3, NoAreasFits DEF AreasToProbabilities
<1>4. CASE Len(e) = 1
  <2>1. e[1] \in Int
    BY <1>4
  <2>2. AreasToProbabilities(e, prob, c) = OneArea(e[1], prob, c)
    BY <1>4 DEF AreasToProbabilities
  <2>3. QED
    BY <2>1, <2>2, OneAreaFits
<1>5. CASE Len(e) = 2
  <2>1. e[1] \in Int /\ e[2] \in Int
    BY <1>5
  <2>2. AreasToProbabilities(e, prob, c) = TwoAreas(e[1], e[2], prob, c)
    BY <1>5 DEF AreasToProbabilities
  <2>3. QED
    BY <2>1, <2>2, TwoAreasFit
<1>6. CASE Len(e) = 3 /\ ~(Surface(c) < 0)
  <2>1. e[1] \in Int /\ e[2] \in Int /\ e[3] \in Int
    <3>1. 1 \in DOMAIN e /\ 2 \in DOMAIN e /\ 3 \in DOMAIN e
      BY <1>6
    <3>2. QED
      BY <3>1
  <2>2. AreasToProbabilities(e, prob, c) = ThreeAreas(e[1], e[2], e[3], prob, c)
    BY <1>6 DEF AreasToProbabilities
  <2>3. QED
    BY <1>6, <2>1, <2>2, ThreeAreasFit
<1>7. QED
  BY <1>2, <1>3, <1>4, <1>5, <1>6

LEMMA FirdewsaFits ==
  ASSUME Tables, NEW c, Prepared(c)
  PROVE  FittingCode(c, CategoricalNumba(c))
<1>1. ASSUME NEW relaxed \in BOOLEAN
      PROVE  Fitting(c, AreasNumba(c, relaxed))
  <2> DEFINE ice == ProbIceNumba(LayersNumba(c), relaxed)
             e == EnergiesNumba(c)
  <2>1. ice.prob \in Percent
    BY IceTypedFirdewsa
  <2>2. e \in Seq(Int) /\ Len(e) <= AreaLimit(c)
    BY EnergiesAlternate
  <2>3. AreasNumba(c, relaxed) = IF ice.found THEN AreasToProbabilities(e, ice.prob, c) ELSE Nothing
    BY DEF AreasNumba
  <2> HIDE DEF ice, e
  <2>4. QED
    BY <2>1, <2>2, <2>3, AreasFit, NothingFits
<1>2. Fitting(c, AreasNumba(c, FALSE)) /\ Fitting(c, AreasNumba(c, TRUE))
  BY <1>1
<1>3. \/ CategoricalNumba(c) = CodeNumba(AreasNumba(c, FALSE))
      \/ CategoricalNumba(c) = CodeNumba(AreasNumba(c, TRUE))
  BY DEF CategoricalNumba
<1>4. QED
  BY <1>2, <1>3, CodeFits

-----------------------------------------------------------------------------
(* The results of the ICON areas.                                          *)

LEMMA Quotient ==
  ASSUME NEW a \in Int, NEW b \in Nat \ {0}
  PROVE  a \div b \in Int /\ (a \div b) * b <= a /\ a < (a \div b) * b + b
OBVIOUS

LEMMA Cancelled ==
  ASSUME NEW j \in Nat \ {0}, NEW a \in Int, NEW b \in Int, j * a < j * b
  PROVE  a < b
<1>1. SUFFICES ASSUME b <= a PROVE FALSE
  OBVIOUS
<1>2. j * (a - b) >= 0
  BY <1>1
<1>3. j * (a - b) = j * a - j * b
  OBVIOUS
<1>4. QED
  BY <1>2, <1>3

\* The factor for little melting.
Lessened(line, m) == IF m < 5 * JoulePerKg THEN (line * m) \div (5 * JoulePerKg) ELSE line
Line(r, m) == (-21 * r + 2 * m + 4580 * JoulePerKg) \div (10 * JoulePerKg)

LEMMA LineIs ==
  ASSUME NEW r \in Int, NEW m \in Int
  PROVE  /\ Line(r, m) \in Int
         /\ Line(r, m) <= 2 => -21 * r + 2 * m + 4580 * JoulePerKg < 30 * JoulePerKg
<1> DEFINE a == -21 * r + 2 * m + 4580 * JoulePerKg
           b == 10 * JoulePerKg
           q == a \div b
<1>1. a \in Int /\ b \in Nat \ {0} /\ JoulePerKg \in Nat \ {0}
  BY UnitProducts
<1>2. Line(r, m) = q
  BY DEF Line
<1> HIDE DEF a
<1>3. b = 10 * JoulePerKg
  OBVIOUS
<1> HIDE DEF b
<1>4. q \in Int /\ a < q * b + b
  BY <1>1, Quotient
<1> HIDE DEF q
<1>5. ASSUME q <= 2
      PROVE  a < 30 * JoulePerKg
  <2>1. q * b <= 2 * b
    BY <1>1, <1>4, <1>5
  <2>2. q * b \in Int /\ 2 * b + b = 30 * JoulePerKg
    BY <1>1, <1>3, <1>4
  <2>3. QED
    BY <1>1, <1>4, <2>1, <2>2
<1>6. QED
  BY <1>2, <1>4, <1>5 DEF a

LEMMA LessenedIs ==
  ASSUME NEW line \in Percent, NEW m \in Int
  PROVE  /\ Lessened(line, m) \in Int
         /\ m >= 2 * JoulePerKg => Lessened(line, m) >= 0 /\ (Lessened(line, m) < 1 => line <= 2)
<1> DEFINE b == 5 * JoulePerKg
           a == line * m
           q == a \div b
<1>1. b \in Nat \ {0} /\ JoulePerKg \in Nat \ {0} /\ line \in Int /\ 0 <= line
  BY UnitProducts DEF Percent
<1>2. a \in Int /\ b = 5 * JoulePerKg
  BY <1>1
<1>3. Lessened(line, m) = IF m < b THEN q ELSE line
  BY DEF Lessened
<1>4. m >= 2 * JoulePerKg => a >= 0
  <2> SUFFICES ASSUME m >= 2 * JoulePerKg PROVE a >= 0
    OBVIOUS
  <2>1. m >= 0
    BY <1>1
  <2>2. QED
    BY <1>1, <2>1
<1>5. m >= 2 * JoulePerKg /\ line >= 3 => a >= 6 * JoulePerKg
  <2> SUFFICES ASSUME m >= 2 * JoulePerKg, line >= 3 PROVE a >= 6 * JoulePerKg
    OBVIOUS
  <2>1. (line - 3) * m >= 0
    <3> DEFINE x == line - 3
    <3>1. x \in Nat /\ m \in Nat
      BY <1>1
    <3> HIDE DEF x
    <3>2. x * m >= 0
      BY <3>1
    <3>3. QED
      BY <3>2 DEF x
  <2>2. (line - 3) * m = a - 3 * m
    BY <1>1
  <2>3. QED
    BY <1>1, <1>2, <2>1, <2>2
<1> HIDE DEF a, b
<1>6. q \in Int /\ q * b <= a /\ a < q * b + b
  BY <1>1, <1>2, Quotient
<1> HIDE DEF q
<1>7. a >= 0 => q >= 0
  <2> SUFFICES ASSUME a >= 0, q <= -1 PROVE FALSE
    BY <1>6
  <2>1. q * b <= -b
    <3>1. (q + 1) * b <= 0
      BY <1>1, <1>6
    <3>2. (q + 1) * b = q * b + b
      BY <1>1, <1>6
    <3>3. q * b \in Int
      BY <1>1, <1>6
    <3>4. QED
      BY <1>1, <3>1, <3>2, <3>3
  <2>2. QED
    BY <1>1, <1>2, <1>6, <2>1
<1>8. q < 1 => a < b
  <2> SUFFICES ASSUME q <= 0 PROVE a < b
    BY <1>6
  <2>1. q * b <= 0
    BY <1>1, <1>6
  <2>2. q * b \in Int
    BY <1>1, <1>6
  <2>3. QED
    BY <1>1, <1>2, <1>6, <2>1, <2>2
<1>9. QED
  BY <1>1, <1>2, <1>3, <1>4, <1>5, <1>6, <1>7, <1>8

\* The ice an area freezes is a percentage, and if it is none the area above
\* refreezes to pellets: the line only reaches zero when it is large.
LEMMA FreezingOrPellets ==
  ASSUME Tables, NEW prob \in Percent, NEW r \in Int, NEW m \in Int
  PROVE  /\ IconFreezing(prob, r, m) \in Percent
         /\ m >= SmallArea => IconFreezing(prob, r, m) > 0 \/ Share(prob, PelletIce(r, m)) > 0
<1> DEFINE line == Clip(Line(r, m))
           ice == Lessened(line, m)
           part == (prob * ice) \div 100
           sum == (100 - prob) + part
<1>1. IconFreezing(prob, r, m) = Clip(sum)
  BY DEF IconFreezing, Line, Lessened
<1>2. Line(r, m) \in Int
  BY LineIs
<1>3. line \in Percent /\ (line <= 2 => Line(r, m) <= 2)
  BY <1>2, Clipped
<1> HIDE DEF line
<1>4. ice \in Int /\ (m >= 2 * JoulePerKg => ice >= 0 /\ (ice < 1 => line <= 2))
  BY <1>3, LessenedIs
<1> HIDE DEF ice
<1>5. prob * ice \in Int /\ prob \in Int /\ 0 <= prob /\ prob <= 100
  BY <1>4 DEF Percent
<1>6. part \in Int /\ (prob * ice >= 0 => part >= 0)
  BY <1>5
<1>7. IconFreezing(prob, r, m) \in Percent
  BY <1>1, <1>5, <1>6, Clipped
<1>8. ASSUME m >= SmallArea
      PROVE  IconFreezing(prob, r, m) > 0 \/ Share(prob, PelletIce(r, m)) > 0
  <2>1. JoulePerKg \in Nat \ {0} /\ m >= 2 * JoulePerKg /\ ice >= 0
    BY <1>4, <1>8, UnitProducts
  <2>2. part >= 0
    <3>1. prob * ice >= 0
      BY <1>4, <1>5, <2>1
    <3>2. QED
      BY <1>6, <3>1
  <2>3. CASE prob # 100
    <3>1. sum \in Int /\ sum >= 1
      BY <1>5, <1>6, <2>2, <2>3
    <3> HIDE DEF sum
    <3>2. QED
      BY <1>1, <3>1, Clipped
  <2>4. CASE prob = 100 /\ ice >= 1
    <3>1. part = ice
      BY <1>4, <2>4
    <3>2. sum \in Int /\ sum >= 1
      BY <1>4, <2>4, <3>1
    <3> HIDE DEF sum
    <3>3. QED
      BY <1>1, <3>2, Clipped
  <2>5. CASE prob = 100 /\ ice < 1
    <3> DEFINE j == JoulePerKg
               A == (23 * r) \div (10 * j)
               B == m \div (5 * j)
    <3>1. -21 * r + 2 * m + 4580 * j < 30 * j
      BY <1>2, <1>3, <1>4, <2>1, <2>5, LineIs
    <3>2. j \in Nat \ {0} /\ 10 * j \in Nat \ {0} /\ 5 * j \in Nat \ {0} /\ m >= 2 * j
      BY <2>1
    <3>3. A \in Int /\ 23 * r < A * (10 * j) + 10 * j
      <4> DEFINE x == 23 * r
                 y == 10 * j
      <4>1. x \in Int /\ y \in Nat \ {0} /\ A = x \div y
        BY <3>2
      <4> HIDE DEF x, y, A
      <4>2. A \in Int /\ x < A * y + y
        BY <4>1, Quotient
      <4>3. QED
        BY <4>2 DEF x, y
    <3>4. B \in Int /\ B * (5 * j) <= m
      BY <3>2, Quotient
    <3>5. m > -j /\ m >= 0
      BY <3>2
    <3>6. LogMelt(m) \in Int /\ LogMelt(m) <= 200 + B
      BY <3>5 DEF Tables, TablesOver, Percent
    <3>7. PelletIce(r, m) = Clip(A - LogMelt(m) + 3)
      BY <3>2, <3>5 DEF PelletIce
    <3> HIDE DEF A, B, j
    <3>8. A * (10 * j) = 10 * (j * A) /\ B * (5 * j) = 5 * (j * B) /\ j * A \in Int /\ j * B \in Int
      BY <3>2, <3>3, <3>4
    <3>9. 23 * (10 * (j * B)) + 23 * (4550 * j) < 21 * (10 * (j * A) + 10 * j)
      BY <3>1, <3>2, <3>3, <3>4, <3>8
    <3>10. j * (230 * B + 104650) < j * (210 * A + 210)
      <4>1. j * (230 * B + 104650) = 230 * (j * B) + 104650 * j
        BY <3>2, <3>4
      <4>2. j * (210 * A + 210) = 210 * (j * A) + 210 * j
        BY <3>2, <3>3
      <4>3. QED
        BY <3>2, <3>8, <3>9, <4>1, <4>2
    <3>11. 230 * B + 104650 < 210 * A + 210
      <4>1. 230 * B + 104650 \in Int /\ 210 * A + 210 \in Int
        BY <3>3, <3>4
      <4>2. QED
        BY <3>2, <3>10, <4>1, Cancelled
    <3>12. B >= 0
      BY <3>2, <3>5 DEF B
    <3>14. A - LogMelt(m) + 3 >= 1
      BY <3>3, <3>4, <3>6, <3>11, <3>12
    <3>15. PelletIce(r, m) \in Percent /\ PelletIce(r, m) > 0
      BY <3>3, <3>6, <3>7, <3>14, Clipped
    <3>16. QED
      BY <2>5, <3>15, SharedAll
  <2>6. QED
    BY <1>4, <2>3, <2>4, <2>5
<1>9. QED
  BY <1>7, <1>8

LEMMA KeptTyped ==
  ASSUME NEW pellets \in Percent, NEW x \in Int
  PROVE  PelletsKept(pellets, x) \in 0..pellets
<1> DEFINE b == PelletRainMin - PelletKeepMax
           y == PelletRainMin - x
           a == pellets * y
           q == a \div b
<1>1. PelletRainMin \in Int /\ PelletKeepMax \in Int /\ PelletKeepMax < PelletRainMin
  BY UnitProducts DEF PelletRainMin, PelletKeepMax
<1>2. pellets \in Nat
  BY DEF Percent
<1>3. CASE x >= PelletRainMin
  <2>1. PelletsKept(pellets, x) = 0
    BY <1>1, <1>3 DEF PelletsKept
  <2>2. QED
    BY <1>2, <2>1
<1>4. CASE x <= PelletKeepMax
  <2>1. PelletsKept(pellets, x) = pellets
    BY <1>1, <1>4 DEF PelletsKept
  <2>2. QED
    BY <1>2, <2>1
<1>5. CASE ~(x >= PelletRainMin) /\ ~(x <= PelletKeepMax)
  <2>1. PelletsKept(pellets, x) = q
    BY <1>1, <1>5 DEF PelletsKept
  <2>2. b \in Nat \ {0} /\ y \in Nat /\ y <= b
    BY <1>1, <1>5
  <2> HIDE DEF b, y
  <2>3. a \in Nat /\ a <= pellets * b /\ pellets * b \in Nat
    <3>1. pellets * (b - y) >= 0 /\ pellets * (b - y) = pellets * b - pellets * y
      <4> DEFINE d == b - y
      <4>1. d \in Nat
        BY <2>2
      <4> HIDE DEF d
      <4>2. pellets * d >= 0
        BY <1>2, <4>1
      <4>3. QED
        BY <1>2, <2>2, <4>2 DEF d
    <3>2. pellets * y \in Nat /\ pellets * b \in Nat
      BY <1>2, <2>2
    <3>3. QED
      BY <3>1, <3>2
  <2> HIDE DEF a
  <2>4. q \in Int /\ q * b <= a /\ a < q * b + b
    BY <2>2, <2>3, Quotient
  <2> HIDE DEF q
  <2>5. q >= 0
    <3>1. SUFFICES ASSUME q + 1 <= 0 PROVE FALSE
      BY <2>4
    <3>2. (q + 1) * b <= 0
      BY <2>2, <2>4, <3>1
    <3>3. (q + 1) * b = q * b + b /\ q * b \in Int
      BY <2>2, <2>4
    <3>4. QED
      BY <2>2, <2>3, <2>4, <3>2, <3>3
  <2>6. q <= pellets
    <3>1. SUFFICES ASSUME pellets + 1 <= q PROVE FALSE
      BY <1>2, <2>4
    <3>2. (q - pellets) * b >= b
      <4> DEFINE d == q - pellets - 1
      <4>1. d \in Nat
        BY <1>2, <2>4, <3>1
      <4> HIDE DEF d
      <4>2. d * b >= 0 /\ (d + 1) * b = d * b + b
        BY <2>2, <4>1
      <4>3. d + 1 = q - pellets /\ d * b \in Int
        BY <1>2, <2>2, <2>4, <4>1 DEF d
      <4>4. QED
        BY <2>2, <4>2, <4>3
    <3>3. (q - pellets) * b = q * b - pellets * b /\ q * b \in Int
      BY <1>2, <2>2, <2>4
    <3>4. QED
      BY <2>2, <2>3, <2>4, <3>2, <3>3
  <2>7. QED
    BY <1>2, <2>1, <2>4, <2>5, <2>6
<1>6. QED
  BY <1>3, <1>4, <1>5

Positive(p) == \E type \in ToSet(Types) : p[type] > 0

LEMMA SomePositive ==
  ASSUME NEW q, NEW f, NEW g, NEW i, NEW d, NEW s, NEW w, Result(q, f, g, i, d, s, w),
         f > 0 \/ i > 0 \/ d > 0 \/ s > 0 \/ w > 0
  PROVE  Positive(q)
BY TypesAre DEF Positive, Result

LEMMA IconNoAreasFits ==
  ASSUME NEW c, Prepared(c), NEW prob \in Percent
  PROVE  Fitting(c, IconNoAreas(prob, c)) /\ Positive(IconNoAreas(prob, c))
<1> DEFINE rest == 100 - prob
           g == IF c.frozen THEN rest ELSE 0
           q == IconNoAreas(prob, c)
<1>1. rest \in Percent /\ Surface(c) \in Int /\ (prob > 0 \/ rest > 0)
  <2>1. rest \in Percent /\ (prob > 0 \/ rest > 0)
    BY DEF Percent
  <2>2. Surface(c) \in Int
    BY Columned
  <2>3. QED
    BY <2>1, <2>2
<1>2. g \in Percent /\ (g # 0 => c.frozen)
  BY <1>1 DEF Percent
<1>3. CASE Surface(c) > 0
  <2>1. q = Melted(prob, rest, g)
    BY <1>3 DEF IconNoAreas, Melted
  <2> HIDE DEF rest, g, q
  <2>2. Result(q, 0, g, 0, 0, prob, rest)
    BY <1>1, <1>2, <2>1, MeltedIs
  <2>3. ~(Surface(c) < 0)
    BY <1>1, <1>3
  <2>4. QED
    BY <1>1, <1>2, <2>2, <2>3, Warm, SomePositive DEF q
<1>4. CASE ~(Surface(c) > 0)
  <2>1. q = DryCold(prob, rest)
    BY <1>4 DEF IconNoAreas, DryCold
  <2> HIDE DEF rest, q
  <2>2. Result(q, 0, 0, 0, rest, prob, 0)
    BY <1>1, <2>1, DryColdIs
  <2>3. QED
    BY <1>1, <1>4, <2>2, Cold, SomePositive DEF q
<1>5. QED
  BY <1>3, <1>4

-----------------------------------------------------------------------------
(* What IconAreas publishes fits the surface, and is never nothing.        *)

LEMMA IconSnowTyped ==
  ASSUME Tables, NEW prob \in Percent, NEW e, e.melting \in Int
  PROVE  IconSnow(prob, e) \in Percent /\ 100 - IconSnow(prob, e) \in Percent
<1>1. 0 \in Int
  OBVIOUS
<1>2. QED
  BY <1>1, SharesTyped DEF IconSnow

\* The area k from the surface up, or 0 if there is none.
AreaAt(e, k) == IF Len(e.surfaceUp) >= k THEN e.surfaceUp[k] ELSE 0

LEMMA AreaIs ==
  ASSUME NEW e, Alternating(e.surfaceUp), NEW k \in Nat \ {0}
  PROVE  AreaAt(e, k) \in Int /\ (AreaAt(e, k) > 0 => AreaAt(e, k) >= SmallArea)
<1> DEFINE up == e.surfaceUp
<1>1. AreaAt(e, k) = IF Len(up) >= k THEN up[k] ELSE 0
  BY DEF AreaAt
<1>2. up \in Seq(Int) /\ \A j \in 1..Len(up) : Magnitude(up[j]) >= SmallArea
  BY DEF Alternating
<1> HIDE DEF up
<1>3. Len(up) \in Nat /\ (Len(up) >= k => k \in 1..Len(up) /\ up[k] \in Int)
  BY <1>2
<1>4. CASE Len(up) >= k
  BY <1>1, <1>2, <1>3, <1>4 DEF Magnitude
<1>5. CASE ~(Len(up) >= k)
  BY <1>1, <1>5
<1>6. QED
  BY <1>4, <1>5

\* Below freezing, the pellets of a large refreezing area fall as snow.
LEMMA ColdSurfaceFits ==
  ASSUME Tables, NEW c, Prepared(c), NEW prob \in Percent, NEW e, Alternating(e.surfaceUp),
         e.surfaceUp # <<>>, e.melting \in Int, Surface(c) < 0
  PROVE  Fitting(c, ColdSurface(e, prob, c)) /\ Positive(ColdSurface(e, prob, c))
<1> DEFINE lowest == e.surfaceUp[1]
           second == IF Len(e.surfaceUp) >= 2 THEN e.surfaceUp[2] ELSE 0
           m == IF lowest > 0 THEN lowest ELSE Max({0, second})
           r == IF lowest > 0 THEN ShallowRefreezing ELSE Magnitude(lowest)
           i == Share(prob, PelletIce(r, m))
           large == r > LargeRefreezing
           snow == IconSnow(prob, e)
           f == IconFreezing(prob, r, m)
           q == ColdSurface(e, prob, c)
           s == IF large THEN Max({snow, i}) ELSE snow
           kept == IF large THEN 0 ELSE i
<1>1. q = IF m <= 0 THEN IconNoAreas(prob, c) ELSE Refrozen(s, kept, f)
  BY DEF ColdSurface, Refrozen
<1>2. /\ lowest \in Int /\ (lowest > 0 => lowest >= SmallArea)
      /\ second \in Int /\ (second > 0 => second >= SmallArea)
  <2>1. e.surfaceUp \in Seq(Int)
    BY DEF Alternating
  <2>2. Len(e.surfaceUp) >= 1 /\ lowest = AreaAt(e, 1)
    BY <2>1 DEF AreaAt
  <2>3. second = AreaAt(e, 2)
    BY DEF AreaAt
  <2> HIDE DEF lowest, second
  <2>4. 1 \in Nat \ {0} /\ 2 \in Nat \ {0}
    OBVIOUS
  <2>5. QED
    BY <2>2, <2>3, <2>4, AreaIs
<1> HIDE DEF lowest, second
<1>3. m \in Int /\ (m > 0 => m >= SmallArea) /\ r \in Int
  BY <1>2, PositivePart, UnitProducts DEF Magnitude
<1> HIDE DEF m, r
<1>4. /\ f \in Percent /\ i \in Percent /\ snow \in Percent
      /\ m >= SmallArea => f > 0 \/ i > 0
  BY <1>3, FreezingOrPellets, SharesTyped, IconSnowTyped
<1> HIDE DEF f, i, snow, large, q
<1>5. Max({snow, i}) = IF snow <= i THEN i ELSE snow
  <2>1. snow \in Int /\ i \in Int
    BY <1>4 DEF Percent
  <2>2. QED
    BY <2>1, OfTwo
<1>6. s \in Percent /\ kept \in Percent /\ (i > 0 => s > 0 \/ kept > 0)
  <2> DEFINE both == Max({snow, i})
  <2>1. both = IF snow <= i THEN i ELSE snow
    BY <1>5
  <2> HIDE DEF both
  <2>2. both \in Percent /\ (i > 0 => both > 0)
    BY <1>4, <2>1 DEF Percent
  <2>3. s = IF large THEN both ELSE snow
    BY DEF both
  <2>4. 0 \in Percent
    BY DEF Percent
  <2>5. s \in Percent /\ kept \in Percent
    BY <1>4, <2>2, <2>3, <2>4
  <2>6. i > 0 => s > 0 \/ kept > 0
    BY <2>2, <2>3
  <2>7. QED
    BY <2>5, <2>6
<1> HIDE DEF s, kept
<1>7. Surface(c) \in Int
  BY Columned
<1>8. CASE m <= 0
  BY <1>1, <1>8, IconNoAreasFits DEF q
<1>9. CASE ~(m <= 0)
  <2>1. Result(q, f, 0, kept, 0, s, 0)
    BY <1>1, <1>4, <1>6, <1>9, RefrozenIs
  <2>2. f > 0 \/ kept > 0 \/ s > 0
    BY <1>3, <1>4, <1>6, <1>9
  <2>3. Surface(c) > 0 => f = 0 /\ 0 = 0
    BY <1>7
  <2>4. Fitting(c, q)
    BY <2>1, <2>3, Cold
  <2>5. Positive(q)
    BY <2>1, <2>2, SomePositive
  <2>6. QED
    BY <2>4, <2>5 DEF q
<1>10. QED
  BY <1>8, <1>9

\* Over a warm surface, what is lost of the pellets is at least the rain.
LEMMA WarmSurfaceFits ==
  ASSUME Tables, NEW c, Prepared(c), NEW prob \in Percent, NEW e, Alternating(e.surfaceUp),
         e.melting \in Int, ~(Surface(c) < 0)
  PROVE  Fitting(c, WarmSurface(e, prob, c)) /\ Positive(WarmSurface(e, prob, c))
<1> DEFINE a == AreaAt(e, 1)
           b == AreaAt(e, 2)
           d == AreaAt(e, 3)
           x == Max({0, a})
           r == Max({0, -b})
           m == Max({0, d})
           i == Share(prob, PelletIce(r, m))
           kept == PelletsKept(i, x)
           refrozen == r > 0 /\ m > 0
           snow == IconSnow(prob, e)
           f == IconFreezing(prob, r, m)
           w == IF refrozen THEN Max({f, i - kept}) ELSE 100 - snow
           p == IF refrozen THEN kept ELSE 0
           g == IF c.frozen THEN w ELSE 0
           q == WarmSurface(e, prob, c)
<1>1. q = IF x <= 0 THEN IconNoAreas(prob, c) ELSE Pellets(snow, w, p, g)
  BY DEF WarmSurface, Pellets, AreaAt
<1>2. /\ a \in Int /\ b \in Int /\ d \in Int /\ (d > 0 => d >= SmallArea)
  <2>1. 1 \in Nat \ {0} /\ 2 \in Nat \ {0} /\ 3 \in Nat \ {0}
    OBVIOUS
  <2>2. QED
    BY <2>1, AreaIs
<1> HIDE DEF a, b, d
<1>3. x \in Int /\ r \in Int /\ m \in Int /\ (m > 0 => m >= SmallArea)
  <2>1. -b \in Int
    BY <1>2
  <2>2. QED
    BY <1>2, <2>1, PositivePart
<1> HIDE DEF x, r, m
<1>4. /\ f \in Percent /\ i \in Percent /\ snow \in Percent /\ 100 - snow \in Percent
      /\ m >= SmallArea => f > 0 \/ i > 0
  BY <1>3, FreezingOrPellets, SharesTyped, IconSnowTyped
<1> HIDE DEF f, i
<1>5. kept \in 0..i
  BY <1>3, <1>4, KeptTyped
<1> HIDE DEF kept, snow
<1>6. Max({f, i - kept}) = IF f <= i - kept THEN i - kept ELSE f
  <2>1. f \in Int /\ i - kept \in Int
    BY <1>4, <1>5 DEF Percent
  <2>2. QED
    BY <2>1, OfTwo
<1>7. w \in Percent /\ p \in Percent
  BY <1>4, <1>5, <1>6 DEF Percent
<1>8. snow > 0 \/ w > 0 \/ p > 0
  <2>1. CASE refrozen
    <3>1. f > 0 \/ i > 0
      BY <1>3, <1>4, <2>1
    <3>2. QED
      BY <1>4, <1>5, <1>6, <2>1, <3>1 DEF Percent
  <2>2. CASE ~refrozen
    BY <1>4, <2>2 DEF Percent
  <2>3. QED
    BY <2>1, <2>2
<1> HIDE DEF w, p, refrozen
<1>9. g \in Percent /\ (g # 0 => c.frozen)
  BY <1>7 DEF Percent
<1> HIDE DEF g, q
<1>10. CASE x <= 0
  BY <1>1, <1>10, IconNoAreasFits DEF q
<1>11. CASE ~(x <= 0)
  <2>1. Result(q, 0, g, p, 0, snow, w)
    BY <1>1, <1>4, <1>7, <1>9, <1>11, PelletsIs
  <2>2. Fitting(c, q)
    BY <1>9, <2>1, Warm
  <2>3. Positive(q)
    BY <1>8, <2>1, SomePositive
  <2>4. QED
    BY <2>2, <2>3 DEF q
<1>12. QED
  BY <1>10, <1>11

LEMMA IconAreasFit ==
  ASSUME Tables, NEW c, Prepared(c), NEW prob \in Percent, NEW e, Alternating(e.surfaceUp), e.melting \in Int
  PROVE  Fitting(c, IconAreas(e, prob, c)) /\ Positive(IconAreas(e, prob, c))
<1>1. Surface(c) \in Int
  BY Columned
<1>2. CASE e.surfaceUp = <<>>
  <2>1. IconAreas(e, prob, c) = IconNoAreas(prob, c)
    BY <1>2 DEF IconAreas
  <2>2. QED
    BY <2>1, IconNoAreasFits
<1>3. CASE e.surfaceUp # <<>> /\ Surface(c) < 0
  <2>1. IconAreas(e, prob, c) = ColdSurface(e, prob, c)
    BY <1>1, <1>3 DEF IconAreas
  <2>2. QED
    BY <1>3, <2>1, ColdSurfaceFits
<1>4. CASE e.surfaceUp # <<>> /\ ~(Surface(c) < 0)
  <2>1. IconAreas(e, prob, c) = WarmSurface(e, prob, c)
    <3> DEFINE x == Surface(c)
    <3>1. ~(x < 0) /\ x >= 0
      BY <1>1, <1>4
    <3>2. IconAreas(e, prob, c) = CASE e.surfaceUp = <<>> -> IconNoAreas(prob, c)
                                    [] e.surfaceUp # <<>> /\ x < 0 -> ColdSurface(e, prob, c)
                                    [] e.surfaceUp # <<>> /\ x >= 0 -> WarmSurface(e, prob, c)
      BY DEF IconAreas
    <3> HIDE DEF x
    <3>3. QED
      BY <1>4, <3>1, <3>2
  <2>2. QED
    BY <1>4, <2>1, WarmSurfaceFits
<1>5. QED
  BY <1>2, <1>3, <1>4

\* The categories of the surface rates only replace a code there is.
LEMMA RefinedIs ==
  ASSUME NEW c, NEW code
  PROVE  /\ Refine(code, c) \in {code, IconCodeOf.hail, IconCodeOf.graupel, IconCodeOf.rain_snow_mixed, IconCodeOf.wet_snow}
         /\ code # NoPrecip => Refine(code, c) # NoPrecip
BY DEF Refine, IconCodeOf, NoPrecip

LEMMA IconFits ==
  ASSUME Tables, NEW c, Prepared(c)
  PROVE  FittingCode(c, IconNumba(c).code) /\ IconNumba(c).code # NoPrecip
<1> DEFINE of(relaxed) == IconProbIceNumba(IconLayersNumba(c), relaxed)
           e == IconEnergiesNumba(c)
           strict == IF of(FALSE).found THEN IconAreas(e, of(FALSE).prob, c) ELSE Nothing
           second == IF of(TRUE).found THEN IconAreas(e, of(TRUE).prob, c) ELSE strict
           p == IF CodeNumba(strict) = NoPrecip THEN second ELSE strict
           code == CodeNumba(p)
<1>1. IconNumba(c).code = Refine(code, c)
  BY DEF IconNumba
<1>2. of(FALSE).prob \in Percent /\ of(TRUE).prob \in Percent /\ of(TRUE).found
  <2>1. TRUE \in BOOLEAN /\ FALSE \in BOOLEAN
    OBVIOUS
  <2>2. QED
    BY <2>1, IceTypedIcon
<1>3. Alternating(e.surfaceUp) /\ e.melting \in Int
  BY IconEnergiesAlternate
<1> DEFINE x == of(FALSE).prob
           y == of(TRUE).prob
<1>4. /\ Fitting(c, IconAreas(e, x, c)) /\ Fitting(c, IconAreas(e, y, c)) /\ Positive(IconAreas(e, y, c))
  <2> HIDE DEF e, x, y
  <2>1. x \in Percent /\ y \in Percent
    BY <1>2 DEF x, y
  <2>2. QED
    BY <1>3, <2>1, IconAreasFit
<1>5. Fitting(c, strict) /\ Fitting(c, second) /\ Positive(second)
  BY <1>2, <1>4, NothingFits
<1>6. CodeNumba(second) # NoPrecip
  <2>1. second \in Probabilities
    BY <1>5 DEF Fitting
  <2>2. QED
    BY <1>5, <2>1, CodeSays DEF Positive
<1> HIDE DEF strict, second
<1>7. Fitting(c, p) /\ code # NoPrecip
  BY <1>5, <1>6
<1> HIDE DEF p
<1>8. Refine(code, c) # NoPrecip /\ FittingCode(c, Refine(code, c))
  BY <1>7, RefinedIs, CodeFits
<1>9. QED
  BY <1>1, <1>8

-----------------------------------------------------------------------------
(* The grid, in chunks.                                                    *)

LEMMA GridInitially == Init => GridInv
BY DEF Init, GridInv, Published, Columns

LEMMA GridKept == GridInv /\ [Next]_vars => GridInv'
<1> SUFFICES ASSUME GridInv, [Next]_vars PROVE GridInv'
  OBVIOUS
<1> USE DEF GridInv
<1>1. CASE Refuse
  BY <1>1 DEF Refuse, Columns, Active, Threshold, Published, Diagnosed
<1>2. CASE Accept
  <2>1. /\ UNCHANGED <<algorithm, grid, categorical, probabilities>> /\ pc = "check"
        /\ pending' = Active /\ pc' = IF Active = {} THEN "done" ELSE "diagnose"
    BY <1>2 DEF Accept
  <2>2. Active' = Active /\ Columns' = Columns /\ \A i : Published(i)' = Published(i)
    BY <2>1 DEF Columns, Active, Threshold, Published
  <2>3. QED
    BY <2>1, <2>2
<1>3. CASE DiagnoseChunk
  <2> DEFINE result == [i \in Chunk |-> Diagnosed(grid[i])]
  <2>1. /\ UNCHANGED <<algorithm, grid>> /\ pc = "diagnose"
        /\ pending' = pending \ Chunk /\ pc' = IF pending' = {} THEN "done" ELSE "diagnose"
        /\ categorical' = [i \in Columns |-> IF i \in Chunk THEN result[i].code ELSE categorical[i]]
        /\ probabilities' = [i \in Columns |-> IF i \in Chunk THEN result[i].probabilities
                                               ELSE probabilities[i]]
    BY <1>3 DEF DiagnoseChunk
  <2>2. Active' = Active /\ Columns' = Columns /\ Active \subseteq Columns
    BY <2>1 DEF Columns, Active, Threshold
  <2>3. \A i \in Columns : Diagnosed(grid[i])' = Diagnosed(grid[i])
    BY <2>1, <2>2 DEF Diagnosed
  <2>4. \A i \in Chunk : Diagnosed(grid[i]) = [code |-> Diagnosed(grid[i]).code,
                                               probabilities |-> Diagnosed(grid[i]).probabilities]
    BY DEF Diagnosed, IconNumba
  <2>5. Chunk \subseteq pending
    BY DEF Chunk
  <2>6. ASSUME NEW i \in Columns, i \notin pending'
        PROVE  Published(i)' = IF i \in Active THEN Diagnosed(grid[i])
                               ELSE [code |-> NoPrecip, probabilities |-> Nothing]
    <3>1. CASE i \in Chunk
      BY <2>1, <2>4, <2>5, <3>1 DEF Published
    <3>2. CASE i \notin Chunk
      BY <2>1, <2>6, <3>2 DEF Published
    <3>3. QED
      BY <3>1, <3>2
  <2>7. QED
    BY <2>1, <2>2, <2>3, <2>5, <2>6
<1>4. CASE UNCHANGED vars
  BY <1>4 DEF vars, Columns, Active, Threshold, Published, Diagnosed
<1>5. QED
  BY <1>1, <1>2, <1>3, <1>4 DEF Next

\* In every grid, what is published of an active column is what the kernel says
\* of it, and nothing else is published.
THEOREM ChunksCoverGrid == Spec => []GridInv
<1>1. QED
  BY GridInitially, GridKept, PTL DEF Spec


\* In every reachable state the columns of the grid are what _prepare_grid accepts.
LEMMA GridPrepared ==
  ASSUME GridInv, NEW i \in Columns
  PROVE  Prepared(grid[i])
BY GridAssumption DEF GridInv, Columns

\* At the end, the kernel has been asked about every active column.
LEMMA AllDiagnosed ==
  ASSUME GridInv, pc = "done", NEW i \in Active
  PROVE  categorical[i] = Diagnosed(grid[i]).code
<1>1. i \in Columns /\ i \notin pending
  BY DEF GridInv, Active
<1>2. Published(i) = Diagnosed(grid[i])
  BY <1>1 DEF GridInv
<1>3. QED
  BY <1>2 DEF Published

LEMMA AlternateInGrid == GridInv => AreasAlternate
<1> DEFINE of(i) == IF algorithm = "icon" THEN IconEnergiesNumba(grid[i]).surfaceUp ELSE EnergiesNumba(grid[i])
<1>1. ASSUME GridInv, NEW i \in Active
      PROVE  Alternating(of(i))
  <2>1. i \in Columns
    BY DEF Active
  <2>2. Prepared(grid[i])
    BY <1>1, <2>1, GridPrepared
  <2>3. Alternating(IconEnergiesNumba(grid[i]).surfaceUp) /\ Alternating(EnergiesNumba(grid[i]))
    BY <2>2, IconEnergiesAlternate, EnergiesAlternate
  <2>4. QED
    BY <2>3
<1> HIDE DEF of
<1>2. ASSUME GridInv, NEW i \in Active
      PROVE  /\ \A k \in DOMAIN of(i) : Magnitude(of(i)[k]) >= SmallArea
             /\ \A k \in 1..(Len(of(i)) - 1) : Sign(of(i)[k]) = -Sign(of(i)[k + 1])
  BY <1>1, <1>2 DEF Alternating
<1>3. QED
  BY <1>2 DEF AreasAlternate, of

\* However many small areas are dropped, in every grid and with every table, the
\* areas a diagnosis is made of alternate between melting and refreezing.
THEOREM AreasStayAlternating == Spec => []AreasAlternate
<1>1. QED
  BY ChunksCoverGrid, AlternateInGrid, PTL

LEMMA DefinedInGrid == GridInv => CrossingsAreDefined
<1> SUFFICES ASSUME GridInv, NEW i \in pending,
                    NEW k \in ProfileStart(grid[i])..(Len(grid[i].tw) - 1),
                    IconSignsNumba(grid[i])[k] # IconSignsNumba(grid[i])[k + 1]
             PROVE  CrossingSpan(grid[i], k) > 0
  BY DEF CrossingsAreDefined
<1>1. i \in Columns
  BY DEF GridInv, Active
<1>2. Prepared(grid[i])
  BY <1>1, GridPrepared
<1>3. CrossingSpan(grid[i], k) \in Nat \ {0}
  BY <1>2, SignsChange
<1>4. QED
  BY <1>3

\* In every grid, the energy of a zero crossing is never divided by zero.
THEOREM CrossingsStayDefined == Spec => []CrossingsAreDefined
<1>1. QED
  BY ChunksCoverGrid, DefinedInGrid, PTL

LEMMA FitsInGrid ==
  ASSUME Tables
  PROVE  GridInv => TypeFitsSurface
<1> SUFFICES ASSUME GridInv, pc = "done", NEW i \in Active
             PROVE  FittingCode(grid[i], categorical[i])
  BY DEF TypeFitsSurface, FittingCode
<1>1. i \in Columns
  BY DEF Active
<1>2. Prepared(grid[i])
  BY <1>1, GridPrepared
<1>3. categorical[i] = IF algorithm = "icon" THEN IconNumba(grid[i]).code ELSE CategoricalNumba(grid[i])
  BY AllDiagnosed DEF Diagnosed
<1>4. FittingCode(grid[i], IconNumba(grid[i]).code) /\ FittingCode(grid[i], CategoricalNumba(grid[i]))
  BY <1>2, IconFits, FirdewsaFits
<1>5. QED
  BY <1>3, <1>4

\* With tables that are percentages, no grid publishes a type that its surface
\* excludes: no freezing precipitation over a warm surface, no rain below zero, no
\* freezing rain on ground that is not frozen.
THEOREM TypesFitSurface ==
  ASSUME Tables
  PROVE  Spec => []TypeFitsSurface
<1>1. GridInv => TypeFitsSurface
  BY FitsInGrid
<1>2. QED
  BY <1>1, ChunksCoverGrid, PTL

LEMMA ClassifiedInGrid ==
  ASSUME Tables
  PROVE  GridInv => IconClassifiesEveryActiveColumn
<1> SUFFICES ASSUME GridInv, pc = "done", algorithm = "icon", NEW i \in Active
             PROVE  categorical[i] # NoPrecip
  BY DEF IconClassifiesEveryActiveColumn
<1>1. i \in Columns
  BY DEF Active
<1>2. Prepared(grid[i])
  BY <1>1, GridPrepared
<1>3. categorical[i] = IconNumba(grid[i]).code
  BY AllDiagnosed DEF Diagnosed
<1>4. QED
  BY <1>2, <1>3, IconFits

\* In the ICON mode, with tables that are percentages and a logarithm below its
\* bound, every column over the mask gets a type: where nothing freezes to rain,
\* the pellets are certain.
THEOREM IconClassifiesAll ==
  ASSUME Tables
  PROVE  Spec => []IconClassifiesEveryActiveColumn
<1>1. GridInv => IconClassifiesEveryActiveColumn
  BY ClassifiedInGrid
<1>2. QED
  BY <1>1, ChunksCoverGrid, PTL

=============================================================================
