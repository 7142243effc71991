-------------------------------- MODULE WellOrder --------------------------------
(***************************************************************************)
(* Least and greatest elements of sets of natural numbers, their members   *)
(* one after the other, and induction stated over sets: what the proofs    *)
(* need where the code takes the first or the last hour, or goes through   *)
(* hours or months one after the other.  Also residues and sums, for the   *)
(* counters of 16 bits.                                                    *)
(***************************************************************************)
EXTENDS Integers, Functions, WellFoundedInduction, FiniteSetTheorems, FunctionTheorems, TLAPS

\* Every inhabited set of natural numbers has a least element.
LEMMA NatHasLeast ==
  ASSUME NEW S, S \subseteq Nat, S # {}
  PROVE  \E x \in S : \A y \in S : x <= y
<1> DEFINE R == OpToRel(<, Nat)
<1>1. IsWellFoundedOn(R, Nat)
  BY NatLessThanWellFounded
<1>2. \A i, j \in Nat : <<i, j>> \in R <=> i < j
  BY DEF OpToRel
<1> HIDE DEF R
<1>3. PICK x \in S : \A y \in S : ~(<<y, x>> \in R)
  BY <1>1, WFMin
<1>4. \A y \in S : ~(y < x)
  BY <1>2, <1>3
<1>5. QED
  BY <1>4

\* Every inhabited set of natural numbers below a bound has a greatest element.
LEMMA NatHasGreatest ==
  ASSUME NEW S, NEW bound \in Nat, S # {}, \A x \in S : x \in Nat /\ x <= bound
  PROVE  \E x \in S : \A y \in S : y <= x
<1> DEFINE T == {n \in Nat : bound - n \in S}
<1>1. T # {}
  <2>1. PICK x \in S : TRUE
    OBVIOUS
  <2>2. bound - x \in Nat /\ bound - (bound - x) = x
    BY <2>1
  <2>3. bound - x \in T
    BY <2>1, <2>2
  <2>4. QED
    BY <2>3
<1>2. PICK n \in T : \A k \in T : n <= k
  BY <1>1, NatHasLeast
<1>3. ASSUME NEW y \in S
      PROVE  y <= bound - n
  <2>1. bound - y \in Nat /\ bound - (bound - y) = y
    OBVIOUS
  <2>2. n <= bound - y
    BY <1>2, <2>1
  <2>3. QED
    BY <1>2, <2>2
<1>4. QED
  BY <1>2, <1>3

\* A set of natural numbers with zero and the successors of its elements is
\* the set of all of them.
LEMMA NatSetInduction ==
  ASSUME NEW S, 0 \in S, \A n \in Nat : n \in S => n + 1 \in S
  PROVE  Nat \subseteq S
<1> DEFINE T == {n \in Nat : n \notin S}
<1> SUFFICES ASSUME T # {} PROVE FALSE
  OBVIOUS
<1>1. PICK n \in T : \A k \in T : n <= k
  BY NatHasLeast
<1>2. n # 0 /\ n - 1 \in Nat
  BY <1>1
<1>3. n - 1 \in S
  BY <1>1, <1>2
<1>4. (n - 1) + 1 \in S
  BY <1>2, <1>3
<1>5. QED
  BY <1>1, <1>4

-----------------------------------------------------------------------------
(* The members of a finite set of natural numbers, one after the other.     *)

\* How many members come before.
Rank(M, m) == Cardinality({n \in M : n < m})

\* There are fewer members before one than members.
LEMMA RankType ==
  ASSUME NEW M \in SUBSET Nat, IsFiniteSet(M), NEW m \in M
  PROVE  Rank(M, m) \in 0..(Cardinality(M) - 1)
<1> DEFINE before == {n \in M : n < m}
<1>1. IsFiniteSet(before) /\ Cardinality(before) <= Cardinality(M)
      /\ (Cardinality(M) = Cardinality(before) => M = before)
  BY FS_Subset, before \in SUBSET M
<1>2. m \notin before
  OBVIOUS
<1>3. Cardinality(before) \in Nat /\ Cardinality(M) \in Nat
  BY <1>1, FS_CardinalityType
<1>4. QED
  BY <1>1, <1>2, <1>3 DEF Rank

\* More members come before a later one.
LEMMA RankGrows ==
  ASSUME NEW M \in SUBSET Nat, IsFiniteSet(M), NEW m \in M, NEW k \in M, m < k
  PROVE  Rank(M, m) < Rank(M, k)
<1> DEFINE below == {n \in M : n < m}
           upto == {n \in M : n < k}
<1>1. IsFiniteSet(upto)
  BY FS_Subset, upto \in SUBSET M
<1>2. below \in SUBSET upto /\ m \in upto /\ m \notin below
  <2>1. \A n \in M : n \in Nat
    OBVIOUS
  <2>2. \A n \in M : n < m => n < k
    BY <2>1
  <2>3. ~(m < m)
    BY <2>1
  <2>4. QED
    BY <2>2, <2>3
<1>3. IsFiniteSet(below) /\ Cardinality(below) <= Cardinality(upto)
      /\ Cardinality(upto) # Cardinality(below)
  BY <1>1, <1>2, FS_Subset
<1>4. Cardinality(below) \in Nat /\ Cardinality(upto) \in Nat
  BY <1>1, <1>3, FS_CardinalityType
<1>5. QED
  BY <1>3, <1>4 DEF Rank

\* Every place in the order is taken, by one member.
LEMMA NthExists ==
  ASSUME NEW M \in SUBSET Nat, IsFiniteSet(M), NEW i \in 1..Cardinality(M)
  PROVE  \E m \in M : Rank(M, m) = i - 1
<1> DEFINE place == [m \in M |-> Rank(M, m) + 1]
           places == 1..Cardinality(M)
<1>1. Cardinality(M) \in Nat
  BY FS_CardinalityType
<1>2. IsFiniteSet(places) /\ Cardinality(places) = Cardinality(M)
  BY <1>1, FS_Interval
<1>3. \A m \in M : Rank(M, m) \in 0..(Cardinality(M) - 1)
  BY RankType
<1>4. \A m \in M : Rank(M, m) + 1 \in places
  BY <1>1, <1>3
<1>5. place \in [M -> places]
  BY <1>4
<1>6. ASSUME NEW m \in M, NEW k \in M, place[m] = place[k]
      PROVE  m = k
  <2>1. Rank(M, m) = Rank(M, k)
    BY <1>3, <1>6
  <2>2. ~(m < k) /\ ~(k < m)
    BY <1>1, <1>3, <2>1, RankGrows
  <2>3. QED
    BY <2>2
<1>7. place \in Injection(M, places)
  BY <1>5, <1>6 DEF Injection, IsInjective
<1>8. place \in Surjection(M, places)
  BY <1>2, <1>7, FS_Injection
<1>9. PICK m \in M : place[m] = i
  BY <1>8 DEF Surjection
<1>10. QED
  BY <1>1, <1>3, <1>9

-----------------------------------------------------------------------------
(* Residues.                                                               *)

\* Quotient and remainder are unique.
LEMMA DivisionUnique ==
  ASSUME NEW n \in Nat \ {0}, NEW q \in Int, NEW r \in 0..(n - 1)
  PROVE  (n * q + r) % n = r /\ (n * q + r) \div n = q
<1> DEFINE x == n * q + r
           Q == x \div n
           R == x % n
<1>1. x \in Int /\ Q \in Int /\ R \in Int /\ x = n * Q + R /\ 0 <= R /\ R < n
  OBVIOUS
<1>2. n * q \in Int /\ n * Q \in Int /\ x = n * q + r /\ 0 <= r /\ r < n
  BY <1>1
<1> HIDE DEF x, Q, R
<1>3. ASSUME q < Q PROVE FALSE
  <2>1. n * (q + 1) <= n * Q /\ n * (q + 1) = n * q + n
    BY <1>1, <1>3
  <2>2. QED
    BY <1>1, <1>2, <2>1
<1>4. ASSUME Q < q PROVE FALSE
  <2>1. n * (Q + 1) <= n * q /\ n * (Q + 1) = n * Q + n
    BY <1>1, <1>4
  <2>2. QED
    BY <1>1, <1>2, <2>1
<1>5. Q = q
  BY <1>1, <1>3, <1>4
<1>6. R = r
  BY <1>1, <1>2, <1>5
<1>7. QED
  BY <1>5, <1>6 DEF x, Q, R

\* A number below the modulus is its own residue.
LEMMA SmallResidue ==
  ASSUME NEW n \in Nat \ {0}, NEW x \in Nat, x < n
  PROVE  x % n = x
<1>1. (n * 0 + x) % n = x
  BY DivisionUnique
<1>2. QED
  BY <1>1

\* Sums may be reduced early.
LEMMA ReducedSum ==
  ASSUME NEW n \in Nat \ {0}, NEW a \in Nat, NEW b \in Nat
  PROVE  ((a % n) + (b % n)) % n = (a + b) % n /\ ((a % n) + b) % n = (a + b) % n
<1> DEFINE Residue(x) == x % n
           Times(x) == x \div n
<1>1. \A x \in Nat : /\ Residue(x) \in 0..(n - 1) /\ Times(x) \in Int
                     /\ x = n * Times(x) + Residue(x)
  OBVIOUS
<1>2. \A x \in Nat : \A q \in Int : n * q + x \in Nat => Residue(n * q + x) = Residue(x)
  <2> SUFFICES ASSUME NEW x \in Nat, NEW q \in Int, n * q + x \in Nat
               PROVE  Residue(n * q + x) = Residue(x)
    OBVIOUS
  <2>1. PICK t \in Int, r \in 0..(n - 1) : x = n * t + r /\ r = Residue(x)
    BY <1>1
  <2> HIDE DEF Residue, Times
  <2>2. n * q + n * t = n * (q + t) /\ q + t \in Int
    OBVIOUS
  <2>3. n * q + x = n * (q + t) + r
    BY <2>1, <2>2
  <2>4. (n * (q + t) + r) % n = r
    BY <2>2, DivisionUnique
  <2>5. QED
    BY <2>1, <2>3, <2>4 DEF Residue
<1>3. /\ Residue(a) \in Nat /\ Residue(b) \in Nat /\ Times(a) \in Int /\ Times(b) \in Int
      /\ a = n * Times(a) + Residue(a) /\ b = n * Times(b) + Residue(b)
      /\ n * Times(a) \in Int /\ n * Times(b) \in Int
  BY <1>1
<1> HIDE DEF Times
<1>4. n * (Times(a) + Times(b)) = n * Times(a) + n * Times(b) /\ Times(a) + Times(b) \in Int
  BY <1>3
<1>5. a + b = n * (Times(a) + Times(b)) + (Residue(a) + Residue(b))
      /\ a + b = n * Times(a) + (Residue(a) + b)
  <2> HIDE DEF Residue
  <2>1. QED
    BY <1>3, <1>4
<1>6. Residue(a) + Residue(b) \in Nat /\ Residue(a) + b \in Nat /\ a + b \in Nat
  BY <1>3
<1>7. Residue(Residue(a) + Residue(b)) = Residue(a + b)
  <2> HIDE DEF Residue
  <2>1. QED
    BY <1>2, <1>4, <1>5, <1>6
<1>8. Residue(Residue(a) + b) = Residue(a + b)
  <2> DEFINE x == Residue(a) + b
  <2>1. x \in Nat /\ n * Times(a) + x = a + b
    BY <1>5, <1>6
  <2> HIDE DEF Residue, x
  <2>2. n * Times(a) + x \in Nat
    BY <1>6, <2>1
  <2>3. Residue(n * Times(a) + x) = Residue(x)
    BY <1>2, <1>3, <2>1, <2>2
  <2>4. QED
    BY <2>1, <2>3 DEF x
<1>9. QED
  BY <1>7, <1>8

-----------------------------------------------------------------------------
(* Sums of counts.                                                         *)

\* f counts the members of X by what g gives them.
CountedBy(f, g, X, K) == \A k \in K : f[k] = Cardinality({x \in X : g[x] = k})

\* The counts of the values in K add up to the members with a value in K.
LEMMA SumOfCounts ==
  ASSUME NEW X, IsFiniteSet(X), NEW K, IsFiniteSet(K), NEW f, NEW g, CountedBy(f, g, X, K)
  PROVE  SumFunctionOnSet(f, K) = Cardinality({x \in X : g[x] \in K})
<1> DEFINE Those(s) == {x \in X : g[x] \in s}
           Adds(iter) == iter = [s \in SUBSET K |->
                                   IF s = {} THEN 0
                                   ELSE LET x == CHOOSE y \in s : TRUE IN f[x] + iter[s \ {x}]]
           sums == CHOOSE iter : Adds(iter)
           number == [s \in SUBSET K |-> Cardinality(Those(s))]
           S == {n \in Nat : \A s \in SUBSET K : IsFiniteSet(s) /\ Cardinality(s) = n =>
                                                   sums[s] = Cardinality(Those(s))}
<1>1. SumFunctionOnSet(f, K) = sums[K]
  BY DEF SumFunctionOnSet, FoldFunctionOnSet, MapThenFoldSet
<1>2. Cardinality(Those({})) = 0
  <2>1. Those({}) = {}
    OBVIOUS
  <2>2. QED
    BY <2>1, FS_EmptySet
<1>3. ASSUME NEW s, NEW k \in s, k \in K
      PROVE  /\ Cardinality(Those(s)) = f[k] + Cardinality(Those(s \ {k}))
             /\ Cardinality(Those(s)) \in Nat
  <2> DEFINE one == {x \in X : g[x] = k}
  <2>1. Those(s) = one \union Those(s \ {k}) /\ one \intersect Those(s \ {k}) = {}
    OBVIOUS
  <2>2. one \in SUBSET X /\ Those(s \ {k}) \in SUBSET X
    OBVIOUS
  <2>3. f[k] = Cardinality(one)
    BY <1>3 DEF CountedBy
  <2> HIDE DEF one, Those
  <2>4. /\ IsFiniteSet(one) /\ IsFiniteSet(Those(s \ {k}))
        /\ Cardinality(one) \in Nat /\ Cardinality(Those(s \ {k})) \in Nat
    BY <2>2, FS_Subset, FS_CardinalityType
  <2>5. Cardinality(one \union Those(s \ {k}))
          = Cardinality(one) + Cardinality(Those(s \ {k})) - Cardinality(one \intersect Those(s \ {k}))
    BY <2>4, FS_Union
  <2>6. Cardinality(one \intersect Those(s \ {k})) = 0
    BY <2>1, FS_EmptySet
  <2>7. QED
    BY <2>1, <2>3, <2>4, <2>5, <2>6
<1> HIDE DEF Those
<1>4. ASSUME NEW s \in SUBSET K, s # {}
      PROVE  LET x == CHOOSE y \in s : TRUE
             IN  /\ x \in s /\ s \ {x} \in SUBSET K
                 /\ Cardinality(Those(s)) = f[x] + Cardinality(Those(s \ {x}))
  <2> DEFINE x == CHOOSE y \in s : TRUE
  <2>1. x \in s
    BY <1>4
  <2> HIDE DEF x
  <2>2. x \in K /\ s \ {x} \in SUBSET K
    BY <2>1
  <2>3. QED
    BY <2>1, <2>2, <1>3 DEF x
<1>5. Adds(number)
  <2>1. ASSUME NEW s \in SUBSET K
        PROVE  number[s] = IF s = {} THEN 0
                           ELSE LET x == CHOOSE y \in s : TRUE IN f[x] + number[s \ {x}]
    BY <1>2, <1>4
  <2>2. number = [s \in SUBSET K |-> number[s]]
    OBVIOUS
  <2> HIDE DEF number
  <2>3. QED
    BY <2>1, <2>2
<1> HIDE DEF number
<1>6. Adds(sums)
  BY <1>5
<1> HIDE DEF sums
<1>7. \A s \in SUBSET K :
        sums[s] = IF s = {} THEN 0 ELSE LET x == CHOOSE y \in s : TRUE IN f[x] + sums[s \ {x}]
  BY <1>6
<1>8. 0 \in S
  BY <1>2, <1>7, FS_EmptySet
<1>9. ASSUME NEW n \in Nat, n \in S
      PROVE  n + 1 \in S
  <2> SUFFICES ASSUME NEW s \in SUBSET K, IsFiniteSet(s), Cardinality(s) = n + 1
               PROVE  sums[s] = Cardinality(Those(s))
    OBVIOUS
  <2>1. s # {}
    BY FS_EmptySet
  <2> DEFINE x == CHOOSE y \in s : TRUE
  <2>2. /\ x \in s /\ s \ {x} \in SUBSET K
        /\ Cardinality(Those(s)) = f[x] + Cardinality(Those(s \ {x}))
    BY <1>4, <2>1
  <2>3. sums[s] = f[x] + sums[s \ {x}]
    BY <1>7, <2>1
  <2> HIDE DEF x
  <2>4. IsFiniteSet(s \ {x}) /\ Cardinality(s \ {x}) = n
    <3>1. x \in s
      BY <2>2
    <3>2. IsFiniteSet(s \ {x}) /\ Cardinality(s \ {x}) = (n + 1) - 1
      BY ONLY IsFiniteSet(s), Cardinality(s) = n + 1, <3>1, FS_RemoveElement
    <3>3. QED
      BY ONLY <3>2, n \in Nat
  <2>5. sums[s \ {x}] = Cardinality(Those(s \ {x}))
    BY <2>2, <2>4, <1>9
  <2>6. QED
    BY <2>2, <2>3, <2>5
<1> HIDE DEF S
<1>10. Nat \subseteq S
  BY <1>8, <1>9, NatSetInduction
<1>11. Cardinality(K) \in S
  BY <1>10, FS_CardinalityType
<1>12. sums[K] = Cardinality(Those(K))
  BY <1>11 DEF S
<1>13. QED
  BY <1>1, <1>12 DEF Those
=============================================================================
