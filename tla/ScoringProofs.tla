---------------------------- MODULE ScoringProofs ----------------------------
(***************************************************************************)
(* Theorems about the scores of any item, for any operators, tiers,        *)
(* weights and measurements.                                               *)
(***************************************************************************)
EXTENDS Scoring, FiniteSetTheorems, SequenceTheorems, WellFoundedInduction, TLAPS

-------------------------------------------------------------------------------
(***************************************************************************)
(* Naturals and sums.  Induction is the least number principle: of a set   *)
(* of naturals that is not empty some number is the least.                 *)
(***************************************************************************)
LEMMA Least ==
  ASSUME NEW T \in SUBSET Nat, T # {}
  PROVE  \E n \in T : \A m \in T : n <= m
<1> DEFINE L == {ss \in Nat \X Nat : ss[1] < ss[2]}
<1>1. IsWellFoundedOn(L, Nat)
  BY NatLessThanWellFounded DEF OpToRel
<1>2. PICK n \in T : \A m \in T : <<m, n>> \notin L
  BY <1>1, WFMin
<1>3. ASSUME NEW m \in T PROVE n <= m
  <2>1. m \in Nat /\ n \in Nat /\ <<m, n>> \notin L
    BY <1>2
  <2>2. QED
    BY <2>1
<1>4. QED
  BY <1>3

\* There are n numbers below n.
LEMMA Below ==
  ASSUME NEW n \in Nat
  PROVE  IsFiniteSet(0 .. n - 1) /\ Cardinality(0 .. n - 1) = n
<1>1. 0 \in Int /\ n - 1 \in Int
  OBVIOUS
<1>2. /\ IsFiniteSet(0 .. n - 1)
      /\ Cardinality(0 .. n - 1) = IF 0 > n - 1 THEN 0 ELSE n - 1 - 0 + 1
  BY <1>1, FS_Interval, Zenon
<1>3. QED
  BY <1>2

\* What numbers f[x] add up to: the pairs of an x and a number below f[x].
Tally(f, s) == {p \in s \X Nat : p[2] < f[p[1]]}
Total(f, s) == Cardinality(Tally(f, s))

\* One member more adds its number.
LEMMA TotalMore ==
  ASSUME NEW f, NEW s, NEW x \in s, f[x] \in Nat,
         IsFiniteSet(Tally(f, s \ {x}))
  PROVE  IsFiniteSet(Tally(f, s)) /\ Total(f, s) = Total(f, s \ {x}) + f[x]
<1> DEFINE U == Tally(f, s \ {x})
           V == {x} \X (0 .. f[x] - 1)
<1>1. Tally(f, s) = U \cup V
  BY DEF Tally
<1>2. U \cap V = {}
  BY DEF Tally
<1>3. IsFiniteSet(0 .. f[x] - 1) /\ Cardinality(0 .. f[x] - 1) = f[x]
  BY Below, Zenon
<1>4. IsFiniteSet({x}) /\ Cardinality({x}) = 1
  BY FS_Singleton
<1>5. IsFiniteSet(V) /\ Cardinality(V) = f[x]
  <2> HIDE DEF V
  <2>1. IsFiniteSet({x} \X (0 .. f[x] - 1))
        /\ Cardinality({x} \X (0 .. f[x] - 1)) = Cardinality({x}) * Cardinality(0 .. f[x] - 1)
    BY <1>3, <1>4, FS_Product
  <2>2. QED
    BY <1>3, <1>4, <2>1 DEF V
<1> HIDE DEF U, V
<1>6. IsFiniteSet(U) /\ Cardinality(U) \in Nat
  BY FS_CardinalityType DEF U
<1>7. /\ IsFiniteSet(U \cup V)
      /\ Cardinality(U \cup V) = Cardinality(U) + Cardinality(V) - Cardinality(U \cap V)
  BY <1>5, <1>6, FS_Union
<1>8. Cardinality(U \cap V) = 0
  BY <1>2, FS_EmptySet
<1>9. Cardinality(U \cup V) = Cardinality(U) + f[x]
  BY <1>5, <1>6, <1>7, <1>8
<1>10. QED
  BY <1>1, <1>7, <1>9 DEF Total, U

\* Finitely many numbers add up to one.
LEMMA TotalType ==
  ASSUME NEW S, IsFiniteSet(S), NEW f, \A x \in S : f[x] \in Nat
  PROVE  IsFiniteSet(Tally(f, S)) /\ Total(f, S) \in Nat
<1> DEFINE Bad == {s \in SUBSET S : ~IsFiniteSet(Tally(f, s))}
           Sizes == {n \in Nat : \E s \in Bad : n = Cardinality(s)}
<1>1. \A s \in SUBSET S : IsFiniteSet(s) /\ Cardinality(s) \in Nat
  BY FS_Subset, FS_CardinalityType
<1>2. Bad = {}
  <2>1. SUFFICES ASSUME Bad # {} PROVE FALSE
    OBVIOUS
  <2>2. Sizes \in SUBSET Nat /\ Sizes # {}
    BY <1>1, <2>1
  <2>3. PICK n \in Sizes : \A m \in Sizes : n <= m
    BY <2>2, Least
  <2>4. PICK s \in Bad : n = Cardinality(s)
    OBVIOUS
  <2>5. s # {}
    <3>1. Tally(f, {}) = {}
      BY DEF Tally
    <3>2. QED
      BY <3>1, FS_EmptySet
  <2>6. PICK x \in s : TRUE
    BY <2>5
  <2>7. Cardinality(s \ {x}) = n - 1 /\ s \ {x} \in SUBSET S
    BY <1>1, <2>4, FS_RemoveElement
  <2>8. s \ {x} \notin Bad
    BY <1>1, <2>3, <2>7
  <2>9. IsFiniteSet(Tally(f, s \ {x})) /\ f[x] \in Nat
    BY <2>7, <2>8
  <2>10. IsFiniteSet(Tally(f, s))
    BY <2>9, TotalMore
  <2>11. QED
    BY <2>10
<1>3. IsFiniteSet(Tally(f, S))
  BY <1>2
<1>4. QED
  BY <1>3, FS_CardinalityType DEF Total

\* The equation MapThenSumSet solves.
Folds(g, f, S) ==
  g = [s \in SUBSET S |->
         IF s = {} THEN 0
         ELSE f[CHOOSE x \in s : TRUE] + g[s \ {CHOOSE x \in s : TRUE}]]

\* It has a solution ...
LEMMA FoldThere ==
  ASSUME NEW S, IsFiniteSet(S), NEW f, \A x \in S : f[x] \in Nat
  PROVE  Folds([s \in SUBSET S |-> Total(f, s)], f, S)
<1> DEFINE g == [s \in SUBSET S |-> Total(f, s)]
<1>1. ASSUME NEW s \in SUBSET S
      PROVE  Total(f, s) =
               IF s = {} THEN 0
               ELSE f[CHOOSE x \in s : TRUE] + g[s \ {CHOOSE x \in s : TRUE}]
  <2>1. CASE s = {}
    <3>1. Tally(f, s) = {}
      BY <2>1 DEF Tally
    <3>2. QED
      BY <2>1, <3>1, FS_EmptySet DEF Total
  <2>2. CASE s # {}
    <3> DEFINE c == CHOOSE x \in s : TRUE
    <3>1. c \in s
      BY <2>2
    <3> HIDE DEF c
    <3>2. IsFiniteSet(s \ {c}) /\ s \ {c} \in SUBSET S /\ f[c] \in Nat
      <4>1. s \ {c} \in SUBSET S
        OBVIOUS
      <4>2. QED
        BY <3>1, <4>1, FS_Subset
    <3>3. IsFiniteSet(Tally(f, s \ {c})) /\ Total(f, s \ {c}) \in Nat
      BY <3>2, TotalType
    <3>4. Total(f, s) = Total(f, s \ {c}) + f[c]
      BY <3>1, <3>2, <3>3, TotalMore
    <3>5. g[s \ {c}] = Total(f, s \ {c})
      BY <3>2
    <3>6. Total(f, s) = f[c] + g[s \ {c}]
      BY <3>2, <3>3, <3>4, <3>5
    <3>7. QED
      BY <2>2, <3>6 DEF c
  <2>3. QED
    BY <2>1, <2>2
<1>2. QED
  BY <1>1 DEF Folds

\* ... and only one.
LEMMA FoldUnique ==
  ASSUME NEW S, IsFiniteSet(S), NEW f, NEW g, NEW h, Folds(g, f, S), Folds(h, f, S)
  PROVE  g = h
<1> DEFINE Bad == {s \in SUBSET S : g[s] # h[s]}
           Sizes == {n \in Nat : \E s \in Bad : n = Cardinality(s)}
<1>1. \A s \in SUBSET S : IsFiniteSet(s) /\ Cardinality(s) \in Nat
  BY FS_Subset, FS_CardinalityType
<1>2. Bad = {}
  <2>1. SUFFICES ASSUME Bad # {} PROVE FALSE
    OBVIOUS
  <2>2. Sizes \in SUBSET Nat /\ Sizes # {}
    BY <1>1, <2>1
  <2>3. PICK n \in Sizes : \A m \in Sizes : n <= m
    BY <2>2, Least
  <2>4. PICK s \in Bad : n = Cardinality(s)
    OBVIOUS
  <2>5. g[s] = (IF s = {} THEN 0
                ELSE f[CHOOSE x \in s : TRUE] + g[s \ {CHOOSE x \in s : TRUE}])
        /\ h[s] = (IF s = {} THEN 0
                   ELSE f[CHOOSE x \in s : TRUE] + h[s \ {CHOOSE x \in s : TRUE}])
    BY DEF Folds
  <2>6. s # {}
    BY <2>5
  <2> DEFINE c == CHOOSE x \in s : TRUE
  <2>7. c \in s
    BY <2>6
  <2> HIDE DEF c
  <2>8. Cardinality(s \ {c}) = n - 1 /\ s \ {c} \in SUBSET S
    BY <1>1, <2>4, <2>7, FS_RemoveElement
  <2>9. s \ {c} \notin Bad
    BY <1>1, <2>3, <2>8
  <2>10. g[s \ {c}] = h[s \ {c}]
    BY <2>8, <2>9
  <2>11. g[s] = h[s]
    BY <2>5, <2>6, <2>10 DEF c
  <2>12. QED
    BY <2>11
<1>3. \A s \in SUBSET S : g[s] = h[s]
  BY <1>2
<1>4. QED
  BY <1>3 DEF Folds
\* What f adds up to is no more than n times what g adds up to, if no member is.
LEMMA TotalBound ==
  ASSUME NEW S, IsFiniteSet(S), NEW n \in Nat, NEW f, NEW g,
         \A x \in S : f[x] \in Nat /\ g[x] \in Nat /\ f[x] <= n * g[x]
  PROVE  Total(f, S) <= n * Total(g, S)
<1> DEFINE Bad == {s \in SUBSET S : ~(Total(f, s) <= n * Total(g, s))}
           Sizes == {k \in Nat : \E s \in Bad : k = Cardinality(s)}
<1>1. \A s \in SUBSET S : IsFiniteSet(s) /\ Cardinality(s) \in Nat
  BY FS_Subset, FS_CardinalityType
<1>2. SUFFICES ASSUME Bad # {} PROVE FALSE
  OBVIOUS
<1>3. Sizes \in SUBSET Nat /\ Sizes # {}
  BY <1>1, <1>2
<1>4. PICK k \in Sizes : \A m \in Sizes : k <= m
  BY <1>3, Least
<1>5. PICK s \in Bad : k = Cardinality(s)
  OBVIOUS
<1>6. s # {}
  <2>1. Tally(f, {}) = {} /\ Tally(g, {}) = {}
    BY DEF Tally
  <2>2. Total(f, {}) = 0 /\ Total(g, {}) = 0
    BY <2>1, FS_EmptySet DEF Total
  <2>3. n * 0 = 0 /\ 0 <= 0
    OBVIOUS
  <2>4. Total(f, {}) <= n * Total(g, {})
    BY <2>2, <2>3
  <2>5. QED
    BY <2>4
<1>7. PICK x \in s : TRUE
  BY <1>6
<1>8. Cardinality(s \ {x}) = k - 1 /\ s \ {x} \in SUBSET S /\ IsFiniteSet(s \ {x})
  BY <1>1, <1>5, FS_RemoveElement
<1>9. s \ {x} \notin Bad
  BY <1>1, <1>4, <1>8
<1>10. /\ IsFiniteSet(Tally(f, s \ {x})) /\ Total(f, s \ {x}) \in Nat
       /\ IsFiniteSet(Tally(g, s \ {x})) /\ Total(g, s \ {x}) \in Nat
  <2>1. \A y \in s \ {x} : f[y] \in Nat /\ g[y] \in Nat
    OBVIOUS
  <2>2. QED
    BY <1>8, <2>1, TotalType
<1>11. f[x] \in Nat /\ g[x] \in Nat /\ f[x] <= n * g[x]
  BY <1>7
<1>12. Total(f, s) = Total(f, s \ {x}) + f[x] /\ Total(g, s) = Total(g, s \ {x}) + g[x]
  BY <1>7, <1>10, <1>11, TotalMore
<1>13. Total(f, s \ {x}) <= n * Total(g, s \ {x})
  BY <1>8, <1>9
<1> DEFINE a == Total(f, s \ {x})
           b == Total(g, s \ {x})
           c == f[x]
           d == g[x]
<1>14. a \in Nat /\ b \in Nat /\ c \in Nat /\ d \in Nat /\ c <= n * d /\ a <= n * b
       /\ Total(f, s) = a + c /\ Total(g, s) = b + d
  BY <1>10, <1>11, <1>12, <1>13
<1> HIDE DEF a, b, c, d
<1>15. n * (b + d) = n * b + n * d /\ n * b \in Nat /\ n * d \in Nat
  BY <1>14
<1>16. Total(f, s) <= n * Total(g, s)
  BY <1>14, <1>15
<1>17. QED
  BY <1>16

-------------------------------------------------------------------------------
(***************************************************************************)
(* Weighted means.                                                         *)
(***************************************************************************)
\* What WeightedMean adds up: weights, and scores with their weights.
WeightSum(w, S) == MapThenSumSet(LAMBDA i : w[i], S)
ProductSum(w, f, S) == MapThenSumSet(LAMBDA i : w[i] * f[i], S)

LEMMA WeightSumIs ==
  ASSUME NEW S, IsFiniteSet(S), NEW w, \A i \in S : w[i] \in Nat
  PROVE  WeightSum(w, S) = Total(w, S)
<1> DEFINE h == [s \in SUBSET S |-> Total(w, s)]
<1>1. WeightSum(w, S) = (CHOOSE g : Folds(g, w, S))[S]
  BY DEF WeightSum, MapThenSumSet, MapThenFoldSet, Folds
<1>2. Folds(h, w, S)
  BY FoldThere
<1> HIDE DEF h
<1>3. Folds(CHOOSE g : Folds(g, w, S), w, S)
  BY <1>2
<1>4. (CHOOSE g : Folds(g, w, S)) = h
  BY <1>2, <1>3, FoldUnique
<1>5. QED
  BY <1>1, <1>4 DEF h

LEMMA ProductSumIs ==
  ASSUME NEW S, IsFiniteSet(S), NEW w, NEW f, NEW p,
         \A i \in S : p[i] \in Nat /\ p[i] = w[i] * f[i]
  PROVE  ProductSum(w, f, S) = Total(p, S)
<1> DEFINE Added(g) == g = [s \in SUBSET S |->
                            IF s = {} THEN 0
                            ELSE w[CHOOSE x \in s : TRUE] * f[CHOOSE x \in s : TRUE]
                                   + g[s \ {CHOOSE x \in s : TRUE}]]
           h == [s \in SUBSET S |-> Total(p, s)]
<1>1. ProductSum(w, f, S) = (CHOOSE g : Added(g))[S]
  BY DEF ProductSum, MapThenSumSet, MapThenFoldSet
<1>2. ASSUME NEW g PROVE Added(g) <=> Folds(g, p, S)
  <2>1. ASSUME NEW s \in SUBSET S, s # {}
        PROVE  w[CHOOSE x \in s : TRUE] * f[CHOOSE x \in s : TRUE] = p[CHOOSE x \in s : TRUE]
    <3>1. (CHOOSE x \in s : TRUE) \in S
      BY <2>1
    <3>2. QED
      BY <3>1
  <2>2. [s \in SUBSET S |->
           IF s = {} THEN 0
           ELSE w[CHOOSE x \in s : TRUE] * f[CHOOSE x \in s : TRUE]
                  + g[s \ {CHOOSE x \in s : TRUE}]]
        = [s \in SUBSET S |->
           IF s = {} THEN 0
           ELSE p[CHOOSE x \in s : TRUE] + g[s \ {CHOOSE x \in s : TRUE}]]
    BY <2>1
  <2>3. QED
    BY <2>2 DEF Folds
<1>3. Folds(h, p, S)
  BY FoldThere
<1> HIDE DEF Added, h
<1>4. Added(CHOOSE g : Added(g))
  BY <1>2, <1>3
<1>5. (CHOOSE g : Added(g)) = h
  BY <1>2, <1>3, <1>4, FoldUnique
<1>6. QED
  BY <1>1, <1>5 DEF h

\* What the scores that are given add up to with their weights.
Products(w, f) == [i \in Given(f) |-> w[i] * f[i]]

\* A family of scores, with weights: finitely many, each a number or None.
Family(w, f) ==
  /\ IsFiniteSet(DOMAIN f)
  /\ \A i \in DOMAIN f : f[i] \in Nat \cup {None} /\ w[i] \in Nat \ {0}

LEMMA MeanIs ==
  ASSUME NEW w, NEW f, Family(w, f)
  PROVE  /\ Given(f) = {} => WeightedMean(w, f) = None
         /\ Given(f) # {} =>
              /\ WeightedMean(w, f) = Total(Products(w, f), Given(f)) \div Total(w, Given(f))
              /\ Total(Products(w, f), Given(f)) \in Nat
              /\ Total(w, Given(f)) \in Nat \ {0}
<1> DEFINE S == Given(f)
           p == Products(w, f)
<1>1. IsFiniteSet(S)
  <2>1. S \in SUBSET DOMAIN f
    BY DEF Given
  <2>2. QED
    BY <2>1, FS_Subset DEF Family
<1>2. \A i \in S : f[i] \in Nat /\ w[i] \in Nat \ {0}
  BY DEF Given, Family
<1>3. \A i \in S : p[i] \in Nat /\ p[i] = w[i] * f[i]
  BY <1>2 DEF Products
<1>4. WeightSum(w, S) = Total(w, S)
  BY <1>1, <1>2, WeightSumIs
<1>5. ProductSum(w, f, S) = Total(p, S)
  <2> HIDE DEF S, p
  <2>1. QED
    BY <1>1, <1>3, ProductSumIs
<1>6. Total(p, S) \in Nat
  <2> HIDE DEF S, p
  <2>1. QED
    BY <1>1, <1>3, TotalType
<1>7. S # {} => Total(w, S) \in Nat \ {0}
  <2>1. SUFFICES ASSUME NEW x \in S PROVE Total(w, S) \in Nat \ {0}
    OBVIOUS
  <2>2. IsFiniteSet(S \ {x})
    BY <1>1, FS_Subset
  <2>3. IsFiniteSet(Tally(w, S \ {x})) /\ Total(w, S \ {x}) \in Nat
    BY <1>2, <2>2, TotalType
  <2>4. Total(w, S) = Total(w, S \ {x}) + w[x]
    BY <1>2, <2>3, TotalMore
  <2>5. QED
    BY <1>2, <2>3, <2>4
<1>8. QED
  BY <1>4, <1>5, <1>6, <1>7 DEF WeightedMean, WeightSum, ProductSum

\* A mean of numbers up to n is one.
LEMMA MeanBound ==
  ASSUME NEW w, NEW f, Family(w, f), NEW n \in Nat,
         \A i \in DOMAIN f : f[i] \in 0..n \cup {None}
  PROVE  WeightedMean(w, f) \in 0..n \cup {None}
<1> DEFINE S == Given(f)
           a == Total(Products(w, f), S)
           b == Total(w, S)
<1>1. CASE S = {}
  BY <1>1, MeanIs
<1>2. CASE S # {}
  <2>1. WeightedMean(w, f) = a \div b /\ a \in Nat /\ b \in Nat \ {0}
    BY <1>2, MeanIs
  <2>2. IsFiniteSet(S)
    <3>1. S \in SUBSET DOMAIN f
      BY DEF Given
    <3>2. QED
      BY <3>1, FS_Subset DEF Family
  <2>3. \A i \in S : /\ Products(w, f)[i] \in Nat /\ w[i] \in Nat
                     /\ Products(w, f)[i] <= n * w[i]
    <3>1. SUFFICES ASSUME NEW i \in S
                   PROVE  /\ Products(w, f)[i] \in Nat /\ w[i] \in Nat
                          /\ Products(w, f)[i] <= n * w[i]
      OBVIOUS
    <3>2. w[i] \in Nat /\ f[i] \in 0..n /\ Products(w, f)[i] = w[i] * f[i]
      BY DEF Products, Given, Family
    <3>3. \A x, y \in Nat : y <= n => x * y \in Nat /\ x * y <= n * x
      OBVIOUS
    <3>4. QED
      BY <3>2, <3>3
  <2>4. a <= n * b
    <3> HIDE DEF S
    <3>1. QED
      BY <2>2, <2>3, TotalBound
  <2> HIDE DEF a, b
  <2>5. a \div b \in 0..n
    BY <2>1, <2>4
  <2>6. QED
    BY <2>1, <2>5
<1>3. QED
  BY <1>1, <1>2

\* A mean of numbers is one.
LEMMA MeanType ==
  ASSUME NEW w, NEW f, Family(w, f)
  PROVE  /\ WeightedMean(w, f) \in Nat \cup {None}
         /\ WeightedMean(w, f) = None <=> Given(f) = {}
<1>1. \A a \in Nat, b \in Nat \ {0} : a \div b \in Nat
  OBVIOUS
<1>2. None \notin Nat
  BY MarkersDiffer
<1>3. CASE Given(f) = {}
  BY <1>3, MeanIs
<1>4. CASE Given(f) # {}
  <2>1. WeightedMean(w, f) \in Nat
    BY <1>1, <1>4, MeanIs
  <2>2. QED
    BY <1>2, <1>4, <2>1
<1>5. QED
  BY <1>3, <1>4

\* Means only look at the scores that are given.
LEMMA MeansAgree ==
  ASSUME NEW w, NEW f, NEW g, Family(w, f), Family(w, g),
         Given(f) = Given(g), \A i \in Given(f) : f[i] = g[i]
  PROVE  WeightedMean(w, f) = WeightedMean(w, g)
<1>1. Products(w, f) = Products(w, g)
  BY DEF Products
<1>2. QED
  BY <1>1, MeanIs

-------------------------------------------------------------------------------
(***************************************************************************)
(* Clamps, shares and logarithms.                                          *)
(***************************************************************************)
LEMMA MaxMinIs ==
  ASSUME NEW a \in Int, NEW b \in Int
  PROVE  /\ Max({a, b}) = IF a >= b THEN a ELSE b
         /\ Min({a, b}) = IF a <= b THEN a ELSE b
<1>1. Max({a, b}) = IF a >= b THEN a ELSE b
  <2>1. \E x \in {a, b} : \A y \in {a, b} : x >= y
    BY a >= b \/ b >= a
  <2>2. PICK x \in {a, b} : x = Max({a, b}) /\ \A y \in {a, b} : x >= y
    BY <2>1 DEF Max
  <2>3. QED
    BY <2>2
<1>2. Min({a, b}) = IF a <= b THEN a ELSE b
  <2>1. \E x \in {a, b} : \A y \in {a, b} : x <= y
    BY a <= b \/ b <= a
  <2>2. PICK x \in {a, b} : x = Min({a, b}) /\ \A y \in {a, b} : x <= y
    BY <2>1 DEF Min
  <2>3. QED
    BY <2>2
<1>3. QED
  BY <1>1, <1>2

\* A finite set of numbers that is not empty has a largest.
LEMMA MaxOf ==
  ASSUME NEW S \in SUBSET Nat, IsFiniteSet(S), S # {}
  PROVE  Max(S) \in S
<1> DEFINE Gaps(a) == {y \in S : y > a}
           Sizes == {n \in Nat : \E a \in S : n = Cardinality(Gaps(a))}
<1>1. \A a \in S : IsFiniteSet(Gaps(a)) /\ Cardinality(Gaps(a)) \in Nat
  <2>1. SUFFICES ASSUME NEW a \in S
                 PROVE  IsFiniteSet(Gaps(a)) /\ Cardinality(Gaps(a)) \in Nat
    OBVIOUS
  <2>2. Gaps(a) \in SUBSET S
    OBVIOUS
  <2>3. QED
    BY <2>2, FS_Subset, FS_CardinalityType
<1>2. Sizes \in SUBSET Nat /\ Sizes # {}
  BY <1>1
<1>3. PICK n \in Sizes : \A m \in Sizes : n <= m
  BY <1>2, Least
<1>4. PICK a \in S : n = Cardinality(Gaps(a))
  OBVIOUS
<1>5. \A y \in S : a >= y
  <2>1. SUFFICES ASSUME NEW y \in S, ~(a >= y) PROVE FALSE
    OBVIOUS
  <2>2. y > a /\ y \in Nat /\ a \in Nat /\ \A z \in S : z \in Nat
    BY <2>1
  <2>3. /\ \A z \in S : z > y => z > a
        /\ ~(y > y)
    BY <2>2
  <2>4. Gaps(y) \in SUBSET Gaps(a) /\ y \in Gaps(a) /\ y \notin Gaps(y)
    BY <2>2, <2>3
  <2>5. Cardinality(Gaps(y)) < Cardinality(Gaps(a))
    <3> HIDE DEF Gaps
    <3>1. Gaps(y) # Gaps(a)
      BY <2>4
    <3>2. QED
      BY <1>1, <2>4, <3>1, FS_Subset
  <2>6. Cardinality(Gaps(y)) \in Sizes
    BY <1>1
  <2>7. QED
    BY <1>1, <1>3, <1>4, <2>5, <2>6
<1>6. \E x \in S : \A y \in S : x >= y
  BY <1>5
<1>7. QED
  BY <1>6 DEF Max

(***************************************************************************)
(* The units as bounds: DEF Full would turn 0..Full into a range between   *)
(* two numerals, which is too large for the provers.                       *)
(***************************************************************************)
LEMMA FullIs ==
  /\ Full \in Nat \ {0} /\ 100000 <= Full /\ Full <= 100000
  /\ Point \in Nat \ {0} /\ 10000 <= Point /\ Point <= 10000
  /\ Percent \in Nat \ {0} /\ 1000 <= Percent /\ Percent <= 1000
BY DEF Full, Point, Percent

LEMMA ClampIs ==
  ASSUME NEW x \in Int
  PROVE  Clamp10(x) = IF x < 0 THEN 0 ELSE IF x > Full THEN Full ELSE x
<1>1. Min({Full, x}) = IF Full <= x THEN Full ELSE x
  BY MaxMinIs, FullIs
<1>2. Min({Full, x}) \in Int
  BY <1>1, FullIs
<1>3. Max({0, Min({Full, x})}) = IF 0 >= Min({Full, x}) THEN 0 ELSE Min({Full, x})
  BY <1>2, MaxMinIs
<1>4. QED
  BY <1>1, <1>3, FullIs DEF Clamp10, Clamp

LEMMA ClampRange ==
  ASSUME NEW x \in Int PROVE Clamp10(x) \in 0..Full
BY ClampIs, FullIs

\* Division rounds an integer to an integer.
LEMMA DivisionType ==
  ASSUME NEW a \in Int, NEW b \in Nat \ {0}
  PROVE  a \div b \in Int /\ (a \in Nat => a \div b \in Nat)
OBVIOUS

LEMMA PartRange ==
  ASSUME NEW n \in Int, NEW d \in Nat \ {0}
  PROVE  Part(n, d) \in 0..Full
<1>1. Full * n \in Int
  BY FullIs
<1>2. (Full * n) \div d \in Int
  BY <1>1, DivisionType
<1>3. QED
  BY <1>2, ClampRange DEF Part

LEMMA CostRange ==
  ASSUME NEW n \in Int, NEW d \in Nat \ {0}, NEW r \in Nat \ {0}
  PROVE  CostPart(n, d, r) \in 0..Full
<1>1. 100 * Full * n \in Int /\ d * r \in Nat \ {0}
  BY FullIs
<1>2. (100 * Full * n) \div (d * r) \in Int
  BY <1>1, DivisionType
<1>3. Full - (100 * Full * n) \div (d * r) \in Int
  BY <1>2, FullIs
<1>4. QED
  BY <1>3, ClampRange DEF CostPart

\* A part of a whole is a share of it without any clamp.
LEMMA ShareRange ==
  ASSUME NEW a \in Nat, NEW b \in Nat \ {0}, a <= b
  PROVE  /\ (Full * a) \div b \in 0..Full
         /\ Part(a, b) = (Full * a) \div b
<1>1. (Full * a) \div b \in 0..Full
  <2> DEFINE c == Full * a
  <2>1. c \in Nat /\ c <= Full * b
    BY FullIs
  <2> HIDE DEF c
  <2>2. c \div b \in 0..Full
    BY <2>1, FullIs
  <2>3. QED
    BY <2>2 DEF c
<1>2. QED
  BY <1>1, ClampIs, FullIs DEF Part

LEMMA BlendRange ==
  ASSUME NEW wa \in Nat, NEW wb \in Nat, wa + wb = 100,
         NEW a \in 0..Full \cup {None}, NEW b \in 0..Full \cup {None}
  PROVE  Blend(wa, a, wb, b) \in 0..Full \cup {None}
<1>1. CASE a = None \/ b = None
  BY <1>1 DEF Blend
<1>2. CASE a # None /\ b # None
  <2>1. a \in 0..Full /\ b \in 0..Full
    BY <1>2
  <2>2. wa * a \in Nat /\ wa * a <= Full * wa /\ wb * b \in Nat /\ wb * b <= Full * wb
    BY <2>1, FullIs
  <2> DEFINE c == wa * a + wb * b
  <2>3. c \in Nat /\ c <= Full * 100
    BY <2>2, FullIs
  <2> HIDE DEF c
  <2>4. c \div 100 \in 0..Full
    BY <2>3, FullIs
  <2>5. QED
    BY <1>2, <2>4 DEF Blend, c
<1>3. QED
  BY <1>1, <1>2

-------------------------------------------------------------------------------
(***************************************************************************)
(* Logarithms.                                                             *)
(***************************************************************************)
LEMMA PowersFinite == Powers \in SUBSET Nat /\ IsFiniteSet(Powers)
<1>1. Powers \in SUBSET Nat /\ \A q \in Powers : q <= 65536
  BY DEF Powers
<1>2. QED
  BY <1>1, FS_BoundedSetOfNaturals, 65536 \in Nat

LEMMA LogMonotone ==
  ASSUME NEW a \in Int, NEW b \in Int, a <= b
  PROVE  Log2(a) \in Nat /\ Log2(b) \in Nat /\ Log2(a) <= Log2(b)
<1> DEFINE A == {q \in Powers : q <= a}
           B == {q \in Powers : q <= b}
<1>1. Powers \in SUBSET Nat /\ IsFiniteSet(Powers)
  BY PowersFinite
<1>2. A \in SUBSET B /\ B \in SUBSET Powers
  <2>1. \A q \in Powers : q \in Int
    BY <1>1
  <2>2. \A q \in Powers : q <= a => q <= b
    BY <2>1
  <2>3. QED
    BY <2>2
<1>3. IsFiniteSet(B) /\ IsFiniteSet(A) /\ Cardinality(A) <= Cardinality(B)
  BY <1>1, <1>2, FS_Subset
<1>4. QED
  BY <1>3, FS_CardinalityType DEF Log2

\* A power of two between two numbers makes their logarithms differ.
LEMMA LogApart ==
  ASSUME NEW a \in Int, NEW b \in Int, NEW q \in Powers, a < q, q <= b
  PROVE  Log2(a) < Log2(b)
<1> DEFINE A == {x \in Powers : x <= a}
           B == {x \in Powers : x <= b}
<1>1. Powers \in SUBSET Nat /\ IsFiniteSet(Powers)
  BY PowersFinite
<1>2. q \in Int
  BY <1>1
<1>3. A \in SUBSET B /\ B \in SUBSET Powers /\ q \in B /\ q \notin A
  <2>1. \A x \in Powers : x \in Int
    BY <1>1
  <2>2. \A x \in Powers : x <= a => x <= b
    BY <1>2, <2>1
  <2>3. q <= b /\ ~(q <= a)
    BY <1>2
  <2>4. q \in B /\ q \notin A
    BY <2>3
  <2>5. QED
    BY <2>2, <2>4
<1>4. IsFiniteSet(B)
  BY <1>1, <1>3, FS_Subset
<1>5. A # B
  BY <1>3
<1>6. IsFiniteSet(A) /\ Cardinality(A) <= Cardinality(B) /\ Cardinality(A) # Cardinality(B)
  BY <1>3, <1>4, <1>5, FS_Subset
<1>7. Cardinality(A) \in Nat /\ Cardinality(B) \in Nat
  BY <1>4, <1>6, FS_CardinalityType
<1>8. QED
  BY <1>6, <1>7 DEF Log2

\* The spans of values that are scored by their logarithm.
LEMMA LnRange ==
  ASSUME NEW v \in Nat, NEW lo \in Nat, NEW hi \in Nat,
         lo < v /\ v < hi => \E q \in Powers : lo < q /\ q <= hi
  PROVE  LnScore(v, lo, hi) \in 0..Full
<1>1. CASE v <= 0 \/ v <= lo
  BY <1>1, FullIs DEF LnScore
<1>2. CASE ~(v <= 0 \/ v <= lo) /\ v >= hi
  BY <1>2, FullIs DEF LnScore
<1>3. CASE ~(v <= 0 \/ v <= lo) /\ ~(v >= hi)
  <2>1. lo < v /\ v < hi
    BY <1>3
  <2>2. PICK q \in Powers : lo < q /\ q <= hi
    BY <2>1
  <2>3. Log2(lo) < Log2(hi)
    BY <2>2, LogApart
  <2>4. Log2(lo) <= Log2(v) /\ Log2(v) <= Log2(hi) /\ Log2(lo) \in Nat /\ Log2(v) \in Nat
        /\ Log2(hi) \in Nat
    BY <2>1, LogMonotone
  <2> DEFINE a == Log2(hi) - Log2(v)
             b == Log2(hi) - Log2(lo)
  <2>5. a \in Nat /\ b \in Nat \ {0} /\ a <= b
    BY <2>3, <2>4
  <2>6. LnScore(v, lo, hi) = (Full * a) \div b
    BY <1>3 DEF LnScore
  <2> HIDE DEF a, b
  <2>7. QED
    BY <2>5, <2>6, ShareRange
<1>4. QED
  BY <1>1, <1>2, <1>3

LEMMA HalvedRange ==
  ASSUME NEW n \in Nat PROVE Halved(n) \in 0..Full
<1>1. CASE n < 17
  <2>1. n = 0 \/ n = 1 \/ n = 2 \/ n = 3 \/ n = 4 \/ n = 5 \/ n = 6 \/ n = 7 \/ n = 8 \/ n = 9
        \/ n = 10 \/ n = 11 \/ n = 12 \/ n = 13 \/ n = 14 \/ n = 15 \/ n = 16
    BY <1>1
  <2>2. QED
    BY <1>1, <2>1, FullIs DEF Halved, Halves
<1>2. CASE ~(n < 17)
  BY <1>2, FullIs DEF Halved
<1>3. QED
  BY <1>1, <1>2

-------------------------------------------------------------------------------
(***************************************************************************)
(* Both programs use the same arithmetic and the same lists of items.      *)
(***************************************************************************)
LEMMA CommandMath ==
  /\ Command!Full = Full /\ Command!Point = Point /\ Command!Percent = Percent
  /\ Command!HwItems = HwItems /\ Command!RateItems = RateItems
  /\ Command!LineItems = LineItems /\ Command!OpItems = OpItems
  /\ Command!Alignments = Alignments /\ Command!Capacities = Capacities
  /\ Command!BandwidthFields = BandwidthFields /\ Command!RateFields = RateFields
  /\ \A x : Command!Clamp10(x) = Clamp10(x) /\ Command!Max(x) = Max(x) /\ Command!Min(x) = Min(x)
            /\ Command!Mean(x) = Mean(x) /\ Command!Halved(x) = Halved(x)
            /\ Command!Log2(x) = Log2(x)
  /\ \A x, y : Command!Part(x, y) = Part(x, y) /\ Command!WeightedMean(x, y) = WeightedMean(x, y)
  /\ \A x, y, z : /\ Command!CostPart(x, y, z) = CostPart(x, y, z)
                  /\ Command!LnScore(x, y, z) = LnScore(x, y, z)
  /\ \A wa, a, wb, b : Command!Blend(wa, a, wb, b) = Blend(wa, a, wb, b)
<1>1. Command!Full = Full /\ Command!Point = Point /\ Command!Percent = Percent
  BY DEF Full, Command!Full, Point, Command!Point, Percent, Command!Percent
<1>2. Command!LineItems = LineItems /\ Command!RateItems = RateItems
  BY DEF LineItems, Command!LineItems, RateItems, Command!RateItems
<1>3. Command!HwItems = HwItems /\ Command!OpItems = OpItems
  BY <1>2, Zenon DEF HwItems, Command!HwItems, OpItems, Command!OpItems
<1>4. Command!RateFields = RateFields
  BY <1>2, Zenon DEF RateFields, Command!RateFields
<1>5. /\ Command!Alignments = Alignments /\ Command!Capacities = Capacities
      /\ Command!BandwidthFields = BandwidthFields
  BY DEF Alignments, Command!Alignments, Capacities, Command!Capacities, BandwidthFields,
         Command!BandwidthFields
<1>6. \A x : Command!Max(x) = Max(x) /\ Command!Min(x) = Min(x)
  BY DEF Max, Command!Max, Min, Command!Min
<1>7. \A x : Command!Clamp10(x) = Clamp10(x)
  BY <1>1, <1>6, Zenon DEF Clamp10, Command!Clamp10, Clamp, Command!Clamp
<1>8. \A x : Command!Halved(x) = Halved(x) /\ Command!Log2(x) = Log2(x)
  <2>1. Command!Halves = Halves /\ Command!Powers = Powers
    BY DEF Halves, Command!Halves, Powers, Command!Powers
  <2>2. ASSUME NEW S PROVE Command!Cardinality(S) = Cardinality(S)
    BY DEF Cardinality, Command!Cardinality
  <2>3. QED
    BY <2>1, <2>2, Zenon DEF Halved, Command!Halved, Log2, Command!Log2
<1>9. ASSUME NEW x, NEW y PROVE Command!WeightedMean(x, y) = WeightedMean(x, y)
  BY DEF WeightedMean, Command!WeightedMean, Given, Command!Given, MapThenSumSet, Command!MapThenSumSet,
         MapThenFoldSet, Command!MapThenFoldSet
<1>10. \A x : Command!Mean(x) = Mean(x)
  BY <1>9, Zenon DEF Mean, Command!Mean
<1>11. \A x, y : Command!Part(x, y) = Part(x, y)
  BY <1>1, <1>7, Zenon DEF Part, Command!Part
<1>12. \A x, y, z : /\ Command!CostPart(x, y, z) = CostPart(x, y, z)
                    /\ Command!LnScore(x, y, z) = LnScore(x, y, z)
  BY <1>1, <1>7, <1>8, Zenon DEF CostPart, Command!CostPart, LnScore, Command!LnScore
<1>13. \A wa, a, wb, b : Command!Blend(wa, a, wb, b) = Blend(wa, a, wb, b)
  BY Zenon DEF Blend, Command!Blend
<1>14. QED
  BY <1>1, <1>2, <1>3, <1>4, <1>5, <1>6, <1>7, <1>8, <1>9, <1>10, <1>11, <1>12, <1>13, Zenon

LEMMA BrowserMath ==
  /\ Browser!Full = Full /\ Browser!Point = Point /\ Browser!Percent = Percent
  /\ Browser!HwItems = HwItems /\ Browser!RateItems = RateItems
  /\ Browser!LineItems = LineItems /\ Browser!OpItems = OpItems
  /\ Browser!Alignments = Alignments /\ Browser!Capacities = Capacities
  /\ Browser!BandwidthFields = BandwidthFields /\ Browser!RateFields = RateFields
  /\ \A x : Browser!Clamp10(x) = Clamp10(x) /\ Browser!Max(x) = Max(x) /\ Browser!Min(x) = Min(x)
            /\ Browser!Mean(x) = Mean(x) /\ Browser!Halved(x) = Halved(x)
            /\ Browser!Log2(x) = Log2(x)
  /\ \A x, y : Browser!Part(x, y) = Part(x, y) /\ Browser!WeightedMean(x, y) = WeightedMean(x, y)
  /\ \A x, y, z : /\ Browser!CostPart(x, y, z) = CostPart(x, y, z)
                  /\ Browser!LnScore(x, y, z) = LnScore(x, y, z)
  /\ \A wa, a, wb, b : Browser!Blend(wa, a, wb, b) = Blend(wa, a, wb, b)
<1>1. Browser!Full = Full /\ Browser!Point = Point /\ Browser!Percent = Percent
  BY DEF Full, Browser!Full, Point, Browser!Point, Percent, Browser!Percent
<1>2. Browser!LineItems = LineItems /\ Browser!RateItems = RateItems
  BY DEF LineItems, Browser!LineItems, RateItems, Browser!RateItems
<1>3. Browser!HwItems = HwItems /\ Browser!OpItems = OpItems
  BY <1>2, Zenon DEF HwItems, Browser!HwItems, OpItems, Browser!OpItems
<1>4. Browser!RateFields = RateFields
  BY <1>2, Zenon DEF RateFields, Browser!RateFields
<1>5. /\ Browser!Alignments = Alignments /\ Browser!Capacities = Capacities
      /\ Browser!BandwidthFields = BandwidthFields
  BY DEF Alignments, Browser!Alignments, Capacities, Browser!Capacities, BandwidthFields,
         Browser!BandwidthFields
<1>6. \A x : Browser!Max(x) = Max(x) /\ Browser!Min(x) = Min(x)
  BY DEF Max, Browser!Max, Min, Browser!Min
<1>7. \A x : Browser!Clamp10(x) = Clamp10(x)
  BY <1>1, <1>6, Zenon DEF Clamp10, Browser!Clamp10, Clamp, Browser!Clamp
<1>8. \A x : Browser!Halved(x) = Halved(x) /\ Browser!Log2(x) = Log2(x)
  <2>1. Browser!Halves = Halves /\ Browser!Powers = Powers
    BY DEF Halves, Browser!Halves, Powers, Browser!Powers
  <2>2. ASSUME NEW S PROVE Browser!Cardinality(S) = Cardinality(S)
    BY DEF Cardinality, Browser!Cardinality
  <2>3. QED
    BY <2>1, <2>2, Zenon DEF Halved, Browser!Halved, Log2, Browser!Log2
<1>9. ASSUME NEW x, NEW y PROVE Browser!WeightedMean(x, y) = WeightedMean(x, y)
  BY DEF WeightedMean, Browser!WeightedMean, Given, Browser!Given, MapThenSumSet, Browser!MapThenSumSet,
         MapThenFoldSet, Browser!MapThenFoldSet
<1>10. \A x : Browser!Mean(x) = Mean(x)
  BY <1>9, Zenon DEF Mean, Browser!Mean
<1>11. \A x, y : Browser!Part(x, y) = Part(x, y)
  BY <1>1, <1>7, Zenon DEF Part, Browser!Part
<1>12. \A x, y, z : /\ Browser!CostPart(x, y, z) = CostPart(x, y, z)
                    /\ Browser!LnScore(x, y, z) = LnScore(x, y, z)
  BY <1>1, <1>7, <1>8, Zenon DEF CostPart, Browser!CostPart, LnScore, Browser!LnScore
<1>13. \A wa, a, wb, b : Browser!Blend(wa, a, wb, b) = Blend(wa, a, wb, b)
  BY Zenon DEF Blend, Browser!Blend
<1>14. QED
  BY <1>1, <1>2, <1>3, <1>4, <1>5, <1>6, <1>7, <1>8, <1>9, <1>10, <1>11, <1>12, <1>13, Zenon

-------------------------------------------------------------------------------
(***************************************************************************)
(* The fields of every item.                                               *)
(***************************************************************************)
LEMMA HwFieldsAre ==
  /\ HwFields["1.a.1"] = {"N"}
  /\ HwFields["3.a.1"] = Alignments
  /\ HwFields["3.a.4"] = Capacities
  /\ HwFields["3.a.3"] = {"pipe_ref", "P_gm2vec", "P_gm2cube", "P_cube2vec", "P_vec2cube"}
  /\ HwFields["3.b.2"] = {"N_hint"}
  /\ HwFields["3.b.4"] = {"ICache_KiB", "DCache_KiB", "binary_stack_KiB"}
  /\ HwFields["4.a.1"] = {"N_api", "N_viol"}
  /\ HwFields["4.a.2"] = {"N_hw", "N_api_dup", "eta_ratio_vs_baseline"}
  /\ HwFields["4.a.3"] = {"optional_param_ratio", "N_enum_def"}
  /\ HwFields["4.b.2"] = {"r_mma", "ulp", "c_conv", "round_rtn", "round_sr", "r_ieee"}
  /\ HwFields["4.a.4"] = {"r_hw", "r_simt", "r_sw", "r_cover"}
  /\ HwFields["7.a.1"] = {"exc_detected", "exc_defined"}
  /\ HwFields["7.a.2"] = {"p_det", "p_fn", "p_fp", "p_dup", "p_sdc"}
  /\ HwFields["7.a.3"] = {"c_acc", "c_comp"}
  /\ HwFields["7.b.1"] = {"bp_supported"}
  /\ HwFields["7.d.2"] = {"e_rel"}
  /\ HwFields["7.d.3"] = {"r_loss"}
  /\ HwFields["7.d.4"] = {"bn_ok"}
  /\ HwFields["7.d.5"] = {"r_expl"}
  /\ HwFields["7.d.6"] = {"delta_t", "delta_b"}
  /\ HwFields["7.d.7"] = {"r_tasklink"}
BY Zenon DEF HwFields, RateFields, Items, HwItems, RateItems, MixedItems, OpItems,
             LineItems

LEMMA RateFieldsAre ==
  /\ RateFields["7.a.4"] = [ok |-> "root_ok", total |-> "root_total", share |-> "r_root"]
  /\ HwFields["7.a.4"] = {"root_ok", "root_total", "r_root"}
  /\ RateFields["7.b.2"] = [ok |-> "bp_loc_ok", total |-> "bp_loc_total", share |-> "r_loc"]
  /\ HwFields["7.b.2"] = {"bp_loc_ok", "bp_loc_total", "r_loc"}
  /\ RateFields["7.b.3"] = [ok |-> "pc_ok", total |-> "pc_total", share |-> "r_pc"]
  /\ HwFields["7.b.3"] = {"pc_ok", "pc_total", "r_pc"}
  /\ RateFields["7.b.4"] = [ok |-> "halt_ok", total |-> "halt_total", share |-> "r_halt"]
  /\ HwFields["7.b.4"] = {"halt_ok", "halt_total", "r_halt"}
  /\ RateFields["7.c.1"] = [ok |-> "obs_ok", total |-> "obs_total", share |-> "r_obscov"]
  /\ HwFields["7.c.1"] = {"obs_ok", "obs_total", "r_obscov"}
  /\ RateFields["7.d.1"] = [ok |-> "evt_ok", total |-> "evt_total", share |-> "r_evtcov"]
  /\ HwFields["7.d.1"] = {"evt_ok", "evt_total", "r_evtcov"}
BY Zenon DEF HwFields, RateFields, Items, HwItems, RateItems, MixedItems, OpItems,
             LineItems

LEMMA OpFieldsAre ==
  /\ OpFields["3.a.2"] = {"p0"}
  /\ OpFields["3.b.2"] = {"hint_gap"}
  /\ OpFields["3.b.4"] = {"icache_miss"}
  /\ OpFields["4.b.1"] = {"T_fused", "T_no_fused"}
  /\ OpFields["4.b.2"] = {"mfu_quant", "mfu_fp16"}
  /\ OpFields["5.a.1"] = {"P_runtime"}
  /\ OpFields["5.e.1"] = {"T_head", "T_kernel"}
  /\ OpFields["8.a.1"] = {"P_agent", "P_theory"}
  /\ OpFields["9.a.1"] = {"versions", "N_versions"}
  /\ TierFields["1.a.1"] = BandwidthFields
  /\ TierFields["3.a.2"] = {"Lc", "dV"}
  /\ TierFields["3.a.4"] = {"tileSize"}
  /\ TierFields["5.d.1"] = {"T_scalar", "T_maxPipe"}
BY Zenon DEF OpFields, TierFields, Items, HwItems, RateItems, MixedItems, OpItems,
             LineItems

-------------------------------------------------------------------------------
(***************************************************************************)
(* The items of the form.                                                  *)
(***************************************************************************)
LEMMA Markers ==
  /\ Missing \notin Int /\ Blank \notin Int /\ None \notin Int /\ Raises \notin Int
  /\ Missing # Blank /\ None # Raises
BY MarkersDiffer

\* A form without blanks.
Form(i, h) == \A f \in HwFields[i] : h[f] \in Nat \cup {Missing}

\* A form as it is given.
Raw(i, h) ==
  DOMAIN h = HwFields[i] /\ \A f \in HwFields[i] : h[f] \in Nat \cup {Missing, Blank}

\* Dropping its blanks takes no number away.
LEMMA RawForm ==
  ASSUME NEW i, NEW h, Raw(i, h)
  PROVE  /\ Form(i, Browser!Hw(h))
         /\ \A f \in HwFields[i] :
              /\ Browser!Hw(h)[f] \in Nat <=> h[f] \in Nat
              /\ h[f] \in Nat => Browser!Hw(h)[f] = h[f]
BY Markers DEF Raw, Form, Browser!Hw

\* Counts of a part are no larger than those of the whole, and shares than 1.
Sound(i, h) ==
  /\ i = "4.a.1" /\ {h.N_viol, h.N_api} \subseteq Nat => h.N_viol <= h.N_api
  /\ i = "4.a.2" /\ {h.N_api_dup, h.N_hw} \subseteq Nat => h.N_api_dup <= h.N_hw
  /\ \A f \in HwFields[i] \cap Shares : h[f] \in 0..100 \cup {Missing}

\* In both programs an item of the form is scored by its formula.
LEMMA HwCommand ==
  ASSUME NEW h
  PROVE  /\ Command!HwScore("3.a.1", h) = Command!S3a1(h)
         /\ Command!HwScore("3.a.3", h) = Command!S3a3(h)
         /\ Command!HwScore("4.a.1", h) = Command!S4a1(h)
         /\ Command!HwScore("4.a.2", h) = Command!S4a2(h)
         /\ Command!HwScore("4.a.4", h) = Command!S4a4(h)
         /\ Command!HwScore("7.a.1", h) = Command!Rate(h.exc_detected, h.exc_defined)
         /\ Command!HwScore("7.a.2", h) = Command!S7a2(h)
         /\ Command!HwScore("7.a.3", h) = Command!Blend(55, Command!ShareScore(h.c_acc), 45, Command!ShareScore(h.c_comp))
         /\ Command!HwScore("7.b.1", h) = Command!CountScore(h.bp_supported, 12)
         /\ Command!HwScore("7.d.2", h) = Command!CostOf(h.e_rel, 10)
         /\ Command!HwScore("7.d.3", h) = Command!S7d3(h)
         /\ Command!HwScore("7.d.4", h) = Command!CountScore(h.bn_ok, 9)
         /\ Command!HwScore("7.d.5", h) = Command!ShareScore(h.r_expl)
         /\ Command!HwScore("7.d.6", h) = Command!Blend(55, Command!CostOf(h.delta_t, 5), 45, Command!CostOf(h.delta_b, 2))
         /\ Command!HwScore("7.d.7", h) = Command!ShareScore(h.r_tasklink)
BY Zenon DEF Command!HwScore, Command!RateItems

LEMMA HwBrowser ==
  ASSUME NEW h
  PROVE  /\ Browser!HwScore("3.a.1", h) = Browser!S3a1(h)
         /\ Browser!HwScore("3.a.3", h) = Browser!S3a3(h)
         /\ Browser!HwScore("4.a.1", h) = Browser!S4a1(h)
         /\ Browser!HwScore("4.a.2", h) = Browser!S4a2(h)
         /\ Browser!HwScore("4.a.4", h) = Browser!S4a4(h)
         /\ Browser!HwScore("7.a.1", h) = Browser!Rate(h.exc_detected, h.exc_defined)
         /\ Browser!HwScore("7.a.2", h) = Browser!S7a2(h)
         /\ Browser!HwScore("7.a.3", h) = Browser!Blend(55, Browser!ShareScore(h.c_acc), 45, Browser!ShareScore(h.c_comp))
         /\ Browser!HwScore("7.b.1", h) = Browser!CountScore(h.bp_supported, 12)
         /\ Browser!HwScore("7.d.2", h) = Browser!CostOf(h.e_rel, 10)
         /\ Browser!HwScore("7.d.3", h) = Browser!S7d3(h)
         /\ Browser!HwScore("7.d.4", h) = Browser!CountScore(h.bn_ok, 9)
         /\ Browser!HwScore("7.d.5", h) = Browser!ShareScore(h.r_expl)
         /\ Browser!HwScore("7.d.6", h) = Browser!Blend(55, Browser!CostOf(h.delta_t, 5), 45, Browser!CostOf(h.delta_b, 2))
         /\ Browser!HwScore("7.d.7", h) = Browser!ShareScore(h.r_tasklink)
BY Zenon DEF Browser!HwScore, Browser!RateItems

\* ... and a rate by what it counts.
LEMMA RateCommand ==
  ASSUME NEW h, NEW i \in RateItems
  PROVE  Command!HwScore(i, h) =
           Command!RateOrShare(h[RateFields[i].ok], h[RateFields[i].total], h[RateFields[i].share])
BY CommandMath, Zenon DEF Command!HwScore, RateItems

LEMMA RateBrowser ==
  ASSUME NEW h, NEW i \in RateItems
  PROVE  Browser!HwScore(i, h) =
           Browser!ShareOrRate(h[RateFields[i].ok], h[RateFields[i].total], h[RateFields[i].share])
BY BrowserMath, Zenon DEF Browser!HwScore, RateItems

\* The two programs agree on every item of the form but the rates.
LEMMA HwAgrees ==
  ASSUME NEW i \in HwItems \ RateItems, NEW h, Form(i, h)
  PROVE  Command!HwScore(i, h) = Browser!HwScore(i, h)
<1> USE CommandMath, BrowserMath
<1>1. CASE i = "3.a.1"
  <2>1. Command!S3a1(h) = Browser!S3a1(h)
    <3> DEFINE A == {f \in Alignments : h[f] # Missing}
    <3>1. \A f \in A : (IF h[f] <= 0 THEN Full ELSE LnScore(h[f], 1, 64)) = LnScore(h[f], 1, 64)
      BY DEF LnScore
    <3>2. [f \in A |-> LnScore(h[f], 1, 64)]
          = [f \in A |-> IF h[f] <= 0 THEN Full ELSE LnScore(h[f], 1, 64)]
      BY <3>1
    <3>3. QED
      BY <3>2 DEF Command!S3a1, Browser!S3a1
  <2>2. QED
    BY <1>1, <2>1, HwCommand, HwBrowser
<1>2. CASE i = "3.a.3"
  <2>1. Command!S3a3(h) = Browser!S3a3(h)
    BY DEF Command!S3a3, Browser!S3a3, Command!Or, Browser!Number, Browser!Or, Command!Truthy, Browser!Truthy
  <2>2. QED
    BY <1>2, <2>1, HwCommand, HwBrowser
<1>3. CASE i = "4.a.1"
  <2>1. Command!S4a1(h) = Browser!S4a1(h)
    BY DEF Command!S4a1, Browser!S4a1
  <2>2. QED
    BY <1>3, <2>1, HwCommand, HwBrowser
<1>4. CASE i = "4.a.2"
  <2>1. h.N_hw \in Nat \cup {Missing}
    BY <1>4, HwFieldsAre DEF Form
  <2>2. (h.N_hw = Missing \/ h.N_hw <= 0) <=> ~Browser!Truthy(h.N_hw)
    BY <2>1, Markers DEF Browser!Truthy
  <2>3. Command!S4a2(h) = Browser!S4a2(h)
    BY <2>2 DEF Command!S4a2, Browser!S4a2, Command!Truthy, Browser!Truthy
  <2>4. QED
    BY <1>4, <2>3, HwCommand, HwBrowser
<1>5. CASE i = "4.a.4"
  <2>1. Command!S4a4(h) = Browser!S4a4(h)
    BY DEF Command!S4a4, Browser!S4a4, Command!Or, Browser!Number, Browser!Or, Command!Truthy, Browser!Truthy
  <2>2. QED
    BY <1>5, <2>1, HwCommand, HwBrowser
<1>6. CASE i = "7.a.1"
  <2>1. h.exc_defined \in Nat \cup {Missing}
    BY <1>6, HwFieldsAre DEF Form
  <2>2. (h.exc_defined = Missing \/ h.exc_defined <= 0) <=> ~Browser!Truthy(h.exc_defined)
    BY <2>1, Markers DEF Browser!Truthy
  <2>3. QED
    BY <1>6, <2>2, HwCommand, HwBrowser DEF Command!Rate, Browser!Rate
<1>7. CASE i = "7.a.2"
  <2>1. Command!S7a2(h) = Browser!S7a2(h)
    BY DEF Command!S7a2, Browser!S7a2, Command!Or, Browser!Number, Browser!Or, Command!Truthy, Browser!Truthy
  <2>2. QED
    BY <1>7, <2>1, HwCommand, HwBrowser
<1>8. \A v, n : /\ Command!ShareScore(v) = Browser!ShareScore(v)
                /\ Command!CountScore(v, n) = Browser!CountScore(v, n)
                /\ Command!CostOf(v, n) = Browser!CostOf(v, n)
  BY DEF Command!ShareScore, Browser!ShareScore, Command!CountScore, Browser!CountScore, Command!CostOf,
         Browser!CostOf
<1>9. Command!S7d3(h) = Browser!S7d3(h)
  BY DEF Command!S7d3, Browser!S7d3
<1>10. CASE i \in {"7.a.3", "7.b.1", "7.d.2", "7.d.3", "7.d.4", "7.d.5", "7.d.6", "7.d.7"}
  BY <1>8, <1>9, <1>10, HwCommand, HwBrowser
<1>11. QED
  BY <1>1, <1>2, <1>3, <1>4, <1>5, <1>6, <1>7, <1>10 DEF HwItems

\* What an item should score, and what it may score with any numbers in the form.
Points == 0..Full \cup {None}

Scores == Int \cup {None}

LEMMA PointsAreScores == Points \subseteq Scores
BY FullIs DEF Points, Scores

\* Reading a field as a number.
LEMMA ReadNumber ==
  ASSUME NEW v \in Nat \cup {Missing, Blank}
  PROVE  /\ Browser!Number(v) \in Nat
         /\ v \in Nat => Browser!Number(v) = v
         /\ v \notin Nat => Browser!Number(v) = 0
         /\ Browser!Truthy(v) <=> v \in Nat \ {0}
         /\ Command!Truthy(v) <=> v \in Nat \ {0}
BY Markers DEF Browser!Number, Browser!Or, Browser!Truthy, Command!Truthy

LEMMA ReadOr ==
  ASSUME NEW v \in Nat \cup {Missing, Blank}, NEW d \in Nat
  PROVE  /\ Browser!Or(v, d) \in Nat /\ Command!Or(v, d) = Browser!Or(v, d)
         /\ d # 0 => Browser!Or(v, d) \in Nat \ {0}
BY Markers DEF Browser!Or, Command!Or, Browser!Truthy, Command!Truthy

LEMMA CountRange ==
  ASSUME NEW v \in Nat \cup {Missing}, NEW n \in Nat \ {0}
  PROVE  Browser!CountScore(v, n) \in Points /\ Browser!CostOf(v, n) \in Points
<1>1. CASE v = Missing
  BY <1>1 DEF Browser!CountScore, Browser!CostOf, Points
<1>2. CASE v \in Nat
  <2>1. v # Missing
    BY <1>2, Markers
  <2>2. Part(v, n) \in 0..Full
    BY <1>2, PartRange
  <2>3. CostPart(v, 100, n) \in 0..Full
    BY <1>2, CostRange
  <2>4. QED
    BY <2>1, <2>2, <2>3, BrowserMath DEF Browser!CountScore, Browser!CostOf, Points
<1>3. QED
  BY <1>1, <1>2

LEMMA ShareScoreRange ==
  ASSUME NEW v \in Nat \cup {Missing}
  PROVE  /\ Browser!ShareScore(v) \in Scores
         /\ v \in 0..100 \cup {Missing} => Browser!ShareScore(v) \in Points
BY FullIs, BrowserMath DEF Browser!ShareScore, Points, Scores

\* The blends in use.
LEMMA BlendPoints ==
  ASSUME NEW a \in Points, NEW b \in Points
  PROVE  /\ Blend(55, a, 45, b) \in Points /\ Blend(45, a, 55, b) \in Points
         /\ Blend(40, a, 60, b) \in Points /\ Blend(50, a, 50, b) \in Points
<1>1. \A wa, wb \in Nat : wa + wb = 100 => Blend(wa, a, wb, b) \in Points
  <2>1. SUFFICES ASSUME NEW wa \in Nat, NEW wb \in Nat, wa + wb = 100
                 PROVE  Blend(wa, a, wb, b) \in Points
    OBVIOUS
  <2>2. a \in 0..Full \cup {None} /\ b \in 0..Full \cup {None}
    BY DEF Points
  <2>3. Blend(wa, a, wb, b) \in 0..Full \cup {None}
    BY <2>1, <2>2, BlendRange
  <2>4. QED
    BY <2>3 DEF Points
<1>2. Blend(55, a, 45, b) \in Points
  <2>1. 55 \in Nat /\ 45 \in Nat /\ 55 + 45 = 100
    OBVIOUS
  <2>2. QED
    BY <1>1, <2>1
<1>3. Blend(45, a, 55, b) \in Points
  <2>1. 45 \in Nat /\ 55 \in Nat /\ 45 + 55 = 100
    OBVIOUS
  <2>2. QED
    BY <1>1, <2>1
<1>4. Blend(40, a, 60, b) \in Points
  <2>1. 40 \in Nat /\ 60 \in Nat /\ 40 + 60 = 100
    OBVIOUS
  <2>2. QED
    BY <1>1, <2>1
<1>5. Blend(50, a, 50, b) \in Points
  <2>1. 50 \in Nat /\ 50 + 50 = 100
    OBVIOUS
  <2>2. QED
    BY <1>1, <2>1
<1>6. QED
  BY <1>2, <1>3, <1>4, <1>5

LEMMA BlendScores ==
  ASSUME NEW a \in Scores, NEW b \in Scores
  PROVE  Blend(55, a, 45, b) \in Scores
<1>1. CASE a = None \/ b = None
  BY <1>1 DEF Blend
<1>2. CASE a # None /\ b # None
  <2>1. a \in Int /\ b \in Int
    BY <1>2 DEF Scores
  <2>2. (55 * a + 45 * b) \div 100 \in Int
    BY <2>1
  <2>3. QED
    BY <1>2, <2>2 DEF Blend, Scores
<1>3. QED
  BY <1>1, <1>2

\* A mean of points, and of points with weights.
LEMMA MeanPoints ==
  ASSUME NEW f, IsFiniteSet(DOMAIN f), \A i \in DOMAIN f : f[i] \in Points
  PROVE  Mean(f) \in Points
<1> DEFINE w == [i \in DOMAIN f |-> 1]
<1>1. Family(w, f)
  BY FullIs DEF Family, Points
<1>2. WeightedMean(w, f) \in 0..Full \cup {None}
  <2>1. Full \in Nat
    BY FullIs
  <2> HIDE DEF w
  <2>2. QED
    BY <1>1, <2>1, MeanBound DEF Points
<1>3. QED
  BY <1>2 DEF Mean, Points

LEMMA RateRange ==
  ASSUME NEW n \in Nat \cup {Missing}, NEW d \in Nat \cup {Missing}
  PROVE  Browser!Rate(n, d) \in Points /\ Command!Rate(n, d) \in Points
<1>1. CASE n = Missing \/ d = Missing \/ d = 0
  BY <1>1 DEF Browser!Rate, Command!Rate, Browser!Truthy, Points
<1>2. CASE n \in Nat /\ d \in Nat \ {0}
  <2>1. Part(n, d) \in 0..Full
    BY <1>2, PartRange
  <2>2. n # Missing /\ d # Missing /\ d > 0
    BY <1>2, Markers
  <2>3. Browser!Truthy(d)
    BY <1>2, ReadNumber
  <2>4. QED
    BY <2>1, <2>2, <2>3, BrowserMath, CommandMath DEF Browser!Rate, Command!Rate, Points
<1>3. QED
  BY <1>1, <1>2

\* Rates are in range in both programs, with the share that stands in for them.
LEMMA RateItemsRange ==
  ASSUME NEW i \in RateItems, NEW h, Form(i, h)
  PROVE  /\ Browser!HwScore(i, h) \in Scores
         /\ Sound(i, h) => Command!HwScore(i, h) \in Points /\ Browser!HwScore(i, h) \in Points
<1> DEFINE n == h[RateFields[i].ok]
           d == h[RateFields[i].total]
           r == h[RateFields[i].share]
<1>1. /\ HwFields[i] = {RateFields[i].ok, RateFields[i].total, RateFields[i].share}
      /\ RateFields[i].share \in Shares
  BY RateFieldsAre DEF RateItems, Shares
<1>2. n \in Nat \cup {Missing} /\ d \in Nat \cup {Missing} /\ r \in Nat \cup {Missing}
  BY <1>1 DEF Form
<1>3. Sound(i, h) => r \in 0..100 \cup {Missing}
  BY <1>1, Zenon DEF Sound
<1>4. /\ Command!HwScore(i, h) = Command!RateOrShare(n, d, r)
      /\ Browser!HwScore(i, h) = Browser!ShareOrRate(n, d, r)
  BY RateCommand, RateBrowser
<1> HIDE DEF n, d, r
<1>5. Browser!Rate(n, d) \in Points /\ Command!Rate(n, d) \in Points
  BY <1>2, RateRange
<1>6. /\ r # Missing => Percent * r \in Scores
      /\ r \in 0..100 => Percent * r \in Points
  BY <1>2, FullIs DEF Points, Scores
<1>7. None \in Points
  BY DEF Points
<1>8. Browser!ShareOrRate(n, d, r) \in Scores
  BY <1>5, <1>6, PointsAreScores, BrowserMath DEF Browser!ShareOrRate
<1>9. r \in 0..100 \cup {Missing} =>
        Command!RateOrShare(n, d, r) \in Points /\ Browser!ShareOrRate(n, d, r) \in Points
  BY <1>5, <1>6, <1>7, CommandMath, BrowserMath DEF Command!RateOrShare, Browser!ShareOrRate
<1>10. QED
  BY <1>3, <1>4, <1>8, <1>9

LEMMA FewAreFinite ==
  ASSUME NEW a, NEW b, NEW c, NEW d
  PROVE  IsFiniteSet({a, b}) /\ IsFiniteSet({a, b, c, d})
<1>1. IsFiniteSet({a}) /\ {a} \cup {b} = {a, b}
  BY FS_Singleton
<1>2. IsFiniteSet({a, b}) /\ {a, b} \cup {c} = {a, b, c}
  BY <1>1, FS_AddElement
<1>3. IsFiniteSet({a, b, c}) /\ {a, b, c} \cup {d} = {a, b, c, d}
  BY <1>2, FS_AddElement
<1>4. IsFiniteSet({a, b, c, d})
  BY <1>3, FS_AddElement
<1>5. QED
  BY <1>2, <1>3, <1>4

LEMMA S3a1Range ==
  ASSUME NEW h, \A f \in Alignments : h[f] \in Nat \cup {Missing}
  PROVE  Browser!S3a1(h) \in Points
<1> DEFINE A == {f \in Alignments : h[f] # Missing}
           s == [f \in A |-> IF h[f] <= 0 THEN Full ELSE LnScore(h[f], 1, 64)]
<1>1. IsFiniteSet(A)
  <2>1. IsFiniteSet(Alignments) /\ A \in SUBSET Alignments
    BY FewAreFinite DEF Alignments
  <2>2. QED
    BY <2>1, FS_Subset
<1>2. ASSUME NEW f \in A PROVE s[f] \in Points
  <2>1. h[f] \in Nat /\ \E q \in Powers : 1 < q /\ q <= 64
    BY DEF Powers
  <2>2. LnScore(h[f], 1, 64) \in 0..Full
    <3>1. 1 < h[f] /\ h[f] < 64 => \E q \in Powers : 1 < q /\ q <= 64
      BY <2>1
    <3>2. h[f] \in Nat /\ 1 \in Nat /\ 64 \in Nat
      BY <2>1
    <3> HIDE DEF A
    <3>3. QED
      BY <3>1, <3>2, LnRange, Zenon
  <2>3. s[f] = IF h[f] <= 0 THEN Full ELSE LnScore(h[f], 1, 64)
    OBVIOUS
  <2>4. Full \in Points /\ LnScore(h[f], 1, 64) \in Points
    BY <2>2, FullIs DEF Points
  <2> HIDE DEF s
  <2>5. QED
    BY <2>3, <2>4
<1>3. Mean(s) \in Points
  <2>1. DOMAIN s = A
    OBVIOUS
  <2> HIDE DEF s
  <2>2. QED
    BY <1>1, <1>2, <2>1, MeanPoints
<1>4. QED
  BY <1>3, BrowserMath DEF Browser!S3a1

LEMMA S3a3Range ==
  ASSUME NEW h, Form("3.a.3", h)
  PROVE  Browser!S3a3(h) \in Points
<1> DEFINE keys == {"P_gm2vec", "P_gm2cube", "P_cube2vec", "P_vec2cube"}
           ref == Browser!Or(h.pipe_ref, 3)
           s == [k \in keys |-> CostPart(Browser!Number(h[k]), ref, 100)]
<1>1. \A k \in keys \cup {"pipe_ref"} : h[k] \in Nat \cup {Missing}
  BY HwFieldsAre DEF Form
<1>2. ref \in Nat \ {0}
  <2>1. h.pipe_ref \in Nat \cup {Missing, Blank}
    BY <1>1
  <2>2. 3 \in Nat /\ 3 # 0
    OBVIOUS
  <2>3. QED
    BY <2>1, <2>2, ReadOr
<1>3. \A k \in keys : Browser!Number(h[k]) \in Nat
  BY <1>1, ReadNumber
<1>4. \A k \in keys : s[k] \in Points
  <2> HIDE DEF ref
  <2>1. \A k \in keys : CostPart(Browser!Number(h[k]), ref, 100) \in 0..Full
    <3>1. SUFFICES ASSUME NEW k \in keys
                   PROVE  CostPart(Browser!Number(h[k]), ref, 100) \in 0..Full
      OBVIOUS
    <3>2. Browser!Number(h[k]) \in Int /\ 100 \in Nat \ {0}
      BY <1>3
    <3>3. QED
      BY <1>2, <3>2, CostRange
  <2>2. QED
    BY <2>1 DEF Points
<1>5. IsFiniteSet(keys)
  BY FewAreFinite
<1>6. Mean(s) \in Points
  <2>1. DOMAIN s = keys
    OBVIOUS
  <2> HIDE DEF s, keys
  <2>2. QED
    BY <1>4, <1>5, <2>1, MeanPoints
<1>7. QED
  BY <1>6, BrowserMath DEF Browser!S3a3, Points

LEMMA S4a1Range ==
  ASSUME NEW h, Form("4.a.1", h)
  PROVE  Browser!S4a1(h) \in Scores /\ (Sound("4.a.1", h) => Browser!S4a1(h) \in Points)
<1> DEFINE a == h.N_api
           v == h.N_viol
<1>1. a \in Nat \cup {Missing} /\ v \in Nat \cup {Missing}
  BY HwFieldsAre DEF Form
<1>2. CASE a # Missing /\ v # Missing /\ a > 0
  <2>1. a \in Nat \ {0} /\ v \in Nat
    BY <1>1, <1>2
  <2>2. Sound("4.a.1", h) => v <= a
    BY <2>1, Zenon DEF Sound
  <2>3. Browser!S4a1(h) = Full - (Full * v) \div a
    BY <1>2, BrowserMath DEF Browser!S4a1
  <2> HIDE DEF a, v
  <2>4. (Full * v) \div a \in Int
    BY <2>1, DivisionType, FullIs
  <2>5. v <= a => (Full * v) \div a \in 0..Full
    BY <2>1, ShareRange
  <2> DEFINE part == (Full * v) \div a
  <2> HIDE DEF part
  <2>6. part \in Int /\ (v <= a => part \in 0..Full) /\ Browser!S4a1(h) = Full - part
    BY <2>3, <2>4, <2>5 DEF part
  <2>7. QED
    BY <2>2, <2>6, FullIs DEF Points, Scores
<1>3. CASE ~(a # Missing /\ v # Missing /\ a > 0)
  BY <1>3 DEF Browser!S4a1, Points, Scores
<1>4. QED
  BY <1>2, <1>3

LEMMA S4a2Range ==
  ASSUME NEW h, Form("4.a.2", h)
  PROVE  Browser!S4a2(h) \in Scores /\ (Sound("4.a.2", h) => Browser!S4a2(h) \in Points)
<1> DEFINE n == h.N_hw
           dup == h.N_api_dup
           r == h.eta_ratio_vs_baseline
           s == Full - (Full * dup) \div n
           c == IF Browser!Truthy(r) THEN Part(100, r) ELSE s
<1>1. n \in Nat \cup {Missing} /\ dup \in Nat \cup {Missing} /\ r \in Nat \cup {Missing}
  BY HwFieldsAre DEF Form
<1>2. CASE dup = Missing \/ ~Browser!Truthy(n)
  BY <1>2 DEF Browser!S4a2, Points, Scores
<1>3. CASE ~(dup = Missing \/ ~Browser!Truthy(n))
  <2>1. n \in Nat \ {0} /\ dup \in Nat
    BY <1>1, <1>3, ReadNumber
  <2>2. Sound("4.a.2", h) => dup <= n
    BY <2>1, Zenon DEF Sound
  <2>3. Browser!S4a2(h) = (65 * s + 35 * c) \div 100
    BY <1>3, BrowserMath DEF Browser!S4a2
  <2>4. s \in Int /\ (dup <= n => s \in 0..Full)
    <3> HIDE DEF n, dup
    <3> DEFINE part == (Full * dup) \div n
    <3>1. part \in Int /\ (dup <= n => part \in 0..Full)
      BY <2>1, ShareRange, DivisionType, FullIs
    <3> HIDE DEF part
    <3>2. Full - part \in Int /\ (dup <= n => Full - part \in 0..Full)
      BY <3>1, FullIs
    <3>3. QED
      BY <3>2, Zenon DEF part
  <2>5. Browser!Truthy(r) => Part(100, r) \in 0..Full
    <3>1. Browser!Truthy(r) => r \in Nat \ {0}
      BY <1>1, ReadNumber
    <3> HIDE DEF r
    <3>2. QED
      BY <3>1, PartRange
  <2> HIDE DEF s
  <2>6. c \in Int /\ (dup <= n => c \in 0..Full)
    BY <2>4, <2>5, FullIs
  <2> HIDE DEF c, n, dup
  <2>7. (65 * s + 35 * c) \div 100 \in Int
    BY <2>4, <2>6
  <2>8. dup <= n => (65 * s + 35 * c) \div 100 \in 0..Full
    BY <2>4, <2>6, FullIs
  <2>9. QED
    BY <2>2, <2>3, <2>7, <2>8 DEF Points, Scores
<1>4. QED
  BY <1>2, <1>3

LEMMA S4a4Range ==
  ASSUME NEW h, Form("4.a.4", h)
  PROVE  Browser!S4a4(h) \in Scores /\ (Sound("4.a.4", h) => Browser!S4a4(h) \in Points)
<1> DEFINE a == Browser!Number(h.r_hw)
           b == Browser!Number(h.r_simt)
           c == Browser!Number(h.r_sw)
           d == Browser!Number(h.r_cover)
           all(S) == a \in S /\ b \in S /\ c \in S /\ d \in S
<1>1. \A k \in {"r_hw", "r_simt", "r_sw", "r_cover"} : h[k] \in Nat \cup {Missing}
  BY HwFieldsAre DEF Form
<1>2. all(Nat)
  BY <1>1, ReadNumber
<1>3. Sound("4.a.4", h) => all(0..100)
  <2>1. SUFFICES ASSUME Sound("4.a.4", h) PROVE all(0..100)
    OBVIOUS
  <2>2. \A k \in {"r_hw", "r_simt", "r_sw", "r_cover"} : h[k] \in 0..100 \cup {Missing}
    BY <2>1, HwFieldsAre DEF Sound, Shares
  <2>3. ASSUME NEW v \in 0..100 \cup {Missing} PROVE Browser!Number(v) \in 0..100
    <3>1. v \in Nat \cup {Missing, Blank} /\ (v \notin Nat \/ v \in 0..100)
      BY Markers
    <3>2. QED
      BY <3>1, ReadNumber
  <2>4. QED
    BY <2>2, <2>3
<1>4. \/ Browser!S4a4(h) = None
      \/ Browser!S4a4(h) = 250 * a + 250 * b + 150 * (100 - c) + 350 * d
  BY DEF Browser!S4a4
<1> HIDE DEF a, b, c, d
<1>5. 250 * a + 250 * b + 150 * (100 - c) + 350 * d \in Int
  BY <1>2
<1>6. all(0..100) => 250 * a + 250 * b + 150 * (100 - c) + 350 * d \in 0..Full
  BY FullIs
<1>7. QED
  BY <1>3, <1>4, <1>5, <1>6 DEF Points, Scores

LEMMA S7a2Range ==
  ASSUME NEW h, Form("7.a.2", h)
  PROVE  Browser!S7a2(h) \in Scores /\ (Sound("7.a.2", h) => Browser!S7a2(h) \in Points)
<1> DEFINE lost == Browser!Number(h.p_fn) + Browser!Number(h.p_fp) + Browser!Number(h.p_dup)
                     + Browser!Number(h.p_sdc)
           noise == Clamp10(Full - 250 * lost)
           p == h.p_det
<1>1. \A k \in {"p_fn", "p_fp", "p_dup", "p_sdc"} : h[k] \in Nat \cup {Missing}
  BY HwFieldsAre DEF Form
<1>2. p \in Nat \cup {Missing}
  BY HwFieldsAre DEF Form
<1>3. Sound("7.a.2", h) => p \in 0..100 \cup {Missing}
  BY HwFieldsAre DEF Sound, Shares
<1>4. lost \in Nat
  <2>1. \A k \in {"p_fn", "p_fp", "p_dup", "p_sdc"} : Browser!Number(h[k]) \in Nat
    BY <1>1, ReadNumber
  <2>2. QED
    BY <2>1
<1>5. noise \in 0..Full
  <2> HIDE DEF lost
  <2>1. Full - 250 * lost \in Int
    BY <1>4, FullIs
  <2>2. QED
    BY <2>1, ClampRange
<1>6. Browser!S7a2(h) = IF p = Missing THEN None ELSE (60 * Percent * p + 40 * noise) \div 100
  BY BrowserMath DEF Browser!S7a2
<1> HIDE DEF noise, p
<1>7. p # Missing => (60 * Percent * p + 40 * noise) \div 100 \in Int
  BY <1>2, <1>5, FullIs
<1>8. p \in 0..100 => (60 * Percent * p + 40 * noise) \div 100 \in 0..Full
  BY <1>5, FullIs
<1>9. QED
  BY <1>2, <1>3, <1>6, <1>7, <1>8 DEF Points, Scores

\* Every item of the form is in range in the browser.
LEMMA HwRange ==
  ASSUME NEW i \in HwItems, NEW h, Form(i, h)
  PROVE  /\ Browser!HwScore(i, h) \in Scores
         /\ Sound(i, h) => Browser!HwScore(i, h) \in Points
<1> USE PointsAreScores
<1>1. CASE i \in RateItems
  BY <1>1, RateItemsRange, Zenon
<1>2. CASE i = "3.a.1"
  <2>1. \A f \in Alignments : h[f] \in Nat \cup {Missing}
    BY <1>2, HwFieldsAre DEF Form
  <2>2. QED
    BY <1>2, <2>1, S3a1Range, HwBrowser
<1>3. CASE i = "3.a.3"
  BY <1>3, S3a3Range, HwBrowser
<1>4. CASE i = "4.a.1"
  BY <1>4, S4a1Range, HwBrowser
<1>5. CASE i = "4.a.2"
  BY <1>5, S4a2Range, HwBrowser
<1>6. CASE i = "4.a.4"
  BY <1>6, S4a4Range, HwBrowser
<1>7. CASE i = "7.a.1"
  <2>1. h.exc_detected \in Nat \cup {Missing} /\ h.exc_defined \in Nat \cup {Missing}
    BY <1>7, HwFieldsAre DEF Form
  <2>2. QED
    BY <1>7, <2>1, RateRange, HwBrowser
<1>8. CASE i = "7.a.2"
  BY <1>8, S7a2Range, HwBrowser
<1>9. CASE i = "7.a.3"
  <2> DEFINE a == Browser!ShareScore(h.c_acc)
             b == Browser!ShareScore(h.c_comp)
  <2>1. h.c_acc \in Nat \cup {Missing} /\ h.c_comp \in Nat \cup {Missing}
    BY <1>9, HwFieldsAre DEF Form
  <2>2. Sound(i, h) => h.c_acc \in 0..100 \cup {Missing} /\ h.c_comp \in 0..100 \cup {Missing}
    BY <1>9, HwFieldsAre DEF Sound, Shares
  <2>3. a \in Scores /\ b \in Scores /\ (Sound(i, h) => a \in Points /\ b \in Points)
    BY <2>1, <2>2, ShareScoreRange
  <2>4. Browser!HwScore(i, h) = Blend(55, a, 45, b)
    BY <1>9, HwBrowser, BrowserMath
  <2> HIDE DEF a, b
  <2>5. QED
    BY <2>3, <2>4, BlendPoints, BlendScores
<1>10. CASE i \in {"7.b.1", "7.d.4"}
  <2>1. 9 \in Nat \ {0} /\ 12 \in Nat \ {0}
    OBVIOUS
  <2>2. CASE i = "7.b.1"
    <3>1. h.bp_supported \in Nat \cup {Missing}
      BY <2>2, HwFieldsAre DEF Form
    <3>2. QED
      BY <2>1, <2>2, <3>1, CountRange, HwBrowser
  <2>3. CASE i = "7.d.4"
    <3>1. h.bn_ok \in Nat \cup {Missing}
      BY <2>3, HwFieldsAre DEF Form
    <3>2. QED
      BY <2>1, <2>3, <3>1, CountRange, HwBrowser
  <2>4. QED
    BY <1>10, <2>2, <2>3
<1>11. CASE i = "7.d.2"
  <2>1. h.e_rel \in Nat \cup {Missing} /\ 10 \in Nat \ {0}
    BY <1>11, HwFieldsAre DEF Form
  <2>2. QED
    BY <1>11, <2>1, CountRange, HwBrowser
<1>12. CASE i = "7.d.3"
  <2>1. h.r_loss \in Nat \cup {Missing}
    BY <1>12, HwFieldsAre DEF Form
  <2>2. h.r_loss # Missing => Clamp10(2 * Point * (h.r_loss - 95)) \in 0..Full
    BY <2>1, ClampRange, FullIs
  <2>3. QED
    BY <1>12, <2>2, HwBrowser, BrowserMath DEF Browser!S7d3, Points
<1>13. CASE i \in {"7.d.5", "7.d.7"}
  <2>1. CASE i = "7.d.5"
    <3>1. h.r_expl \in Nat \cup {Missing}
      BY <2>1, HwFieldsAre DEF Form
    <3>2. Sound(i, h) => h.r_expl \in 0..100 \cup {Missing}
      BY <2>1, HwFieldsAre DEF Sound, Shares
    <3>3. QED
      BY <2>1, <3>1, <3>2, ShareScoreRange, HwBrowser
  <2>2. CASE i = "7.d.7"
    <3>1. h.r_tasklink \in Nat \cup {Missing}
      BY <2>2, HwFieldsAre DEF Form
    <3>2. Sound(i, h) => h.r_tasklink \in 0..100 \cup {Missing}
      BY <2>2, HwFieldsAre DEF Sound, Shares
    <3>3. QED
      BY <2>2, <3>1, <3>2, ShareScoreRange, HwBrowser
  <2>3. QED
    BY <1>13, <2>1, <2>2
<1>14. CASE i = "7.d.6"
  <2>1. h.delta_t \in Nat \cup {Missing} /\ h.delta_b \in Nat \cup {Missing}
    BY <1>14, HwFieldsAre DEF Form
  <2>2. 5 \in Nat \ {0} /\ 2 \in Nat \ {0}
    OBVIOUS
  <2>3. Browser!CostOf(h.delta_t, 5) \in Points /\ Browser!CostOf(h.delta_b, 2) \in Points
    BY <2>1, <2>2, CountRange
  <2>4. Blend(55, Browser!CostOf(h.delta_t, 5), 45, Browser!CostOf(h.delta_b, 2)) \in Points
    BY <2>3, BlendPoints
  <2>5. QED
    BY <1>14, <2>4, HwBrowser, BrowserMath
<1>15. QED
  BY <1>1, <1>2, <1>3, <1>4, <1>5, <1>6, <1>7, <1>8, <1>9, <1>10, <1>11, <1>12, <1>13, <1>14
     DEF HwItems

-------------------------------------------------------------------------------
(***************************************************************************)
(* The items scored operator by operator: h is the form, m what extraction *)
(* found for the operator, and q its measurements.                         *)
(***************************************************************************)
Numbers(f) == IF f = "versions" THEN Seq(Versions) \ {Missing, Blank} ELSE Nat

Data(i, q) ==
  /\ \A f \in OpFields[i] : q.op[f] \in Numbers(f) \cup {Missing, Blank}
  /\ \A t \in Tiers, f \in TierFields[i] : q.tier[t][f] \in Nat \cup {Missing, Blank}

\* Measurements without blanks.
Solid(i, q) ==
  /\ \A f \in OpFields[i] : q.op[f] # Blank
  /\ \A t \in Tiers, f \in TierFields[i] : q.tier[t][f] # Blank

\* r is q with its blanks turned into missing fields.
IsFilled(i, q, r) ==
  /\ \A f \in OpFields[i] : r.op[f] = Filled(q.op[f])
  /\ \A t \in Tiers, f \in TierFields[i] : r.tier[t][f] = Filled(q.tier[t][f])

\* In both programs an item is scored by its formula.
LEMMA OpCommand ==
  ASSUME NEW h, NEW m, NEW q
  PROVE  /\ Command!OpScore("1.a.1", h, m, q) = Command!S1a1(Command!Hw(h), q)
         /\ Command!OpScore("3.a.2", h, m, q) = Command!S3a2(m, q)
         /\ Command!OpScore("3.a.4", h, m, q) = Command!S3a4(h, m, q)
         /\ Command!OpScore("3.b.3", h, m, q) = Command!S3b3(m)
         /\ Command!OpScore("4.b.1", h, m, q) = Command!S4b1(q)
         /\ Command!OpScore("5.a.1", h, m, q) = Command!S5a1(m, q)
         /\ Command!OpScore("5.d.1", h, m, q) = Command!S5d1(m, q)
         /\ Command!OpScore("5.e.1", h, m, q) = Command!S5e1(m, q)
         /\ Command!OpScore("8.a.1", h, m, q) = Command!S8a1(q)
         /\ Command!OpScore("9.a.1", h, m, q) = Command!S9a1(q)
BY Zenon DEF Command!OpScore, Command!LineItems, LineItems

LEMMA LineCommand ==
  ASSUME NEW i \in LineItems, NEW h, NEW m, NEW q
  PROVE  Command!OpScore(i, h, m, q) = Command!LineScore(i, m)
BY Zenon DEF Command!OpScore, Command!LineItems, LineItems

LEMMA OpBrowser ==
  ASSUME NEW h, NEW m, NEW q
  PROVE  /\ Browser!OpScore("1.a.1", h, m, q) = Browser!S1a1(h, q)
         /\ Browser!OpScore("3.a.2", h, m, q) = Browser!S3a2(m, q)
         /\ Browser!OpScore("3.a.4", h, m, q) = Browser!S3a4(h, m, q)
         /\ Browser!OpScore("3.b.3", h, m, q) = Browser!S3b3(m)
         /\ Browser!OpScore("4.b.1", h, m, q) = Browser!S4b1(q)
         /\ Browser!OpScore("5.a.1", h, m, q) = Browser!S5a1(m, q)
         /\ Browser!OpScore("5.d.1", h, m, q) = Browser!S5d1(m, q)
         /\ Browser!OpScore("5.e.1", h, m, q) = Browser!S5e1(m, q)
         /\ Browser!OpScore("8.a.1", h, m, q) = Browser!S8a1(q)
         /\ Browser!OpScore("9.a.1", h, m, q) = Browser!S9a1(q)
BY Zenon DEF Browser!OpScore, Browser!LineItems, LineItems

LEMMA LineBrowser ==
  ASSUME NEW i \in LineItems, NEW h, NEW m, NEW q
  PROVE  Browser!OpScore(i, h, m, q) = Browser!LineScore(i, m)
BY Zenon DEF Browser!OpScore, Browser!LineItems, LineItems

\* Lines that count against an operator, if its source was found.
LinesOf(m, ref) == IF Browser!Present(m) THEN CostPart(m.lines, m.L_total, ref) ELSE None

LEMMA LinesRange ==
  ASSUME NEW m \in Metrics, NEW r \in Nat \ {0}
  PROVE  LinesOf(m, r) \in Points
<1>1. CASE Browser!Present(m)
  <2>1. m.lines \in Int /\ m.L_total \in Nat \ {0}
    BY <1>1 DEF Browser!Present, Metrics
  <2>2. QED
    BY <1>1, <2>1, CostRange DEF LinesOf, Points
<1>2. CASE ~Browser!Present(m)
  BY <1>2 DEF LinesOf, Points
<1>3. QED
  BY <1>1, <1>2

LEMMA PresentSame == \A m : Command!Present(m) <=> Browser!Present(m)
BY DEF Command!Present, Browser!Present

LEMMA LineRefs ==
  ASSUME NEW i \in LineItems
  PROVE  Command!LineRef[i] = Browser!LineRef[i] /\ Browser!LineRef[i] \in Nat \ {0}
<1>1. /\ Command!LineRef["3.a.5"] = 30 /\ Browser!LineRef["3.a.5"] = 30
      /\ Command!LineRef["3.b.1"] = 20 /\ Browser!LineRef["3.b.1"] = 20
      /\ Command!LineRef["5.b.1"] = 30 /\ Browser!LineRef["5.b.1"] = 30
      /\ Command!LineRef["5.b.2"] = 25 /\ Browser!LineRef["5.b.2"] = 25
  BY Zenon DEF Command!LineRef, Browser!LineRef, Command!LineItems, Browser!LineItems
<1>2. /\ Command!LineRef["5.c.1"] = 35 /\ Browser!LineRef["5.c.1"] = 35
      /\ Command!LineRef["6.a.1"] = 35 /\ Browser!LineRef["6.a.1"] = 35
      /\ Command!LineRef["6.a.2"] = 30 /\ Browser!LineRef["6.a.2"] = 30
      /\ Command!LineRef["6.b.1"] = 25 /\ Browser!LineRef["6.b.1"] = 25
  BY Zenon DEF Command!LineRef, Browser!LineRef, Command!LineItems, Browser!LineItems
<1>3. QED
  BY <1>1, <1>2 DEF LineItems

LEMMA LineItem ==
  ASSUME NEW i \in LineItems, NEW m \in Metrics
  PROVE  Command!LineScore(i, m) = Browser!LineScore(i, m) /\ Browser!LineScore(i, m) \in Points
<1>1. Browser!LineScore(i, m) = LinesOf(m, Browser!LineRef[i])
  BY BrowserMath DEF Browser!LineScore, LinesOf
<1>2. Command!LineScore(i, m) = LinesOf(m, Browser!LineRef[i])
  BY CommandMath, PresentSame, LineRefs DEF Command!LineScore, LinesOf
<1>3. QED
  BY <1>1, <1>2, LineRefs, LinesRange

LEMMA S3b3Both ==
  ASSUME NEW m \in Metrics
  PROVE  Command!S3b3(m) = Browser!S3b3(m) /\ Browser!S3b3(m) \in Points
<1>1. Full - 5 * Point * m.f_cluster \in Int
  BY FullIs DEF Metrics
<1>2. Clamp10(Full - 5 * Point * m.f_cluster) \in 0..Full
  BY <1>1, ClampRange
<1>3. QED
  BY <1>2, CommandMath, BrowserMath, PresentSame DEF Command!S3b3, Browser!S3b3, Points

LEMMA S4b1Range ==
  ASSUME NEW q, Data("4.b.1", q)
  PROVE  /\ Browser!S4b1(q) \in Points
         /\ Solid("4.b.1", q) => Command!S4b1(q) = Browser!S4b1(q)
<1> DEFINE a == q.op.T_fused
           b == q.op.T_no_fused
           f == Browser!Number(a)
           s == CostPart(Max({f - b, b - f}), b, 25)
<1>1. a \in Nat \cup {Missing, Blank} /\ b \in Nat \cup {Missing, Blank}
  BY OpFieldsAre DEF Data, Numbers
<1>2. Browser!S4b1(q) = IF a = Missing \/ ~Browser!Truthy(b) THEN None ELSE s
  BY BrowserMath DEF Browser!S4b1
<1>3. Browser!Truthy(b) => s \in 0..Full
  <2>1. SUFFICES ASSUME Browser!Truthy(b) PROVE s \in 0..Full
    OBVIOUS
  <2>2. f \in Nat /\ b \in Nat \ {0} /\ 25 \in Nat \ {0}
    <3>1. f \in Nat
      BY <1>1, ReadNumber
    <3>2. b \in Nat \ {0}
      BY <1>1, <2>1, ReadNumber
    <3>3. QED
      BY <3>1, <3>2
  <2> HIDE DEF f, b
  <2>3. f - b \in Int /\ b - f \in Int
    BY <2>2
  <2>4. Max({f - b, b - f}) \in Int
    BY <2>3, MaxMinIs
  <2>5. QED
    BY <2>2, <2>4, CostRange, Zenon DEF s
<1>4. Command!S4b1(q) = IF a = Missing \/ b \in {Missing, 0} THEN None
                        ELSE IF Blank \in {a, b} THEN Raises
                        ELSE CostPart(Max({a - b, b - a}), b, 25)
  BY CommandMath DEF Command!S4b1
<1>5. Solid("4.b.1", q) => a # Blank /\ b # Blank
  BY OpFieldsAre DEF Solid
<1>6. a # Blank /\ b # Blank =>
        /\ ~Browser!Truthy(b) <=> b \in {Missing, 0}
        /\ a # Missing => f = a
  <2>1. b # Blank => (~Browser!Truthy(b) <=> b \in {Missing, 0})
    BY DEF Browser!Truthy
  <2>2. a # Blank /\ a # Missing => f = a
    BY <1>1, ReadNumber
  <2>3. QED
    BY <2>1, <2>2
<1> HIDE DEF f
<1>7. QED
  BY <1>2, <1>3, <1>4, <1>5, <1>6 DEF Points

LEMMA S4b1Blanks ==
  ASSUME NEW q, Data("4.b.1", q), NEW r, IsFilled("4.b.1", q, r)
  PROVE  Command!S4b1(q) \in {Raises, Command!S4b1(r)}
<1>1. /\ q.op.T_fused \in Nat \cup {Missing, Blank} /\ q.op.T_no_fused \in Nat \cup {Missing, Blank}
      /\ r.op.T_fused = Filled(q.op.T_fused) /\ r.op.T_no_fused = Filled(q.op.T_no_fused)
  BY OpFieldsAre DEF Data, Numbers, IsFilled
<1>2. CASE q.op.T_fused = Missing \/ q.op.T_no_fused \in {Missing, 0}
  <2>1. r.op.T_fused = Missing \/ r.op.T_no_fused \in {Missing, 0}
    BY <1>1, <1>2, Markers DEF Filled
  <2>2. QED
    BY <1>2, <2>1 DEF Command!S4b1
<1>3. CASE ~(q.op.T_fused = Missing \/ q.op.T_no_fused \in {Missing, 0})
           /\ Blank \in {q.op.T_fused, q.op.T_no_fused}
  BY <1>3 DEF Command!S4b1
<1>4. CASE Blank \notin {q.op.T_fused, q.op.T_no_fused}
  BY <1>1, <1>4 DEF Command!S4b1, Filled
<1>5. QED
  BY <1>2, <1>3, <1>4

LEMMA S5a1Range ==
  ASSUME NEW m \in Metrics, NEW q, Data("5.a.1", q)
  PROVE  /\ Browser!S5a1(m, q) \in Points
         /\ Solid("5.a.1", q) => Command!S5a1(m, q) = Browser!S5a1(m, q)
<1> DEFINE a == q.op.P_runtime
           n == m.P_src
           f == Browser!Number(a)
           s == Clamp10(2 * Full - (Full * f) \div n)
<1>1. a \in Nat \cup {Missing, Blank} /\ n \in Nat
  BY OpFieldsAre DEF Data, Numbers, Metrics
<1>2. Browser!S5a1(m, q) = IF ~Browser!Present(m) \/ a = Missing \/ n = 0 THEN None ELSE s
  BY BrowserMath DEF Browser!S5a1
<1>3. n # 0 => s \in 0..Full
  <2>1. SUFFICES ASSUME n # 0 PROVE s \in 0..Full
    OBVIOUS
  <2>2. f \in Nat /\ n \in Nat \ {0}
    BY <1>1, <2>1, ReadNumber
  <2> HIDE DEF f, n
  <2>3. Full * f \in Int
    BY <2>2, FullIs
  <2>4. (Full * f) \div n \in Int
    BY <2>2, <2>3, DivisionType
  <2>5. 2 * Full - (Full * f) \div n \in Int
    BY <2>4, FullIs
  <2>6. QED
    BY <2>5, ClampRange DEF s
<1>4. Command!S5a1(m, q) = IF ~Browser!Present(m) \/ a = Missing \/ n <= 0 THEN None
                           ELSE IF a = Blank THEN Raises
                           ELSE Clamp10(2 * Full - (Full * a) \div n)
  BY CommandMath, PresentSame DEF Command!S5a1
<1>5. Solid("5.a.1", q) => a # Blank
  BY OpFieldsAre DEF Solid
<1>6. /\ n <= 0 <=> n = 0
      /\ a # Blank /\ a # Missing => f = a
  BY <1>1, ReadNumber, Markers
<1> HIDE DEF f
<1>7. QED
  BY <1>2, <1>3, <1>4, <1>5, <1>6 DEF Points

LEMMA S5a1Blanks ==
  ASSUME NEW m, NEW q, NEW r, IsFilled("5.a.1", q, r)
  PROVE  Command!S5a1(m, q) \in {Raises, Command!S5a1(m, r)}
<1>1. r.op.P_runtime = Filled(q.op.P_runtime)
  BY OpFieldsAre DEF IsFilled
<1>2. CASE q.op.P_runtime = Blank
  <2>1. r.op.P_runtime = Missing /\ q.op.P_runtime # Missing
    BY <1>1, <1>2, Markers DEF Filled
  <2>2. QED
    BY <1>2, <2>1 DEF Command!S5a1
<1>3. CASE q.op.P_runtime # Blank
  BY <1>1, <1>3 DEF Command!S5a1, Filled
<1>4. QED
  BY <1>2, <1>3

LEMMA S8a1Range ==
  ASSUME NEW q, Data("8.a.1", q)
  PROVE  /\ Browser!S8a1(q) \in Points
         /\ Solid("8.a.1", q) => Command!S8a1(q) = Browser!S8a1(q)
<1> DEFINE a == q.op.P_agent
           b == q.op.P_theory
           f == Browser!Number(a)
<1>1. a \in Nat \cup {Missing, Blank} /\ b \in Nat \cup {Missing, Blank}
  BY OpFieldsAre DEF Data, Numbers
<1>2. Browser!S8a1(q) = IF a = Missing \/ ~Browser!Truthy(b) THEN None ELSE Part(f, b)
  BY BrowserMath DEF Browser!S8a1
<1>3. Browser!Truthy(b) => Part(f, b) \in 0..Full
  <2>1. SUFFICES ASSUME Browser!Truthy(b) PROVE Part(f, b) \in 0..Full
    OBVIOUS
  <2>2. f \in Int /\ b \in Nat \ {0}
    <3>1. f \in Nat
      BY <1>1, ReadNumber
    <3>2. b \in Nat \ {0}
      BY <1>1, <2>1, ReadNumber
    <3>3. QED
      BY <3>1, <3>2
  <2>3. QED
    BY <2>2, PartRange, Zenon
<1>4. Command!S8a1(q) = IF a = Missing \/ b \in {Missing, 0} THEN None
                        ELSE IF Blank \in {a, b} THEN Raises
                        ELSE Part(a, b)
  BY CommandMath DEF Command!S8a1
<1>5. Solid("8.a.1", q) => a # Blank /\ b # Blank
  BY OpFieldsAre DEF Solid
<1>6. a # Blank /\ b # Blank =>
        /\ ~Browser!Truthy(b) <=> b \in {Missing, 0}
        /\ a # Missing => f = a
  <2>1. b # Blank => (~Browser!Truthy(b) <=> b \in {Missing, 0})
    BY DEF Browser!Truthy
  <2>2. a # Blank /\ a # Missing => f = a
    BY <1>1, ReadNumber
  <2>3. QED
    BY <2>1, <2>2
<1> HIDE DEF f
<1>7. QED
  BY <1>2, <1>3, <1>4, <1>5, <1>6 DEF Points

LEMMA S8a1Blanks ==
  ASSUME NEW q, Data("8.a.1", q), NEW r, IsFilled("8.a.1", q, r)
  PROVE  Command!S8a1(q) \in {Raises, Command!S8a1(r)}
<1>1. /\ q.op.P_agent \in Nat \cup {Missing, Blank} /\ q.op.P_theory \in Nat \cup {Missing, Blank}
      /\ r.op.P_agent = Filled(q.op.P_agent) /\ r.op.P_theory = Filled(q.op.P_theory)
  BY OpFieldsAre DEF Data, Numbers, IsFilled
<1>2. CASE q.op.P_agent = Missing \/ q.op.P_theory \in {Missing, 0}
  <2>1. r.op.P_agent = Missing \/ r.op.P_theory \in {Missing, 0}
    BY <1>1, <1>2, Markers DEF Filled
  <2>2. QED
    BY <1>2, <2>1 DEF Command!S8a1
<1>3. CASE ~(q.op.P_agent = Missing \/ q.op.P_theory \in {Missing, 0})
           /\ Blank \in {q.op.P_agent, q.op.P_theory}
  BY <1>3 DEF Command!S8a1
<1>4. CASE Blank \notin {q.op.P_agent, q.op.P_theory}
  BY <1>1, <1>4 DEF Command!S8a1, Filled
<1>5. QED
  BY <1>2, <1>3, <1>4

LEMMA S5e1Range ==
  ASSUME NEW m \in Metrics, NEW q, Data("5.e.1", q)
  PROVE  /\ Browser!S5e1(m, q) \in Points
         /\ Solid("5.e.1", q) => Command!S5e1(m, q) = Browser!S5e1(m, q)
<1> DEFINE a == q.op.T_head
           b == q.op.T_kernel
           f == Browser!Number(a)
           lines == LinesOf(m, 25)
           timed == a # Missing /\ Browser!Truthy(b)
           time == IF timed THEN CostPart(f, b, 20) ELSE None
<1>1. a \in Nat \cup {Missing, Blank} /\ b \in Nat \cup {Missing, Blank}
  BY OpFieldsAre DEF Data, Numbers
<1>2. Browser!S5e1(m, q) = Blend(55, time, 45, lines)
  BY BrowserMath DEF Browser!S5e1, LinesOf
<1>3. time \in Points
  <2>1. CASE timed
    <3>1. f \in Int /\ b \in Nat \ {0} /\ 20 \in Nat \ {0}
      <4>1. f \in Nat
        BY <1>1, ReadNumber
      <4>2. b \in Nat \ {0}
        BY <1>1, <2>1, ReadNumber
      <4>3. QED
        BY <4>1, <4>2
    <3>2. CostPart(f, b, 20) \in 0..Full
      BY <3>1, CostRange, Zenon
    <3>3. QED
      BY <2>1, <3>2 DEF Points
  <2>2. CASE ~timed
    BY <2>2 DEF Points
  <2>3. QED
    BY <2>1, <2>2
<1>4. lines \in Points
  <2>1. 25 \in Nat \ {0}
    OBVIOUS
  <2>2. QED
    BY <2>1, LinesRange, Zenon
<1>5. Command!S5e1(m, q) = IF ~timed THEN lines
                           ELSE IF a = Blank THEN Raises
                           ELSE Blend(55, CostPart(a, b, 20), 45, lines)
  <2>1. timed <=> a # Missing /\ Command!Truthy(b)
    BY <1>1, ReadNumber
  <2>2. QED
    BY <2>1, CommandMath, PresentSame DEF Command!S5e1, LinesOf
<1>6. Solid("5.e.1", q) => a # Blank
  BY OpFieldsAre DEF Solid
<1>7. a # Blank /\ a # Missing => f = a
  BY <1>1, ReadNumber
<1> HIDE DEF f, lines
<1>8. Blend(55, time, 45, lines) \in Points
  <2> HIDE DEF time
  <2>1. QED
    BY <1>3, <1>4, BlendPoints
<1>9. Solid("5.e.1", q) => Command!S5e1(m, q) = Blend(55, time, 45, lines)
  BY <1>5, <1>6, <1>7 DEF Blend
<1>10. QED
  BY <1>2, <1>8, <1>9

LEMMA S5e1Blanks ==
  ASSUME NEW m, NEW q, Data("5.e.1", q), NEW r, IsFilled("5.e.1", q, r)
  PROVE  Command!S5e1(m, q) \in {Raises, Command!S5e1(m, r)}
<1>1. /\ q.op.T_head \in Nat \cup {Missing, Blank} /\ q.op.T_kernel \in Nat \cup {Missing, Blank}
      /\ r.op.T_head = Filled(q.op.T_head) /\ r.op.T_kernel = Filled(q.op.T_kernel)
  BY OpFieldsAre DEF Data, Numbers, IsFilled
<1>2. CASE q.op.T_head = Missing \/ ~Command!Truthy(q.op.T_kernel)
  <2>1. r.op.T_head = Missing \/ ~Command!Truthy(r.op.T_kernel)
    BY <1>1, <1>2, Markers DEF Filled, Command!Truthy
  <2>2. QED
    BY <1>2, <2>1 DEF Command!S5e1
<1>3. CASE ~(q.op.T_head = Missing \/ ~Command!Truthy(q.op.T_kernel)) /\ q.op.T_head = Blank
  BY <1>3 DEF Command!S5e1
<1>4. CASE Command!Truthy(q.op.T_kernel) /\ q.op.T_head # Blank
  <2>1. r.op.T_head = q.op.T_head /\ r.op.T_kernel = q.op.T_kernel
    BY <1>1, <1>4 DEF Filled, Command!Truthy
  <2>2. QED
    BY <2>1 DEF Command!S5e1
<1>5. QED
  BY <1>2, <1>3, <1>4

\* A mean over some tiers.
LEMMA TierMean ==
  ASSUME NEW f, DOMAIN f \in SUBSET Tiers, \A t \in DOMAIN f : f[t] \in Points
  PROVE  Mean(f) \in Points
<1>1. IsFiniteSet(DOMAIN f)
  BY ScoringAssumption, FS_Subset
<1>2. QED
  BY <1>1, MeanPoints

LEMMA S5d1Range ==
  ASSUME NEW m \in Metrics, NEW q, Data("5.d.1", q)
  PROVE  /\ Browser!S5d1(m, q) \in Points
         /\ Solid("5.d.1", q) => Command!S5d1(m, q) = Browser!S5d1(m, q)
<1> DEFINE a(t) == q.tier[t].T_scalar
           b(t) == q.tier[t].T_maxPipe
           timed(t) == a(t) # Missing /\ Browser!Truthy(b(t))
           time(t) == IF timed(t) THEN CostPart(Browser!Number(a(t)) - b(t), b(t), 5) ELSE None
           lines == LinesOf(m, 30)
           f == [t \in Tiers |-> Blend(55, time(t), 45, lines)]
<1>1. \A t \in Tiers : a(t) \in Nat \cup {Missing, Blank} /\ b(t) \in Nat \cup {Missing, Blank}
  BY OpFieldsAre DEF Data
<1>2. Browser!S5d1(m, q) = Mean(f)
  BY BrowserMath DEF Browser!S5d1, LinesOf
<1>3. ASSUME NEW t \in Tiers PROVE time(t) \in Points
  <2>1. CASE timed(t)
    <3> DEFINE n == Browser!Number(a(t))
               d == b(t)
    <3>1. n \in Nat
      BY <1>1, ReadNumber
    <3>2. d \in Nat \ {0}
      BY <1>1, <2>1, ReadNumber
    <3> HIDE DEF n, d
    <3>3. n - d \in Int /\ 5 \in Nat \ {0}
      BY <3>1, <3>2
    <3>4. CostPart(n - d, d, 5) \in 0..Full
      BY <3>2, <3>3, CostRange, Zenon
    <3>5. QED
      BY <2>1, <3>4 DEF Points, n, d
  <2>2. CASE ~timed(t)
    BY <2>2 DEF Points
  <2>3. QED
    BY <2>1, <2>2
<1>4. lines \in Points
  <2>1. 30 \in Nat \ {0}
    OBVIOUS
  <2>2. QED
    BY <2>1, LinesRange, Zenon
<1>5. \A t \in Tiers : f[t] \in Points
  <2> HIDE DEF time, lines
  <2>1. \A t \in Tiers : Blend(55, time(t), 45, lines) \in Points
    BY <1>3, <1>4, BlendPoints
  <2>2. QED
    BY <2>1
<1>6. Mean(f) \in Points
  <2>1. DOMAIN f = Tiers
    OBVIOUS
  <2> HIDE DEF f
  <2>2. QED
    BY <1>5, <2>1, TierMean
<1>7. ASSUME Solid("5.d.1", q) PROVE Command!S5d1(m, q) = Mean(f)
  <2> DEFINE c(t) == IF a(t) # Missing /\ Command!Truthy(b(t))
                     THEN CostPart(a(t) - b(t), b(t), 5) ELSE None
  <2>1. \A t \in Tiers : a(t) # Blank
    BY <1>7, OpFieldsAre DEF Solid
  <2>2. \A t \in Tiers : c(t) = time(t)
    <3>1. SUFFICES ASSUME NEW t \in Tiers PROVE c(t) = time(t)
      OBVIOUS
    <3>2. Command!Truthy(b(t)) <=> Browser!Truthy(b(t))
      BY DEF Command!Truthy, Browser!Truthy
    <3>3. a(t) # Missing => Browser!Number(a(t)) = a(t)
      BY <1>1, <2>1, ReadNumber
    <3>4. QED
      BY <3>2, <3>3
  <2>3. Command!S5d1(m, q) = Mean([t \in Tiers |-> Blend(55, c(t), 45, lines)])
    BY <2>1, CommandMath, PresentSame DEF Command!S5d1, LinesOf
  <2> HIDE DEF c, time, lines
  <2>4. [t \in Tiers |-> Blend(55, c(t), 45, lines)] = f
    BY <2>2
  <2>5. QED
    BY <2>3, <2>4
<1>8. QED
  BY <1>2, <1>6, <1>7

LEMMA S5d1Blanks ==
  ASSUME NEW m, NEW q, Data("5.d.1", q), NEW r, IsFilled("5.d.1", q, r)
  PROVE  Command!S5d1(m, q) \in {Raises, Command!S5d1(m, r)}
<1> DEFINE timed(x, t) == x.tier[t].T_scalar # Missing /\ Command!Truthy(x.tier[t].T_maxPipe)
           c(x, t) == IF timed(x, t)
                      THEN CostPart(x.tier[t].T_scalar - x.tier[t].T_maxPipe, x.tier[t].T_maxPipe, 5)
                      ELSE None
           lines == LinesOf(m, 30)
           f(x) == [t \in Tiers |-> Blend(55, c(x, t), 45, lines)]
           bad(x) == \E t \in Tiers : timed(x, t) /\ x.tier[t].T_scalar = Blank
<1>1. \A t \in Tiers : /\ r.tier[t].T_scalar = Filled(q.tier[t].T_scalar)
                       /\ r.tier[t].T_maxPipe = Filled(q.tier[t].T_maxPipe)
  BY OpFieldsAre DEF IsFilled
<1>2. \A x : Command!S5d1(m, x) = IF bad(x) THEN Raises ELSE Mean(f(x))
  BY CommandMath, PresentSame DEF Command!S5d1, LinesOf
<1>3. CASE bad(q)
  BY <1>2, <1>3
<1>4. CASE ~bad(q)
  <2>1. ~bad(r)
    BY <1>1, Markers DEF Filled
  <2>2. ASSUME NEW t \in Tiers PROVE c(q, t) = c(r, t)
    <3>1. CASE timed(q, t)
      <4>1. /\ r.tier[t].T_scalar = q.tier[t].T_scalar
            /\ r.tier[t].T_maxPipe = q.tier[t].T_maxPipe
        BY <1>1, <1>4, <3>1 DEF Filled, Command!Truthy
      <4>2. QED
        BY <4>1
    <3>2. CASE ~timed(q, t)
      <4>1. ~timed(r, t)
        BY <1>1, <3>2 DEF Filled, Command!Truthy
      <4>2. QED
        BY <3>2, <4>1
    <3>3. QED
      BY <3>1, <3>2
  <2> HIDE DEF c, lines
  <2>3. f(q) = f(r)
    BY <2>2
  <2> HIDE DEF bad, f
  <2>4. QED
    BY <1>2, <1>4, <2>1, <2>3
<1>5. QED
  BY <1>3, <1>4

\* What of n buffers of s bytes fits in c KiB.
RoomOf(c, x) == IF x <= 1024 * c THEN Full ELSE Part(1024 * c, x)

LEMMA RoomRange ==
  ASSUME NEW c \in Nat, NEW x \in Nat
  PROVE  /\ RoomOf(c, x) \in Points
         /\ RoomOf(c, x) = IF x <= 1024 * c THEN Full ELSE (Full * 1024 * c) \div x
<1>1. CASE x <= 1024 * c
  BY <1>1, FullIs DEF RoomOf, Points
<1>2. CASE ~(x <= 1024 * c)
  <2> DEFINE d == 1024 * c
  <2>1. d \in Nat /\ x \in Nat \ {0} /\ d <= x
    BY <1>2
  <2>2. Full * 1024 * c = Full * d
    BY FullIs
  <2> HIDE DEF d
  <2>3. Part(d, x) \in 0..Full /\ Part(d, x) = (Full * d) \div x
    BY <2>1, ShareRange
  <2>4. QED
    BY <1>2, <2>2, <2>3 DEF RoomOf, Points, d
<1>3. QED
  BY <1>1, <1>2

LEMMA S3a4Range ==
  ASSUME NEW raw, Raw("3.a.4", raw), NEW m \in Metrics, NEW q, Data("3.a.4", q)
  PROVE  /\ Browser!S3a4(Browser!Hw(raw), m, q) \in Points
         /\ Solid("3.a.4", q) => Command!S3a4(raw, m, q) = Browser!S3a4(Browser!Hw(raw), m, q)
<1> DEFINE h == Browser!Hw(raw)
<1>0. /\ Form("3.a.4", h)
      /\ \A k \in Capacities : /\ h[k] \in Nat <=> raw[k] \in Nat
                               /\ raw[k] \in Nat => h[k] = raw[k]
                               /\ raw[k] \in Nat \cup {Missing, Blank}
  BY RawForm, HwFieldsAre DEF Raw
<1> HIDE DEF h
<1> DEFINE n == Browser!Or(m.N_alive, 1)
           v(t) == q.tier[t].tileSize
           caps == {k \in Capacities : Browser!Number(h[k]) > 0}
           tiled == {t \in Tiers : v(t) # Missing}
           room(k, s) == RoomOf(h[k], n * s)
           fits(s) == Mean([k \in caps |-> room(k, s)])
           f == [t \in tiled |-> fits(Browser!Number(v(t)))]
<1>1. \A t \in Tiers : v(t) \in Nat \cup {Missing, Blank}
  BY OpFieldsAre DEF Data
<1>2. n \in Nat \ {0}
  <2>1. m.N_alive \in Nat /\ 1 \in Nat /\ 1 # 0
    BY DEF Metrics
  <2>2. QED
    BY <2>1, ReadOr
<1>3. \A k \in Capacities : h[k] \in Nat \cup {Missing}
  BY <1>0, HwFieldsAre DEF Form
<1>4. \A k \in caps : h[k] \in Nat /\ h[k] # 0
  <2>1. SUFFICES ASSUME NEW k \in caps PROVE h[k] \in Nat /\ h[k] # 0
    OBVIOUS
  <2>2. h[k] \in Nat \cup {Missing, Blank}
    BY <1>3
  <2>3. Browser!Number(h[k]) > 0
    OBVIOUS
  <2>4. QED
    BY <2>2, <2>3 DEF Browser!Number, Browser!Or, Browser!Truthy
<1>5. caps = {k \in Capacities : Command!Truthy(raw[k])}
  <2>1. ASSUME NEW k \in Capacities PROVE Browser!Number(h[k]) > 0 <=> Command!Truthy(raw[k])
    <3>1. h[k] \in Nat \cup {Missing, Blank} /\ raw[k] \in Nat \cup {Missing, Blank}
      BY <1>0, <1>3
    <3>2. Browser!Number(h[k]) > 0 <=> h[k] \in Nat \ {0}
      <4> DEFINE x == h[k]
      <4>1. x \in Nat \cup {Missing, Blank}
        BY <3>1
      <4> HIDE DEF x
      <4>2. Browser!Number(x) > 0 <=> x \in Nat \ {0}
        BY <4>1, ReadNumber
      <4>3. QED
        BY <4>2 DEF x
    <3>3. Command!Truthy(raw[k]) <=> raw[k] \in Nat \ {0}
      BY <3>1, ReadNumber
    <3>4. QED
      BY <1>0, <3>2, <3>3
  <2>2. QED
    BY <2>1
<1>6. IsFiniteSet(caps)
  <2>1. IsFiniteSet(Capacities) /\ caps \in SUBSET Capacities
    BY FewAreFinite DEF Capacities
  <2>2. QED
    BY <2>1, FS_Subset
<1> HIDE DEF n, caps, room
<1>7. ASSUME NEW s \in Nat PROVE fits(s) \in Points
  <2> DEFINE g == [k \in caps |-> room(k, s)]
  <2>1. \A k \in caps : g[k] \in Points
    <3>1. SUFFICES ASSUME NEW k \in caps PROVE room(k, s) \in Points
      OBVIOUS
    <3>2. n * s \in Nat /\ h[k] \in Nat
      BY <1>2, <1>4
    <3>3. QED
      BY <3>2, RoomRange DEF room
  <2>2. DOMAIN g = caps
    OBVIOUS
  <2> HIDE DEF g
  <2>3. Mean(g) \in Points
    BY <1>6, <2>1, <2>2, MeanPoints
  <2>4. QED
    BY <2>3 DEF g
<1>8. Browser!S3a4(h, m, q) = Mean(f)
  <2> DEFINE other(k, s) == IF n * s <= 1024 * h[k] THEN Full ELSE (Full * 1024 * h[k]) \div (n * s)
             g(s) == Mean([k \in caps |-> other(k, s)])
  <2>1. ASSUME NEW s \in Nat, NEW k \in caps PROVE other(k, s) = room(k, s)
    <3>1. n * s \in Nat /\ h[k] \in Nat
      BY <1>2, <1>4
    <3>2. QED
      BY <3>1, RoomRange DEF room
  <2>2. Browser!S3a4(h, m, q) = Mean([t \in tiled |-> g(Browser!Number(v(t)))])
    <3> DEFINE held(S) == {k \in S : Browser!Number(h[k]) > 0}
               rooms(S, full, s) == [k \in held(S) |-> IF n * s <= 1024 * h[k] THEN full
                                                      ELSE (full * 1024 * h[k]) \div (n * s)]
    <3>1. Browser!S3a4(h, m, q) =
            Browser!Mean([t \in tiled |->
              Browser!Mean(rooms(Browser!Capacities, Browser!Full, Browser!Number(v(t))))])
      BY Zenon DEF Browser!S3a4, n
    <3>2. /\ Browser!Full = Full /\ Browser!Capacities = Capacities
          /\ \A x : Browser!Mean(x) = Mean(x)
      BY BrowserMath
    <3>3. \A s : Mean(rooms(Capacities, Full, s)) = g(s)
      BY Zenon DEF caps
    <3> HIDE DEF rooms, g, v
    <3>4. [t \in tiled |-> Browser!Mean(rooms(Browser!Capacities, Browser!Full, Browser!Number(v(t))))]
          = [t \in tiled |-> g(Browser!Number(v(t)))]
      BY <3>2, <3>3
    <3>5. QED
      BY <3>1, <3>2, <3>4
  <2> HIDE DEF other
  <2>3. \A s \in Nat : g(s) = fits(s)
    <3>1. SUFFICES ASSUME NEW s \in Nat PROVE g(s) = fits(s)
      OBVIOUS
    <3>2. [k \in caps |-> other(k, s)] = [k \in caps |-> room(k, s)]
      BY <2>1
    <3>3. QED
      BY <3>2
  <2>4. \A t \in tiled : Browser!Number(v(t)) \in Nat
    BY <1>1, ReadNumber
  <2> HIDE DEF g, fits, v
  <2>5. [t \in tiled |-> g(Browser!Number(v(t)))] = f
    BY <2>3, <2>4
  <2>6. QED
    BY <2>2, <2>5
<1>9. Mean(f) \in Points
  <2>1. DOMAIN f \in SUBSET Tiers
    OBVIOUS
  <2>2. \A t \in DOMAIN f : f[t] \in Points
    <3>1. SUFFICES ASSUME NEW t \in tiled PROVE fits(Browser!Number(v(t))) \in Points
      OBVIOUS
    <3>2. Browser!Number(v(t)) \in Nat
      BY <1>1, ReadNumber
    <3> HIDE DEF fits
    <3>3. QED
      BY <1>7, <3>2
  <2> HIDE DEF f
  <2>3. QED
    BY <2>1, <2>2, TierMean
<1>10. ASSUME Solid("3.a.4", q) PROVE Command!S3a4(raw, m, q) = Mean(f)
  <2> DEFINE listed == \E k \in Capacities : raw[k] # Missing
             bytes == [k \in {x \in Capacities : Command!Truthy(raw[x])} |-> 1024 * raw[k]]
             fit(s) == Mean([k \in DOMAIN bytes |-> IF n * s <= bytes[k] THEN Full
                                                    ELSE Part(bytes[k], n * s)])
  <2>1. \A t \in Tiers : v(t) # Blank
    BY <1>10, OpFieldsAre DEF Solid
  <2>2. n = Command!Or(m.N_alive, 1)
    BY DEF n, Command!Or, Browser!Or, Command!Truthy, Browser!Truthy
  <2>3. Command!S3a4(raw, m, q) = IF ~listed THEN None ELSE Mean([t \in tiled |-> fit(v(t))])
    <3> DEFINE sizes(S) == [k \in {x \in S : Command!Truthy(raw[x])} |-> 1024 * raw[k]]
               fits2(s) == Command!Mean([k \in DOMAIN sizes(Command!Capacities) |->
                             IF Command!Or(m.N_alive, 1) * s <= sizes(Command!Capacities)[k] THEN Command!Full
                             ELSE Command!Part(sizes(Command!Capacities)[k], Command!Or(m.N_alive, 1) * s)])
    <3>1. Command!S3a4(raw, m, q) =
            IF ~(\E k \in Command!Capacities : raw[k] # Missing) THEN None
            ELSE IF \E t \in tiled : v(t) = Blank THEN Raises
            ELSE Command!Mean([t \in tiled |-> fits2(v(t))])
      BY Zenon DEF Command!S3a4
    <3>2. /\ Command!Full = Full /\ Command!Capacities = Capacities
          /\ \A x : Command!Mean(x) = Mean(x)
          /\ \A x, y : Command!Part(x, y) = Part(x, y)
      BY CommandMath
    <3>3. sizes(Command!Capacities) = bytes
      BY <3>2
    <3> HIDE DEF sizes, bytes
    <3>4. ASSUME NEW s PROVE fits2(s) = fit(s)
      BY <2>2, <3>2, <3>3
    <3> HIDE DEF fits2, fit, v
    <3>5. [t \in tiled |-> fits2(v(t))] = [t \in tiled |-> fit(v(t))]
      BY <3>4
    <3>6. ~(\E t \in tiled : v(t) = Blank)
      BY <2>1
    <3>7. QED
      BY <3>1, <3>2, <3>5, <3>6
  <2>4. \A s : fit(s) = fits(s)
    <3>1. DOMAIN bytes = caps /\ \A k \in caps : bytes[k] = 1024 * h[k]
      <4>1. \A k \in caps : h[k] = raw[k] /\ k \in Capacities
        BY <1>0, <1>4 DEF caps
      <4>2. QED
        BY <1>5, <4>1
    <3> HIDE DEF bytes
    <3>2. QED
      BY <3>1 DEF room, RoomOf
  <2>5. \A t \in tiled : Browser!Number(v(t)) = v(t)
    BY <1>1, <2>1, ReadNumber
  <2>6. CASE listed
    <3> HIDE DEF fit, fits, v
    <3>1. [t \in tiled |-> fit(v(t))] = f
      BY <2>4, <2>5
    <3>2. QED
      BY <2>3, <2>6, <3>1
  <2>7. CASE ~listed
    <3>1. caps = {}
      BY <1>5, <2>7 DEF Command!Truthy
    <3>2. \A t \in tiled : f[t] = None
      <4>1. \A s : Given([k \in caps |-> room(k, s)]) = {}
        BY <3>1 DEF Given
      <4>2. QED
        BY <4>1 DEF Mean, WeightedMean
    <3>3. DOMAIN f = tiled
      OBVIOUS
    <3> HIDE DEF f
    <3>4. Given(f) = {}
      BY <3>2, <3>3 DEF Given
    <3>5. Mean(f) = None
      BY <3>4 DEF Mean, WeightedMean
    <3>6. QED
      BY <2>3, <2>7, <3>5
  <2>8. QED
    BY <2>6, <2>7
<1>11. QED
  BY <1>8, <1>9, <1>10 DEF h

LEMMA S3a4Blanks ==
  ASSUME NEW h, NEW m, NEW q, NEW r, IsFilled("3.a.4", q, r)
  PROVE  Command!S3a4(h, m, q) \in {Raises, Command!S3a4(h, m, r)}
<1> DEFINE listed == \E k \in Command!Capacities : h[k] # Missing
           v(x, t) == x.tier[t].tileSize
           bytes == [k \in {y \in Command!Capacities : Command!Truthy(h[y])} |-> 1024 * h[k]]
           fit(s) == Command!Mean([k \in DOMAIN bytes |->
                                     IF Command!Or(m.N_alive, 1) * s <= bytes[k] THEN Command!Full
                                     ELSE Command!Part(bytes[k], Command!Or(m.N_alive, 1) * s)])
           tiled(x) == {t \in Tiers : v(x, t) # Missing}
           f(x) == [t \in tiled(x) |-> fit(v(x, t))]
<1>1. \A t \in Tiers : v(r, t) = Filled(v(q, t))
  BY OpFieldsAre DEF IsFilled
<1>2. \A x : Command!S3a4(h, m, x) = IF ~listed THEN None
                                     ELSE IF \E t \in tiled(x) : v(x, t) = Blank THEN Raises
                                     ELSE Command!Mean(f(x))
  BY Zenon DEF Command!S3a4
<1> HIDE DEF fit, v, listed
<1>3. CASE \E t \in Tiers : v(q, t) = Blank
  <2>1. \E t \in tiled(q) : v(q, t) = Blank
    BY <1>3, Markers
  <2>2. QED
    BY <1>2, <2>1
<1>4. CASE \A t \in Tiers : v(q, t) # Blank
  <2>1. \A t \in Tiers : v(r, t) = v(q, t)
    BY <1>1, <1>4 DEF Filled
  <2>2. f(r) = f(q)
    BY <2>1
  <2>3. ~(\E t \in tiled(r) : v(r, t) = Blank) /\ ~(\E t \in tiled(q) : v(q, t) = Blank)
    BY <1>4, <2>1
  <2> HIDE DEF f, tiled
  <2>4. QED
    BY <1>2, <2>2, <2>3
<1>5. QED
  BY <1>3, <1>4

\* The span of values of a tuning field, the same in both programs.
SpanOf(f, n) == IF f = "coreConc" THEN <<1, n>> ELSE Browser!Span[f]

LEMMA SpanRange ==
  ASSUME NEW f \in BandwidthFields, NEW n \in Nat, NEW v \in Nat
  PROVE  LnScore(v, SpanOf(f, n)[1], SpanOf(f, n)[2]) \in 0..Full
<1> DEFINE lo == SpanOf(f, n)[1]
           hi == SpanOf(f, n)[2]
<1>1. f = "coreConc" \/ f = "tileSize" \/ f = "burstLen" \/ f = "stride"
  BY DEF BandwidthFields
<1>2. CASE f = "coreConc"
  <2>1. lo = 1 /\ hi = n
    BY <1>2 DEF SpanOf
  <2>2. lo < v /\ v < hi => \E p \in Powers : lo < p /\ p <= hi
    <3>1. 2 \in Powers
      BY DEF Powers
    <3>2. 1 < v /\ v < n => 1 < 2 /\ 2 <= n
      OBVIOUS
    <3>3. QED
      BY <2>1, <3>1, <3>2
  <2> HIDE DEF lo, hi
  <2>3. lo \in Nat /\ hi \in Nat
    BY <2>1
  <2>4. QED
    BY <2>2, <2>3, LnRange DEF lo, hi
<1>3. CASE f # "coreConc"
  <2>1. lo \in Nat /\ hi \in Nat /\ hi \in Powers /\ lo < hi
    <3>1. CASE f = "tileSize"
      BY <3>1 DEF SpanOf, Browser!Span, Powers
    <3>2. CASE f = "burstLen"
      BY <3>2 DEF SpanOf, Browser!Span, Powers
    <3>3. CASE f = "stride"
      BY <3>3 DEF SpanOf, Browser!Span, Powers
    <3>4. QED
      BY <1>1, <1>3, <3>1, <3>2, <3>3
  <2> HIDE DEF lo, hi
  <2>2. hi <= hi
    BY <2>1
  <2>3. \E p \in Powers : lo < p /\ p <= hi
    BY <2>1, <2>2
  <2>4. QED
    BY <2>1, <2>3, LnRange DEF lo, hi
<1>4. QED
  BY <1>2, <1>3

LEMMA S1a1Range ==
  ASSUME NEW h, Form("1.a.1", h), NEW q, Data("1.a.1", q)
  PROVE  /\ Browser!S1a1(h, q) \in Points
         /\ Solid("1.a.1", q) => Command!S1a1(h, q) = Browser!S1a1(h, q)
<1> DEFINE n == Browser!Or(h.N, 64)
           v(t, f) == q.tier[t][f]
           ln(f, x) == LnScore(x, SpanOf(f, n)[1], SpanOf(f, n)[2])
           read(f) == {t \in Tiers : v(t, f) # Missing}
           s(f) == [t \in read(f) |-> ln(f, Browser!Number(v(t, f)))]
           all == [f \in BandwidthFields |-> Mean(s(f))]
<1>1. \A t \in Tiers, f \in BandwidthFields : v(t, f) \in Nat \cup {Missing, Blank}
  BY OpFieldsAre DEF Data
<1>2. n \in Nat
  <2>1. h.N \in Nat \cup {Missing, Blank} /\ 64 \in Nat
    BY HwFieldsAre DEF Form
  <2>2. QED
    BY <2>1, ReadOr
<1>3. Browser!S1a1(h, q) = Mean(all)
  BY BrowserMath DEF Browser!S1a1, SpanOf
<1> HIDE DEF n, v, ln
<1>4. ASSUME NEW f \in BandwidthFields PROVE Mean(s(f)) \in Points
  <2>1. \A t \in read(f) : s(f)[t] \in Points
    <3>1. SUFFICES ASSUME NEW t \in read(f) PROVE ln(f, Browser!Number(v(t, f))) \in Points
      OBVIOUS
    <3>2. Browser!Number(v(t, f)) \in Nat
      BY <1>1, ReadNumber
    <3>3. QED
      BY <1>2, <3>2, SpanRange DEF ln, Points
  <2>2. DOMAIN s(f) = read(f) /\ read(f) \in SUBSET Tiers
    OBVIOUS
  <2> HIDE DEF s, read
  <2>3. QED
    BY <2>1, <2>2, TierMean
<1>5. Mean(all) \in Points
  <2>1. DOMAIN all = BandwidthFields /\ \A f \in BandwidthFields : all[f] \in Points
    BY <1>4
  <2>2. IsFiniteSet(BandwidthFields)
    BY FewAreFinite DEF BandwidthFields
  <2> HIDE DEF all
  <2>3. QED
    BY <2>1, <2>2, MeanPoints
<1>6. ASSUME Solid("1.a.1", q) PROVE Command!S1a1(h, q) = Mean(all)
  <2>1. \A t \in Tiers, f \in BandwidthFields : v(t, f) # Blank
    BY <1>6, OpFieldsAre DEF Solid, v
  <2>2. n = Command!Or(h.N, 64)
    BY DEF n, Command!Or, Browser!Or, Command!Truthy, Browser!Truthy
  <2>3. Command!Span = Browser!Span
    BY DEF Command!Span, Browser!Span
  <2> DEFINE raw(f) == [t \in read(f) |-> ln(f, v(t, f))]
  <2>4. Command!S1a1(h, q) = Mean([f \in BandwidthFields |-> Mean(raw(f))])
    BY <2>1, <2>2, <2>3, CommandMath DEF Command!S1a1, SpanOf, ln, v
  <2>5. ASSUME NEW f \in BandwidthFields PROVE raw(f) = s(f)
    <3>1. \A t \in read(f) : Browser!Number(v(t, f)) = v(t, f)
      <4>1. SUFFICES ASSUME NEW t \in read(f) PROVE Browser!Number(v(t, f)) = v(t, f)
        OBVIOUS
      <4>2. v(t, f) \in Nat
        BY <1>1, <2>1
      <4>3. QED
        BY <4>2, ReadNumber
    <3> HIDE DEF read
    <3>2. QED
      BY <3>1
  <2> HIDE DEF raw, s
  <2>6. [f \in BandwidthFields |-> Mean(raw(f))] = all
    BY <2>5
  <2>7. QED
    BY <2>4, <2>6
<1>7. QED
  BY <1>3, <1>5, <1>6

LEMMA S1a1Blanks ==
  ASSUME NEW h, NEW q, NEW r, IsFilled("1.a.1", q, r)
  PROVE  Command!S1a1(h, q) \in {Raises, Command!S1a1(h, r)}
<1> DEFINE v(x, t, f) == x.tier[t][f]
           ln(f, x) == LnScore(x, IF f = "coreConc" THEN 1 ELSE Command!Span[f][1],
                                  IF f = "coreConc" THEN Command!Or(h.N, 64) ELSE Command!Span[f][2])
           read(x, f) == {t \in Tiers : v(x, t, f) # Missing}
           s(x, f) == [t \in read(x, f) |-> ln(f, v(x, t, f))]
           all(x) == Mean([f \in BandwidthFields |-> Mean(s(x, f))])
           bad(x) == \E f \in BandwidthFields : \E t \in Tiers : v(x, t, f) = Blank
<1>1. \A t \in Tiers, f \in BandwidthFields : v(r, t, f) = Filled(v(q, t, f))
  BY OpFieldsAre DEF IsFilled
<1>2. \A x : Command!S1a1(h, x) = IF bad(x) THEN Raises ELSE all(x)
  <2>1. SUFFICES ASSUME NEW x PROVE Command!S1a1(h, x) = IF bad(x) THEN Raises ELSE all(x)
    OBVIOUS
  <2>2. QED
    BY CommandMath DEF Command!S1a1
<1> HIDE DEF v, ln
<1>3. CASE bad(q)
  BY <1>2, <1>3
<1>4. CASE ~bad(q)
  <2>1. \A t \in Tiers, f \in BandwidthFields : v(r, t, f) = v(q, t, f)
    BY <1>1, <1>4 DEF Filled
  <2>2. ~bad(r)
    BY <1>4, <2>1
  <2>3. \A f \in BandwidthFields : s(r, f) = s(q, f)
    BY <2>1
  <2> HIDE DEF s, bad
  <2>4. all(r) = all(q)
    BY <2>3
  <2> HIDE DEF all
  <2>5. QED
    BY <1>2, <1>4, <2>2, <2>4
<1>5. QED
  BY <1>3, <1>4

\* The command line reads 3.a.2 as the browser does, or raises.
Mix(x, y) == (60 * x + 40 * y) \div 100

LEMMA MixRange ==
  ASSUME NEW x \in 0..Full, NEW y \in 0..Full
  PROVE  Mix(x, y) \in Points
<1> DEFINE c == 60 * x + 40 * y
<1>1. c \in Nat /\ c <= 10000000
  BY FullIs
<1> HIDE DEF c
<1>2. c \div 100 \in 0..Full
  BY <1>1, FullIs
<1>3. Mix(x, y) = c \div 100
  BY DEF Mix, c
<1>4. QED
  BY <1>2, <1>3 DEF Points

LEMMA S3a2Range ==
  ASSUME NEW m \in Metrics, NEW q, Data("3.a.2", q)
  PROVE  /\ Browser!S3a2(m, q) \in Points
         /\ q.op.p0 # Blank => Command!S3a2(m, q) = Browser!S3a2(m, q)
         /\ q.op.p0 = Blank => Command!S3a2(m, q) = Raises
<1> DEFINE lines == Max({1, m.L_total})
           short(c) == IF lines > 1
                       THEN Clamp10((Full * (Log2(lines) - Log2(c + 1))) \div Log2(lines)) ELSE Full
           steady(v) == IF v <= 1 THEN Full ELSE 0
           lc(t) == Browser!Number(q.tier[t].Lc)
           dv(t) == Browser!Or(q.tier[t].dV, 1)
           tuned == {t \in Tiers : q.tier[t].Lc # Missing \/ q.tier[t].dV # Missing}
           f == [t \in tuned |-> (60 * short(lc(t)) + 40 * steady(dv(t))) \div 100]
           p == q.op.p0
<1>1. /\ p \in Nat \cup {Missing, Blank}
      /\ \A t \in Tiers : /\ q.tier[t].Lc \in Nat \cup {Missing, Blank}
                          /\ q.tier[t].dV \in Nat \cup {Missing, Blank}
  BY OpFieldsAre DEF Data, Numbers
<1>2. lines \in Nat \ {0}
  <2>1. m.L_total \in Nat /\ 1 \in Int
    BY DEF Metrics
  <2>2. lines = IF 1 >= m.L_total THEN 1 ELSE m.L_total
    BY <2>1, MaxMinIs
  <2>3. QED
    BY <2>1, <2>2
<1>3. Browser!S3a2(m, q) = IF p # Missing /\ Browser!Number(p) >= 95 THEN Full ELSE Mean(f)
  BY BrowserMath DEF Browser!S3a2
<1> HIDE DEF lines
<1>4. ASSUME NEW c \in Nat PROVE short(c) \in 0..Full
  <2>1. CASE lines > 1
    <3>1. 1 \in Int /\ lines \in Int /\ 2 \in Powers /\ 1 < 2 /\ 2 <= lines
      BY <1>2, <2>1 DEF Powers
    <3>2. Log2(1) < Log2(lines)
      BY <3>1, LogApart
    <3>3. Log2(1) \in Nat /\ Log2(lines) \in Nat
      <4>1. 1 <= lines
        BY <1>2
      <4>2. QED
        BY <3>1, <4>1, LogMonotone
    <3>4. Log2(c + 1) \in Nat
      <4>1. c + 1 \in Int /\ c + 1 <= c + 1
        OBVIOUS
      <4>2. QED
        BY <4>1, LogMonotone
    <3> DEFINE a == Full * (Log2(lines) - Log2(c + 1))
               b == Log2(lines)
    <3>5. a \in Int /\ b \in Nat \ {0}
      BY <3>2, <3>3, <3>4, FullIs
    <3> HIDE DEF a, b
    <3>6. a \div b \in Int
      BY <3>5, DivisionType
    <3>7. Clamp10(a \div b) \in 0..Full
      BY <3>6, ClampRange
    <3>8. short(c) = Clamp10(a \div b)
      BY <2>1, Zenon DEF a, b
    <3>9. QED
      BY <3>7, <3>8, Zenon
  <2>2. CASE ~(lines > 1)
    BY <2>2, FullIs
  <2>3. QED
    BY <2>1, <2>2
<1>5. \A v : steady(v) \in 0..Full
  BY FullIs
<1>6. \A t \in tuned : f[t] \in Points
  <2>1. SUFFICES ASSUME NEW t \in tuned
                 PROVE  (60 * short(lc(t)) + 40 * steady(dv(t))) \div 100 \in Points
    OBVIOUS
  <2>2. lc(t) \in Nat
    BY <1>1, ReadNumber
  <2> HIDE DEF short, steady, lc, dv
  <2>3. short(lc(t)) \in 0..Full
    BY <1>4, <2>2, Zenon
  <2>4. steady(dv(t)) \in 0..Full
    BY <1>5, Zenon
  <2>5. Mix(short(lc(t)), steady(dv(t))) \in Points
    BY <2>3, <2>4, MixRange, Zenon
  <2>6. QED
    BY <2>5 DEF Mix
<1>7. Mean(f) \in Points
  <2>1. DOMAIN f = tuned /\ tuned \in SUBSET Tiers
    OBVIOUS
  <2> HIDE DEF f, tuned
  <2>2. QED
    BY <1>6, <2>1, TierMean
<1>8. Browser!S3a2(m, q) \in Points
  <2> HIDE DEF f
  <2>1. Full \in Points
    BY FullIs DEF Points
  <2>2. QED
    BY <1>3, <1>7, <2>1
<1>9. Command!S3a2(m, q) = IF p = Blank THEN Raises
                           ELSE IF p # Missing /\ p >= 95 THEN Full ELSE Mean(f)
  <2>1. \A v : Command!Or(v, 0) = Browser!Number(v) /\ Command!Or(v, 1) = Browser!Or(v, 1)
    BY DEF Command!Or, Browser!Or, Browser!Number, Command!Truthy, Browser!Truthy
  <2>2. QED
    BY <2>1, CommandMath DEF Command!S3a2, lines
<1>10. p # Blank /\ p # Missing => Browser!Number(p) = p
  BY <1>1, ReadNumber
<1> HIDE DEF f
<1>11. QED
  BY <1>3, <1>8, <1>9, <1>10

\* The versions of an operator, and what changed from one to the next.
VersionsOf(q) == IF q.op.versions \in {Missing, Blank} THEN <<>> ELSE q.op.versions

Was(v, i) == Browser!Number(v[i - 1].lines)

Delta(v, i) ==
  IF v[i].delta_lines # Missing THEN Browser!Number(v[i].delta_lines)
  ELSE Max({Browser!Number(v[i].lines) - Was(v, i), 0 - (Browser!Number(v[i].lines) - Was(v, i))})

Growth(v) == Mean([i \in {k \in 2..Len(v) : Was(v, k) > 0} |-> (Full * Delta(v, i)) \div v[i - 1].lines])

Speed(v) ==
  Mean([i \in {k \in 2..Len(v) : Browser!Truthy(v[k - 1].time) /\ Browser!Truthy(v[k].time)} |->
          (Full * v[i].time) \div v[i - 1].time])

\* A mean of numbers over some of the versions.
LEMMA MeanOfSome ==
  ASSUME NEW n \in Nat, NEW f, DOMAIN f \in SUBSET (2..n), \A i \in DOMAIN f : f[i] \in Nat
  PROVE  Mean(f) \in Nat \cup {None}
<1> DEFINE w == [i \in DOMAIN f |-> 1]
<1>1. IsFiniteSet(DOMAIN f)
  <2>1. IsFiniteSet(2..n)
    BY FS_Interval, 2 \in Int, n \in Int
  <2>2. QED
    BY <2>1, FS_Subset
<1>2. Family(w, f)
  BY <1>1 DEF Family
<1> HIDE DEF w
<1>3. WeightedMean(w, f) \in Nat \cup {None}
  BY <1>2, MeanType
<1>4. QED
  BY <1>3 DEF Mean, w

LEMMA VersionFields ==
  ASSUME NEW v \in Seq(Versions), NEW i \in 2..Len(v)
  PROVE  /\ i - 1 \in 1..Len(v)
         /\ v[i].lines \in Nat \cup {Missing, Blank} /\ v[i - 1].lines \in Nat \cup {Missing, Blank}
         /\ v[i].delta_lines \in Nat \cup {Missing, Blank} /\ v[i].delta_lines # Blank
         /\ v[i].time \in Nat \cup {Missing, Blank} /\ v[i - 1].time \in Nat \cup {Missing, Blank}
<1>1. Len(v) \in Nat
  BY LenProperties
<1>2. i \in 1..Len(v) /\ i - 1 \in 1..Len(v)
  BY <1>1
<1>3. v[i] \in Versions /\ v[i - 1] \in Versions
  BY <1>2, ElementOfSeq
<1>4. QED
  BY <1>2, <1>3, Markers DEF Versions

LEMMA GrowthType ==
  ASSUME NEW v \in Seq(Versions)
  PROVE  Growth(v) \in Nat \cup {None}
<1> DEFINE grown == {k \in 2..Len(v) : Was(v, k) > 0}
           f == [i \in grown |-> (Full * Delta(v, i)) \div v[i - 1].lines]
<1>1. ASSUME NEW i \in grown PROVE (Full * Delta(v, i)) \div v[i - 1].lines \in Nat
  <2> DEFINE a == v[i].lines
             b == v[i - 1].lines
             d == v[i].delta_lines
             x == Browser!Number(a)
             y == Browser!Number(b)
  <2>1. /\ a \in Nat \cup {Missing, Blank} /\ b \in Nat \cup {Missing, Blank}
        /\ d \in Nat \cup {Missing, Blank}
    BY VersionFields
  <2>2. x \in Nat
    BY <2>1, ReadNumber
  <2>3. y \in Nat
    BY <2>1, ReadNumber
  <2>4. Browser!Number(d) \in Nat
    BY <2>1, ReadNumber
  <2>5. y > 0
    BY DEF Was
  <2>6. b \in Nat \ {0}
    BY <2>1, <2>5 DEF Browser!Number, Browser!Or, Browser!Truthy
  <2>7. Max({x - y, 0 - (x - y)}) \in Nat
    <3> HIDE DEF x, y
    <3>1. x - y \in Int /\ 0 - (x - y) \in Int
      BY <2>2, <2>3
    <3>2. Max({x - y, 0 - (x - y)}) = IF x - y >= 0 - (x - y) THEN x - y ELSE 0 - (x - y)
      BY <3>1, MaxMinIs
    <3>3. QED
      BY <2>2, <2>3, <3>2
  <2>8. Delta(v, i) = IF d # Missing THEN Browser!Number(d) ELSE Max({x - y, 0 - (x - y)})
    BY DEF Delta, Was
  <2>9. Delta(v, i) \in Nat
    BY <2>4, <2>7, <2>8
  <2> HIDE DEF b
  <2>10. (Full * Delta(v, i)) \div b \in Nat
    <3>1. Full * Delta(v, i) \in Nat
      BY <2>9, FullIs
    <3>2. QED
      BY <2>6, <3>1, DivisionType
  <2>11. QED
    BY <2>10 DEF b
<1>2. DOMAIN f \in SUBSET (2..Len(v)) /\ \A i \in DOMAIN f : f[i] \in Nat
  BY <1>1
<1>3. Len(v) \in Nat
  BY LenProperties
<1> HIDE DEF f
<1>4. Mean(f) \in Nat \cup {None}
  BY <1>2, <1>3, MeanOfSome
<1>5. QED
  BY <1>4 DEF Growth, f

LEMMA SpeedType ==
  ASSUME NEW v \in Seq(Versions)
  PROVE  Speed(v) \in Nat \cup {None}
<1> DEFINE timed == {k \in 2..Len(v) : Browser!Truthy(v[k - 1].time) /\ Browser!Truthy(v[k].time)}
           f == [i \in timed |-> (Full * v[i].time) \div v[i - 1].time]
<1>1. ASSUME NEW i \in timed PROVE (Full * v[i].time) \div v[i - 1].time \in Nat
  <2> DEFINE a == v[i].time
             b == v[i - 1].time
  <2>1. a \in Nat \cup {Missing, Blank} /\ b \in Nat \cup {Missing, Blank}
    BY VersionFields
  <2>2. a \in Nat /\ b \in Nat \ {0}
    BY <2>1 DEF Browser!Truthy
  <2> HIDE DEF a, b
  <2>3. Full * a \in Nat
    BY <2>2, FullIs
  <2>4. (Full * a) \div b \in Nat
    BY <2>2, <2>3, DivisionType
  <2>5. QED
    BY <2>4 DEF a, b
<1>2. DOMAIN f \in SUBSET (2..Len(v)) /\ \A i \in DOMAIN f : f[i] \in Nat
  BY <1>1
<1>3. Len(v) \in Nat
  BY LenProperties
<1> HIDE DEF f
<1>4. Mean(f) \in Nat \cup {None}
  BY <1>2, <1>3, MeanOfSome
<1>5. QED
  BY <1>4 DEF Speed, f

\* Both programs see the same growth ...
LEMMA GrowthSame ==
  ASSUME NEW v \in Seq(Versions)
  PROVE  Growth(v) =
           Mean([i \in {k \in 2..Len(v) : Command!Or(v[k - 1].lines, 0) > 0} |->
                   (Full * (IF v[i].delta_lines # Missing THEN v[i].delta_lines
                           ELSE Max({Command!Or(v[i].lines, 0) - Command!Or(v[i - 1].lines, 0),
                                     Command!Or(v[i - 1].lines, 0) - Command!Or(v[i].lines, 0)})))
                     \div Command!Or(v[i - 1].lines, 0)])
<1> DEFINE grown == {k \in 2..Len(v) : Was(v, k) > 0}
           x(i) == Command!Or(v[i].lines, 0)
           y(i) == Command!Or(v[i - 1].lines, 0)
           c(i) == IF v[i].delta_lines # Missing THEN v[i].delta_lines
                   ELSE Max({x(i) - y(i), y(i) - x(i)})
<1>1. \A u : Command!Or(u, 0) = Browser!Number(u)
  BY DEF Command!Or, Browser!Number, Browser!Or, Command!Truthy, Browser!Truthy
<1>2. ASSUME NEW i \in grown
      PROVE  (Full * Delta(v, i)) \div v[i - 1].lines = (Full * c(i)) \div y(i)
  <2> DEFINE a == v[i].lines
             b == v[i - 1].lines
             d == v[i].delta_lines
  <2>1. /\ a \in Nat \cup {Missing, Blank} /\ b \in Nat \cup {Missing, Blank}
        /\ d \in Nat \cup {Missing, Blank} /\ d # Blank
    BY VersionFields
  <2>2. y(i) = Browser!Number(b) /\ x(i) = Browser!Number(a) /\ Was(v, i) = Browser!Number(b)
    BY <1>1 DEF Was
  <2>3. Browser!Number(b) = b
    BY <2>1, <2>2 DEF Browser!Number, Browser!Or, Browser!Truthy
  <2>4. d # Missing => Browser!Number(d) = d
    BY <2>1, ReadNumber
  <2>5. Browser!Number(a) \in Nat
    BY <2>1, ReadNumber
  <2>6. Browser!Number(b) \in Nat
    BY <2>1, ReadNumber
  <2> HIDE DEF x, y
  <2>7. y(i) - x(i) = 0 - (x(i) - y(i))
    BY <2>2, <2>5, <2>6
  <2>8. Delta(v, i) = c(i)
    BY <2>2, <2>4, <2>7 DEF Delta
  <2>9. QED
    BY <2>2, <2>3, <2>8
<1>3. grown = {k \in 2..Len(v) : y(k) > 0}
  BY <1>1 DEF Was
<1> HIDE DEF grown, c, y
<1>4. [i \in grown |-> (Full * Delta(v, i)) \div v[i - 1].lines]
      = [i \in {k \in 2..Len(v) : y(k) > 0} |-> (Full * c(i)) \div y(i)]
  BY <1>2, <1>3
<1>5. QED
  BY <1>4, Zenon DEF Growth, grown, c, y, x

\* ... and score it alike.
GrowthScore(g) == IF g = None THEN None ELSE Clamp10(Full - (10 * g) \div 3)

SpeedScore(t) == IF t = None THEN None ELSE Clamp10((10 * (Full - t)) \div 3)

LEMMA VersionScores ==
  ASSUME NEW n \in Nat, NEW g \in Nat \cup {None}
  PROVE  /\ Clamp10(Full - (Full * (n - 1)) \div 5) = CostPart(n - 1, 5, 100)
         /\ CostPart(n - 1, 5, 100) \in 0..Full
         /\ GrowthScore(g) \in Points /\ SpeedScore(g) \in Points
<1>1. (100 * Full * (n - 1)) \div (5 * 100) = (Full * (n - 1)) \div 5
  BY FullIs
<1>2. n - 1 \in Int /\ 5 \in Nat \ {0} /\ 100 \in Nat \ {0}
  OBVIOUS
<1>3. CostPart(n - 1, 5, 100) \in 0..Full
  BY <1>2, CostRange, Zenon
<1>4. Clamp10(Full - (Full * (n - 1)) \div 5) = CostPart(n - 1, 5, 100)
  BY <1>1, Zenon DEF CostPart
<1>5. CASE g \in Nat
  <2>1. Full - (10 * g) \div 3 \in Int /\ (10 * (Full - g)) \div 3 \in Int
    BY <1>5, FullIs
  <2>2. Clamp10(Full - (10 * g) \div 3) \in 0..Full /\ Clamp10((10 * (Full - g)) \div 3) \in 0..Full
    BY <2>1, ClampRange
  <2>3. QED
    BY <1>3, <1>4, <2>2 DEF GrowthScore, SpeedScore, Points
<1>6. CASE g = None
  BY <1>3, <1>4, <1>6 DEF GrowthScore, SpeedScore, Points
<1>7. QED
  BY <1>5, <1>6

\* The score of a development of n versions, of which growth and speed are known.
History(n, growth, speed) ==
  WeightedMean([n |-> 25, growth |-> 35, time |-> 40],
    [n |-> CostPart(n - 1, 5, 100), growth |-> GrowthScore(growth), time |-> SpeedScore(speed)])

LEMMA ThreeAreFinite ==
  ASSUME NEW a, NEW b, NEW c
  PROVE  IsFiniteSet({a, b, c})
<1>1. IsFiniteSet({a, b}) /\ {a, b} \cup {c} = {a, b, c}
  BY FewAreFinite
<1>2. QED
  BY <1>1, FS_AddElement

LEMMA HistoryRange ==
  ASSUME NEW n \in Nat, NEW g \in Nat \cup {None}, NEW s \in Nat \cup {None}
  PROVE  History(n, g, s) \in Points
<1> DEFINE w == [n |-> 25, growth |-> 35, time |-> 40]
           a == CostPart(n - 1, 5, 100)
           b == GrowthScore(g)
           c == SpeedScore(s)
           f == [n |-> a, growth |-> b, time |-> c]
<1>1. a \in Points
  BY VersionScores DEF Points
<1>2. b \in Points
  BY VersionScores
<1>3. c \in Points
  BY VersionScores
<1> HIDE DEF a, b, c
<1>4. DOMAIN f = {"n", "growth", "time"} /\ IsFiniteSet(DOMAIN f)
  <2>1. DOMAIN f = {"n", "growth", "time"}
    OBVIOUS
  <2>2. IsFiniteSet({"n", "growth", "time"})
    BY ThreeAreFinite, Zenon
  <2> HIDE DEF f
  <2>3. QED
    BY <2>1, <2>2
<1>5. \A i \in DOMAIN f : f[i] \in Points /\ w[i] \in Nat \ {0}
  <2>1. f["n"] = a /\ f["growth"] = b /\ f["time"] = c
    OBVIOUS
  <2>2. w["n"] = 25 /\ w["growth"] = 35 /\ w["time"] = 40
    OBVIOUS
  <2> HIDE DEF f, w
  <2>3. QED
    BY <1>1, <1>2, <1>3, <1>4, <2>1, <2>2, 25 \in Nat \ {0}, 35 \in Nat \ {0}, 40 \in Nat \ {0}
<1>6. Family(w, f)
  <2> HIDE DEF w, f
  <2>1. \A i \in DOMAIN f : f[i] \in Nat \cup {None} /\ w[i] \in Nat \ {0}
    BY <1>5, FullIs DEF Points
  <2>2. QED
    BY <1>4, <2>1, Zenon DEF Family
<1>7. WeightedMean(w, f) \in Points
  <2> HIDE DEF w, f
  <2>1. Full \in Nat
    BY FullIs
  <2>2. QED
    BY <1>5, <1>6, <2>1, MeanBound DEF Points
<1>8. QED
  BY <1>7, Zenon DEF History, w, f, a, b, c

LEMMA S9a1Range ==
  ASSUME NEW q, Data("9.a.1", q)
  PROVE  /\ Browser!S9a1(q) \in Points
         /\ Solid("9.a.1", q) => Command!S9a1(q) = Browser!S9a1(q)
<1> DEFINE v == VersionsOf(q)
           k == q.op.N_versions
           n == IF k # Missing THEN Browser!Number(k) ELSE IF Len(v) > 0 THEN Len(v) ELSE Missing
           c == IF k # Missing THEN k ELSE IF v = <<>> THEN Missing ELSE Len(v)
<1>1. k \in Nat \cup {Missing, Blank}
  BY OpFieldsAre DEF Data, Numbers
<1>2. v \in Seq(Versions)
  <2>1. q.op.versions \in Seq(Versions) \cup {Missing, Blank}
    BY OpFieldsAre DEF Data, Numbers
  <2>2. <<>> \in Seq(Versions)
    BY EmptySeq
  <2>3. QED
    BY <2>1, <2>2 DEF VersionsOf
<1>3. Len(v) \in Nat /\ (Len(v) > 0 <=> v # <<>>)
  BY <1>2, EmptySeq, LenProperties
<1>4. Growth(v) \in Nat \cup {None} /\ Speed(v) \in Nat \cup {None}
  BY <1>2, GrowthType, SpeedType
<1> DEFINE x == [n |-> Clamp10(Full - (Full * (n - 1)) \div 5),
                 growth |-> GrowthScore(Growth(v)),
                 time |-> SpeedScore(Speed(v))]
<1>5. Browser!S9a1(q) = IF n = Missing THEN None
                        ELSE WeightedMean([n |-> 25, growth |-> 35, time |-> 40], x)
  <2> DEFINE d(i) == Browser!Number(v[i].lines) - Browser!Number(v[i - 1].lines)
             e(i) == IF v[i].delta_lines # Missing THEN Browser!Number(v[i].delta_lines)
                     ELSE Browser!Max({d(i), 0 - d(i)})
             g == Browser!Mean([i \in {j \in 2..Len(v) : Browser!Number(v[j - 1].lines) > 0} |->
                                  (Browser!Full * e(i)) \div v[i - 1].lines])
             s == Browser!Mean([i \in {j \in 2..Len(v) : /\ Browser!Truthy(v[j - 1].time)
                                                         /\ Browser!Truthy(v[j].time)} |->
                                  (Browser!Full * v[i].time) \div v[i - 1].time])
             y == [n |-> Browser!Clamp10(Browser!Full - (Browser!Full * (n - 1)) \div 5),
                   growth |-> IF g = None THEN None
                              ELSE Browser!Clamp10(Browser!Full - (10 * g) \div 3),
                   time |-> IF s = None THEN None
                            ELSE Browser!Clamp10((10 * (Browser!Full - s)) \div 3)]
  <2>1. Browser!S9a1(q) = IF n = Missing THEN None
                          ELSE Browser!WeightedMean([n |-> 25, growth |-> 35, time |-> 40], y)
    BY Zenon DEF Browser!S9a1, VersionsOf
  <2> HIDE DEF v
  <2>2. g = Growth(v) /\ s = Speed(v)
    BY BrowserMath DEF Growth, Speed, Delta, Was
  <2> HIDE DEF g, s, n
  <2>3. y = x
    BY <2>2, BrowserMath DEF GrowthScore, SpeedScore
  <2> HIDE DEF x, y
  <2>4. QED
    BY <2>1, <2>3, BrowserMath
<1>6. n = Missing \/ n \in Nat
  <2>1. Browser!Number(k) \in Nat
    BY <1>1, ReadNumber
  <2>2. QED
    BY <1>3, <2>1
<1>7. n # Missing => WeightedMean([n |-> 25, growth |-> 35, time |-> 40], x) = History(n, Growth(v), Speed(v))
  <2>1. SUFFICES ASSUME n # Missing
                 PROVE  WeightedMean([n |-> 25, growth |-> 35, time |-> 40], x)
                        = History(n, Growth(v), Speed(v))
    OBVIOUS
  <2>2. n \in Nat
    BY <1>6, <2>1
  <2> HIDE DEF n, v
  <2>3. Clamp10(Full - (Full * (n - 1)) \div 5) = CostPart(n - 1, 5, 100)
    BY <2>2, VersionScores
  <2>4. QED
    BY <2>3, Zenon DEF History
<1>8. Browser!S9a1(q) \in Points
  <2> HIDE DEF n, v, x
  <2>1. CASE n = Missing
    BY <1>5, <2>1 DEF Points
  <2>2. CASE n \in Nat
    <3>1. n # Missing
      BY <2>2, Markers
    <3>2. History(n, Growth(v), Speed(v)) \in Points
      BY <1>4, <2>2, HistoryRange
    <3>3. QED
      BY <1>5, <1>7, <3>1, <3>2
  <2>3. QED
    BY <1>6, <2>1, <2>2
<1>9. Command!S9a1(q) = IF c = Missing THEN None
                        ELSE IF c = Blank THEN Raises
                        ELSE History(c, Growth(v), Speed(v))
  <2>1. \A u : Command!Truthy(u) <=> Browser!Truthy(u)
    BY DEF Command!Truthy, Browser!Truthy
  <2>2. Speed(v) = Mean([i \in {j \in 2..Len(v) : Command!Truthy(v[j - 1].time) /\ Command!Truthy(v[j].time)} |->
                           (Full * v[i].time) \div v[i - 1].time])
    BY <2>1 DEF Speed
  <2> DEFINE g == Command!Mean([i \in {j \in 2..Len(v) : Command!Or(v[j - 1].lines, 0) > 0} |->
                   (Command!Full * (IF v[i].delta_lines # Missing THEN v[i].delta_lines
                           ELSE Command!Max({Command!Or(v[i].lines, 0) - Command!Or(v[i - 1].lines, 0),
                                             Command!Or(v[i - 1].lines, 0) - Command!Or(v[i].lines, 0)})))
                     \div Command!Or(v[i - 1].lines, 0)])
             s == Command!Mean([i \in {j \in 2..Len(v) : Command!Truthy(v[j - 1].time) /\ Command!Truthy(v[j].time)} |->
                           (Command!Full * v[i].time) \div v[i - 1].time])
             y == [n |-> Command!CostPart(c - 1, 5, 100),
                   growth |-> IF g = None THEN None
                              ELSE Command!Clamp10(Command!Full - (10 * g) \div 3),
                   time |-> IF s = None THEN None
                            ELSE Command!Clamp10((10 * (Command!Full - s)) \div 3)]
  <2>3. Command!S9a1(q) = IF c = Missing THEN None
                          ELSE IF c = Blank THEN Raises
                          ELSE Command!WeightedMean([n |-> 25, growth |-> 35, time |-> 40], y)
    BY Zenon DEF Command!S9a1, VersionsOf
  <2> HIDE DEF v
  <2>4. g = Growth(v)
    BY <1>2, GrowthSame, CommandMath
  <2>5. s = Speed(v)
    BY <2>2, CommandMath
  <2> HIDE DEF g, s, c
  <2>6. y = [n |-> CostPart(c - 1, 5, 100),
             growth |-> GrowthScore(Growth(v)), time |-> SpeedScore(Speed(v))]
    BY <2>4, <2>5, CommandMath DEF GrowthScore, SpeedScore
  <2>7. Command!WeightedMean([n |-> 25, growth |-> 35, time |-> 40], y) = History(c, Growth(v), Speed(v))
    BY <2>6, CommandMath DEF History
  <2> HIDE DEF y
  <2>8. QED
    BY <2>3, <2>7
<1>10. ASSUME Solid("9.a.1", q) PROVE c = n /\ c # Blank
  <2>1. k # Blank
    BY <1>10, OpFieldsAre DEF Solid
  <2>2. k # Missing => Browser!Number(k) = k
    BY <1>1, <2>1, ReadNumber
  <2>3. QED
    BY <1>3, <2>1, <2>2, Markers
<1> HIDE DEF n, c, v, x
<1>11. QED
  BY <1>5, <1>7, <1>8, <1>9, <1>10

LEMMA S9a1Blanks ==
  ASSUME NEW q, NEW r, IsFilled("9.a.1", q, r)
  PROVE  Command!S9a1(q) \in {Raises, Command!S9a1(r)}
<1> DEFINE Seen(v, k) ==
             LET n == IF k # Missing THEN k ELSE IF v = <<>> THEN Missing ELSE Len(v)
                 was(i) == Command!Or(v[i - 1].lines, 0)
                 is(i) == Command!Or(v[i].lines, 0)
                 changed(i) == IF v[i].delta_lines # Missing THEN v[i].delta_lines
                               ELSE Command!Max({is(i) - was(i), was(i) - is(i)})
                 growth == Command!Mean([i \in {j \in 2..Len(v) : was(j) > 0} |->
                                           (Command!Full * changed(i)) \div was(i)])
                 time == Command!Mean([i \in {j \in 2..Len(v) : /\ Command!Truthy(v[j - 1].time)
                                                                /\ Command!Truthy(v[j].time)} |->
                                         (Command!Full * v[i].time) \div v[i - 1].time])
             IN IF n = Missing THEN None
                ELSE IF n = Blank THEN Raises
                ELSE Command!WeightedMean([n |-> 25, growth |-> 35, time |-> 40],
                       [n |-> Command!CostPart(n - 1, 5, 100),
                        growth |-> IF growth = None THEN None
                                   ELSE Command!Clamp10(Command!Full - (10 * growth) \div 3),
                        time |-> IF time = None THEN None
                                 ELSE Command!Clamp10((10 * (Command!Full - time)) \div 3)])
<1>1. r.op.versions = Filled(q.op.versions) /\ r.op.N_versions = Filled(q.op.N_versions)
  BY OpFieldsAre DEF IsFilled
<1>2. /\ Command!S9a1(q) = Seen(VersionsOf(q), q.op.N_versions)
      /\ Command!S9a1(r) = Seen(VersionsOf(r), r.op.N_versions)
  BY Zenon DEF Command!S9a1, VersionsOf
<1>3. VersionsOf(q) = VersionsOf(r)
  BY <1>1 DEF VersionsOf, Filled
<1>4. \A v : Seen(v, Blank) = Raises
  BY Markers
<1> HIDE DEF Seen
<1>5. CASE q.op.N_versions = Blank
  BY <1>2, <1>4, <1>5
<1>6. CASE q.op.N_versions # Blank
  <2>1. r.op.N_versions = q.op.N_versions
    BY <1>1, <1>6 DEF Filled
  <2>2. QED
    BY <1>2, <1>3, <2>1
<1>7. QED
  BY <1>5, <1>6

-------------------------------------------------------------------------------
(***************************************************************************)
(* The items that mix the form with measurements of all operators.         *)
(***************************************************************************)
\* A mean of numbers is a number unless there are none.
LEMMA MeanOfNumbers ==
  ASSUME NEW f, IsFiniteSet(DOMAIN f), \A i \in DOMAIN f : f[i] \in Nat
  PROVE  Mean(f) \in Nat \cup {None} /\ (Mean(f) = None <=> DOMAIN f = {})
<1> DEFINE w == [i \in DOMAIN f |-> 1]
<1>1. Family(w, f)
  BY DEF Family
<1>2. Given(f) = DOMAIN f
  BY Markers DEF Given
<1> HIDE DEF w
<1>3. WeightedMean(w, f) \in Nat \cup {None} /\ (WeightedMean(w, f) = None <=> Given(f) = {})
  BY <1>1, MeanType
<1>4. QED
  BY <1>2, <1>3 DEF Mean, w

\* Some operators are finitely many.
LEMMA SomeOps ==
  ASSUME NEW S \in SUBSET Ops
  PROVE  IsFiniteSet(S)
BY ScoringAssumption, FS_Subset

\* The band of a mean, by the case distinction of the browser.
LEMMA BandIs ==
  ASSUME NEW v \in Nat \cup {None}, NEW a \in Nat, NEW b \in Nat, NEW c \in Nat
  PROVE  /\ (CASE v = None -> None
               [] v # None /\ v < a -> Full
               [] v # None /\ v >= a /\ v < b -> 8 * Point
               [] v # None /\ v >= b /\ v < c -> 5 * Point
               [] v # None /\ v >= c -> 3 * Point) \in Points
         /\ a <= b /\ b <= c /\ v # None =>
              (CASE v = None -> None
                 [] v # None /\ v < a -> Full
                 [] v # None /\ v >= a /\ v < b -> 8 * Point
                 [] v # None /\ v >= b /\ v < c -> 5 * Point
                 [] v # None /\ v >= c -> 3 * Point) = Command!Band(v, <<a, b, c>>)
         /\ v = None =>
              (CASE v = None -> None
                 [] v # None /\ v < a -> Full
                 [] v # None /\ v >= a /\ v < b -> 8 * Point
                 [] v # None /\ v >= b /\ v < c -> 5 * Point
                 [] v # None /\ v >= c -> 3 * Point) = None
BY CommandMath, Markers, FullIs DEF Command!Band, Points

\* Measurements of every operator.
AllData(i, p) == \A o \in Ops : Data(i, p[o])
AllSolid(i, p) == \A o \in Ops : Solid(i, p[o])
AllFilled(i, p, r) == \A o \in Ops : IsFilled(i, p[o], r[o])

LEMMA BandedRange ==
  ASSUME NEW i \in {"3.b.2", "3.b.4"}, NEW f, OpFields[i] = {f}, f # "versions",
         NEW m \in [Ops -> Metrics], NEW p, AllData(i, p),
         NEW a \in Nat, NEW b \in Nat, NEW c \in Nat, a <= b, b <= c
  PROVE  /\ Browser!Banded(m, p, f, <<a, b, c>>) \in Points
         /\ AllSolid(i, p) =>
              Command!Banded(m, p, f, <<a, b, c>>) = Browser!Banded(m, p, f, <<a, b, c>>)
<1> DEFINE x(o) == p[o].op[f]
           measured == {o \in Ops : x(o) # Missing}
           g == [o \in measured |-> Browser!Number(x(o))]
           v == Mean(g)
<1>1. \A o \in Ops : x(o) \in Nat \cup {Missing, Blank}
  BY DEF AllData, Data, Numbers
<1>2. v \in Nat \cup {None} /\ (v = None <=> measured = {})
  <2>1. DOMAIN g = measured /\ IsFiniteSet(measured)
    BY SomeOps
  <2>2. \A o \in measured : g[o] \in Nat
    BY <1>1, ReadNumber
  <2> HIDE DEF g, measured
  <2>3. QED
    BY <2>1, <2>2, MeanOfNumbers
<1>3. DOMAIN m = Ops
  OBVIOUS
<1>4. Browser!Banded(m, p, f, <<a, b, c>>) =
        CASE v = None -> None
          [] v # None /\ v < a -> Full
          [] v # None /\ v >= a /\ v < b -> 8 * Point
          [] v # None /\ v >= b /\ v < c -> 5 * Point
          [] v # None /\ v >= c -> 3 * Point
  BY <1>3, BrowserMath DEF Browser!Banded
<1>5. ASSUME AllSolid(i, p)
      PROVE  Command!Banded(m, p, f, <<a, b, c>>) =
               IF v = None THEN None ELSE Command!Band(v, <<a, b, c>>)
  <2> DEFINE h == [o \in measured |-> x(o)]
  <2>1. \A o \in Ops : x(o) # Blank
    BY <1>5 DEF AllSolid, Solid
  <2>2. Command!Banded(m, p, f, <<a, b, c>>) =
          IF measured = {} THEN None ELSE Command!Band(Mean(h), <<a, b, c>>)
    BY <1>3, <2>1, CommandMath DEF Command!Banded
  <2>3. \A o \in measured : Browser!Number(x(o)) = x(o)
    <3>1. SUFFICES ASSUME NEW o \in measured PROVE Browser!Number(x(o)) = x(o)
      OBVIOUS
    <3>2. x(o) \in Nat
      BY <1>1, <2>1
    <3>3. QED
      BY <3>2, ReadNumber
  <2> HIDE DEF x, measured
  <2>4. h = g
    BY <2>3
  <2> HIDE DEF h, g
  <2>5. QED
    BY <1>2, <2>2, <2>4
<1> HIDE DEF v
<1>6. QED
  BY <1>2, <1>4, <1>5, BandIs

LEMMA BandedBlanks ==
  ASSUME NEW i \in {"3.b.2", "3.b.4"}, NEW f, OpFields[i] = {f},
         NEW m \in [Ops -> Metrics], NEW p, NEW r, AllFilled(i, p, r), NEW bounds
  PROVE  Command!Banded(m, p, f, bounds) \in {Raises, Command!Banded(m, r, f, bounds)}
<1> DEFINE x(y, o) == y[o].op[f]
           measured(y) == {o \in Ops : x(y, o) # Missing}
           bad(y) == \E o \in measured(y) : x(y, o) = Blank
           g(y) == [o \in measured(y) |-> x(y, o)]
<1>1. \A o \in Ops : x(r, o) = Filled(x(p, o))
  BY DEF AllFilled, IsFilled
<1>2. ASSUME NEW y
      PROVE  Command!Banded(m, y, f, bounds) =
               IF bad(y) THEN Raises
               ELSE IF measured(y) = {} THEN None
               ELSE Command!Band(Mean(g(y)), bounds)
  <2>1. DOMAIN m = Ops
    OBVIOUS
  <2>2. QED
    BY <2>1, CommandMath DEF Command!Banded
<1> HIDE DEF x
<1>3. CASE bad(p)
  BY <1>2, <1>3
<1>4. CASE ~bad(p)
  <2>1. \A o \in Ops : x(p, o) # Blank
    BY <1>4, Markers
  <2>2. \A o \in Ops : x(r, o) = x(p, o)
    BY <1>1, <2>1 DEF Filled
  <2>3. measured(r) = measured(p) /\ ~bad(r)
    BY <2>1, <2>2
  <2>4. g(r) = g(p)
    BY <2>2, <2>3
  <2> HIDE DEF g, bad, measured
  <2>5. QED
    BY <1>2, <1>4, <2>3, <2>4
<1>5. QED
  BY <1>3, <1>4

\* The largest count extraction found, if any.
LEMMA MaxUsed ==
  ASSUME NEW m \in [Ops -> Metrics], NEW S \in SUBSET Ops, NEW f \in {"N_hint_used", "N_enum_used"},
         {m[o][f] : o \in S} # {}
  PROVE  Max({m[o][f] : o \in S}) \in Nat
<1> DEFINE T == {m[o][f] : o \in S}
<1>1. T \in SUBSET Nat
  BY DEF Metrics
<1>2. IsFiniteSet(T)
  <2> DEFINE g == [o \in S |-> m[o][f]]
  <2>1. g \in Surjection(S, T)
    BY DEF Surjection
  <2>2. QED
    BY <2>1, SomeOps, FS_Surjection
<1>3. T # {}
  OBVIOUS
<1> HIDE DEF T
<1>4. Max(T) \in Nat
  BY <1>1, <1>2, <1>3, MaxOf
<1>5. QED
  BY <1>4 DEF T

LEMMA S3b2Range ==
  ASSUME NEW h, Form("3.b.2", h), NEW m \in [Ops -> Metrics], NEW p, AllData("3.b.2", p)
  PROVE  /\ Browser!S3b2(h, m, p) \in Points
         /\ AllSolid("3.b.2", p) => Command!S3b2(h, m, p) = Browser!S3b2(h, m, p)
<1> DEFINE present == {o \in Ops : Browser!Present(m[o])}
           used == {m[o].N_hint_used : o \in present}
           n == IF h.N_hint = Missing /\ used # {} THEN Max(used) ELSE h.N_hint
           gap == Browser!Banded(m, p, "hint_gap", <<5, 15, 30>>)
           cgap == Command!Banded(m, p, "hint_gap", <<5, 15, 30>>)
<1>1. gap \in Points /\ (AllSolid("3.b.2", p) => cgap = gap)
  <2>1. 5 \in Nat /\ 15 \in Nat /\ 30 \in Nat /\ 5 <= 15 /\ 15 <= 30
    OBVIOUS
  <2>2. "3.b.2" \in {"3.b.2", "3.b.4"} /\ OpFields["3.b.2"] = {"hint_gap"} /\ "hint_gap" # "versions"
    BY OpFieldsAre
  <2>3. QED
    BY <2>1, <2>2, BandedRange
<1>2. DOMAIN m = Ops
  OBVIOUS
<1>3. h.N_hint \in Nat \cup {Missing}
  BY HwFieldsAre DEF Form
<1>4. n \in Nat \cup {Missing}
  <2>1. used # {} => Max(used) \in Nat
    <3>1. present \in SUBSET Ops
      OBVIOUS
    <3> HIDE DEF present
    <3>2. used = {m[o]["N_hint_used"] : o \in present}
      OBVIOUS
    <3> HIDE DEF used
    <3>3. QED
      BY <3>1, <3>2, MaxUsed
  <2> HIDE DEF used
  <2>2. QED
    BY <1>3, <2>1
<1>5. Browser!S3b2(h, m, p) = IF n = Missing THEN None
                              ELSE Blend(45, Clamp10(Full - 2 * Point * n), 55, gap)
  BY <1>2, BrowserMath DEF Browser!S3b2
<1>6. Command!S3b2(h, m, p) = IF n = Missing THEN None
                              ELSE IF cgap = Raises THEN Raises
                              ELSE Blend(45, Clamp10(Full - 2 * Point * n), 55, cgap)
  <2>1. n = IF h.N_hint # Missing THEN h.N_hint ELSE IF used = {} THEN Missing ELSE Max(used)
    OBVIOUS
  <2>2. used = {m[o].N_hint_used : o \in {q \in DOMAIN m : Command!Present(m[q])}}
    BY <1>2, PresentSame
  <2> HIDE DEF n, used
  <2>3. QED
    BY <2>1, <2>2, CommandMath DEF Command!S3b2
<1> HIDE DEF n, gap, cgap
<1>7. n # Missing => Blend(45, Clamp10(Full - 2 * Point * n), 55, gap) \in Points
  <2>1. SUFFICES ASSUME n # Missing PROVE Blend(45, Clamp10(Full - 2 * Point * n), 55, gap) \in Points
    OBVIOUS
  <2>2. Full - 2 * Point * n \in Int
    BY <1>4, <2>1, FullIs
  <2>3. Clamp10(Full - 2 * Point * n) \in Points
    BY <2>2, ClampRange DEF Points
  <2>4. QED
    BY <1>1, <2>3, BlendPoints
<1>8. gap # Raises
  BY <1>1, Markers, FullIs DEF Points
<1>9. None \in Points
  BY DEF Points
<1>10. Browser!S3b2(h, m, p) \in Points
  BY <1>5, <1>7, <1>9
<1>11. AllSolid("3.b.2", p) => Command!S3b2(h, m, p) = Browser!S3b2(h, m, p)
  BY <1>1, <1>5, <1>6, <1>8
<1>12. QED
  BY <1>10, <1>11

LEMMA S3b2Blanks ==
  ASSUME NEW h, NEW m \in [Ops -> Metrics], NEW p, NEW r, AllFilled("3.b.2", p, r)
  PROVE  Command!S3b2(h, m, p) \in {None, Raises, Command!S3b2(h, m, r)}
<1> DEFINE used == {m[o].N_hint_used : o \in {q \in DOMAIN m : Command!Present(m[q])}}
           n == IF h.N_hint # Missing THEN h.N_hint
                ELSE IF used = {} THEN Missing ELSE Command!Max(used)
           gap(x) == Command!Banded(m, x, "hint_gap", <<5, 15, 30>>)
           score(g) == IF n = Missing THEN None ELSE IF g = Raises THEN Raises
                       ELSE Command!Blend(45, Command!Clamp10(Command!Full - 2 * Command!Point * n), 55, g)
<1>1. gap(p) \in {Raises, gap(r)}
  BY BandedBlanks, OpFieldsAre, Zenon
<1>2. Command!S3b2(h, m, p) = score(gap(p)) /\ Command!S3b2(h, m, r) = score(gap(r))
  BY Zenon DEF Command!S3b2
<1>3. score(Raises) \in {None, Raises}
  BY Zenon
<1> HIDE DEF score, gap
<1>4. QED
  BY <1>1, <1>2, <1>3

LEMMA S3b4Range ==
  ASSUME NEW h, Form("3.b.4", h), NEW m \in [Ops -> Metrics], NEW p, AllData("3.b.4", p)
  PROVE  /\ Browser!S3b4(h, m, p) \in Points
         /\ AllSolid("3.b.4", p) => Command!S3b4(h, m, p) = Browser!S3b4(h, m, p)
<1> DEFINE cache == Browser!Number(h.ICache_KiB) + Browser!Number(h.DCache_KiB)
           size == h.binary_stack_KiB
           ratio == IF cache > 0 /\ size # Missing
                    THEN CostPart(Max({size - cache, 0}), cache, 10) ELSE None
           miss == Browser!Banded(m, p, "icache_miss", <<1, 5, 15>>)
           cmiss == Command!Banded(m, p, "icache_miss", <<1, 5, 15>>)
<1>1. miss \in Points /\ (AllSolid("3.b.4", p) => cmiss = miss)
  <2>1. 1 \in Nat /\ 5 \in Nat /\ 15 \in Nat /\ 1 <= 5 /\ 5 <= 15
    OBVIOUS
  <2>2. /\ "3.b.4" \in {"3.b.2", "3.b.4"} /\ OpFields["3.b.4"] = {"icache_miss"}
        /\ "icache_miss" # "versions"
    BY OpFieldsAre
  <2>3. QED
    BY <2>1, <2>2, BandedRange
<1>2. \A k \in {"ICache_KiB", "DCache_KiB", "binary_stack_KiB"} : h[k] \in Nat \cup {Missing}
  BY HwFieldsAre DEF Form
<1>3. cache \in Nat
  <2>1. \A k \in {"ICache_KiB", "DCache_KiB"} : Browser!Number(h[k]) \in Nat
    BY <1>2, ReadNumber
  <2>2. QED
    BY <2>1
<1>4. Browser!S3b4(h, m, p) = Blend(40, ratio, 60, miss)
  BY BrowserMath DEF Browser!S3b4
<1>5. Command!S3b4(h, m, p) = IF cmiss = Raises THEN Raises ELSE Blend(40, ratio, 60, cmiss)
  <2>1. \A v : Command!Or(v, 0) = Browser!Number(v)
    BY DEF Command!Or, Browser!Number, Browser!Or, Command!Truthy, Browser!Truthy
  <2>2. QED
    BY <2>1, CommandMath DEF Command!S3b4
<1> HIDE DEF cache, miss, cmiss
<1>6. ratio \in Points
  <2>1. CASE cache > 0 /\ size # Missing
    <3>1. size \in Nat /\ cache \in Nat \ {0} /\ 10 \in Nat \ {0}
      BY <1>2, <1>3, <2>1
    <3> HIDE DEF size
    <3>2. size - cache \in Int
      BY <3>1
    <3>3. Max({size - cache, 0}) \in Int
      BY <3>2, MaxMinIs
    <3>4. CostPart(Max({size - cache, 0}), cache, 10) \in 0..Full
      BY <3>1, <3>3, CostRange, Zenon
    <3>5. QED
      BY <2>1, <3>4 DEF Points
  <2>2. CASE ~(cache > 0 /\ size # Missing)
    BY <2>2 DEF Points
  <2>3. QED
    BY <2>1, <2>2
<1> HIDE DEF ratio
<1>7. Blend(40, ratio, 60, miss) \in Points
  BY <1>1, <1>6, BlendPoints
<1>8. miss # Raises
  BY <1>1, Markers, FullIs DEF Points
<1>9. QED
  BY <1>1, <1>4, <1>5, <1>7, <1>8

LEMMA S3b4Blanks ==
  ASSUME NEW h, NEW m \in [Ops -> Metrics], NEW p, NEW r, AllFilled("3.b.4", p, r)
  PROVE  Command!S3b4(h, m, p) \in {Raises, Command!S3b4(h, m, r)}
<1>1. Command!Banded(m, p, "icache_miss", <<1, 5, 15>>)
        \in {Raises, Command!Banded(m, r, "icache_miss", <<1, 5, 15>>)}
  BY BandedBlanks, OpFieldsAre, Zenon
<1>2. CASE Command!Banded(m, p, "icache_miss", <<1, 5, 15>>) = Raises
  BY <1>2 DEF Command!S3b4
<1>3. CASE Command!Banded(m, p, "icache_miss", <<1, 5, 15>>)
             = Command!Banded(m, r, "icache_miss", <<1, 5, 15>>)
  BY <1>3 DEF Command!S3b4
<1>4. QED
  BY <1>1, <1>2, <1>3

\* The command line caps a share that the browser leaves to the clamp.
LEMMA CappedShare ==
  ASSUME NEW s \in Nat
  PROVE  /\ Clamp10((10 * (Min({Full, s}) - 3 * Point)) \div 7) = Clamp10((10 * (s - 3 * Point)) \div 7)
         /\ Clamp10((10 * (s - 3 * Point)) \div 7) \in 0..Full
<1>1. Min({Full, s}) = IF Full <= s THEN Full ELSE s
  BY MaxMinIs, FullIs
<1>2. (10 * (s - 3 * Point)) \div 7 \in Int
  BY FullIs
<1>3. CASE s > Full
  <2>1. (10 * (Min({Full, s}) - 3 * Point)) \div 7 = Full
    BY <1>1, <1>3, FullIs
  <2>2. (10 * (s - 3 * Point)) \div 7 >= Full
    BY <1>3, FullIs
  <2> DEFINE x == (10 * (s - 3 * Point)) \div 7
  <2> HIDE DEF x
  <2>3. x \in Int /\ x >= Full
    BY <1>2, <2>2 DEF x
  <2>4. Clamp10(x) = Full
    BY <2>3, ClampIs, FullIs
  <2>5. Clamp10(Full) = Full
    BY ClampIs, FullIs
  <2>6. QED
    BY <1>2, <2>1, <2>4, <2>5, ClampRange DEF x
<1>4. CASE ~(s > Full)
  <2>1. Min({Full, s}) = s
    BY <1>1, <1>4, FullIs
  <2>2. QED
    BY <1>2, <2>1, ClampRange
<1>5. QED
  BY <1>3, <1>4

LEMMA S4a3Both ==
  ASSUME NEW h, Form("4.a.3", h), NEW m \in [Ops -> Metrics]
  PROVE  Browser!S4a3(h, m) \in Points /\ Command!S4a3(h, m) = Browser!S4a3(h, m)
<1> DEFINE present == {o \in Ops : Browser!Present(m[o])}
           used == {m[o].N_enum_used : o \in present}
           n == h.N_enum_def
           s == (Full * Max(used)) \div n
           known == Browser!Truthy(n) /\ used # {}
           enums == IF known THEN Clamp10((10 * (s - 3 * Point)) \div 7) ELSE None
           capped == IF known THEN Clamp10((10 * (Min({Full, s}) - 3 * Point)) \div 7) ELSE None
           opt == Browser!CostOf(h.optional_param_ratio, 50)
<1>1. DOMAIN m = Ops
  OBVIOUS
<1>2. n \in Nat \cup {Missing, Blank} /\ h.optional_param_ratio \in Nat \cup {Missing}
  BY HwFieldsAre DEF Form
<1>3. known => s \in Nat
  <2>1. SUFFICES ASSUME known PROVE s \in Nat
    OBVIOUS
  <2>2. n \in Nat \ {0}
    BY <1>2, <2>1, ReadNumber
  <2>3. Max(used) \in Nat
    <3>1. present \in SUBSET Ops /\ used # {}
      BY <2>1
    <3> HIDE DEF present
    <3>2. used = {m[o]["N_enum_used"] : o \in present}
      OBVIOUS
    <3> HIDE DEF used
    <3>3. QED
      BY <3>1, <3>2, MaxUsed
  <2> HIDE DEF used, n
  <2>4. Full * Max(used) \in Nat
    BY <2>3, FullIs
  <2>5. QED
    BY <2>2, <2>4, DivisionType
<1>4. opt \in Points
  BY <1>2, CountRange, 50 \in Nat \ {0}
<1>5. Browser!S4a3(h, m) = Blend(50, opt, 50, enums)
  BY <1>1, BrowserMath DEF Browser!S4a3
<1>6. Command!S4a3(h, m) = Blend(50, opt, 50, capped)
  <2>1. used = {m[o].N_enum_used : o \in {q \in DOMAIN m : Command!Present(m[q])}}
    BY <1>1, PresentSame
  <2>2. known <=> ~(~Command!Truthy(n) \/ used = {})
    BY DEF Command!Truthy, Browser!Truthy
  <2>3. opt = Command!CostOf(h.optional_param_ratio, 50)
    BY CommandMath, BrowserMath DEF Command!CostOf, Browser!CostOf
  <2> HIDE DEF used, opt, known
  <2>4. QED
    BY <2>1, <2>2, <2>3, CommandMath DEF Command!S4a3
<1> HIDE DEF s, known, opt
<1>7. enums \in Points /\ capped = enums
  BY <1>3, CappedShare DEF Points
<1> HIDE DEF enums, capped
<1>8. QED
  BY <1>4, <1>5, <1>6, <1>7, BlendPoints

\* A mean over some operators, with their weights.
LEMMA OpsMean ==
  ASSUME NEW f, DOMAIN f \in SUBSET Ops, \A o \in DOMAIN f : f[o] \in Points
  PROVE  WeightedMean(Weight, f) \in Points
<1>1. Family(Weight, f)
  <2>1. IsFiniteSet(DOMAIN f)
    BY SomeOps
  <2>2. \A o \in DOMAIN f : Weight[o] \in Nat \ {0}
    BY ScoringAssumption
  <2>3. QED
    BY <2>1, <2>2, FullIs DEF Family, Points
<1>2. Full \in Nat
  BY FullIs
<1>3. QED
  BY <1>1, <1>2, MeanBound DEF Points

\* The six parts of 4.b.2.
PartNames == {"r_mma", "ulp", "c_conv", "scale", "quant", "r_ieee"}

PartWeights == [r_mma |-> 25, ulp |-> 15, c_conv |-> 15, scale |-> 15, quant |-> 20, r_ieee |-> 10]

LEMMA PartsMean ==
  ASSUME NEW f, DOMAIN f \in SUBSET PartNames, \A k \in DOMAIN f : f[k] \in Nat \cup {None}
  PROVE  /\ Family(PartWeights, f)
         /\ WeightedMean(PartWeights, f) \in Nat \cup {None}
         /\ (\A k \in DOMAIN f : f[k] \in Points) => WeightedMean(PartWeights, f) \in Points
<1>1. IsFiniteSet(PartNames)
  <2>1. IsFiniteSet({"r_mma", "ulp", "c_conv", "scale"})
    BY FewAreFinite, Zenon
  <2>2. IsFiniteSet({"quant", "r_ieee"})
    BY FewAreFinite, Zenon
  <2>3. PartNames = {"r_mma", "ulp", "c_conv", "scale"} \cup {"quant", "r_ieee"}
    BY DEF PartNames
  <2>4. QED
    BY <2>1, <2>2, <2>3, FS_Union
<1>2. IsFiniteSet(DOMAIN f)
  BY <1>1, FS_Subset
<1>3. \A k \in PartNames : PartWeights[k] \in Nat \ {0}
  BY DEF PartNames, PartWeights
<1>4. Family(PartWeights, f)
  BY <1>2, <1>3 DEF Family
<1>5. Full \in Nat
  BY FullIs
<1>6. WeightedMean(PartWeights, f) \in Nat \cup {None}
  BY <1>4, MeanType
<1>7. QED
  BY <1>4, <1>5, <1>6, MeanBound DEF Points

\* Lines that convert, and quantised times, over all operators.
Scale(m) ==
  WeightedMean(Weight, [o \in {q \in Ops : Browser!Present(m[q])} |-> CostPart(m[o].lines, m[o].L_total, 15)])

Timed(p) == {o \in Ops : p[o].op.mfu_quant # Missing /\ Browser!Truthy(p[o].op.mfu_fp16)}

Quant(p) ==
  WeightedMean(Weight, [o \in Timed(p) |-> Part(Browser!Number(p[o].op.mfu_quant), p[o].op.mfu_fp16)])

LEMMA ScaleRange ==
  ASSUME NEW m \in [Ops -> Metrics]
  PROVE  Scale(m) \in Points
<1> DEFINE S == {q \in Ops : Browser!Present(m[q])}
           f == [o \in S |-> CostPart(m[o].lines, m[o].L_total, 15)]
<1>1. \A o \in S : f[o] \in Points
  <2>1. SUFFICES ASSUME NEW o \in S PROVE CostPart(m[o].lines, m[o].L_total, 15) \in Points
    OBVIOUS
  <2>2. m[o].lines \in Int /\ m[o].L_total \in Nat \ {0} /\ 15 \in Nat \ {0}
    BY DEF Browser!Present, Metrics
  <2>3. CostPart(m[o].lines, m[o].L_total, 15) \in 0..Full
    BY <2>2, CostRange, Zenon
  <2>4. QED
    BY <2>3 DEF Points
<1>2. DOMAIN f = S /\ S \in SUBSET Ops
  OBVIOUS
<1> HIDE DEF f, S
<1>3. WeightedMean(Weight, f) \in Points
  BY <1>1, <1>2, OpsMean
<1>4. QED
  BY <1>3 DEF Scale, f, S

LEMMA QuantRange ==
  ASSUME NEW p, AllData("4.b.2", p)
  PROVE  Quant(p) \in Points
<1> DEFINE f == [o \in Timed(p) |-> Part(Browser!Number(p[o].op.mfu_quant), p[o].op.mfu_fp16)]
<1>1. \A o \in Timed(p) : f[o] \in Points
  <2>1. SUFFICES ASSUME NEW o \in Timed(p)
                 PROVE  Part(Browser!Number(p[o].op.mfu_quant), p[o].op.mfu_fp16) \in Points
    OBVIOUS
  <2> DEFINE a == p[o].op.mfu_quant
             b == p[o].op.mfu_fp16
  <2>2. a \in Nat \cup {Missing, Blank} /\ b \in Nat \cup {Missing, Blank}
    BY OpFieldsAre DEF AllData, Data, Numbers, Timed
  <2>3. Browser!Number(a) \in Nat
    BY <2>2, ReadNumber
  <2>4. b \in Nat \ {0}
    BY <2>2 DEF Timed, Browser!Truthy
  <2> HIDE DEF a, b
  <2>5. Part(Browser!Number(a), b) \in 0..Full
    BY <2>3, <2>4, PartRange
  <2>6. QED
    BY <2>5 DEF Points, a, b
<1>2. DOMAIN f = Timed(p) /\ Timed(p) \in SUBSET Ops
  BY DEF Timed
<1> HIDE DEF f
<1>3. WeightedMean(Weight, f) \in Points
  BY <1>1, <1>2, OpsMean
<1>4. QED
  BY <1>3 DEF Quant, f

\* The parts as the command line has them, None if they are not known.
PartsOf(h, scale, quant) ==
  [r_mma |-> IF h.r_mma = Missing THEN None ELSE Clamp10(Percent * h.r_mma),
   ulp |-> IF h.ulp = Missing THEN None ELSE CostPart(Max({h.ulp - 2, 0}), 2, 100),
   c_conv |-> IF h.c_conv = Missing THEN None
              ELSE Clamp10(Halved(h.c_conv) + 5 * Percent * Browser!Number(h.round_rtn)
                             + 5 * Percent * Browser!Number(h.round_sr)),
   scale |-> scale,
   quant |-> quant,
   r_ieee |-> IF h.r_ieee = Missing THEN None ELSE Percent * h.r_ieee]

LEMMA PartsRange ==
  ASSUME NEW h, Form("4.b.2", h), NEW scale \in Points, NEW quant \in Points
  PROVE  /\ DOMAIN PartsOf(h, scale, quant) = PartNames
         /\ \A k \in PartNames : PartsOf(h, scale, quant)[k] \in Nat \cup {None}
         /\ Sound("4.b.2", h) => \A k \in PartNames : PartsOf(h, scale, quant)[k] \in Points
<1>1. \A k \in {"r_mma", "ulp", "c_conv", "round_rtn", "round_sr"} : h[k] \in Nat \cup {Missing}
  BY HwFieldsAre DEF Form
<1>2. /\ h.r_ieee \in Nat \cup {Missing}
      /\ Sound("4.b.2", h) => h.r_ieee \in 0..100 \cup {Missing}
  BY HwFieldsAre DEF Form, Sound, Shares
<1>3. PartsOf(h, scale, quant).r_mma \in Points
  <2>1. h.r_mma # Missing => Clamp10(Percent * h.r_mma) \in 0..Full
    BY <1>1, ClampRange, FullIs
  <2>2. QED
    BY <2>1 DEF PartsOf, Points
<1>4. PartsOf(h, scale, quant).ulp \in Points
  <2> DEFINE u == h.ulp
  <2>1. u # Missing => CostPart(Max({u - 2, 0}), 2, 100) \in 0..Full
    <3>1. SUFFICES ASSUME u # Missing PROVE CostPart(Max({u - 2, 0}), 2, 100) \in 0..Full
      OBVIOUS
    <3>2. u \in Nat
      BY <1>1, <3>1
    <3> HIDE DEF u
    <3>3. u - 2 \in Int /\ 2 \in Nat \ {0} /\ 100 \in Nat \ {0}
      BY <3>2
    <3>4. Max({u - 2, 0}) \in Int
      BY <3>3, MaxMinIs
    <3>5. QED
      BY <3>3, <3>4, CostRange, Zenon
  <2>2. QED
    BY <2>1 DEF PartsOf, Points
<1>5. PartsOf(h, scale, quant).c_conv \in Points
  <2> DEFINE a == Browser!Number(h.round_rtn)
             b == Browser!Number(h.round_sr)
  <2>1. a \in Nat /\ b \in Nat
    <3>1. \A k \in {"round_rtn", "round_sr"} : Browser!Number(h[k]) \in Nat
      BY <1>1, ReadNumber
    <3>2. QED
      BY <3>1
  <2> HIDE DEF a, b
  <2>2. h.c_conv # Missing => Clamp10(Halved(h.c_conv) + 5 * Percent * a + 5 * Percent * b) \in 0..Full
    <3>1. SUFFICES ASSUME h.c_conv # Missing
                   PROVE  Clamp10(Halved(h.c_conv) + 5 * Percent * a + 5 * Percent * b) \in 0..Full
      OBVIOUS
    <3>2. Halved(h.c_conv) \in Int
      <4>1. h.c_conv \in Nat
        BY <1>1, <3>1
      <4>2. Halved(h.c_conv) \in 0..Full
        BY <4>1, HalvedRange
      <4>3. QED
        BY <4>2, FullIs
    <3>3. Halved(h.c_conv) + 5 * Percent * a + 5 * Percent * b \in Int
      BY <2>1, <3>2, FullIs
    <3>4. QED
      BY <3>3, ClampRange
  <2>3. QED
    BY <2>2 DEF PartsOf, Points, a, b
<1>6. /\ PartsOf(h, scale, quant).r_ieee \in Nat \cup {None}
      /\ Sound("4.b.2", h) => PartsOf(h, scale, quant).r_ieee \in Points
  BY <1>2, FullIs DEF PartsOf, Points
<1>7. PartsOf(h, scale, quant).scale = scale /\ PartsOf(h, scale, quant).quant = quant
  BY DEF PartsOf
<1>8. DOMAIN PartsOf(h, scale, quant) = PartNames
  BY DEF PartsOf, PartNames
<1>9. Points \subseteq Nat \cup {None}
  BY FullIs DEF Points
<1>10. QED
  BY <1>3, <1>4, <1>5, <1>6, <1>7, <1>8, <1>9 DEF PartNames

LEMMA S4b2Command ==
  ASSUME NEW h, NEW m \in [Ops -> Metrics], NEW p, AllData("4.b.2", p)
  PROVE  /\ (\E o \in Timed(p) : p[o].op.mfu_quant = Blank) => Command!S4b2(h, m, p, Weight) = Raises
         /\ ~(\E o \in Timed(p) : p[o].op.mfu_quant = Blank) =>
              Command!S4b2(h, m, p, Weight) = WeightedMean(PartWeights, PartsOf(h, Scale(m), Quant(p)))
<1> DEFINE timed == {o \in DOMAIN m : p[o].op.mfu_quant # Missing /\ Command!Truthy(p[o].op.mfu_fp16)}
           scale == Command!WeightedMean(Weight, [o \in {q \in DOMAIN m : Command!Present(m[q])} |->
                                                    Command!CostPart(m[o].lines, m[o].L_total, 15)])
           quant == Command!WeightedMean(Weight, [o \in timed |->
                                                    Command!Part(p[o].op.mfu_quant, p[o].op.mfu_fp16)])
           parts == [r_mma |-> IF h.r_mma = Missing THEN None ELSE Command!Clamp10(Command!Percent * h.r_mma),
                     ulp |-> IF h.ulp = Missing THEN None
                             ELSE Command!CostPart(Command!Max({h.ulp - 2, 0}), 2, 100),
                     c_conv |-> IF h.c_conv = Missing THEN None
                                ELSE Command!Clamp10(Command!Halved(h.c_conv)
                                        + 5 * Command!Percent * Command!Or(h.round_rtn, 0)
                                        + 5 * Command!Percent * Command!Or(h.round_sr, 0)),
                     scale |-> scale,
                     quant |-> quant,
                     r_ieee |-> Command!ShareScore(h.r_ieee)]
           bad == \E o \in timed : p[o].op.mfu_quant = Blank
<1>1. Command!S4b2(h, m, p, Weight) = IF bad THEN Raises ELSE Command!WeightedMean(PartWeights, parts)
  BY Zenon DEF Command!S4b2, PartWeights
<1>2. timed = Timed(p)
  BY DEF Timed, Command!Truthy, Browser!Truthy
<1>3. scale = Scale(m)
  <2>1. DOMAIN m = Ops
    OBVIOUS
  <2>2. QED
    BY <2>1, CommandMath, PresentSame DEF Scale
<1>4. ~bad => quant = Quant(p)
  <2>1. SUFFICES ASSUME ~bad PROVE quant = Quant(p)
    OBVIOUS
  <2> HIDE DEF timed
  <2>2. \A o \in timed : Browser!Number(p[o].op.mfu_quant) = p[o].op.mfu_quant
    <3>1. SUFFICES ASSUME NEW o \in timed
                   PROVE  Browser!Number(p[o].op.mfu_quant) = p[o].op.mfu_quant
      OBVIOUS
    <3>2. p[o].op.mfu_quant \in Nat
      BY <1>2, <2>1, OpFieldsAre DEF AllData, Data, Numbers, Timed
    <3>3. QED
      BY <3>2, ReadNumber
  <2>3. [o \in timed |-> Part(p[o].op.mfu_quant, p[o].op.mfu_fp16)]
        = [o \in Timed(p) |-> Part(Browser!Number(p[o].op.mfu_quant), p[o].op.mfu_fp16)]
    BY <1>2, <2>2
  <2>4. quant = WeightedMean(Weight, [o \in timed |-> Part(p[o].op.mfu_quant, p[o].op.mfu_fp16)])
    BY CommandMath
  <2> HIDE DEF quant
  <2>5. QED
    BY <2>3, <2>4 DEF Quant
<1> HIDE DEF scale, quant, bad
<1>5. ~bad => parts = PartsOf(h, Scale(m), Quant(p))
  <2>1. SUFFICES ASSUME ~bad PROVE parts = PartsOf(h, Scale(m), Quant(p))
    OBVIOUS
  <2>2. \A v : Command!Or(v, 0) = Browser!Number(v)
    BY DEF Command!Or, Browser!Number, Browser!Or, Command!Truthy, Browser!Truthy
  <2>3. Command!ShareScore(h.r_ieee) = IF h.r_ieee = Missing THEN None ELSE Percent * h.r_ieee
    BY CommandMath DEF Command!ShareScore
  <2>4. QED
    BY <1>3, <1>4, <2>1, <2>2, <2>3, CommandMath DEF PartsOf
<1> HIDE DEF parts
<1>6. bad <=> \E o \in Timed(p) : p[o].op.mfu_quant = Blank
  BY <1>2 DEF bad
<1>7. ~bad => Command!S4b2(h, m, p, Weight) = WeightedMean(PartWeights, PartsOf(h, Scale(m), Quant(p)))
  BY <1>1, <1>5, CommandMath
<1>8. bad => Command!S4b2(h, m, p, Weight) = Raises
  BY <1>1
<1>9. QED
  BY <1>6, <1>7, <1>8

\* The browser has only the parts that are known.
LEMMA S4b2Browser ==
  ASSUME NEW h, Form("4.b.2", h), NEW m \in [Ops -> Metrics], NEW p, AllData("4.b.2", p)
  PROVE  Browser!S4b2(h, m, p, Weight) = WeightedMean(PartWeights, PartsOf(h, Scale(m), Quant(p)))
<1> DEFINE shown == {k \in {"r_mma", "ulp", "c_conv", "r_ieee"} : h[k] # Missing}
           scale == Browser!WeightedMean(Weight, [o \in {q \in DOMAIN m : Browser!Present(m[q])} |->
                                                    Browser!CostPart(m[o].lines, m[o].L_total, 15)])
           timed == {q \in DOMAIN m : p[q].op.mfu_quant # Missing /\ Browser!Truthy(p[q].op.mfu_fp16)}
           quant == Browser!WeightedMean(Weight,
                      [o \in timed |-> Browser!Part(Browser!Number(p[o].op.mfu_quant), p[o].op.mfu_fp16)])
           of(k) ==
             CASE k = "r_mma" -> Browser!Clamp10(Browser!Percent * h.r_mma)
               [] k = "ulp" -> Browser!CostPart(Browser!Max({h.ulp - 2, 0}), 2, 100)
               [] k = "c_conv" -> Browser!Clamp10(Browser!Halved(h.c_conv)
                                    + 5 * Browser!Percent * Browser!Number(h.round_rtn)
                                    + 5 * Browser!Percent * Browser!Number(h.round_sr))
               [] k = "r_ieee" -> Browser!Percent * h.r_ieee
           of6(k) == CASE k = "scale" -> scale [] k = "quant" -> quant [] OTHER -> of(k)
           g == [k \in shown \cup {"scale", "quant"} |-> of6(k)]
           f == PartsOf(h, Scale(m), Quant(p))
<1>1. Browser!S4b2(h, m, p, Weight) = Browser!WeightedMean(PartWeights, g)
  BY Zenon DEF Browser!S4b2, PartWeights
<1>2. DOMAIN m = Ops
  OBVIOUS
<1>3. scale = Scale(m)
  BY <1>2, BrowserMath DEF Scale
<1>4. quant = Quant(p)
  BY <1>2, BrowserMath DEF Quant, Timed
<1> HIDE DEF scale, quant
<1>5. /\ of6("scale") = scale /\ of6("quant") = quant
      /\ of6("r_mma") = Browser!Clamp10(Browser!Percent * h.r_mma)
      /\ of6("ulp") = Browser!CostPart(Browser!Max({h.ulp - 2, 0}), 2, 100)
      /\ of6("c_conv") = Browser!Clamp10(Browser!Halved(h.c_conv)
                            + 5 * Browser!Percent * Browser!Number(h.round_rtn)
                            + 5 * Browser!Percent * Browser!Number(h.round_sr))
      /\ of6("r_ieee") = Browser!Percent * h.r_ieee
  BY Zenon
<1> HIDE DEF of6
<1>6. \A k \in shown \cup {"scale", "quant"} : of6(k) = f[k]
  <2>1. f.scale = Scale(m) /\ f.quant = Quant(p)
    BY DEF PartsOf
  <2>2. h.r_mma # Missing => f.r_mma = Clamp10(Percent * h.r_mma)
    BY DEF PartsOf
  <2>3. h.ulp # Missing => f.ulp = CostPart(Max({h.ulp - 2, 0}), 2, 100)
    BY DEF PartsOf
  <2>4. h.c_conv # Missing =>
          f.c_conv = Clamp10(Halved(h.c_conv) + 5 * Percent * Browser!Number(h.round_rtn)
                               + 5 * Percent * Browser!Number(h.round_sr))
    BY DEF PartsOf
  <2>5. h.r_ieee # Missing => f.r_ieee = Percent * h.r_ieee
    BY DEF PartsOf
  <2> HIDE DEF f
  <2>6. of6("scale") = f.scale /\ of6("quant") = f.quant
    BY <1>3, <1>4, <1>5, <2>1
  <2>7. h.r_mma # Missing => of6("r_mma") = f.r_mma
    BY <1>5, <2>2, BrowserMath
  <2>8. h.ulp # Missing => of6("ulp") = f.ulp
    BY <1>5, <2>3, BrowserMath
  <2>9. h.c_conv # Missing => of6("c_conv") = f.c_conv
    BY <1>5, <2>4, BrowserMath
  <2>10. h.r_ieee # Missing => of6("r_ieee") = f.r_ieee
    BY <1>5, <2>5, BrowserMath
  <2>11. QED
    BY <2>6, <2>7, <2>8, <2>9, <2>10
<1>7. /\ h.r_mma = Missing => f.r_mma = None
      /\ h.ulp = Missing => f.ulp = None
      /\ h.c_conv = Missing => f.c_conv = None
      /\ h.r_ieee = Missing => f.r_ieee = None
  BY DEF PartsOf
<1>8. \A k \in PartNames \ (shown \cup {"scale", "quant"}) : f[k] = None
  <2> HIDE DEF f
  <2>1. QED
    BY <1>7 DEF PartNames
<1>9. Scale(m) \in Points /\ Quant(p) \in Points
  BY ScaleRange, QuantRange
<1>10. DOMAIN f = PartNames /\ \A k \in PartNames : f[k] \in Nat \cup {None}
  BY <1>9, PartsRange
<1>11. DOMAIN g = shown \cup {"scale", "quant"} /\ DOMAIN g \in SUBSET PartNames
  BY DEF PartNames
<1>12. \A k \in DOMAIN g : g[k] = f[k]
  <2> HIDE DEF f
  <2>1. QED
    BY <1>6
<1> HIDE DEF f, g, shown
<1>13. \A k \in DOMAIN g : g[k] \in Nat \cup {None}
  BY <1>10, <1>11, <1>12
<1>14. Family(PartWeights, f) /\ Family(PartWeights, g)
  BY <1>10, <1>11, <1>13, PartsMean
<1>15. Given(f) = Given(g)
  BY <1>8, <1>10, <1>11, <1>12 DEF Given
<1>16. \A k \in Given(g) : g[k] = f[k]
  BY <1>12 DEF Given
<1>17. WeightedMean(PartWeights, g) = WeightedMean(PartWeights, f)
  BY <1>14, <1>15, <1>16, MeansAgree
<1>18. QED
  BY <1>1, <1>17, BrowserMath DEF f

LEMMA S4b2Range ==
  ASSUME NEW h, Form("4.b.2", h), NEW m \in [Ops -> Metrics], NEW p, AllData("4.b.2", p)
  PROVE  /\ Browser!S4b2(h, m, p, Weight) \in Scores
         /\ Sound("4.b.2", h) => Browser!S4b2(h, m, p, Weight) \in Points
         /\ AllSolid("4.b.2", p) => Command!S4b2(h, m, p, Weight) = Browser!S4b2(h, m, p, Weight)
<1> DEFINE f == PartsOf(h, Scale(m), Quant(p))
<1>1. Scale(m) \in Points /\ Quant(p) \in Points
  BY ScaleRange, QuantRange
<1>2. /\ DOMAIN f = PartNames /\ \A k \in PartNames : f[k] \in Nat \cup {None}
      /\ Sound("4.b.2", h) => \A k \in PartNames : f[k] \in Points
  BY <1>1, PartsRange
<1>3. Browser!S4b2(h, m, p, Weight) = WeightedMean(PartWeights, f)
  BY S4b2Browser
<1>4. AllSolid("4.b.2", p) => Command!S4b2(h, m, p, Weight) = WeightedMean(PartWeights, f)
  <2>1. AllSolid("4.b.2", p) => ~(\E o \in Timed(p) : p[o].op.mfu_quant = Blank)
    BY OpFieldsAre DEF AllSolid, Solid, Timed
  <2>2. QED
    BY <2>1, S4b2Command
<1> HIDE DEF f
<1>5. /\ WeightedMean(PartWeights, f) \in Nat \cup {None}
      /\ Sound("4.b.2", h) => WeightedMean(PartWeights, f) \in Points
  BY <1>2, PartsMean
<1>6. QED
  BY <1>3, <1>4, <1>5 DEF Scores

LEMMA S4b2Blanks ==
  ASSUME NEW h, NEW m \in [Ops -> Metrics], NEW p, AllData("4.b.2", p), NEW r, AllData("4.b.2", r),
         AllFilled("4.b.2", p, r)
  PROVE  Command!S4b2(h, m, p, Weight) \in {Raises, Command!S4b2(h, m, r, Weight)}
<1>1. CASE \E o \in Timed(p) : p[o].op.mfu_quant = Blank
  BY <1>1, S4b2Command
<1>2. CASE ~(\E o \in Timed(p) : p[o].op.mfu_quant = Blank)
  <2> DEFINE a(x, o) == x[o].op.mfu_quant
             b(x, o) == x[o].op.mfu_fp16
  <2>1. \A o \in Ops : a(r, o) = Filled(a(p, o)) /\ b(r, o) = Filled(b(p, o))
    BY OpFieldsAre DEF AllFilled, IsFilled
  <2>2. \A o \in Timed(p) : a(r, o) = a(p, o) /\ b(r, o) = b(p, o) /\ a(p, o) # Blank
    BY <1>2, <2>1 DEF Timed, Filled, Browser!Truthy
  <2>3. ASSUME NEW o \in Ops PROVE o \in Timed(r) <=> o \in Timed(p)
    <3>1. o \in Timed(p) => o \in Timed(r)
      BY <2>2 DEF Timed
    <3>2. o \in Timed(r) => o \in Timed(p)
      BY <2>1 DEF Timed, Filled, Browser!Truthy
    <3>3. QED
      BY <3>1, <3>2
  <2>4. Timed(r) = Timed(p)
    <3>1. Timed(r) \in SUBSET Ops /\ Timed(p) \in SUBSET Ops
      BY DEF Timed
    <3>2. QED
      BY <2>3, <3>1
  <2>5. ~(\E o \in Timed(r) : r[o].op.mfu_quant = Blank)
    BY <2>2, <2>4
  <2>6. [o \in Timed(p) |-> Part(Browser!Number(a(p, o)), b(p, o))]
        = [o \in Timed(r) |-> Part(Browser!Number(a(r, o)), b(r, o))]
    BY <2>2, <2>4
  <2>7. Quant(r) = Quant(p)
    BY <2>6 DEF Quant
  <2>8. QED
    BY <1>2, <2>5, <2>7, S4b2Command
<1>3. QED
  BY <1>1, <1>2

-------------------------------------------------------------------------------
(***************************************************************************)
(* The score of an item.                                                   *)
(***************************************************************************)
LEMMA ItemsApart ==
  /\ \A i \in HwItems : i \notin OpItems /\ i \notin {"3.b.2", "3.b.4", "4.a.3", "4.b.2"}
  /\ \A i \in OpItems : i \notin HwItems /\ i \notin {"3.b.2", "3.b.4", "4.a.3", "4.b.2"}
  /\ \A i \in {"3.b.2", "3.b.4", "4.a.3", "4.b.2"} : i \notin HwItems /\ i \notin OpItems
BY DEF HwItems, RateItems, OpItems, LineItems

LEMMA ScoreCommandIs ==
  ASSUME NEW h, NEW m, NEW p, NEW w
  PROVE  /\ Command!Score("3.b.2", h, m, p, w) = Command!S3b2(Command!Hw(h), m, p)
         /\ Command!Score("3.b.4", h, m, p, w) = Command!S3b4(Command!Hw(h), m, p)
         /\ Command!Score("4.a.3", h, m, p, w) = Command!S4a3(Command!Hw(h), m)
         /\ Command!Score("4.b.2", h, m, p, w) = Command!S4b2(Command!Hw(h), m, p, w)
<1>1. Command!HwItems = HwItems /\ Command!OpItems = OpItems
  BY CommandMath
<1>2. /\ Command!Score("3.b.2", h, m, p, w) = Command!S3b2(Command!Hw(h), m, p)
      /\ Command!Score("3.b.4", h, m, p, w) = Command!S3b4(Command!Hw(h), m, p)
  BY <1>1, ItemsApart, Zenon DEF Command!Score
<1>3. /\ Command!Score("4.a.3", h, m, p, w) = Command!S4a3(Command!Hw(h), m)
      /\ Command!Score("4.b.2", h, m, p, w) = Command!S4b2(Command!Hw(h), m, p, w)
  BY <1>1, ItemsApart, Zenon DEF Command!Score
<1>4. QED
  BY <1>2, <1>3

LEMMA HwScoreCommandIs ==
  ASSUME NEW i \in HwItems, NEW h, NEW m, NEW p, NEW w
  PROVE  Command!Score(i, h, m, p, w) = Command!HwScore(i, Command!Hw(h))
<1>1. Command!HwItems = HwItems /\ Command!OpItems = OpItems
  BY CommandMath
<1>2. QED
  BY <1>1, ItemsApart, Zenon DEF Command!Score

LEMMA OpScoreCommandIs ==
  ASSUME NEW i \in OpItems, NEW h, NEW m \in [Ops -> Metrics], NEW p, NEW w
  PROVE  Command!Score(i, h, m, p, w) =
           Command!Aggregate(w, [o \in Ops |-> Command!OpScore(i, h, m[o], p[o])])
<1>1. Command!HwItems = HwItems /\ Command!OpItems = OpItems
  BY CommandMath
<1>2. Command!Score(i, h, m, p, w) =
        Command!Aggregate(w, [o \in DOMAIN m |-> Command!OpScore(i, h, m[o], p[o])])
  BY <1>1, ItemsApart, Zenon DEF Command!Score
<1>3. DOMAIN m = Ops
  OBVIOUS
<1>4. QED
  BY <1>2, <1>3, Zenon

LEMMA ScoreBrowserIs ==
  ASSUME NEW h, NEW m, NEW p, NEW w
  PROVE  /\ Browser!Score("3.b.2", h, m, p, w) = Browser!S3b2(Browser!Hw(h), m, p)
         /\ Browser!Score("3.b.4", h, m, p, w) = Browser!S3b4(Browser!Hw(h), m, p)
         /\ Browser!Score("4.a.3", h, m, p, w) = Browser!S4a3(Browser!Hw(h), m)
         /\ Browser!Score("4.b.2", h, m, p, w) = Browser!S4b2(Browser!Hw(h), m, p, w)
<1>1. Browser!HwItems = HwItems /\ Browser!OpItems = OpItems
  BY BrowserMath
<1>2. /\ Browser!Score("3.b.2", h, m, p, w) = Browser!S3b2(Browser!Hw(h), m, p)
      /\ Browser!Score("3.b.4", h, m, p, w) = Browser!S3b4(Browser!Hw(h), m, p)
  BY <1>1, ItemsApart, Zenon DEF Browser!Score
<1>3. /\ Browser!Score("4.a.3", h, m, p, w) = Browser!S4a3(Browser!Hw(h), m)
      /\ Browser!Score("4.b.2", h, m, p, w) = Browser!S4b2(Browser!Hw(h), m, p, w)
  BY <1>1, ItemsApart, Zenon DEF Browser!Score
<1>4. QED
  BY <1>2, <1>3

LEMMA HwScoreBrowserIs ==
  ASSUME NEW i \in HwItems, NEW h, NEW m, NEW p, NEW w
  PROVE  Browser!Score(i, h, m, p, w) = Browser!HwScore(i, Browser!Hw(h))
<1>1. Browser!HwItems = HwItems /\ Browser!OpItems = OpItems
  BY BrowserMath
<1>2. QED
  BY <1>1, ItemsApart, Zenon DEF Browser!Score

LEMMA OpScoreBrowserIs ==
  ASSUME NEW i \in OpItems, NEW h, NEW m \in [Ops -> Metrics], NEW p, NEW w
  PROVE  Browser!Score(i, h, m, p, w) =
           WeightedMean(w, [o \in Ops |-> Browser!OpScore(i, Browser!Hw(h), m[o], p[o])])
<1> DEFINE f(S) == [o \in S |-> Browser!OpScore(i, Browser!Hw(h), m[o], p[o])]
<1>1. Browser!HwItems = HwItems /\ Browser!OpItems = OpItems
  BY BrowserMath
<1>2. Browser!Score(i, h, m, p, w) = Browser!WeightedMean(w, f(DOMAIN m))
  BY <1>1, ItemsApart, Zenon DEF Browser!Score
<1>3. DOMAIN m = Ops
  OBVIOUS
<1> HIDE DEF f
<1>4. Browser!Score(i, h, m, p, w) = WeightedMean(w, f(Ops))
  BY <1>2, <1>3, BrowserMath, Zenon
<1>5. QED
  BY <1>4, Zenon DEF f

\* The form, once its blanks are dropped.
LEMMA HwSame == \A h : Command!Hw(h) = Browser!Hw(h)
BY DEF Command!Hw, Browser!Hw

\* One operator: in range in the browser, and the same on the command line without blanks.
LEMMA OpRange ==
  ASSUME NEW i \in OpItems, NEW h, Raw(i, h), NEW m \in Metrics, NEW q, Data(i, q)
  PROVE  /\ Browser!OpScore(i, Browser!Hw(h), m, q) \in Points
         /\ Solid(i, q) => Command!OpScore(i, h, m, q) = Browser!OpScore(i, Browser!Hw(h), m, q)
<1> DEFINE H == Browser!Hw(h)
<1>0. Form(i, H)
  BY RawForm
<1> HIDE DEF H
<1>1. CASE i \in LineItems
  <2>1. Command!LineScore(i, m) = Browser!LineScore(i, m) /\ Browser!LineScore(i, m) \in Points
    BY <1>1, LineItem
  <2>2. Command!OpScore(i, h, m, q) = Command!LineScore(i, m)
    BY <1>1, LineCommand
  <2>3. Browser!OpScore(i, H, m, q) = Browser!LineScore(i, m)
    BY <1>1, LineBrowser
  <2>4. QED
    BY <2>1, <2>2, <2>3, Zenon DEF H
<1>2. CASE i = "1.a.1"
  BY <1>0, <1>2, S1a1Range, OpCommand, OpBrowser, HwSame DEF H
<1>3. CASE i = "3.a.2"
  <2>1. Solid("3.a.2", q) => q.op.p0 # Blank
    BY OpFieldsAre DEF Solid
  <2>2. QED
    BY <1>3, <2>1, S3a2Range, OpCommand, OpBrowser DEF H
<1>4. CASE i = "3.a.4"
  BY <1>4, S3a4Range, OpCommand, OpBrowser DEF H
<1>5. CASE i = "3.b.3"
  BY <1>5, S3b3Both, OpCommand, OpBrowser DEF H
<1>6. CASE i = "4.b.1"
  BY <1>6, S4b1Range, OpCommand, OpBrowser DEF H
<1>7. CASE i = "5.a.1"
  BY <1>7, S5a1Range, OpCommand, OpBrowser DEF H
<1>8. CASE i = "5.d.1"
  BY <1>8, S5d1Range, OpCommand, OpBrowser DEF H
<1>9. CASE i = "5.e.1"
  BY <1>9, S5e1Range, OpCommand, OpBrowser DEF H
<1>10. CASE i = "8.a.1"
  BY <1>10, S8a1Range, OpCommand, OpBrowser DEF H
<1>11. CASE i = "9.a.1"
  BY <1>11, S9a1Range, OpCommand, OpBrowser DEF H
<1>12. QED
  BY <1>1, <1>2, <1>3, <1>4, <1>5, <1>6, <1>7, <1>8, <1>9, <1>10, <1>11 DEF OpItems, H

\* Blanks in the measurements of an operator raise or are as good as missing.
LEMMA OpBlanks ==
  ASSUME NEW i \in OpItems, i # "3.a.2", NEW h, NEW m, NEW q, Data(i, q), NEW r, IsFilled(i, q, r)
  PROVE  Command!OpScore(i, h, m, q) \in {Raises, Command!OpScore(i, h, m, r)}
<1>1. CASE i \in LineItems
  <2>1. /\ Command!OpScore(i, h, m, q) = Command!LineScore(i, m)
        /\ Command!OpScore(i, h, m, r) = Command!LineScore(i, m)
    BY <1>1, LineCommand
  <2>2. QED
    BY <2>1, Zenon
<1>2. CASE i = "1.a.1"
  BY <1>2, S1a1Blanks, OpCommand
<1>3. CASE i = "3.a.4"
  BY <1>3, S3a4Blanks, OpCommand
<1>4. CASE i = "3.b.3"
  BY <1>4, OpCommand
<1>5. CASE i = "4.b.1"
  BY <1>5, S4b1Blanks, OpCommand
<1>6. CASE i = "5.a.1"
  BY <1>6, S5a1Blanks, OpCommand
<1>7. CASE i = "5.d.1"
  BY <1>7, S5d1Blanks, OpCommand
<1>8. CASE i = "5.e.1"
  BY <1>8, S5e1Blanks, OpCommand
<1>9. CASE i = "8.a.1"
  BY <1>9, S8a1Blanks, OpCommand
<1>10. CASE i = "9.a.1"
  BY <1>10, S9a1Blanks, OpCommand
<1>11. QED
  BY <1>1, <1>2, <1>3, <1>4, <1>5, <1>6, <1>7, <1>8, <1>9, <1>10 DEF OpItems

\* In the browser a score is a number or None, and in range if the form is sound,
LEMMA ScoreRange ==
  ASSUME NEW i \in Items, NEW h, Raw(i, h), NEW m \in [Ops -> Metrics], NEW p, AllData(i, p)
  PROVE  /\ Browser!Score(i, h, m, p, Weight) \in Scores
         /\ Sound(i, Browser!Hw(h)) => Browser!Score(i, h, m, p, Weight) \in Points
<1> USE PointsAreScores
<1> DEFINE H == Browser!Hw(h)
<1>0. Form(i, H)
  BY RawForm
<1>1. CASE i \in HwItems
  <2>1. Browser!Score(i, h, m, p, Weight) = Browser!HwScore(i, H)
    BY <1>1, HwScoreBrowserIs
  <2>2. /\ Browser!HwScore(i, H) \in Scores
        /\ Sound(i, H) => Browser!HwScore(i, H) \in Points
    BY <1>0, <1>1, HwRange
  <2>3. QED
    BY <2>1, <2>2
<1>2. CASE i \in OpItems
  <2> DEFINE f == [o \in Ops |-> Browser!OpScore(i, H, m[o], p[o])]
  <2>1. Browser!Score(i, h, m, p, Weight) = WeightedMean(Weight, f)
    BY <1>2, OpScoreBrowserIs
  <2>2. ASSUME NEW o \in Ops PROVE Browser!OpScore(i, H, m[o], p[o]) \in Points
    <3>1. m[o] \in Metrics /\ Data(i, p[o])
      BY DEF AllData
    <3>2. QED
      BY <1>2, <3>1, OpRange
  <2>3. DOMAIN f \in SUBSET Ops /\ \A o \in DOMAIN f : f[o] \in Points
    BY <2>2
  <2> HIDE DEF f
  <2>4. WeightedMean(Weight, f) \in Points
    BY <2>3, OpsMean
  <2>5. QED
    BY <2>1, <2>4
<1>3. CASE i = "3.b.2"
  <2>1. Browser!Score(i, h, m, p, Weight) = Browser!S3b2(H, m, p)
    BY <1>3, ScoreBrowserIs
  <2>2. QED
    BY <1>0, <1>3, <2>1, S3b2Range
<1>4. CASE i = "3.b.4"
  <2>1. Browser!Score(i, h, m, p, Weight) = Browser!S3b4(H, m, p)
    BY <1>4, ScoreBrowserIs
  <2>2. QED
    BY <1>0, <1>4, <2>1, S3b4Range
<1>5. CASE i = "4.a.3"
  <2>1. Browser!Score(i, h, m, p, Weight) = Browser!S4a3(H, m)
    BY <1>5, ScoreBrowserIs
  <2>2. QED
    BY <1>0, <1>5, <2>1, S4a3Both
<1>6. CASE i = "4.b.2"
  <2>1. Browser!Score(i, h, m, p, Weight) = Browser!S4b2(H, m, p, Weight)
    BY <1>6, ScoreBrowserIs
  <2>2. QED
    BY <1>0, <1>6, <2>1, S4b2Range
<1>7. QED
  BY <1>1, <1>2, <1>3, <1>4, <1>5, <1>6 DEF Items, MixedItems

\* without blanks the command line gives the same score, rates apart,
LEMMA ScoreAgrees ==
  ASSUME NEW i \in Items \ RateItems, NEW h, Raw(i, h),
         NEW m \in [Ops -> Metrics], NEW p, AllData(i, p), AllSolid(i, p)
  PROVE  Command!Score(i, h, m, p, Weight) = Browser!Score(i, h, m, p, Weight)
<1> DEFINE H == Browser!Hw(h)
<1>0. Command!Hw(h) = H /\ Form(i, H)
  BY HwSame, RawForm
<1>1. CASE i \in HwItems
  <2>1. /\ Browser!Score(i, h, m, p, Weight) = Browser!HwScore(i, H)
        /\ Command!Score(i, h, m, p, Weight) = Command!HwScore(i, Command!Hw(h))
    BY <1>1, HwScoreBrowserIs, HwScoreCommandIs
  <2>2. Command!HwScore(i, H) = Browser!HwScore(i, H)
    BY <1>0, <1>1, HwAgrees
  <2>3. QED
    BY <1>0, <2>1, <2>2
<1>2. CASE i \in OpItems
  <2> DEFINE f == [o \in Ops |-> Browser!OpScore(i, H, m[o], p[o])]
             g == [o \in Ops |-> Command!OpScore(i, h, m[o], p[o])]
  <2>1. /\ Browser!Score(i, h, m, p, Weight) = WeightedMean(Weight, f)
        /\ Command!Score(i, h, m, p, Weight) = Command!Aggregate(Weight, g)
    BY <1>2, OpScoreBrowserIs, OpScoreCommandIs
  <2>2. ASSUME NEW o \in Ops
        PROVE  /\ Browser!OpScore(i, H, m[o], p[o]) \in Points
               /\ Command!OpScore(i, h, m[o], p[o]) = Browser!OpScore(i, H, m[o], p[o])
    <3>1. m[o] \in Metrics /\ Data(i, p[o]) /\ Solid(i, p[o])
      BY DEF AllData, AllSolid
    <3>2. QED
      BY <1>2, <3>1, OpRange
  <2>3. g = f
    BY <2>2
  <2>4. \A o \in DOMAIN f : f[o] # Raises
    BY <2>2, Markers, FullIs DEF Points
  <2>5. Command!Aggregate(Weight, f) = WeightedMean(Weight, f)
    <3> HIDE DEF f
    <3>1. QED
      BY <2>4, CommandMath, Zenon DEF Command!Aggregate
  <2>6. QED
    BY <2>1, <2>3, <2>5
<1>3. CASE i = "3.b.2"
  <2>1. /\ Browser!Score(i, h, m, p, Weight) = Browser!S3b2(H, m, p)
        /\ Command!Score(i, h, m, p, Weight) = Command!S3b2(Command!Hw(h), m, p)
    BY <1>3, ScoreBrowserIs, ScoreCommandIs
  <2>2. QED
    BY <1>0, <1>3, <2>1, S3b2Range
<1>4. CASE i = "3.b.4"
  <2>1. /\ Browser!Score(i, h, m, p, Weight) = Browser!S3b4(H, m, p)
        /\ Command!Score(i, h, m, p, Weight) = Command!S3b4(Command!Hw(h), m, p)
    BY <1>4, ScoreBrowserIs, ScoreCommandIs
  <2>2. QED
    BY <1>0, <1>4, <2>1, S3b4Range
<1>5. CASE i = "4.a.3"
  <2>1. /\ Browser!Score(i, h, m, p, Weight) = Browser!S4a3(H, m)
        /\ Command!Score(i, h, m, p, Weight) = Command!S4a3(Command!Hw(h), m)
    BY <1>5, ScoreBrowserIs, ScoreCommandIs
  <2>2. QED
    BY <1>0, <1>5, <2>1, S4a3Both
<1>6. CASE i = "4.b.2"
  <2>1. /\ Browser!Score(i, h, m, p, Weight) = Browser!S4b2(H, m, p, Weight)
        /\ Command!Score(i, h, m, p, Weight) = Command!S4b2(Command!Hw(h), m, p, Weight)
    BY <1>6, ScoreBrowserIs, ScoreCommandIs
  <2>2. QED
    BY <1>0, <1>6, <2>1, S4b2Range
<1>7. QED
  BY <1>1, <1>2, <1>3, <1>4, <1>5, <1>6 DEF Items, MixedItems

\* and with blanks it raises, scores nothing, or scores as without them.
LEMMA ScoreBlanks ==
  ASSUME NEW i \in Items, i # "3.a.2", NEW h, NEW m \in [Ops -> Metrics],
         NEW p, AllData(i, p), NEW r, AllData(i, r), AllFilled(i, p, r)
  PROVE  Command!Score(i, h, m, p, Weight) \in {None, Raises, Command!Score(i, h, m, r, Weight)}
<1> DEFINE H == Command!Hw(h)
<1>1. CASE i \in HwItems
  <2>1. /\ Command!Score(i, h, m, p, Weight) = Command!HwScore(i, H)
        /\ Command!Score(i, h, m, r, Weight) = Command!HwScore(i, H)
    BY <1>1, HwScoreCommandIs
  <2>2. QED
    BY <2>1
<1>2. CASE i \in OpItems
  <2> DEFINE f == [o \in Ops |-> Command!OpScore(i, h, m[o], p[o])]
             g == [o \in Ops |-> Command!OpScore(i, h, m[o], r[o])]
  <2>1. /\ Command!Score(i, h, m, p, Weight) = Command!Aggregate(Weight, f)
        /\ Command!Score(i, h, m, r, Weight) = Command!Aggregate(Weight, g)
    BY <1>2, OpScoreCommandIs
  <2>2. ASSUME NEW o \in Ops PROVE f[o] \in {Raises, g[o]}
    <3>1. Data(i, p[o]) /\ IsFilled(i, p[o], r[o])
      BY DEF AllData, AllFilled
    <3>2. Command!OpScore(i, h, m[o], p[o]) \in {Raises, Command!OpScore(i, h, m[o], r[o])}
      BY <1>2, <3>1, OpBlanks
    <3>3. QED
      BY <3>2
  <2>3. CASE \E o \in Ops : f[o] = Raises
    <3>1. Command!Aggregate(Weight, f) = Raises
      BY <2>3 DEF Command!Aggregate
    <3>2. QED
      BY <2>1, <3>1
  <2>4. CASE ~(\E o \in Ops : f[o] = Raises)
    <3>1. f = g
      BY <2>2, <2>4
    <3>2. QED
      BY <2>1, <3>1
  <2>5. QED
    BY <2>3, <2>4
<1>3. CASE i = "3.b.2"
  <2>1. /\ Command!Score(i, h, m, p, Weight) = Command!S3b2(H, m, p)
        /\ Command!Score(i, h, m, r, Weight) = Command!S3b2(H, m, r)
    BY <1>3, ScoreCommandIs
  <2>2. QED
    BY <1>3, <2>1, S3b2Blanks
<1>4. CASE i = "3.b.4"
  <2>1. /\ Command!Score(i, h, m, p, Weight) = Command!S3b4(H, m, p)
        /\ Command!Score(i, h, m, r, Weight) = Command!S3b4(H, m, r)
    BY <1>4, ScoreCommandIs
  <2>2. QED
    BY <1>4, <2>1, S3b4Blanks
<1>5. CASE i = "4.a.3"
  <2>1. /\ Command!Score(i, h, m, p, Weight) = Command!S4a3(H, m)
        /\ Command!Score(i, h, m, r, Weight) = Command!S4a3(H, m)
    BY <1>5, ScoreCommandIs
  <2>2. QED
    BY <2>1
<1>6. CASE i = "4.b.2"
  <2>1. /\ Command!Score(i, h, m, p, Weight) = Command!S4b2(H, m, p, Weight)
        /\ Command!Score(i, h, m, r, Weight) = Command!S4b2(H, m, r, Weight)
    BY <1>6, ScoreCommandIs
  <2>2. Command!S4b2(H, m, p, Weight) \in {Raises, Command!S4b2(H, m, r, Weight)}
    BY <1>6, S4b2Blanks
  <2>3. QED
    BY <2>1, <2>2
<1>7. QED
  BY <1>1, <1>2, <1>3, <1>4, <1>5, <1>6 DEF Items, MixedItems

\* 3.a.2 raises on a blank deviation and otherwise scores in range.
LEMMA S3a2Score ==
  ASSUME NEW h, NEW m \in [Ops -> Metrics], NEW p, AllData("3.a.2", p)
  PROVE  Command!Score("3.a.2", h, m, p, Weight) \in Points \cup {Raises}
<1> DEFINE f == [o \in Ops |-> Command!OpScore("3.a.2", h, m[o], p[o])]
<1>1. "3.a.2" \in OpItems
  BY DEF OpItems
<1>2. Command!Score("3.a.2", h, m, p, Weight) = Command!Aggregate(Weight, f)
  BY <1>1, OpScoreCommandIs
<1>3. ASSUME NEW o \in Ops PROVE f[o] \in Points \cup {Raises}
  <2>1. m[o] \in Metrics /\ Data("3.a.2", p[o])
    BY DEF AllData
  <2>2. Command!OpScore("3.a.2", h, m[o], p[o]) = Command!S3a2(m[o], p[o])
    BY OpCommand
  <2>3. Command!S3a2(m[o], p[o]) \in Points \cup {Raises}
    BY <2>1, S3a2Range
  <2>4. QED
    BY <2>2, <2>3
<1>4. CASE \E o \in Ops : f[o] = Raises
  <2>1. Command!Aggregate(Weight, f) = Raises
    BY <1>4 DEF Command!Aggregate
  <2>2. QED
    BY <1>2, <2>1
<1>5. CASE ~(\E o \in Ops : f[o] = Raises)
  <2>1. DOMAIN f \in SUBSET Ops /\ \A o \in DOMAIN f : f[o] \in Points /\ f[o] # Raises
    BY <1>3, <1>5
  <2> HIDE DEF f
  <2>2. WeightedMean(Weight, f) \in Points
    BY <2>1, OpsMean
  <2>3. Command!Aggregate(Weight, f) = WeightedMean(Weight, f)
    BY <2>1, CommandMath, Zenon DEF Command!Aggregate
  <2>4. QED
    BY <1>2, <2>2, <2>3
<1>6. QED
  BY <1>4, <1>5

-------------------------------------------------------------------------------
(***************************************************************************)
(* The states.                                                             *)
(***************************************************************************)
\* Only 9.a.1 reads versions, and only of an operator.
LEMMA NoVersions ==
  ASSUME NEW i \in Items
  PROVE  "versions" \notin HwFields[i] /\ "versions" \notin TierFields[i]
<1>1. "versions" \notin TierFields[i]
  BY DEF TierFields, BandwidthFields
<1>2. "versions" \notin HwFields[i]
  BY DEF HwFields, RateFields, Alignments, Capacities, RateItems
<1>3. QED
  BY <1>1, <1>2

\* What a field may be given is a number of its kind.
LEMMA FieldValues ==
  ASSUME NEW i \in Items, NEW f \in HwFields[i] \cup OpFields[i] \cup TierFields[i], NEW v \in Values[f]
  PROVE  /\ v # Missing /\ v # Blank
         /\ v \in Numbers(f)
<1>1. f \in UNION {HwFields[j] \cup OpFields[j] \cup TierFields[j] : j \in Items}
  OBVIOUS
<1>2. /\ Values[f] \cap {Missing, Blank} = {}
      /\ Values[f] \subseteq IF f = "versions" THEN Seq(Versions) ELSE Nat
  BY <1>1, FieldAssumption
<1>3. v # Missing /\ v # Blank
  BY <1>2
<1>4. CASE f = "versions"
  BY <1>2, <1>3, <1>4 DEF Numbers
<1>5. CASE f # "versions"
  BY <1>2, <1>3, <1>5 DEF Numbers
<1>6. QED
  BY <1>4, <1>5

LEMMA StateForm ==
  ASSUME TypeOK
  PROVE  /\ item \in Items
         /\ metrics \in [Ops -> Metrics]
         /\ Raw(item, hw)
<1>1. item \in Items
  BY ScoringAssumption DEF TypeOK
<1>2. MetricValues[item] \subseteq Metrics
  BY <1>1, FieldAssumption
<1>3. metrics \in [Ops -> Metrics]
  <2>1. metrics \in [Ops -> MetricValues[item]]
    BY DEF TypeOK
  <2>2. QED
    BY <1>2, <2>1
<1>4. ASSUME NEW f \in HwFields[item]
      PROVE  hw[f] \in Nat \cup {Missing, Blank}
  <2>1. hw[f] \in Values[f] \cup {Blank, Missing}
    BY DEF TypeOK
  <2>2. CASE hw[f] \in Values[f]
    <3>1. f # "versions"
      BY <1>1, NoVersions
    <3>2. f \in HwFields[item] \cup OpFields[item] \cup TierFields[item]
      OBVIOUS
    <3>3. QED
      BY <1>1, <2>2, <3>1, <3>2, FieldValues DEF Numbers
  <2>3. QED
    BY <2>1, <2>2
<1>5. QED
  BY <1>1, <1>3, <1>4 DEF Raw, TypeOK

LEMMA StateSound ==
  ASSUME TypeOK, Consistent
  PROVE  Sound(item, Browser!Hw(hw))
<1> DEFINE H == Browser!Hw(hw)
<1>1. \A f \in HwFields[item] :
        /\ H[f] \in Nat \cup {Missing}
        /\ H[f] \in Nat => hw[f] = H[f] /\ Number(hw[f])
  BY StateForm, RawForm, Markers DEF Form, Number
<1> HIDE DEF H
<1>2. ASSUME NEW part \in HwFields[item], NEW whole \in HwFields[item], NoMore(part, whole),
             H[part] \in Nat, H[whole] \in Nat
      PROVE  H[part] <= H[whole]
  <2>1. hw[part] = H[part] /\ Number(hw[part]) /\ hw[whole] = H[whole] /\ Number(hw[whole])
    BY <1>1, <1>2
  <2>2. QED
    BY <1>2, <2>1 DEF NoMore
<1>3. ASSUME item = "4.a.1", {H.N_viol, H.N_api} \subseteq Nat PROVE H.N_viol <= H.N_api
  <2>1. "N_viol" \in HwFields[item] /\ "N_api" \in HwFields[item]
    BY <1>3, HwFieldsAre
  <2>2. NoMore("N_viol", "N_api")
    BY DEF Consistent, CountsConsistent
  <2>3. QED
    BY <1>2, <1>3, <2>1, <2>2
<1>4. ASSUME item = "4.a.2", {H.N_api_dup, H.N_hw} \subseteq Nat PROVE H.N_api_dup <= H.N_hw
  <2>1. "N_api_dup" \in HwFields[item] /\ "N_hw" \in HwFields[item]
    BY <1>4, HwFieldsAre
  <2>2. NoMore("N_api_dup", "N_hw")
    BY DEF Consistent, CountsConsistent
  <2>3. QED
    BY <1>2, <1>4, <2>1, <2>2
<1>5. ASSUME NEW f \in HwFields[item] \cap Shares PROVE H[f] \in 0..100 \cup {Missing}
  <2>1. Number(hw[f]) => hw[f] <= 100
    BY DEF Consistent, SharesConsistent
  <2>2. H[f] \in Nat \cup {Missing}
    BY <1>1
  <2>3. H[f] \in Nat => H[f] <= 100
    BY <1>1, <2>1
  <2>4. QED
    BY <2>2, <2>3
<1>6. QED
  BY <1>3, <1>4, <1>5 DEF Sound, H

LEMMA StateData ==
  ASSUME TypeOK
  PROVE  AllData(item, Measured(perf))
<1>1. item \in Items
  BY StateForm
<1>2. ASSUME NEW o \in Ops PROVE Data(item, PerfOp(perf, o))
  <2> DEFINE q == PerfOp(perf, o)
  <2>1. /\ \A f \in OpFields[item] : q.op[f] \in Values[f] \cup {Blank, Missing}
        /\ \A t \in Tiers, f \in TierFields[item] : q.tier[t][f] \in Values[f] \cup {Blank, Missing}
    BY DEF TypeOK
  <2> HIDE DEF q
  <2>2. ASSUME NEW f \in OpFields[item] PROVE q.op[f] \in Numbers(f) \cup {Missing, Blank}
    <3>1. f \in HwFields[item] \cup OpFields[item] \cup TierFields[item]
      OBVIOUS
    <3>2. \A v \in Values[f] : v \in Numbers(f)
      BY <1>1, <3>1, FieldValues
    <3>3. QED
      BY <2>1, <3>2
  <2>3. ASSUME NEW t \in Tiers, NEW f \in TierFields[item] PROVE q.tier[t][f] \in Nat \cup {Missing, Blank}
    <3>1. f \in HwFields[item] \cup OpFields[item] \cup TierFields[item]
      OBVIOUS
    <3>2. \A v \in Values[f] : v \in Numbers(f)
      BY <1>1, <3>1, FieldValues
    <3>3. f # "versions"
      BY <1>1, NoVersions
    <3>4. QED
      BY <2>1, <3>2, <3>3 DEF Numbers
  <2>4. Data(item, q)
    BY <2>2, <2>3 DEF Data
  <2>5. QED
    BY <2>4 DEF q
<1>3. QED
  BY <1>2 DEF AllData, Measured

\* Dropping the blanks leaves measurements without blanks.
LEMMA StateFilled ==
  ASSUME TypeOK
  PROVE  /\ Measured(WithoutBlanks(perf)) = WithoutBlanks(perf)
         /\ AllFilled(item, Measured(perf), WithoutBlanks(perf))
         /\ AllData(item, WithoutBlanks(perf))
         /\ AllSolid(item, WithoutBlanks(perf))
<1> DEFINE W == WithoutBlanks(perf)
<1>1. DOMAIN W = Ops
  BY DEF WithoutBlanks
<1>2. Measured(W) = W
  <2>1. \A o \in Ops : PerfOp(W, o) = W[o]
    BY <1>1 DEF PerfOp
  <2>2. W = [o \in Ops |-> W[o]]
    BY DEF WithoutBlanks
  <2> HIDE DEF W
  <2>3. QED
    BY <2>1, <2>2 DEF Measured
<1>3. ASSUME NEW o \in Ops
      PROVE  /\ \A f \in OpFields[item] : W[o].op[f] = Filled(PerfOp(perf, o).op[f])
             /\ \A t \in Tiers, f \in TierFields[item] :
                  W[o].tier[t][f] = Filled(PerfOp(perf, o).tier[t][f])
  BY DEF WithoutBlanks
<1>4. ASSUME NEW o \in Ops PROVE Data(item, PerfOp(perf, o))
  BY StateData DEF AllData, Measured
<1> HIDE DEF W
<1>5. AllFilled(item, Measured(perf), W)
  BY <1>3 DEF AllFilled, IsFilled, Measured
<1>6. ASSUME NEW o \in Ops PROVE Data(item, W[o]) /\ Solid(item, W[o])
  <2>1. \A f \in OpFields[item] : /\ W[o].op[f] \in Numbers(f) \cup {Missing, Blank}
                                  /\ W[o].op[f] # Blank
    BY <1>3, <1>4, Markers DEF Data, Filled
  <2>2. \A t \in Tiers, f \in TierFields[item] : /\ W[o].tier[t][f] \in Nat \cup {Missing, Blank}
                                                 /\ W[o].tier[t][f] # Blank
    BY <1>3, <1>4, Markers DEF Data, Filled
  <2>3. QED
    BY <2>1, <2>2 DEF Data, Solid
<1>7. QED
  BY <1>2, <1>5, <1>6 DEF AllData, AllSolid, W

-------------------------------------------------------------------------------
(***************************************************************************)
(* What holds of the scores in a state of the right types.                 *)
(***************************************************************************)
LEMMA RatesAreItems == RateItems \subseteq HwItems
BY DEF HwItems

\* The two roundings differ by one at most, and only near a tie.
LEMMA Rounding ==
  ASSUME NEW s \in Int
  PROVE  /\ Command!Rounded(s) \in Int /\ Browser!Rounded(s) \in Int
         /\ Command!Rounded(s) - Browser!Rounded(s) \in {-1, 0, 1}
         /\ Command!Rounded(s) = Browser!Rounded(s) \/ NearTie(s)
         /\ s \in 0..Full => /\ Command!Rounded(s) \in 0..FullReported
                             /\ Browser!Rounded(s) \in 0..FullReported
<1> DEFINE d == s \div 100
           r == s % 100
           u == (s + 50) \div 100
<1>1. d \in Int /\ r \in 0..99 /\ s = 100 * d + r
  OBVIOUS
<1>2. u = IF r < 50 THEN d ELSE d + 1
  <2>1. u \in Int /\ 100 * u <= s + 50 /\ s + 50 < 100 * u + 100
    OBVIOUS
  <2> HIDE DEF d, r, u
  <2>2. QED
    BY <1>1, <2>1
<1>3. s # None /\ s # Raises
  BY Markers
<1>4. Browser!Rounded(s) = u
  BY <1>3 DEF Browser!Rounded
<1>5. Command!Rounded(s) = IF r < 50 \/ (r = 50 /\ d % 2 = 0) THEN d ELSE d + 1
  BY <1>3, Zenon DEF Command!Rounded
<1>6. r = 50 => NearTie(s)
  BY <1>3 DEF NearTie, IsScore, Margin
<1> HIDE DEF d, r, u
<1>7. /\ Command!Rounded(s) \in Int /\ Browser!Rounded(s) \in Int
      /\ Command!Rounded(s) - Browser!Rounded(s) \in {-1, 0, 1}
      /\ Command!Rounded(s) = Browser!Rounded(s) \/ NearTie(s)
  BY <1>1, <1>2, <1>4, <1>5, <1>6
<1>8. ASSUME s \in 0..Full
      PROVE  Command!Rounded(s) \in 0..FullReported /\ Browser!Rounded(s) \in 0..FullReported
  <2>1. 0 <= d /\ d <= 1000 /\ (d = 1000 => r = 0)
    BY <1>1, <1>8, FullIs
  <2>2. QED
    BY <1>1, <1>2, <1>4, <1>5, <2>1 DEF FullReported
<1>9. QED
  BY <1>7, <1>8

\* What is no score is reported as it is.
LEMMA RoundedNone ==
  /\ Command!Rounded(None) = None /\ Browser!Rounded(None) = None
  /\ Command!Rounded(Raises) = Raises
BY DEF Command!Rounded, Browser!Rounded

LEMMA RoundedPoints ==
  ASSUME NEW s \in Points
  PROVE  /\ Command!Rounded(s) \in 0..FullReported \cup {None}
         /\ Browser!Rounded(s) \in 0..FullReported \cup {None}
<1>1. CASE s = None
  BY <1>1, RoundedNone
<1>2. CASE s \in 0..Full
  <2>1. s \in Int
    BY <1>2
  <2>2. QED
    BY <1>2, <2>1, Rounding
<1>3. QED
  BY <1>1, <1>2 DEF Points

LEMMA Agreement ==
  ASSUME TypeOK, item \notin RateItems
  PROVE  MirrorAgrees
<1> DEFINE p == Measured(perf)
           s == Browser!Score(item, hw, metrics, p, Weight)
<1>1. SUFFICES ASSUME p = WithoutBlanks(perf)
               PROVE  \/ ByCommand(hw, perf) = ByBrowser(hw, perf)
                      \/ /\ NearTie(Unrounded(hw, perf))
                         /\ AtMostOneApart(ByCommand(hw, perf), ByBrowser(hw, perf))
  BY DEF MirrorAgrees
<1>2. AllData(item, p) /\ AllSolid(item, p)
  BY <1>1, StateFilled, StateData
<1>3. Unrounded(hw, perf) = Command!Score(item, hw, metrics, p, Weight)
  BY DEF Unrounded
<1>4. ByBrowser(hw, perf) = Browser!Rounded(s)
  BY DEF ByBrowser
<1> HIDE DEF p
<1>5. Unrounded(hw, perf) = s
  BY <1>2, <1>3, StateForm, ScoreAgrees
<1>6. s \in Scores
  BY <1>2, StateForm, ScoreRange
<1>7. ByCommand(hw, perf) = Command!Rounded(s)
  BY <1>5 DEF ByCommand
<1> HIDE DEF s
<1>8. CASE s = None
  BY <1>4, <1>7, <1>8, RoundedNone
<1>9. CASE s \in Int
  <2>1. /\ ByCommand(hw, perf) \in Int /\ ByBrowser(hw, perf) \in Int
        /\ ByCommand(hw, perf) - ByBrowser(hw, perf) \in {-1, 0, 1}
        /\ ByCommand(hw, perf) = ByBrowser(hw, perf) \/ NearTie(s)
    BY <1>4, <1>7, <1>9, Rounding
  <2>2. QED
    BY <1>5, <2>1, Markers DEF AtMostOneApart, IsScore
<1>10. QED
  BY <1>6, <1>8, <1>9 DEF Scores

\* What score.py computes is nothing, or what it computes without the blanks.
LEMMA UnroundedBlanks ==
  ASSUME TypeOK, item # "3.a.2"
  PROVE  Unrounded(hw, perf) \in {None, Raises, Unrounded(hw, WithoutBlanks(perf))}
<1> DEFINE p == Measured(perf)
           r == WithoutBlanks(perf)
<1>1. /\ AllData(item, p) /\ AllData(item, r) /\ AllFilled(item, p, r)
      /\ Measured(r) = r
  BY StateFilled, StateData
<1>2. Unrounded(hw, r) = Command!Score(item, hw, metrics, r, Weight)
  BY <1>1 DEF Unrounded
<1>3. Unrounded(hw, perf) = Command!Score(item, hw, metrics, p, Weight)
  BY DEF Unrounded
<1> HIDE DEF p, r
<1>4. Command!Score(item, hw, metrics, p, Weight)
        \in {None, Raises, Command!Score(item, hw, metrics, r, Weight)}
  BY <1>1, StateForm, ScoreBlanks
<1>5. QED
  BY <1>2, <1>3, <1>4 DEF r

LEMMA Ignorance ==
  ASSUME TypeOK
  PROVE  CommandIgnoresBlanks
<1>1. SUFFICES ASSUME item # "3.a.2", IsScore(ByCommand(hw, perf))
               PROVE  ByCommand(hw, perf) = ByCommand(hw, WithoutBlanks(perf))
  BY DEF CommandIgnoresBlanks
<1>2. Unrounded(hw, perf) \in {None, Raises, Unrounded(hw, WithoutBlanks(perf))}
  BY <1>1, UnroundedBlanks
<1>3. Unrounded(hw, perf) \notin {None, Raises}
  BY <1>1, RoundedNone DEF ByCommand, IsScore
<1>4. QED
  BY <1>2, <1>3 DEF ByCommand

LEMMA BrowserRange ==
  ASSUME TypeOK, Consistent
  PROVE  /\ Browser!Score(item, hw, metrics, Measured(perf), Weight) \in Points
         /\ Browser!Score(item, hw, metrics, WithoutBlanks(perf), Weight) \in Points
BY StateFilled, StateData, StateForm, StateSound, ScoreRange

LEMMA CommandRange ==
  ASSUME TypeOK, Consistent, IsScore(Unrounded(hw, perf))
  PROVE  Unrounded(hw, perf) \in Points
<1> DEFINE p == Measured(perf)
           r == WithoutBlanks(perf)
<1>1. /\ AllData(item, p) /\ AllData(item, r) /\ AllSolid(item, r) /\ Measured(r) = r
  BY StateFilled, StateData
<1>2. Unrounded(hw, perf) = Command!Score(item, hw, metrics, p, Weight)
  BY DEF Unrounded
<1>3. CASE item = "3.a.2"
  <2> HIDE DEF p, r
  <2>1. Command!Score(item, hw, metrics, p, Weight) \in Points \cup {Raises}
    BY <1>1, <1>3, StateForm, S3a2Score
  <2>2. QED
    BY <1>2, <2>1 DEF IsScore
<1>4. CASE item \in RateItems
  <2>1. item \in HwItems
    BY <1>4, RatesAreItems
  <2> HIDE DEF p, r
  <2>2. Command!Score(item, hw, metrics, p, Weight) = Command!HwScore(item, Browser!Hw(hw))
    BY <2>1, HwScoreCommandIs, HwSame
  <2>3. Command!HwScore(item, Browser!Hw(hw)) \in Points
    BY <1>4, StateForm, RawForm, StateSound, RateItemsRange
  <2>4. QED
    BY <1>2, <2>2, <2>3
<1>5. CASE item # "3.a.2" /\ item \notin RateItems
  <2>1. Unrounded(hw, perf) = Unrounded(hw, r)
    BY <1>5, UnroundedBlanks DEF IsScore
  <2>2. Unrounded(hw, r) = Command!Score(item, hw, metrics, r, Weight)
    BY <1>1 DEF Unrounded
  <2>3. Browser!Score(item, hw, metrics, r, Weight) \in Points
    BY BrowserRange
  <2> HIDE DEF p, r
  <2>4. Command!Score(item, hw, metrics, r, Weight) = Browser!Score(item, hw, metrics, r, Weight)
    BY <1>1, <1>5, StateForm, ScoreAgrees
  <2>5. QED
    BY <2>1, <2>2, <2>3, <2>4
<1>6. QED
  BY <1>3, <1>4, <1>5

LEMMA Range10 ==
  ASSUME TypeOK
  PROVE  ConsistentInRange
<1>1. SUFFICES ASSUME Consistent, NEW s \in {ByCommand(hw, perf), ByBrowser(hw, perf)}, IsScore(s)
               PROVE  s \in 0..FullReported
  BY DEF ConsistentInRange, InRange
<1>2. ASSUME s = ByBrowser(hw, perf) PROVE s \in 0..FullReported \cup {None}
  BY <1>1, <1>2, BrowserRange, RoundedPoints DEF ByBrowser
<1>3. ASSUME s = ByCommand(hw, perf) PROVE s \in 0..FullReported \cup {None}
  <2>1. IsScore(Unrounded(hw, perf))
    BY <1>1, <1>3, RoundedNone DEF ByCommand, IsScore
  <2>2. Unrounded(hw, perf) \in Points
    BY <1>1, <2>1, CommandRange
  <2>3. QED
    BY <1>3, <2>2, RoundedPoints DEF ByCommand
<1>4. QED
  BY <1>1, <1>2, <1>3 DEF IsScore

-------------------------------------------------------------------------------
(***************************************************************************)
(* The inductive invariant: every operator that has an object has one with *)
(* exactly the fields of the item, which setting one field relies on.      *)
(***************************************************************************)
IsFields(r, F) ==
  DOMAIN r = F /\ \A f \in F : r[f] \in Values[f] \cup {Blank, Missing}

IsObject(x) ==
  /\ DOMAIN x = {"op", "tier"}
  /\ IsFields(x.op, OpFields[item])
  /\ DOMAIN x.tier = Tiers
  /\ \A t \in Tiers : IsFields(x.tier[t], TierFields[item])

Inv ==
  /\ item \in Scored
  /\ metrics \in [Ops -> MetricValues[item]]
  /\ IsFields(hw, HwFields[item])
  /\ DOMAIN perf \subseteq Ops
  /\ \A o \in DOMAIN perf : IsObject(perf[o])
  /\ edits \in 0..MaxEdits[item]

LEMMA FieldSet ==
  ASSUME NEW F, NEW r, IsFields(r, F), NEW f \in F, NEW v \in Values[f] \cup {Blank, Missing}
  PROVE  IsFields([r EXCEPT ![f] = v], F)
BY DEF IsFields

LEMMA EmptyObject ==
  ASSUME NEW v \in {Missing, Blank}
  PROVE  IsObject(Object(v))
BY DEF Object, IsObject, IsFields

LEMMA InvTypes == Inv => TypeOK
<1> SUFFICES ASSUME Inv PROVE TypeOK
  OBVIOUS
<1>1. ASSUME NEW o \in Ops PROVE IsObject(PerfOp(perf, o))
  BY EmptyObject DEF PerfOp, Inv
<1>2. QED
  BY <1>1 DEF Inv, TypeOK, IsObject, IsFields

LEMMA EnsuredObject ==
  ASSUME Inv, NEW o \in Ops
  PROVE  IsObject(Ensured(o))
BY EmptyObject DEF Ensured, Inv

\* One operator is given an object.
LEMMA PerfSet ==
  ASSUME Inv, NEW o \in Ops, NEW x, IsObject(x), perf' = WithPerf(o, x),
         UNCHANGED <<item, metrics, hw>>, edits' \in 0..MaxEdits[item]
  PROVE  Inv'
<1>1. DOMAIN perf' \subseteq Ops /\ \A q \in DOMAIN perf' : IsObject(perf'[q])
  BY DEF Inv, WithPerf
<1>2. \A y : IsObject(y)' <=> IsObject(y)
  BY DEF IsObject, IsFields
<1>3. QED
  BY <1>1, <1>2 DEF Inv, IsObject, IsFields

LEMMA InvInit == Init => Inv
<1> SUFFICES ASSUME Init PROVE Inv
  OBVIOUS
<1>1. PICK known \in SUBSET Ops : perf = [o \in known |-> Object(Missing)]
  BY DEF Init
<1>2. DOMAIN perf \subseteq Ops /\ \A o \in DOMAIN perf : IsObject(perf[o])
  BY <1>1, EmptyObject
<1>3. edits \in 0..MaxEdits[item]
  BY ScoringAssumption DEF Init
<1>4. QED
  BY <1>2, <1>3 DEF Init, Inv, IsFields

LEMMA InvNext == Inv /\ [Next]_vars => Inv'
<1> SUFFICES ASSUME Inv, [Next]_vars PROVE Inv'
  OBVIOUS
<1>1. ASSUME NEW f \in HwFields[item], NEW v \in Values[f] \cup {Blank}, SetHwVal(f, v)
      PROVE  Inv'
  <2>1. IsFields(hw', HwFields[item])
    BY <1>1, FieldSet DEF SetHwVal, Inv
  <2>2. UNCHANGED <<item, metrics, perf, edits>>
    BY <1>1 DEF SetHwVal
  <2>3. QED
    BY <2>1, <2>2 DEF Inv, IsFields, IsObject
<1>2. ASSUME NEW o \in Ops, RenderPerf(o)
      PROVE  Inv'
  <2>1. IsObject(Ensured(o))
    BY EnsuredObject
  <2>2. edits' \in 0..MaxEdits[item]
    BY <1>2 DEF RenderPerf, Inv
  <2>3. QED
    BY <1>2, <2>1, <2>2, PerfSet DEF RenderPerf
<1>3. ASSUME NEW o \in Ops, NEW f \in OpFields[item], NEW v \in Values[f] \cup {Blank},
             SetPerfField(o, f, v)
      PROVE  Inv'
  <2> DEFINE e == Ensured(o)
             x == [e EXCEPT !.op[f] = v]
  <2>1. IsObject(e)
    BY EnsuredObject
  <2>2. IsObject(x)
    <3> HIDE DEF e
    <3>1. IsFields([e.op EXCEPT ![f] = v], OpFields[item])
      BY <2>1, FieldSet DEF IsObject
    <3>2. x.op = [e.op EXCEPT ![f] = v] /\ x.tier = e.tier /\ DOMAIN x = DOMAIN e
      BY <2>1 DEF IsObject
    <3> HIDE DEF x
    <3>3. QED
      BY <2>1, <3>1, <3>2 DEF IsObject
  <2>3. edits' \in 0..MaxEdits[item]
    BY <1>3, ScoringAssumption DEF SetPerfField, Inv
  <2>4. perf' = WithPerf(o, x) /\ UNCHANGED <<item, metrics, hw>>
    BY <1>3 DEF SetPerfField
  <2> HIDE DEF x
  <2>5. QED
    BY <2>2, <2>3, <2>4, PerfSet
<1>4. ASSUME NEW o \in Ops, NEW t \in Tiers, NEW f \in TierFields[item],
             NEW v \in Values[f] \cup {Blank}, SetPerfTier(o, t, f, v)
      PROVE  Inv'
  <2> DEFINE e == Ensured(o)
             x == [e EXCEPT !.tier[t][f] = v]
  <2>1. IsObject(e)
    BY EnsuredObject
  <2>2. IsObject(x)
    <3> HIDE DEF e
    <3>1. IsFields([e.tier[t] EXCEPT ![f] = v], TierFields[item])
      BY <2>1, FieldSet DEF IsObject
    <3>2. /\ x.op = e.op /\ DOMAIN x = DOMAIN e
          /\ x.tier = [e.tier EXCEPT ![t] = [e.tier[t] EXCEPT ![f] = v]]
      BY <2>1 DEF IsObject
    <3> HIDE DEF x
    <3>3. QED
      BY <2>1, <3>1, <3>2 DEF IsObject
  <2>3. edits' \in 0..MaxEdits[item]
    BY <1>4, ScoringAssumption DEF SetPerfTier, Inv
  <2>4. perf' = WithPerf(o, x) /\ UNCHANGED <<item, metrics, hw>>
    BY <1>4 DEF SetPerfTier
  <2> HIDE DEF x
  <2>5. QED
    BY <2>2, <2>3, <2>4, PerfSet
<1>5. CASE UNCHANGED vars
  BY <1>5 DEF vars, Inv, IsFields, IsObject
<1>6. QED
  BY <1>1, <1>2, <1>3, <1>4, <1>5 DEF Next

-------------------------------------------------------------------------------
(***************************************************************************)
(* Whatever is entered in the forms, in whatever order, every field of the *)
(* form and of each operator's object holds a marker or a number the       *)
(* field may be given.                                                     *)
(***************************************************************************)
THEOREM TypeCorrect == Spec => []TypeOK
<1>1. Spec => []Inv
  BY InvInit, InvNext, PTL DEF Spec
<1>2. QED
  BY <1>1, InvTypes, PTL

(***************************************************************************)
(* score.py and measure_lib.js report the same score, or both none, on     *)
(* measurements without blanks, or the score is next to a tie and they     *)
(* report scores a hundredth apart: whatever the operators, tiers,         *)
(* weights, sources, form and measurements are, for all items but the six  *)
(* rates, where a total of 0 divides the programs (score_zero_rate).       *)
(***************************************************************************)
THEOREM ProgramsAgree ==
  ASSUME Scored \cap RateItems = {}
  PROVE  Spec => []MirrorAgrees
<1>1. TypeOK => MirrorAgrees
  <2>1. TypeOK => item \notin RateItems
    BY DEF TypeOK
  <2>2. QED
    BY <2>1, Agreement
<1>2. QED
  BY <1>1, TypeCorrect, PTL

(***************************************************************************)
(* With a consistent form both programs report every item in 0..10 or not  *)
(* at all, whatever the measurements are, although the formulas that are   *)
(* averaged are not all clamped.  On other forms they need not.            *)
(***************************************************************************)
THEOREM ScoresInRange == Spec => []ConsistentInRange
<1>1. TypeOK => ConsistentInRange
  BY Range10
<1>2. QED
  BY <1>1, TypeCorrect, PTL

(***************************************************************************)
(* A score that score.py gives does not depend on which measurements are   *)
(* blank and which are missing, except on 3.a.2: a blank it reads makes it *)
(* raise or give no score.                                                 *)
(***************************************************************************)
THEOREM BlanksIgnored == Spec => []CommandIgnoresBlanks
<1>1. TypeOK => CommandIgnoresBlanks
  BY Ignorance
<1>2. QED
  BY <1>1, TypeCorrect, PTL

===============================================================================
