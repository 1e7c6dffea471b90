----------------------------- MODULE MoeReturnProofs ----------------------------
(***************************************************************************)
(* The theorems about the data of one round trip, for any number of ranks, *)
(* cores, experts and tokens, and for any routing: first of dispatch       *)
(* alone, for Spec of MoeLayout, then of dispatch and combine, for         *)
(* ReturnSpec of MoeReturn, which does all that Spec does.                 *)
(***************************************************************************)
EXTENDS MoeReturnInv, MoeRoutingProofs, FiniteSetTheorems, WellFoundedInduction

-------------------------------------------------------------------------------
(***************************************************************************)
(* Naturals and sums.  Induction is the least number principle: of a set   *)
(* of naturals that is not empty some number is the least.                 *)
(***************************************************************************)
LEMMA Least ==
  ASSUME NEW T \in SUBSET Nat, T # {}
  PROVE  \E n \in T : \A m \in T : n <= m
<1> DEFINE L == {ss \in Nat \X Nat : ss[1] < ss[2]}
<1>1. IsWellFoundedOn(L, Nat)
  BY NatLessThanWellFounded DEF OpToRel
<1>2. PICK n \in T : \A m \in T : <<m, n>> \notin L
  BY <1>1, WFMin
<1>3. ASSUME NEW m \in T PROVE n <= m
  <2>1. m \in Nat /\ n \in Nat /\ <<m, n>> \notin L
    BY <1>2
  <2>2. QED
    BY <2>1
<1>4. QED
  BY <1>3

\* A set of naturals with 0, and with the successor of each of its members, has all.
LEMMA Grow ==
  ASSUME NEW S \in SUBSET Nat, 0 \in S, \A n \in S : n + 1 \in S
  PROVE  S = Nat
<1>1. SUFFICES ASSUME Nat \ S # {} PROVE FALSE
  OBVIOUS
<1>2. PICK n \in Nat \ S : \A m \in Nat \ S : n <= m
  BY <1>1, Least
<1>3. n - 1 \in S
  BY <1>2
<1>4. QED
  BY <1>2, <1>3

\* There are n numbers below n.
LEMMA Below ==
  ASSUME NEW n \in Nat
  PROVE  IsFiniteSet(0 .. n - 1) /\ Cardinality(0 .. n - 1) = n
<1>1. 0 \in Int /\ n - 1 \in Int
  OBVIOUS
<1>2. /\ IsFiniteSet(0 .. n - 1)
      /\ Cardinality(0 .. n - 1) = IF 0 > n - 1 THEN 0 ELSE n - 1 - 0 + 1
  BY <1>1, FS_Interval, Zenon
<1>3. QED
  BY <1>2

\* What numbers f[x] add up to: the pairs of an x and a number below f[x].
Tally(f, s) == {p \in s \X Nat : p[2] < f[p[1]]}
Total(f, s) == Cardinality(Tally(f, s))

\* One member more adds its number.
LEMMA TotalMore ==
  ASSUME NEW f, NEW s, NEW x \in s, f[x] \in Nat,
         IsFiniteSet(Tally(f, s \ {x}))
  PROVE  IsFiniteSet(Tally(f, s)) /\ Total(f, s) = Total(f, s \ {x}) + f[x]
<1> DEFINE U == Tally(f, s \ {x})
           V == {x} \X (0 .. f[x] - 1)
<1>1. Tally(f, s) = U \cup V
  BY DEF Tally
<1>2. U \cap V = {}
  BY DEF Tally
<1>3. IsFiniteSet(0 .. f[x] - 1) /\ Cardinality(0 .. f[x] - 1) = f[x]
  BY Below, Zenon
<1>4. IsFiniteSet({x}) /\ Cardinality({x}) = 1
  BY FS_Singleton
<1>5. IsFiniteSet(V) /\ Cardinality(V) = f[x]
  <2> HIDE DEF V
  <2>1. IsFiniteSet({x} \X (0 .. f[x] - 1))
        /\ Cardinality({x} \X (0 .. f[x] - 1)) = Cardinality({x}) * Cardinality(0 .. f[x] - 1)
    BY <1>3, <1>4, FS_Product
  <2>2. QED
    BY <1>3, <1>4, <2>1 DEF V
<1> HIDE DEF U, V
<1>6. IsFiniteSet(U) /\ Cardinality(U) \in Nat
  BY FS_CardinalityType DEF U
<1>7. /\ IsFiniteSet(U \cup V)
      /\ Cardinality(U \cup V) = Cardinality(U) + Cardinality(V) - Cardinality(U \cap V)
  BY <1>5, <1>6, FS_Union
<1>8. Cardinality(U \cap V) = 0
  BY <1>2, FS_EmptySet
<1>9. Cardinality(U \cup V) = Cardinality(U) + f[x]
  BY <1>5, <1>6, <1>7, <1>8
<1>10. QED
  BY <1>1, <1>7, <1>9 DEF Total, U

\* Finitely many numbers add up to one.
LEMMA TotalType ==
  ASSUME NEW S, IsFiniteSet(S), NEW f, \A x \in S : f[x] \in Nat
  PROVE  IsFiniteSet(Tally(f, S)) /\ Total(f, S) \in Nat
<1> DEFINE Bad == {s \in SUBSET S : ~IsFiniteSet(Tally(f, s))}
           Sizes == {n \in Nat : \E s \in Bad : n = Cardinality(s)}
<1>1. \A s \in SUBSET S : IsFiniteSet(s) /\ Cardinality(s) \in Nat
  BY FS_Subset, FS_CardinalityType
<1>2. Bad = {}
  <2>1. SUFFICES ASSUME Bad # {} PROVE FALSE
    OBVIOUS
  <2>2. Sizes \in SUBSET Nat /\ Sizes # {}
    BY <1>1, <2>1
  <2>3. PICK n \in Sizes : \A m \in Sizes : n <= m
    BY <2>2, Least
  <2>4. PICK s \in Bad : n = Cardinality(s)
    OBVIOUS
  <2>5. s # {}
    <3>1. Tally(f, {}) = {}
      BY DEF Tally
    <3>2. QED
      BY <3>1, FS_EmptySet
  <2>6. PICK x \in s : TRUE
    BY <2>5
  <2>7. Cardinality(s \ {x}) = n - 1 /\ s \ {x} \in SUBSET S
    BY <1>1, <2>4, FS_RemoveElement
  <2>8. s \ {x} \notin Bad
    BY <1>1, <2>3, <2>7
  <2>9. IsFiniteSet(Tally(f, s \ {x})) /\ f[x] \in Nat
    BY <2>7, <2>8
  <2>10. IsFiniteSet(Tally(f, s))
    BY <2>9, TotalMore
  <2>11. QED
    BY <2>10
<1>3. IsFiniteSet(Tally(f, S))
  BY <1>2
<1>4. QED
  BY <1>3, FS_CardinalityType DEF Total

\* The equation MapThenSumSet solves.
Folds(g, f, S) ==
  g = [s \in SUBSET S |->
         IF s = {} THEN 0
         ELSE f[CHOOSE x \in s : TRUE] + g[s \ {CHOOSE x \in s : TRUE}]]

\* It has a solution ...
LEMMA FoldThere ==
  ASSUME NEW S, IsFiniteSet(S), NEW f, \A x \in S : f[x] \in Nat
  PROVE  Folds([s \in SUBSET S |-> Total(f, s)], f, S)
<1> DEFINE g == [s \in SUBSET S |-> Total(f, s)]
<1>1. ASSUME NEW s \in SUBSET S
      PROVE  Total(f, s) =
               IF s = {} THEN 0
               ELSE f[CHOOSE x \in s : TRUE] + g[s \ {CHOOSE x \in s : TRUE}]
  <2>1. CASE s = {}
    <3>1. Tally(f, s) = {}
      BY <2>1 DEF Tally
    <3>2. QED
      BY <2>1, <3>1, FS_EmptySet DEF Total
  <2>2. CASE s # {}
    <3> DEFINE c == CHOOSE x \in s : TRUE
    <3>1. c \in s
      BY <2>2
    <3> HIDE DEF c
    <3>2. IsFiniteSet(s \ {c}) /\ s \ {c} \in SUBSET S /\ f[c] \in Nat
      <4>1. s \ {c} \in SUBSET S
        OBVIOUS
      <4>2. QED
        BY <3>1, <4>1, FS_Subset
    <3>3. IsFiniteSet(Tally(f, s \ {c})) /\ Total(f, s \ {c}) \in Nat
      BY <3>2, TotalType
    <3>4. Total(f, s) = Total(f, s \ {c}) + f[c]
      BY <3>1, <3>2, <3>3, TotalMore
    <3>5. g[s \ {c}] = Total(f, s \ {c})
      BY <3>2
    <3>6. Total(f, s) = f[c] + g[s \ {c}]
      BY <3>2, <3>3, <3>4, <3>5
    <3>7. QED
      BY <2>2, <3>6 DEF c
  <2>3. QED
    BY <2>1, <2>2
<1>2. QED
  BY <1>1 DEF Folds

\* ... and only one.
LEMMA FoldUnique ==
  ASSUME NEW S, IsFiniteSet(S), NEW f, NEW g, NEW h, Folds(g, f, S), Folds(h, f, S)
  PROVE  g = h
<1> DEFINE Bad == {s \in SUBSET S : g[s] # h[s]}
           Sizes == {n \in Nat : \E s \in Bad : n = Cardinality(s)}
<1>1. \A s \in SUBSET S : IsFiniteSet(s) /\ Cardinality(s) \in Nat
  BY FS_Subset, FS_CardinalityType
<1>2. Bad = {}
  <2>1. SUFFICES ASSUME Bad # {} PROVE FALSE
    OBVIOUS
  <2>2. Sizes \in SUBSET Nat /\ Sizes # {}
    BY <1>1, <2>1
  <2>3. PICK n \in Sizes : \A m \in Sizes : n <= m
    BY <2>2, Least
  <2>4. PICK s \in Bad : n = Cardinality(s)
    OBVIOUS
  <2>5. g[s] = (IF s = {} THEN 0
                ELSE f[CHOOSE x \in s : TRUE] + g[s \ {CHOOSE x \in s : TRUE}])
        /\ h[s] = (IF s = {} THEN 0
                   ELSE f[CHOOSE x \in s : TRUE] + h[s \ {CHOOSE x \in s : TRUE}])
    BY DEF Folds
  <2>6. s # {}
    BY <2>5
  <2> DEFINE c == CHOOSE x \in s : TRUE
  <2>7. c \in s
    BY <2>6
  <2> HIDE DEF c
  <2>8. Cardinality(s \ {c}) = n - 1 /\ s \ {c} \in SUBSET S
    BY <1>1, <2>4, <2>7, FS_RemoveElement
  <2>9. s \ {c} \notin Bad
    BY <1>1, <2>3, <2>8
  <2>10. g[s \ {c}] = h[s \ {c}]
    BY <2>8, <2>9
  <2>11. g[s] = h[s]
    BY <2>5, <2>6, <2>10 DEF c
  <2>12. QED
    BY <2>11
<1>3. \A s \in SUBSET S : g[s] = h[s]
  BY <1>2
<1>4. QED
  BY <1>3 DEF Folds

\* What MapThenSumSet adds up over the first words of a rank, whose counts are known.
LEMMA CumSumIs ==
  ASSUME NEW r, NEW n \in Nat, NEW f, \A m \in 0 .. n : f[m] \in Nat /\ Count(r, m) = f[m]
  PROVE  CumSum(r, n) = Total(f, 0 .. n)
<1> DEFINE S == 0 .. n
           Added(g) == g = [s \in SUBSET S |->
                            IF s = {} THEN 0
                            ELSE Count(r, CHOOSE x \in s : TRUE)
                                   + g[s \ {CHOOSE x \in s : TRUE}]]
<1>1. IsFiniteSet(S)
  <2>1. 0 \in Int /\ n \in Int
    OBVIOUS
  <2>2. QED
    BY <2>1, FS_Interval
<1>2. CumSum(r, n) = (CHOOSE g : Added(g))[S]
  BY DEF CumSum, MapThenSumSet, MapThenFoldSet
<1>3. ASSUME NEW g PROVE Added(g) <=> Folds(g, f, S)
  <2>1. ASSUME NEW s \in SUBSET S, s # {}
        PROVE  Count(r, CHOOSE x \in s : TRUE) = f[CHOOSE x \in s : TRUE]
    <3>1. (CHOOSE x \in s : TRUE) \in S
      BY <2>1
    <3>2. QED
      BY <3>1
  <2>2. [s \in SUBSET S |->
           IF s = {} THEN 0
           ELSE Count(r, CHOOSE x \in s : TRUE) + g[s \ {CHOOSE x \in s : TRUE}]]
        = [s \in SUBSET S |->
           IF s = {} THEN 0
           ELSE f[CHOOSE x \in s : TRUE] + g[s \ {CHOOSE x \in s : TRUE}]]
    BY <2>1
  <2>3. QED
    BY <2>2 DEF Folds
<1> DEFINE h == [s \in SUBSET S |-> Total(f, s)]
<1>4. Folds(h, f, S)
  BY <1>1, FoldThere
<1> HIDE DEF Added, h
<1>5. Added(CHOOSE g : Added(g))
  BY <1>3, <1>4
<1>6. (CHOOSE g : Added(g)) = h
  BY <1>1, <1>3, <1>4, <1>5, FoldUnique
<1>7. QED
  BY <1>2, <1>6 DEF h

\* AddUp adds up the same way ...
LEMMA AddUpIs ==
  ASSUME NEW n \in Nat, NEW f, \A m \in 0 .. n - 1 : f[m] \in Nat
  PROVE  AddUp(f, n) = Total(f, 0 .. n - 1)
<1> DEFINE S == 0 .. n - 1
           h == [s \in SUBSET S |-> Total(f, s)]
<1>1. IsFiniteSet(S)
  BY Below
<1>2. AddUp(f, n) = (CHOOSE g : Folds(g, f, S))[S]
  BY DEF AddUp, MapThenSumSet, MapThenFoldSet, Folds
<1>3. Folds(h, f, S)
  BY <1>1, FoldThere
<1> HIDE DEF h
<1>4. Folds(CHOOSE g : Folds(g, f, S), f, S)
  BY <1>3
<1>5. (CHOOSE g : Folds(g, f, S)) = h
  BY <1>1, <1>3, <1>4, FoldUnique
<1>6. QED
  BY <1>2, <1>5 DEF h

\* ... one after the other.
LEMMA AddUpNext ==
  ASSUME NEW n \in Nat, NEW f, \A m \in 0 .. n : f[m] \in Nat
  PROVE  /\ AddUp(f, 0) = 0 /\ AddUp(f, n) \in Nat
         /\ AddUp(f, n + 1) = AddUp(f, n) + f[n]
<1>1. n + 1 - 1 = n /\ n + 1 \in Nat /\ (0 .. n) \ {n} = 0 .. n - 1
  OBVIOUS
<1>2. AddUp(f, n) = Total(f, 0 .. n - 1)
  BY <1>1, AddUpIs
<1>3. AddUp(f, n + 1) = Total(f, 0 .. n)
  BY <1>1, AddUpIs
<1>4. AddUp(f, 0) = 0
  <2>1. Tally(f, {}) = {} /\ 0 .. 0 - 1 = {}
    BY DEF Tally
  <2>2. AddUp(f, 0) = Total(f, 0 .. 0 - 1)
    BY AddUpIs
  <2>3. QED
    BY <2>1, <2>2, FS_EmptySet DEF Total
<1>5. IsFiniteSet(Tally(f, 0 .. n - 1)) /\ Total(f, 0 .. n - 1) \in Nat
  <2>1. IsFiniteSet(0 .. n - 1)
    BY Below
  <2>2. QED
    BY <1>1, <2>1, TotalType
<1>6. Total(f, 0 .. n) = Total(f, 0 .. n - 1) + f[n]
  <2>1. n \in 0 .. n /\ f[n] \in Nat
    OBVIOUS
  <2>2. QED
    BY <1>1, <1>5, <2>1, TotalMore
<1>7. QED
  BY <1>2, <1>3, <1>4, <1>5, <1>6

-------------------------------------------------------------------------------
(***************************************************************************)
(* Choices of an expert: the places CalTokenSendExpertCnt counts.          *)
(***************************************************************************)
\* The place of a choice goes up by one after each choice of the expert.
LEMMA PicksMore ==
  ASSUME NEW r, NEW e, NEW i \in Nat
  PROVE  /\ PicksBefore(r, e, i) \in Nat /\ PicksBefore(r, e, 0) = 0
         /\ PicksBefore(r, e, i + 1)
              = PicksBefore(r, e, i) + (IF expertIds[r][i] = e THEN 1 ELSE 0)
<1> DEFINE Chosen(n) == {j \in 0 .. n - 1 : expertIds[r][j] = e}
<1>1. \A n \in Nat : IsFiniteSet(Chosen(n))
  <2>1. ASSUME NEW n \in Nat PROVE IsFiniteSet(Chosen(n))
    <3>1. IsFiniteSet(0 .. n - 1) /\ Chosen(n) \in SUBSET (0 .. n - 1)
      BY Below
    <3>2. QED
      BY <3>1, FS_Subset, Zenon
  <2>2. QED
    BY <2>1
<1>2. Chosen(0) = {}
  OBVIOUS
<1>3. Chosen(i + 1) = IF expertIds[r][i] = e THEN Chosen(i) \cup {i} ELSE Chosen(i)
  <2>1. \A j : j \in 0 .. i <=> j \in 0 .. i - 1 \/ j = i
    OBVIOUS
  <2>2. i + 1 - 1 = i
    OBVIOUS
  <2>3. QED
    BY <2>1, <2>2
<1>4. i \notin Chosen(i)
  OBVIOUS
<1>5. \A n \in Nat : PicksBefore(r, e, n) = Cardinality(Chosen(n))
  BY DEF PicksBefore
<1> HIDE DEF Chosen
<1>6. Cardinality(Chosen(i)) \in Nat /\ Cardinality(Chosen(0)) = 0
  BY <1>1, <1>2, FS_CardinalityType, FS_EmptySet
<1>7. Cardinality(Chosen(i) \cup {i}) = Cardinality(Chosen(i)) + 1
  BY <1>1, <1>4, FS_AddElement
<1>8. QED
  BY <1>3, <1>5, <1>6, <1>7

\* It never goes down.
LEMMA PicksGrow ==
  ASSUME NEW r, NEW e, NEW i \in Nat, NEW j \in Nat, i <= j
  PROVE  PicksBefore(r, e, i) <= PicksBefore(r, e, j)
<1> DEFINE S == {k \in 0 .. i - 1 : expertIds[r][k] = e}
           T == {k \in 0 .. j - 1 : expertIds[r][k] = e}
<1>1. S \in SUBSET T /\ T \in SUBSET (0 .. j - 1)
  OBVIOUS
<1>2. PicksBefore(r, e, i) = Cardinality(S) /\ PicksBefore(r, e, j) = Cardinality(T)
  BY DEF PicksBefore
<1> HIDE DEF S, T
<1>3. IsFiniteSet(T)
  BY <1>1, Below, FS_Subset
<1>4. QED
  BY <1>1, <1>2, <1>3, FS_Subset

\* Two choices of an expert have different places.
LEMMA PicksOnce ==
  ASSUME NEW r, NEW e, NEW i \in Nat, NEW j \in Nat,
         expertIds[r][i] = e, expertIds[r][j] = e,
         PicksBefore(r, e, i) = PicksBefore(r, e, j)
  PROVE  i = j
<1>1. ASSUME NEW a \in Nat, NEW b \in Nat, a < b, expertIds[r][a] = e
      PROVE  PicksBefore(r, e, a) < PicksBefore(r, e, b)
  <2>1. a + 1 \in Nat /\ a + 1 <= b
    BY <1>1
  <2>2. PicksBefore(r, e, a + 1) <= PicksBefore(r, e, b)
    BY <1>1, <2>1, PicksGrow
  <2>3. PicksBefore(r, e, a + 1) = PicksBefore(r, e, a) + 1 /\ PicksBefore(r, e, a) \in Nat
    BY <1>1, PicksMore
  <2>4. PicksBefore(r, e, b) \in Nat
    BY PicksMore
  <2>5. QED
    BY <2>2, <2>3, <2>4
<1>2. PicksBefore(r, e, i) \in Nat /\ PicksBefore(r, e, j) \in Nat
  BY PicksMore
<1>3. ~(i < j) /\ ~(j < i)
  BY <1>1, <1>2
<1>4. QED
  BY <1>3

\* Every place below the number of choices is that of some choice.
LEMMA PicksFound ==
  ASSUME NEW r, NEW e, NEW n \in Nat, NEW k \in Nat, k < PicksBefore(r, e, n)
  PROVE  \E i \in 0 .. n - 1 : expertIds[r][i] = e /\ PicksBefore(r, e, i) = k
<1> DEFINE Past == {i \in Nat : k < PicksBefore(r, e, i)}
<1>1. PICK m \in Past : \A i \in Past : m <= i
  <2>1. Past \in SUBSET Nat /\ n \in Past
    OBVIOUS
  <2> HIDE DEF Past
  <2>2. QED
    BY <2>1, Least
<1>2. m \in Nat /\ k < PicksBefore(r, e, m) /\ m <= n
  BY <1>1
<1>3. m # 0
  BY <1>2, PicksMore
<1>4. m - 1 \in Nat /\ ~(k < PicksBefore(r, e, m - 1)) /\ m - 1 + 1 = m
  BY <1>1, <1>2, <1>3
<1>5. /\ PicksBefore(r, e, m - 1) \in Nat
      /\ PicksBefore(r, e, m) = PicksBefore(r, e, m - 1)
                                  + (IF expertIds[r][m - 1] = e THEN 1 ELSE 0)
  BY <1>4, PicksMore
<1>6. expertIds[r][m - 1] = e /\ PicksBefore(r, e, m - 1) = k
  BY <1>2, <1>4, <1>5
<1>7. m - 1 \in 0 .. n - 1
  BY <1>2, <1>4
<1>8. QED
  BY <1>6, <1>7

\* Choices are numbered by token.
LEMMA TokenOfPick ==
  ASSUME NEW j \in Picks
  PROVE  j \div K \in Tokens /\ j \in Nat
<1>1. BS \in Nat \ {0} /\ K \in Nat \ {0} /\ BS * K \in Nat
  BY LayoutAssumption
<1>2. j \in Nat /\ j < BS * K
  BY <1>1 DEF Picks
<1>3. j \div K \in Nat
  BY <1>1, <1>2, DivNat
<1>4. j % K \in 0 .. K - 1 /\ j = K * (j \div K) + (j % K)
  <2>1. j \in Int
    BY <1>2
  <2>2. QED
    BY <1>1, <2>1, DivMod, Zenon
<1>5. j \div K < BS
  <2>1. SUFFICES ASSUME BS <= j \div K PROVE FALSE
    BY <1>1, <1>3
  <2> DEFINE d == j \div K
             x == j % K
  <2>2. BS \in Int /\ d \in Int /\ x \in 0 .. K - 1 /\ BS <= d /\ j = K * d + x
    BY <1>1, <1>3, <1>4, <2>1
  <2> HIDE DEF d, x
  <2>3. K * BS <= K * d
    BY <1>1, <2>2, MulMono
  <2>4. K * BS = BS * K /\ K * d \in Int
    BY <1>1, <2>2
  <2>5. QED
    BY <1>1, <1>2, <2>2, <2>3, <2>4
<1>6. QED
  BY <1>1, <1>2, <1>3, <1>5 DEF Tokens

\* A rank has at most as many choices of an expert as it has tokens.
LEMMA PicksFew ==
  ASSUME NEW r, NEW e, expertIds[r] \in Assignments, NEW i \in 0 .. BS * K
  PROVE  PicksBefore(r, e, i) <= BS
<1> DEFINE S == {j \in 0 .. i - 1 : expertIds[r][j] = e}
           T == Tokens
           token == [j \in S |-> j \div K]
<1>1. BS \in Nat \ {0} /\ BS * K \in Nat /\ i \in Nat
  BY LayoutAssumption
<1>2. ASSUME NEW j \in S PROVE j \in Picks /\ expertIds[r][j] = e
  BY <1>1 DEF Picks
<1>3. token \in Injection(S, T)
  <2>1. token \in [S -> T] /\ \A j \in S : token[j] = j \div K
    BY <1>2, TokenOfPick
  <2>2. ASSUME NEW j \in S, NEW k \in S, j \div K = k \div K PROVE j = k
    BY <1>2, <2>2 DEF Assignments
  <2> HIDE DEF token, S, T
  <2>3. QED
    BY <2>1, <2>2 DEF Injection, IsInjective
<1>4. PicksBefore(r, e, i) = Cardinality(S)
  BY DEF PicksBefore
<1>5. IsFiniteSet(T) /\ Cardinality(T) = BS
  BY <1>1, Below DEF Tokens
<1> HIDE DEF S, T, token
<1>6. Cardinality(S) <= BS
  BY <1>3, <1>5, FS_Injection
<1>7. QED
  BY <1>4, <1>6

-------------------------------------------------------------------------------
(***************************************************************************)
(* Shared experts: the tokens of all ranks, one rank after the other, are  *)
(* dealt out in runs, of which Dealt(x) ends the x-th.                     *)
(***************************************************************************)
\* A quotient is the only number its bounds allow.
LEMMA DivIs ==
  ASSUME NEW b \in Int, NEW n \in Nat \ {0}, NEW q \in Int
  PROVE  b \div n = q <=> n * q <= b /\ b < n * q + n
<1> DEFINE d == b \div n
<1>1. d \in Int /\ b % n \in 0 .. n - 1 /\ b = n * d + (b % n)
  BY DivMod, Zenon
<1>2. n * d \in Int /\ n * q \in Int
  OBVIOUS
<1> HIDE DEF d
<1>3. n * d <= b /\ b < n * d + n
  BY <1>1, <1>2
<1>4. ASSUME n * q <= b, b < n * q + n PROVE d = q
  <2>1. CASE d < q
    <3>1. n * (d + 1) <= n * q /\ n * (d + 1) = n * d + n
      BY <1>1, <2>1, MulMono, MulSucc
    <3>2. QED
      BY <1>2, <1>3, <1>4, <3>1
  <2>2. CASE q < d
    <3>1. n * (q + 1) <= n * d /\ n * (q + 1) = n * q + n
      BY <1>1, <2>2, MulMono, MulSucc
    <3>2. QED
      BY <1>2, <1>3, <1>4, <3>1
  <2>3. QED
    BY <1>1, <2>1, <2>2
<1>5. QED
  BY <1>3, <1>4 DEF d

\* So is a quotient rounded up.
LEMMA CeilIs ==
  ASSUME NEW a \in Int, NEW n \in Nat \ {0}, NEW q \in Int
  PROVE  CeilDiv(a, n) = q <=> n * (q - 1) < a /\ a <= n * q
<1>1. n * q \in Int /\ n * (q - 1) \in Int /\ n * q = n * (q - 1) + n
  <2>1. n * (q - 1 + 1) = n * (q - 1) + n
    BY MulSucc
  <2>2. QED
    BY <2>1
<1>2. a + n - 1 \in Int
  OBVIOUS
<1>3. CeilDiv(a, n) = q <=> n * q <= a + n - 1 /\ a + n - 1 < n * q + n
  BY <1>2, DivIs, Zenon DEF CeilDiv
<1>4. QED
  BY <1>1, <1>3

Dealt(x) == (x * BS) \div Shared

\* A number of tokens is no more than what x runs hold exactly if it is, in units
\* of a run, no more than x.
LEMMA DealtCut ==
  ASSUME Shared # 0, NEW x \in Nat, NEW y \in Nat
  PROVE  /\ Dealt(y) \in Nat
         /\ Shared * x <= BS * y <=> x <= Dealt(y)
<1> DEFINE d == Dealt(y)
<1>1. Shared \in Nat \ {0} /\ BS \in Nat \ {0} /\ BS * y \in Nat /\ y * BS = BS * y
  BY LayoutAssumption
<1>2. Dealt(y) \in Nat
  BY <1>1, DivNat DEF Dealt
<1>3. Shared * d <= BS * y /\ BS * y < Shared * d + Shared
  <2>1. BS * y \in Int /\ d \in Int /\ (BS * y) \div Shared = d
    BY <1>1, <1>2 DEF Dealt
  <2> HIDE DEF d
  <2>2. QED
    BY <1>1, <2>1, DivIs
<1> HIDE DEF d
<1>4. d \in Nat /\ Shared * d \in Int /\ Shared * x \in Int
  BY <1>1, <1>2 DEF d
<1>5. CASE x <= d
  <2>1. Shared * x <= Shared * d
    BY <1>1, <1>4, <1>5, MulMono
  <2>2. QED
    BY <1>1, <1>2, <1>3, <1>4, <1>5, <2>1 DEF d
<1>6. CASE d < x
  <2>1. Shared * (d + 1) <= Shared * x /\ Shared * (d + 1) = Shared * d + Shared
    BY <1>1, <1>4, <1>6, MulMono, MulSucc
  <2>2. QED
    BY <1>1, <1>2, <1>3, <1>4, <1>6, <2>1 DEF d
<1>7. QED
  BY <1>4, <1>5, <1>6

\* Runs end one after the other, and Shared of them hold the tokens of one rank.
LEMMA DealtRuns ==
  ASSUME Shared # 0, NEW x \in Nat, NEW y \in Nat
  PROVE  /\ x <= y => Dealt(x) <= Dealt(y)
         /\ Dealt(x + Shared) = Dealt(x) + BS
         /\ Dealt(0) = 0
<1>1. Shared \in Nat \ {0} /\ BS \in Nat \ {0} /\ Dealt(x) \in Nat /\ Dealt(y) \in Nat
  BY LayoutAssumption, DealtCut
<1>2. ASSUME x <= y PROVE Dealt(x) <= Dealt(y)
  <2>1. BS * x <= BS * y
    BY <1>1, <1>2, MulMono
  <2>2. Shared * Dealt(x) <= BS * x
    BY <1>1, DealtCut
  <2>3. Shared * Dealt(x) \in Int /\ BS * x \in Int /\ BS * y \in Int
    BY <1>1
  <2>4. Shared * Dealt(x) <= BS * y
    BY <2>1, <2>2, <2>3
  <2>5. QED
    BY <1>1, <2>4, DealtCut
<1>3. Dealt(x + Shared) = Dealt(x) + BS
  <2> DEFINE d == Dealt(x)
             b == x * BS
  <2>1. b \in Int /\ d \in Int /\ (x + Shared) * BS = b + Shared * BS /\ Shared * BS \in Int
    BY <1>1
  <2>2. Shared * d <= b /\ b < Shared * d + Shared
    <3>1. b \div Shared = d
      BY DEF Dealt
    <3> HIDE DEF b, d
    <3>2. QED
      BY <1>1, <2>1, <3>1, DivIs
  <2> HIDE DEF b, d
  <2>3. Shared * (d + BS) = Shared * d + Shared * BS /\ Shared * d \in Int
    BY <1>1, <2>1
  <2>4. b + Shared * BS \in Int /\ d + BS \in Int
    BY <1>1, <2>1
  <2>5. /\ Shared * (d + BS) <= b + Shared * BS
        /\ b + Shared * BS < Shared * (d + BS) + Shared
    BY <1>1, <2>1, <2>2, <2>3
  <2>6. (b + Shared * BS) \div Shared = d + BS
    BY <1>1, <2>4, <2>5, DivIs
  <2>7. QED
    BY <2>1, <2>6 DEF Dealt, d
<1>4. Dealt(0) = 0
  <2>1. 0 * BS = 0 /\ Shared * 0 = 0
    BY <1>1
  <2>2. 0 \div Shared = 0
    BY <1>1, <2>1, DivIs
  <2>3. QED
    BY <2>1, <2>2 DEF Dealt
<1>5. QED
  BY <1>2, <1>3, <1>4

\* What a rank sends a shared expert is one run, and begins where the run before ends.
LEMMA SharedRun ==
  ASSUME Shared # 0, NEW r \in Nat, NEW k \in Nat
  PROVE  /\ SharedBefore(r, k) = Dealt(k + r) - Dealt(r)
         /\ SharedCount(r, k) = Dealt(k + r + 1) - Dealt(k + r)
         /\ SharedBefore(r, k) \in Nat /\ SharedCount(r, k) \in 0 .. BS
<1>1. k + 1 + r = k + r + 1 /\ k + r \in Nat /\ k + r + 1 \in Nat
  OBVIOUS
<1>2. /\ SharedBefore(r, k) = Dealt(k + r) - Dealt(r)
      /\ SharedCount(r, k) = Dealt(k + r + 1) - Dealt(k + r)
  BY <1>1 DEF SharedBefore, SharedBase, SharedCount, Dealt
<1>3. /\ Dealt(r) \in Nat /\ Dealt(k + r) \in Nat /\ Dealt(k + r + 1) \in Nat
      /\ Dealt(r) <= Dealt(k + r) /\ Dealt(k + r) <= Dealt(k + r + 1)
  <2>1. r <= k + r /\ k + r <= k + r + 1
    OBVIOUS
  <2>2. QED
    BY <1>1, <2>1, DealtCut, DealtRuns
<1>4. Dealt(k + r + 1) <= Dealt(k + r) + BS
  <2>1. k + r + 1 <= k + r + Shared /\ k + r + Shared \in Nat
    BY LayoutAssumption
  <2>2. QED
    BY <1>1, <2>1, DealtRuns
<1>5. QED
  BY <1>2, <1>3, <1>4, LayoutAssumption

\* The expert of a token is the one in whose run it is: what a sender computes for a
\* token agrees with where it places it, and with the count it tells the expert.
LEMMA SharedExpertIs ==
  ASSUME Shared # 0, NEW r \in Nat, NEW t \in Tokens, NEW d \in Nat
  PROVE  SharedExpertOf(r, t) = d <=>
           SharedBefore(r, d) <= t /\ t < SharedBefore(r, d) + SharedCount(r, d)
<1> DEFINE x == t + 1 + Dealt(r)
           q == d + r + 1
<1>1. /\ Shared \in Nat \ {0} /\ BS \in Nat \ {0} /\ t \in Nat /\ Dealt(r) \in Nat
      /\ x \in Nat /\ d + r \in Nat /\ q \in Nat
  BY LayoutAssumption, DealtCut DEF Tokens
<1>2. SharedExpertOf(r, t) = d <=> CeilDiv(x * Shared, BS) = q
  <2>1. SharedExpertOf(r, t) = CeilDiv(x * Shared, BS) - 1 - r
    BY DEF SharedExpertOf, Dealt
  <2>2. CeilDiv(x * Shared, BS) \in Int
    <3>1. x * Shared + BS - 1 \in Int
      BY <1>1
    <3>2. QED
      BY <1>1, <3>1, DivMod, Zenon DEF CeilDiv
  <2> HIDE DEF x
  <2>3. QED
    BY <1>1, <2>1, <2>2
<1>3. CeilDiv(x * Shared, BS) = q <=> BS * (d + r) < Shared * x /\ Shared * x <= BS * q
  <2>1. x * Shared = Shared * x /\ x * Shared \in Int /\ q - 1 = d + r /\ q \in Int
    BY <1>1
  <2> HIDE DEF x, q
  <2>2. CeilDiv(x * Shared, BS) = q <=> BS * (q - 1) < x * Shared /\ x * Shared <= BS * q
    BY <1>1, <2>1, CeilIs
  <2>3. QED
    BY <2>1, <2>2
<1>4. BS * (d + r) < Shared * x <=> Dealt(d + r) < x
  <2>1. Shared * x <= BS * (d + r) <=> x <= Dealt(d + r)
    BY <1>1, DealtCut
  <2>2. Dealt(d + r) \in Nat /\ Shared * x \in Int /\ BS * (d + r) \in Int
    BY <1>1, DealtCut
  <2> HIDE DEF x
  <2>3. QED
    BY <1>1, <2>1, <2>2
<1>5. Shared * x <= BS * q <=> x <= Dealt(q)
  BY <1>1, DealtCut
<1>6. Dealt(d + r) \in Nat /\ Dealt(q) \in Nat
  BY <1>1, DealtCut
<1>7. SharedExpertOf(r, t) = d <=> Dealt(d + r) < x /\ x <= Dealt(q)
  BY <1>2, <1>3, <1>4, <1>5
<1>8. /\ SharedBefore(r, d) = Dealt(d + r) - Dealt(r)
      /\ SharedCount(r, d) = Dealt(q) - Dealt(d + r)
  BY SharedRun
<1> HIDE DEF q
<1>9. Dealt(d + r) < x /\ x <= Dealt(q) <=>
        Dealt(d + r) - Dealt(r) <= t
        /\ t < Dealt(d + r) - Dealt(r) + (Dealt(q) - Dealt(d + r))
  BY <1>1, <1>6
<1>10. QED
  BY <1>7, <1>8, <1>9

\* Every token has one among the shared experts.
LEMMA SharedExpertThere ==
  ASSUME Shared # 0, NEW r \in Nat, NEW t \in Tokens
  PROVE  SharedExpertOf(r, t) \in 0 .. Shared - 1
<1>1. Shared \in Nat \ {0} /\ BS \in Nat \ {0} /\ t \in Nat /\ t < BS /\ Dealt(r) \in Nat
  BY LayoutAssumption, DealtCut DEF Tokens
<1> DEFINE Past == {d \in Nat : t < SharedBefore(r, d) + SharedCount(r, d)}
<1>2. \A d \in Nat : /\ SharedBefore(r, d) + SharedCount(r, d) = SharedBefore(r, d + 1)
                     /\ SharedBefore(r, d) \in Nat /\ SharedCount(r, d) \in Nat
  <2>1. ASSUME NEW d \in Nat
        PROVE  /\ SharedBefore(r, d) + SharedCount(r, d) = SharedBefore(r, d + 1)
               /\ SharedBefore(r, d) \in Nat /\ SharedCount(r, d) \in Nat
    <3>1. d + 1 + r = d + r + 1 /\ d + r \in Nat /\ d + r + 1 \in Nat
      OBVIOUS
    <3>2. Dealt(d + r) \in Nat /\ Dealt(d + r + 1) \in Nat
      BY <3>1, DealtCut
    <3>3. /\ SharedBefore(r, d) = Dealt(d + r) - Dealt(r)
          /\ SharedBefore(r, d + 1) = Dealt(d + r + 1) - Dealt(r)
          /\ SharedCount(r, d) = Dealt(d + r + 1) - Dealt(d + r)
          /\ SharedBefore(r, d) \in Nat /\ SharedCount(r, d) \in Nat
      <4>1. /\ SharedBefore(r, d + 1) = Dealt(d + 1 + r) - Dealt(r)
            /\ d + 1 \in Nat
        BY SharedRun
      <4>2. /\ SharedBefore(r, d) = Dealt(d + r) - Dealt(r)
            /\ SharedCount(r, d) = Dealt(d + r + 1) - Dealt(d + r)
            /\ SharedBefore(r, d) \in Nat /\ SharedCount(r, d) \in 0 .. BS
        BY SharedRun
      <4>3. QED
        BY <1>1, <3>1, <4>1, <4>2
    <3>4. QED
      BY <1>1, <3>2, <3>3
  <2>2. QED
    BY <2>1
<1>3. SharedBefore(r, 0) = 0 /\ SharedBefore(r, Shared) = BS
  <2>1. 0 + r = r /\ Shared + r = r + Shared
    BY <1>1
  <2>2. QED
    BY <1>1, <2>1, SharedRun, DealtRuns
<1>4. Shared - 1 \in Past
  <2>1. Shared - 1 \in Nat /\ Shared - 1 + 1 = Shared
    BY <1>1
  <2>2. QED
    BY <1>1, <1>2, <1>3, <2>1
<1>5. PICK d \in Past : \A e \in Past : d <= e
  <2>1. Past \in SUBSET Nat /\ Past # {}
    BY <1>4
  <2> HIDE DEF Past
  <2>2. QED
    BY <2>1, Least
<1>6. d \in 0 .. Shared - 1
  BY <1>1, <1>4, <1>5
<1>7. SharedBefore(r, d) <= t
  <2>1. CASE d = 0
    BY <1>1, <1>3, <2>1
  <2>2. CASE d # 0
    <3>1. d - 1 \in Nat /\ d - 1 \notin Past /\ d - 1 + 1 = d
      BY <1>5, <2>2
    <3>2. ~(t < SharedBefore(r, d))
      BY <1>2, <3>1
    <3>3. QED
      BY <1>1, <1>2, <3>2
  <2>3. QED
    BY <2>1, <2>2
<1>8. QED
  BY <1>5, <1>6, <1>7, SharedExpertIs

-------------------------------------------------------------------------------
(***************************************************************************)
(* The words of a rank: each stands for one sender and one expert.         *)
(***************************************************************************)
LEMMA Sizes ==
  /\ R \in Nat \ {0} /\ C \in Nat \ {0} /\ M \in Nat \ {0} /\ K \in Nat \ {0}
  /\ BS \in Nat \ {0} /\ Shared \in Nat /\ Shared < R
  /\ Routable
BY LayoutAssumption DEF Routable

\* high blocks of n and a number below n.
LEMMA Within ==
  ASSUME NEW n \in Nat \ {0}, NEW h \in Nat, NEW low \in 0 .. n - 1,
         NEW high \in 0 .. h - 1
  PROVE  low + high * n \in 0 .. h * n - 1 /\ high * n \in Nat
<1>1. high \in Int /\ high + 1 \in Int /\ h \in Int /\ n \in Int /\ high + 1 <= h
  OBVIOUS
<1>2. n * (high + 1) <= n * h
  BY <1>1, MulMono
<1>3. n * (high + 1) = n * high + n
  BY <1>1, MulSucc
<1>4. high * n = n * high /\ h * n = n * h /\ n * high \in Nat /\ n * h \in Nat
  BY <1>1
<1>5. QED
  BY <1>2, <1>3, <1>4

LEMMA Parts ==
  ASSUME NEW n \in Nat \ {0}, NEW h \in Nat, NEW a \in 0 .. h * n - 1
  PROVE  /\ a \div n \in 0 .. h - 1 /\ a % n \in 0 .. n - 1
         /\ a = (a % n) + (a \div n) * n
<1>1. h * n \in Nat /\ h * n = n * h
  OBVIOUS
<1>2. a \in Nat /\ a < n * h
  BY <1>1
<1>3. PICK q \in Nat : q = a \div n
  BY <1>2, DivNat
<1>4. a % n \in 0 .. n - 1 /\ a = n * q + (a % n)
  <2>1. a \in Int
    BY <1>2
  <2>2. QED
    BY <1>3, <2>1, DivMod, Zenon
<1>5. PICK x \in 0 .. n - 1 : x = a % n
  BY <1>4
<1>6. n * q \in Nat /\ q * n = n * q
  BY <1>3
<1>7. q < h
  <2>1. SUFFICES ASSUME h <= q PROVE FALSE
    OBVIOUS
  <2>2. n * h <= n * q
    BY <2>1, MulMono
  <2>3. QED
    BY <1>1, <1>2, <1>4, <1>5, <1>6, <2>2
<1>8. QED
  BY <1>3, <1>4, <1>6, <1>7

LEMMA Inboxes ==
  ASSUME NEW r \in Ranks
  PROVE  /\ r \in Nat /\ r < R
         /\ InboxSize(r) \in Nat \ {0} /\ InboxSize(r) <= R * M /\ R * M \in Nat
         /\ 0 .. InboxSize(r) - 1 \subseteq Words
         /\ R * M * BS \in Nat
<1>1. R \in Nat \ {0} /\ M \in Nat \ {0} /\ BS \in Nat
  BY Sizes
<1>2. R * M \in Nat /\ R <= R * M
  <2>1. R * 1 <= R * M
    BY <1>1, MulMono
  <2>2. QED
    BY <1>1, <2>1
<1>3. InboxSize(r) \in Nat \ {0} /\ InboxSize(r) <= R * M
  <2>1. R * M # 0
    BY <1>1, <1>2
  <2>2. QED
    BY <1>1, <1>2, <2>1 DEF InboxSize
<1>4. R * M * BS \in Nat
  <2>1. PICK a \in Nat : a = R * M
    BY <1>2
  <2>2. a * BS \in Nat
    BY <1>1
  <2>3. QED
    BY <2>1, <2>2
<1>5. QED
  BY <1>1, <1>2, <1>3, <1>4 DEF Ranks, Words

\* The word of a sender and an expert tells both ...
LEMMA WordIs ==
  ASSUME NEW s \in Ranks, NEW e \in Experts
  PROVE  /\ Home(e) \in Ranks
         /\ Home(e) < Shared <=> e < Shared
         /\ StatusIndex(<<s, e>>) \in 0 .. InboxSize(Home(e)) - 1
         /\ WordSender(Home(e), StatusIndex(<<s, e>>)) = s
         /\ WordExpert(Home(e), StatusIndex(<<s, e>>)) = e
<1>1. /\ R \in Nat \ {0} /\ M \in Nat \ {0} /\ Shared \in Nat /\ Shared < R
      /\ s \in 0 .. R - 1
  BY Sizes DEF Ranks
<1>2. CASE e < Shared
  BY <1>1, <1>2 DEF Ranks, Experts, Home, StatusIndex, InboxSize, WordSender, WordExpert
<1>3. CASE ~(e < Shared)
  <2>1. PICK h \in Nat : h = R - Shared
    BY <1>1
  <2>2. PICK x \in 0 .. h * M - 1 : x = e - Shared
    <3>1. h * M \in Nat /\ e \in 0 .. Shared + h * M - 1
      BY <1>1, <2>1 DEF Experts, ExpertNum
    <3>2. QED
      BY <1>1, <1>3, <3>1
  <2>3. PICK y \in 0 .. h - 1, m \in 0 .. M - 1 :
          y = x \div M /\ m = x % M /\ x = m + y * M
    BY <1>1, Parts
  <2>4. Home(e) = y + Shared
    BY <1>3, <2>2, <2>3 DEF Home
  <2>5. Home(e) \in Ranks /\ ~(Home(e) < Shared)
    BY <1>1, <2>1, <2>4 DEF Ranks
  <2>6. StatusIndex(<<s, e>>) = s + m * R
    BY <1>3, <2>2, <2>3 DEF StatusIndex
  <2>7. s + m * R \in 0 .. M * R - 1
    BY <1>1, Within
  <2>8. (s + m * R) \div R = m /\ (s + m * R) % R = s
    BY <1>1, Digits
  <2>9. InboxSize(Home(e)) = M * R
    BY <1>1, <2>5 DEF InboxSize
  <2>10. WordSender(Home(e), StatusIndex(<<s, e>>)) = s
    BY <2>5, <2>6, <2>8 DEF WordSender
  <2>11. WordExpert(Home(e), StatusIndex(<<s, e>>)) = e
    <3>1. Home(e) - Shared = y /\ y * M \in Int /\ m \in Int /\ e \in Int
      BY <1>1, <2>3, <2>4 DEF Experts, ExpertNum
    <3>2. StatusIndex(<<s, e>>) \div R = m
      BY <2>6, <2>8
    <3>3. WordExpert(Home(e), StatusIndex(<<s, e>>)) = Shared + y * M + m
      BY <2>5, <3>1, <3>2 DEF WordExpert
    <3>4. QED
      BY <1>1, <2>2, <2>3, <3>1, <3>3
  <2>12. QED
    BY <1>3, <2>5, <2>6, <2>7, <2>9, <2>10, <2>11
<1>4. QED
  BY <1>2, <1>3

\* ... and every word is that of one.
LEMMA WordThere ==
  ASSUME NEW r \in Ranks, NEW n \in 0 .. InboxSize(r) - 1
  PROVE  /\ WordSender(r, n) \in Ranks /\ WordExpert(r, n) \in Experts
         /\ Home(WordExpert(r, n)) = r
         /\ StatusIndex(<<WordSender(r, n), WordExpert(r, n)>>) = n
<1>1. /\ R \in Nat \ {0} /\ M \in Nat \ {0} /\ Shared \in Nat /\ Shared < R
      /\ r \in 0 .. R - 1
  BY Sizes DEF Ranks
<1>2. CASE r < Shared
  <2>1. n \in Ranks
    BY <1>2 DEF InboxSize, Ranks
  <2>2. r \in Experts
    <3>1. (R - Shared) * M \in Nat
      <4>1. R - Shared \in Nat
        BY <1>1
      <4>2. QED
        BY <1>1, <4>1
    <3>2. QED
      BY <1>1, <1>2, <3>1 DEF Experts, ExpertNum
  <2>3. QED
    BY <1>2, <2>1, <2>2 DEF WordSender, WordExpert, Home, StatusIndex
<1>3. CASE ~(r < Shared)
  <2>1. PICK h \in Nat : h = R - Shared
    BY <1>1
  <2>2. n \in 0 .. M * R - 1
    BY <1>1, <1>3 DEF InboxSize
  <2>3. PICK m \in 0 .. M - 1, s \in 0 .. R - 1 :
          m = n \div R /\ s = n % R /\ n = s + m * R
    BY <1>1, <2>2, Parts
  <2>4. PICK y \in 0 .. h - 1 : y = r - Shared
    BY <1>1, <1>3, <2>1
  <2>5. m + y * M \in 0 .. h * M - 1 /\ y * M \in Nat /\ h * M \in Nat
    <3>1. h * M \in Nat
      BY <1>1, <2>1
    <3>2. QED
      BY <1>1, <3>1, Within
  <2>6. WordSender(r, n) = s /\ WordExpert(r, n) = Shared + (m + y * M)
    <3>1. WordExpert(r, n) = Shared + y * M + m
      BY <1>3, <2>3, <2>4 DEF WordExpert
    <3>2. QED
      BY <1>1, <1>3, <2>3, <2>5, <3>1 DEF WordSender
  <2>7. (m + y * M) \div M = y /\ (m + y * M) % M = m
    BY <1>1, Digits
  <2> DEFINE x == m + y * M
             e == Shared + x
  <2>8. x \in 0 .. h * M - 1 /\ x \div M = y /\ x % M = m
    BY <2>5, <2>7
  <2> HIDE DEF x
  <2>9. e - Shared = x /\ ~(e < Shared)
    BY <1>1, <2>5, <2>8
  <2>10. e \in Experts
    BY <1>1, <2>1, <2>5, <2>8 DEF Experts, ExpertNum
  <2>11. Home(e) = y + Shared
    BY <2>8, <2>9 DEF Home
  <2>12. StatusIndex(<<s, e>>) = s + m * R
    BY <2>8, <2>9 DEF StatusIndex
  <2> HIDE DEF e
  <2>13. WordExpert(r, n) = e
    BY <2>6 DEF e, x
  <2>14. QED
    BY <1>1, <2>3, <2>4, <2>6, <2>10, <2>11, <2>12, <2>13 DEF Ranks
<1>4. QED
  BY <1>2, <1>3

\* Words have regions of their own.
LEMMA RegionOnce ==
  ASSUME NEW r \in Ranks, NEW n \in 0 .. InboxSize(r) - 1,
         NEW m \in 0 .. InboxSize(r) - 1, Region(r, n) = Region(r, m)
  PROVE  n = m
<1> DEFINE s == WordSender(r, n)
           e == WordExpert(r, n)
           t == WordSender(r, m)
           f == WordExpert(r, m)
<1>1. /\ s \in Ranks /\ e \in Experts /\ Home(e) = r /\ StatusIndex(<<s, e>>) = n
      /\ t \in Ranks /\ f \in Experts /\ Home(f) = r /\ StatusIndex(<<t, f>>) = m
  BY WordThere
<1> HIDE DEF s, e, t, f
<1>2. SUFFICES ASSUME <<s, e>> # <<t, f>> PROVE FALSE
  BY <1>1
<1>3. Region(Home(e), StatusIndex(<<s, e>>)) # Region(Home(f), StatusIndex(<<t, f>>))
  <2>1. Routable /\ Home(e) = Home(f)
    BY <1>1, Sizes
  <2>2. QED
    BY <1>1, <1>2, <2>1, WordsApart
<1>4. QED
  BY <1>1, <1>3

\* The region of a word lies in the window.
LEMMA RegionIn ==
  ASSUME NEW r \in Ranks, NEW n \in 0 .. InboxSize(r) - 1
  PROVE  Region(r, n) \in 0 .. R * M - 1
<1> DEFINE s == WordSender(r, n)
           e == WordExpert(r, n)
<1>1. s \in Ranks /\ e \in Experts /\ Home(e) = r /\ StatusIndex(<<s, e>>) = n
  BY WordThere
<1> HIDE DEF s, e
<1>2. Region(r, n) = IF e < Shared THEN s ELSE s * M + ((e - Shared) % M)
  BY <1>1, Sizes, RegionOfWord
<1>3. R \in Nat \ {0} /\ M \in Nat \ {0} /\ Shared \in Nat /\ s \in 0 .. R - 1 /\ e \in Int
  BY <1>1, Sizes DEF Ranks, Experts
<1>4. R <= R * M /\ R * M \in Nat
  <2>1. R * 1 <= R * M
    BY <1>3, MulMono
  <2>2. QED
    BY <1>3, <2>1
<1>5. CASE e < Shared
  BY <1>2, <1>3, <1>4, <1>5
<1>6. CASE ~(e < Shared)
  <2>1. PICK m \in 0 .. M - 1 : m = (e - Shared) % M
    <3>1. e - Shared \in Int
      BY <1>3
    <3>2. QED
      BY <1>3, <3>1, DivMod, Zenon
  <2>2. m + s * M \in 0 .. R * M - 1 /\ s * M \in Nat
    BY <1>3, Within
  <2>3. QED
    BY <1>2, <1>6, <2>1, <2>2
<1>7. QED
  BY <1>5, <1>6

-------------------------------------------------------------------------------
(***************************************************************************)
(* Tokens: each belongs to one place of one word of each rank it goes to.  *)
(***************************************************************************)
\* Some cores send to the MoE experts, and some to the shared ones if there are any.
LEMMA CoreSplit ==
  /\ SharedCores \in Nat /\ C - SharedCores \in Nat \ {0}
  /\ Shared # 0 => SharedCores \in Nat \ {0}
<1>1. C \in Nat \ {0} /\ K \in Nat \ {0} /\ K + 1 \in Nat \ {0} /\ (Shared # 0 => C > 1)
  BY LayoutAssumption
<1>2. PICK q \in Nat : q = C \div (K + 1)
  BY <1>1, DivNat
<1>3. (K + 1) * q <= C
  <2>1. C \in Int /\ q \in Int
    BY <1>1
  <2>2. QED
    BY <1>1, <1>2, <2>1, DivIs
<1>4. q + q <= C
  <2>1. q * 2 <= q * (K + 1)
    BY <1>1, MulMono
  <2>2. q * (K + 1) = (K + 1) * q /\ q * (K + 1) \in Int /\ q * 2 = q + q
    BY <1>1
  <2>3. QED
    BY <1>1, <1>3, <2>1, <2>2
<1>5. SharedCores = IF Shared = 0 THEN 0 ELSE IF q = 0 THEN 1 ELSE q
  BY <1>2 DEF SharedCores
<1>6. QED
  BY <1>1, <1>4, <1>5

\* The expert of a choice, numbered among all experts.
LEMMA PickWord ==
  ASSUME expertIds \in [Ranks -> Assignments], NEW s \in Ranks, NEW i \in Picks,
         NEW e, e = expertIds[s][i], NEW x, x = e + Shared
  PROVE  /\ e \in Nat /\ x \in Experts /\ x - Shared = e /\ ~(x < Shared)
         /\ Home(x) = RankOf(e) /\ RankOf(e) \in Ranks /\ ~(RankOf(e) < Shared)
<1>1. e \in MoeExperts
  BY DEF Assignments
<1>2. R \in Nat \ {0} /\ M \in Nat \ {0} /\ Shared \in Nat /\ Shared < R
  BY Sizes
<1>3. PICK b \in Nat : b = (R - Shared) * M
  <2>1. R - Shared \in Nat
    BY <1>2
  <2>2. QED
    BY <1>2, <2>1
<1>4. e \in 0 .. b - 1
  BY <1>1, <1>3 DEF MoeExperts
<1>5. x \in Experts
  BY <1>2, <1>3, <1>4 DEF Experts, ExpertNum
<1>6. e \in Nat /\ x - Shared = e /\ ~(x < Shared)
  BY <1>2, <1>4
<1>7. Home(x) = RankOf(e)
  BY <1>6 DEF Home, RankOf
<1>8. RankOf(e) \in Ranks /\ ~(RankOf(e) < Shared)
  <2>1. 0 \in Ranks
    BY <1>2 DEF Ranks
  <2>2. Home(x) \in Ranks /\ (Home(x) < Shared <=> x < Shared)
    BY <1>5, <2>1, WordIs
  <2>3. QED
    BY <1>6, <1>7, <2>2
<1>9. QED
  BY <1>5, <1>6, <1>7, <1>8

\* What the words count.
LEMMA CountsType ==
  ASSUME expertIds \in [Ranks -> Assignments], NEW r \in Ranks,
         NEW n \in 0 .. InboxSize(r) - 1
  PROVE  /\ Counts(r)[n] \in 0 .. BS /\ Counts(r)[n] \in Nat
         /\ Counts(r)[n] =
              IF r < Shared THEN SharedCount(n, r)
              ELSE PicksBefore(WordSender(r, n), WordExpert(r, n) - Shared, BS * K)
<1>1. /\ Shared \in Nat /\ r \in Nat /\ n \in Nat /\ BS \in Nat
      /\ BS * K \in Nat /\ BS * K \in 0 .. BS * K
  <2>1. BS * K \in Nat
    BY Sizes
  <2>2. QED
    BY <2>1, Sizes, Inboxes
<1>2. Counts(r)[n] =
        IF r < Shared THEN SharedCount(n, r)
        ELSE PicksBefore(WordSender(r, n), WordExpert(r, n) - Shared, BS * K)
  BY DEF Counts
<1>3. CASE r < Shared
  <2>1. Shared # 0
    BY <1>1, <1>3
  <2>2. SharedCount(n, r) \in 0 .. BS
    BY <1>1, <2>1, SharedRun
  <2>3. QED
    BY <1>1, <1>2, <1>3, <2>2
<1>4. CASE ~(r < Shared)
  <2> DEFINE s == WordSender(r, n)
             e == WordExpert(r, n) - Shared
  <2>1. s \in Ranks
    BY WordThere
  <2> HIDE DEF s, e
  <2>2. PicksBefore(s, e, BS * K) \in Nat /\ PicksBefore(s, e, BS * K) <= BS
    <3>1. expertIds[s] \in Assignments
      BY <2>1
    <3>2. QED
      BY <1>1, <3>1, PicksMore, PicksFew
  <2>3. QED
    BY <1>1, <1>2, <1>4, <2>2 DEF s, e
<1>5. QED
  BY <1>3, <1>4

\* A place below the count is that of one choice ...
LEMMA PickAtIs ==
  ASSUME NEW s, NEW e, NEW k \in Nat, k < PicksBefore(s, e, BS * K)
  PROVE  /\ PickAt(s, e, k) \in Picks /\ expertIds[s][PickAt(s, e, k)] = e
         /\ PicksBefore(s, e, PickAt(s, e, k)) = k
<1>1. BS * K \in Nat
  BY Sizes
<1>2. \E i \in Picks : expertIds[s][i] = e /\ PicksBefore(s, e, i) = k
  BY <1>1, PicksFound DEF Picks
<1>3. QED
  BY <1>2 DEF PickAt

\* ... and a choice has a place below the count.
LEMMA PlaceIs ==
  ASSUME NEW s, NEW e, NEW i \in Picks, expertIds[s][i] = e
  PROVE  /\ PicksBefore(s, e, i) \in Nat
         /\ PicksBefore(s, e, i) < PicksBefore(s, e, BS * K)
         /\ PickAt(s, e, PicksBefore(s, e, i)) = i
<1>1. BS * K \in Nat /\ i \in Nat /\ i + 1 \in Nat /\ i + 1 <= BS * K
  <2>1. BS * K \in Nat
    BY Sizes
  <2>2. QED
    BY <2>1 DEF Picks
<1>2. PicksBefore(s, e, i + 1) = PicksBefore(s, e, i) + 1 /\ PicksBefore(s, e, i) \in Nat
  BY <1>1, PicksMore
<1>3. PicksBefore(s, e, i + 1) <= PicksBefore(s, e, BS * K)
  BY <1>1, PicksGrow
<1>4. PicksBefore(s, e, BS * K) \in Nat
  BY <1>1, PicksMore
<1>5. PicksBefore(s, e, i) < PicksBefore(s, e, BS * K)
  BY <1>2, <1>3, <1>4
<1> DEFINE j == PickAt(s, e, PicksBefore(s, e, i))
<1>6. j \in Picks /\ expertIds[s][j] = e /\ PicksBefore(s, e, j) = PicksBefore(s, e, i)
  BY <1>2, <1>5, PickAtIs
<1> HIDE DEF j
<1>7. j \in Nat
  BY <1>1, <1>6 DEF Picks
<1>8. i = j
  BY <1>1, <1>6, <1>7, PicksOnce
<1>9. QED
  BY <1>2, <1>5, <1>8 DEF j

\* Where a choice goes.
LEMMA PickGoes ==
  ASSUME expertIds \in [Ranks -> Assignments], NEW s \in Ranks, NEW i \in Picks,
         NEW d, d = RankOf(expertIds[s][i]),
         NEW n, n = StatusIndex(<<s, expertIds[s][i] + Shared>>),
         NEW k, k = PicksBefore(s, expertIds[s][i], i)
  PROVE  /\ d \in Ranks /\ ~(d < Shared) /\ n \in 0 .. InboxSize(d) - 1
         /\ WordSender(d, n) = s /\ WordExpert(d, n) = expertIds[s][i] + Shared
         /\ k \in 0 .. Counts(d)[n] - 1
         /\ TokenAt(d, n, k) = <<s, i \div K>>
         /\ MoeSlot(s, i) = Region(d, n) * BS + k
<1>1. PICK e, x : e = expertIds[s][i] /\ x = e + Shared
  OBVIOUS
<1>2. /\ e \in Nat /\ x \in Experts /\ x - Shared = e /\ ~(x < Shared)
      /\ Home(x) = d /\ d \in Ranks /\ ~(d < Shared) /\ n = StatusIndex(<<s, x>>)
  <2>1. d = RankOf(e) /\ n = StatusIndex(<<s, x>>)
    BY <1>1
  <2>2. QED
    BY <1>1, <2>1, PickWord
<1>3. n \in 0 .. InboxSize(d) - 1 /\ WordSender(d, n) = s /\ WordExpert(d, n) = x
  BY <1>2, WordIs
<1>4. k \in Nat /\ k < PicksBefore(s, e, BS * K) /\ PickAt(s, e, k) = i
  BY <1>1, PlaceIs
<1>5. Counts(d)[n] = PicksBefore(s, e, BS * K) /\ Counts(d)[n] \in Nat
  BY <1>2, <1>3, CountsType
<1>6. TokenAt(d, n, k) = <<s, i \div K>>
  BY <1>2, <1>3, <1>4 DEF TokenAt
<1>7. Region(d, n) = s * M + (e % M)
  <2>1. Region(Home(x), StatusIndex(<<s, x>>))
          = IF x < Shared THEN s ELSE s * M + ((x - Shared) % M)
    BY <1>2, Sizes, RegionOfWord
  <2>2. QED
    BY <1>2, <2>1
<1>8. MoeSlot(s, i) = Region(d, n) * BS + k
  BY <1>1, <1>7 DEF MoeSlot
<1>9. QED
  BY <1>1, <1>2, <1>3, <1>4, <1>5, <1>6, <1>8

\* Where a token goes among the shared experts.
LEMMA SharedGoes ==
  ASSUME expertIds \in [Ranks -> Assignments], NEW s \in Ranks, ~(s < Shared),
         Shared # 0, NEW t \in Tokens, NEW d, d = SharedExpertOf(s, t),
         NEW k, k = t - SharedBefore(s, d)
  PROVE  /\ d \in Ranks /\ d < Shared /\ s \in 0 .. InboxSize(d) - 1
         /\ WordSender(d, s) = s
         /\ k \in 0 .. Counts(d)[s] - 1
         /\ TokenAt(d, s, k) = <<s, t>>
         /\ s * BS + t - SharedBefore(s, d) = Region(d, s) * BS + k
<1>1. /\ R \in Nat \ {0} /\ Shared \in Nat /\ Shared < R /\ BS \in Nat
      /\ s \in 0 .. R - 1 /\ t \in Int /\ s \in Nat
  BY Sizes DEF Ranks, Tokens
<1>2. d \in 0 .. Shared - 1
  BY <1>1, SharedExpertThere
<1>3. d \in Nat /\ d \in Ranks /\ d < Shared
  BY <1>1, <1>2 DEF Ranks
<1>4. s \in 0 .. InboxSize(d) - 1 /\ WordSender(d, s) = s /\ Region(d, s) = s
  BY <1>1, <1>3 DEF InboxSize, WordSender, Region
<1>5. Counts(d)[s] = SharedCount(s, d)
  BY <1>3, <1>4, CountsType
<1>6. SharedBefore(s, d) <= t /\ t < SharedBefore(s, d) + SharedCount(s, d)
  BY <1>1, <1>3, SharedExpertIs
<1>7. SharedBefore(s, d) \in Nat /\ SharedCount(s, d) \in Int
  BY <1>1, <1>3, SharedRun
<1>8. k \in 0 .. Counts(d)[s] - 1 /\ SharedBefore(s, d) + k = t
  BY <1>1, <1>5, <1>6, <1>7
<1>9. TokenAt(d, s, k) = <<s, t>>
  BY <1>3, <1>4, <1>8 DEF TokenAt
<1>10. s * BS + t - SharedBefore(s, d) = Region(d, s) * BS + k
  <2>1. s * BS \in Int
    BY <1>1
  <2>2. QED
    BY <1>1, <1>4, <1>7, <2>1
<1>11. QED
  BY <1>3, <1>4, <1>8, <1>9, <1>10

\* What belongs to a place of a word is a token of the sender; of a shared expert's
\* word, one whose expert that is, and of a MoE expert's, one with such a choice.
LEMMA TokenIs ==
  ASSUME expertIds \in [Ranks -> Assignments], NEW r \in Ranks,
         NEW n \in 0 .. InboxSize(r) - 1, NEW k \in 0 .. Counts(r)[n] - 1
  PROVE  /\ TokenAt(r, n, k) \in AllTokens
         /\ r < Shared =>
              \E t \in Tokens : /\ TokenAt(r, n, k) = <<n, t>> /\ n \in Ranks
                                /\ SharedExpertOf(n, t) = r /\ k = t - SharedBefore(n, r)
         /\ ~(r < Shared) =>
              \E i \in Picks : LET s == WordSender(r, n) IN
                /\ TokenAt(r, n, k) = <<s, i \div K>> /\ s \in Ranks
                /\ expertIds[s][i] + Shared = WordExpert(r, n)
                /\ RankOf(expertIds[s][i]) = r
                /\ n = StatusIndex(<<s, expertIds[s][i] + Shared>>)
                /\ k = PicksBefore(s, expertIds[s][i], i)
<1> DEFINE s == WordSender(r, n)
<1>1. s \in Ranks /\ WordExpert(r, n) \in Experts /\ Home(WordExpert(r, n)) = r
      /\ n = StatusIndex(<<s, WordExpert(r, n)>>)
  BY WordThere
<1>2. /\ R \in Nat \ {0} /\ Shared \in Nat /\ Shared < R /\ BS \in Nat \ {0}
      /\ k \in Nat /\ k < Counts(r)[n] /\ n \in Nat /\ r \in Nat
  BY Sizes, CountsType, Inboxes
<1>3. CASE r < Shared
  <2>1. s = n /\ TokenAt(r, n, k) = <<n, SharedBefore(n, r) + k>> /\ Shared # 0
    BY <1>2, <1>3 DEF WordSender, TokenAt
  <2>2. Counts(r)[n] = SharedCount(n, r)
    BY <1>3, CountsType
  <2>10. SharedBefore(n, r) \in Nat /\ SharedCount(n, r) \in 0 .. BS
    BY <1>2, <2>1, SharedRun
  <2>3. PICK t \in Int : t = SharedBefore(n, r) + k
    BY <1>2, <2>10
  <2>4. t \in Nat /\ SharedBefore(n, r) <= t /\ t < SharedBefore(n, r) + SharedCount(n, r)
        /\ k = t - SharedBefore(n, r)
    BY <1>2, <2>2, <2>3, <2>10
  <2>5. t < BS
    <3>1. /\ SharedBefore(n, r) = Dealt(r + n) - Dealt(n)
          /\ SharedCount(n, r) = Dealt(r + n + 1) - Dealt(r + n)
      BY <1>2, <2>1, SharedRun
    <3>2. Dealt(r + n + 1) <= Dealt(n + Shared) /\ Dealt(n + Shared) = Dealt(n) + BS
      <4>1. r + n + 1 \in Nat /\ n + Shared \in Nat /\ r + n + 1 <= n + Shared
        BY <1>2, <1>3
      <4>2. QED
        BY <1>2, <2>1, <4>1, DealtRuns
    <3>3. Dealt(n) \in Nat /\ Dealt(r + n) \in Nat /\ Dealt(r + n + 1) \in Nat
      <4>1. r + n + 1 \in Nat /\ r + n \in Nat
        BY <1>2
      <4>2. QED
        BY <1>2, <2>1, <4>1, DealtCut
    <3>4. QED
      BY <1>2, <2>4, <3>1, <3>2, <3>3
  <2>6. t \in Tokens
    BY <1>2, <2>4, <2>5 DEF Tokens
  <2>7. SharedExpertOf(n, t) = r
    BY <1>2, <2>1, <2>4, <2>6, SharedExpertIs
  <2>8. TokenAt(r, n, k) = <<n, t>> /\ n \in Ranks
    BY <1>1, <2>1, <2>3
  <2>9. QED
    BY <1>3, <2>4, <2>6, <2>7, <2>8 DEF AllTokens
<1>4. CASE ~(r < Shared)
  <2>1. PICK x \in Experts : x = WordExpert(r, n)
    BY <1>1
  <2>2. PICK e \in Int : e = x - Shared
    BY <1>2 DEF Experts
  <2>3. e + Shared = x
    BY <1>2, <2>2 DEF Experts
  <2>4. Counts(r)[n] = PicksBefore(s, e, BS * K)
    BY <1>4, <2>1, <2>2, CountsType
  <2>5. PICK i \in Picks : i = PickAt(s, e, k) /\ expertIds[s][i] = e /\ PicksBefore(s, e, i) = k
    BY <1>2, <2>4, PickAtIs
  <2>6. TokenAt(r, n, k) = <<s, i \div K>>
    BY <1>4, <2>1, <2>2, <2>5 DEF TokenAt
  <2>7. i \div K \in Tokens
    BY TokenOfPick
  <2>8. RankOf(e) = r
    <3>1. Home(x) = RankOf(e)
      BY <1>1, <2>3, <2>5, PickWord
    <3>2. QED
      BY <1>1, <2>1, <3>1
  <2>9. n = StatusIndex(<<s, e + Shared>>)
    BY <1>1, <2>1, <2>3
  <2>10. TokenAt(r, n, k) \in AllTokens
    BY <1>1, <2>6, <2>7 DEF AllTokens
  <2>11. e + Shared = WordExpert(r, n)
    BY <2>1, <2>3
  <2>12. QED
    BY <1>1, <1>4, <2>5, <2>6, <2>8, <2>9, <2>10, <2>11
<1>5. QED
  BY <1>3, <1>4

\* Cores send choices and tokens that there are.
LEMMA SharesIn ==
  ASSUME NEW r, NEW c
  PROVE  MoeShare(r, c) \subseteq Picks /\ SharedShare(c) \subseteq Tokens
BY DEF MoeShare, SharedShare, Slice, Picks, Tokens

\* Every choice and every token is sent by some core.
LEMMA SharesCover ==
  ASSUME NEW r
  PROVE  /\ \A i \in Picks : \E c \in Cores : i \in MoeShare(r, c)
         /\ Shared # 0 => \A t \in Tokens : \E c \in Cores : t \in SharedShare(c)
<1>1. C \in Nat \ {0} /\ BS \in Nat \ {0} /\ K \in Nat \ {0} /\ BS * K \in Nat
  <2>1. BS \in Nat \ {0} /\ K \in Nat \ {0} /\ C \in Nat \ {0}
    BY Sizes
  <2>2. QED
    BY <2>1
<1>2. /\ SharedCores \in Nat /\ C - SharedCores \in Nat \ {0}
      /\ Shared # 0 => SharedCores \in Nat \ {0}
  BY CoreSplit
<1>3. ASSUME NEW i \in Picks PROVE \E c \in Cores : i \in MoeShare(r, c)
  <2>1. PICK c \in 0 .. C - SharedCores - 1 : i \in Slice(BS * K, C - SharedCores, c)
    BY <1>1, <1>2, SliceCover DEF Picks
  <2>2. c \in Cores /\ c < C - SharedCores
    BY <1>1, <1>2 DEF Cores
  <2>3. QED
    BY <2>1, <2>2 DEF MoeShare
<1>4. ASSUME Shared # 0, NEW t \in Tokens PROVE \E c \in Cores : t \in SharedShare(c)
  <2>1. PICK j \in 0 .. SharedCores - 1 : t \in Slice(BS, SharedCores, j)
    BY <1>1, <1>2, <1>4, SliceCover DEF Tokens
  <2>2. PICK c \in Cores : c = C - SharedCores + j
    BY <1>1, <1>2 DEF Cores
  <2>3. ~(c < C - SharedCores) /\ c - (C - SharedCores) = j
    BY <1>1, <1>2, <2>2
  <2>4. QED
    BY <2>1, <2>3 DEF SharedShare
<1>5. QED
  BY <1>3, <1>4

\* What a core writes to a window is at a place of a word of the core's rank ...
LEMMA SentWhere ==
  ASSUME expertIds \in [Ranks -> Assignments], NEW s \in Ranks, NEW c \in Cores,
         NEW d \in Ranks, NEW w \in SentFrom(s, c, d)
  PROVE  \E n \in 0 .. InboxSize(d) - 1 : \E k \in 0 .. Counts(d)[n] - 1 :
           w = <<Region(d, n) * BS + k, TokenAt(d, n, k)>>
<1>1. CASE w \in MoeSent(s, c, d)
  <2>1. PICK i \in MoeShare(s, c) :
          RankOf(expertIds[s][i]) = d /\ w = <<MoeSlot(s, i), <<s, i \div K>>>>
    BY <1>1 DEF MoeSent
  <2>2. i \in Picks
    BY SharesIn
  <2>3. PICK n, k : /\ n = StatusIndex(<<s, expertIds[s][i] + Shared>>)
                    /\ k = PicksBefore(s, expertIds[s][i], i)
    OBVIOUS
  <2>4. /\ n \in 0 .. InboxSize(d) - 1 /\ k \in 0 .. Counts(d)[n] - 1
        /\ TokenAt(d, n, k) = <<s, i \div K>> /\ MoeSlot(s, i) = Region(d, n) * BS + k
    BY <2>1, <2>2, <2>3, PickGoes
  <2>5. QED
    BY <2>1, <2>4
<1>2. CASE w \in SharedSent(s, c, d)
  <2>1. ~(s < Shared)
    BY <1>2 DEF SharedSent
  <2>2. PICK t \in SharedShare(c) :
          SharedExpertOf(s, t) = d /\ w = <<s * BS + t - SharedBefore(s, d), <<s, t>>>>
    BY <1>2, <2>1 DEF SharedSent
  <2>3. t \in Tokens
    BY SharesIn
  <2>4. Shared # 0
    <3>1. SharedCores # 0
      <4>1. SUFFICES ASSUME SharedCores = 0 PROVE FALSE
        OBVIOUS
      <4>2. c < C - SharedCores
        BY <4>1, Sizes DEF Cores
      <4>3. QED
        BY <2>2, <4>2 DEF SharedShare
    <3>2. QED
      BY <3>1 DEF SharedCores
  <2>5. PICK k : k = t - SharedBefore(s, d)
    OBVIOUS
  <2>6. /\ s \in 0 .. InboxSize(d) - 1 /\ k \in 0 .. Counts(d)[s] - 1
        /\ TokenAt(d, s, k) = <<s, t>>
        /\ s * BS + t - SharedBefore(s, d) = Region(d, s) * BS + k
    BY <2>1, <2>2, <2>3, <2>4, <2>5, SharedGoes
  <2>7. QED
    BY <2>2, <2>6
<1>3. QED
  BY <1>1, <1>2 DEF SentFrom

\* ... and to every place of a word some core of its sender writes.
LEMMA SentThere ==
  ASSUME expertIds \in [Ranks -> Assignments], NEW d \in Ranks,
         NEW n \in 0 .. InboxSize(d) - 1, ~Own(d, n), NEW k \in 0 .. Counts(d)[n] - 1
  PROVE  \E c \in Cores : <<Region(d, n) * BS + k, TokenAt(d, n, k)>>
                            \in SentFrom(WordSender(d, n), c, d)
<1>1. CASE d < Shared
  <2>1. PICK t \in Tokens : /\ TokenAt(d, n, k) = <<n, t>> /\ n \in Ranks
                            /\ SharedExpertOf(n, t) = d /\ k = t - SharedBefore(n, d)
    BY <1>1, TokenIs
  <2>2. ~(n < Shared) /\ Shared # 0 /\ WordSender(d, n) = n
    BY <1>1, Sizes, Inboxes DEF Own, WordSender
  <2>3. n * BS + t - SharedBefore(n, d) = Region(d, n) * BS + k
    BY <2>1, <2>2, SharedGoes
  <2>4. PICK c \in Cores : t \in SharedShare(c)
    BY <2>2, SharesCover
  <2>5. <<n * BS + t - SharedBefore(n, d), <<n, t>>>> \in SharedSent(n, c, d)
    BY <2>1, <2>2, <2>4 DEF SharedSent
  <2>6. QED
    BY <2>1, <2>2, <2>3, <2>5 DEF SentFrom
<1>2. CASE ~(d < Shared)
  <2> DEFINE s == WordSender(d, n)
  <2>1. PICK i \in Picks :
          /\ TokenAt(d, n, k) = <<s, i \div K>> /\ s \in Ranks
          /\ RankOf(expertIds[s][i]) = d
          /\ n = StatusIndex(<<s, expertIds[s][i] + Shared>>)
          /\ k = PicksBefore(s, expertIds[s][i], i)
    BY <1>2, TokenIs
  <2> HIDE DEF s
  <2>2. MoeSlot(s, i) = Region(d, n) * BS + k
    BY <2>1, PickGoes
  <2>3. PICK c \in Cores : i \in MoeShare(s, c)
    BY SharesCover
  <2>4. <<MoeSlot(s, i), <<s, i \div K>>>> \in MoeSent(s, c, d)
    BY <2>1, <2>3 DEF MoeSent
  <2>5. QED
    BY <2>1, <2>2, <2>3, <2>4 DEF SentFrom, s
<1>3. QED
  BY <1>1, <1>2

\* Places have slots of their own, in the window.
LEMMA SlotOnce ==
  ASSUME expertIds \in [Ranks -> Assignments], NEW d \in Ranks,
         NEW n \in 0 .. InboxSize(d) - 1, NEW k \in 0 .. Counts(d)[n] - 1
  PROVE  /\ Region(d, n) * BS + k \in Slots
         /\ \A m \in 0 .. InboxSize(d) - 1 : \A j \in 0 .. Counts(d)[m] - 1 :
              Region(d, n) * BS + k = Region(d, m) * BS + j => n = m /\ k = j
<1>1. BS \in Nat \ {0} /\ R * M \in Nat /\ R * M * BS \in Nat
  BY Sizes, Inboxes
<1>2. ASSUME NEW m \in 0 .. InboxSize(d) - 1, NEW j \in 0 .. Counts(d)[m] - 1
      PROVE  j \in 0 .. BS - 1 /\ Region(d, m) \in 0 .. R * M - 1
  <2>1. Counts(d)[m] \in 0 .. BS
    BY CountsType
  <2>2. QED
    BY <1>1, <2>1, RegionIn
<1>3. Region(d, n) * BS + k \in Slots
  <2>1. PICK p \in 0 .. R * M - 1 : p = Region(d, n)
    BY <1>2
  <2>2. k + p * BS \in 0 .. R * M * BS - 1 /\ p * BS \in Nat
    BY <1>1, <1>2, Within
  <2>3. k + p * BS = p * BS + k
    BY <1>2, <2>2
  <2>4. QED
    BY <2>1, <2>2, <2>3 DEF Slots
<1>4. ASSUME NEW m \in 0 .. InboxSize(d) - 1, NEW j \in 0 .. Counts(d)[m] - 1,
             Region(d, n) * BS + k = Region(d, m) * BS + j
      PROVE  n = m /\ k = j
  <2>1. PICK p \in Nat, q \in Nat : p = Region(d, n) /\ q = Region(d, m)
    BY <1>1, <1>2
  <2>2. k \in 0 .. BS - 1 /\ j \in 0 .. BS - 1
    BY <1>2
  <2>3. /\ (k + p * BS) \div BS = p /\ (k + p * BS) % BS = k
        /\ (j + q * BS) \div BS = q /\ (j + q * BS) % BS = j
    BY <1>1, <2>2, Digits
  <2>4. k + p * BS = j + q * BS
    <3>1. p * BS + k = q * BS + j
      BY <1>4, <2>1
    <3>2. p * BS \in Int /\ q * BS \in Int /\ k \in Int /\ j \in Int
      BY <1>1, <2>1, <2>2
    <3>3. QED
      BY <3>1, <3>2
  <2>5. p = q /\ k = j
    BY <2>3, <2>4
  <2>6. QED
    BY <2>1, <2>5, RegionOnce
<1>5. QED
  BY <1>3, <1>4

-------------------------------------------------------------------------------
(***************************************************************************)
(* Rows: those of a word follow those of the word before.                  *)
(***************************************************************************)
LEMMA FirstNext ==
  ASSUME expertIds \in [Ranks -> Assignments], NEW r \in Ranks
  PROVE  /\ First(r, 0) = 0
         /\ \A n \in 0 .. InboxSize(r) : First(r, n) \in Nat
         /\ \A n \in 0 .. InboxSize(r) - 1 :
              /\ n + 1 \in 0 .. InboxSize(r)
              /\ First(r, n + 1) = First(r, n) + Counts(r)[n]
<1>1. InboxSize(r) \in Nat \ {0}
  BY Inboxes
<1>2. ASSUME NEW n \in 0 .. InboxSize(r) - 1
      PROVE  /\ First(r, 0) = 0 /\ First(r, n) \in Nat
             /\ First(r, n + 1) = First(r, n) + Counts(r)[n]
  <2>1. n \in Nat
    BY <1>1
  <2>2. \A m \in 0 .. n : Counts(r)[m] \in Nat
    <3>1. \A m \in 0 .. n : m \in 0 .. InboxSize(r) - 1
      BY <1>1
    <3>2. QED
      BY <3>1, CountsType
  <2>3. QED
    BY <2>1, <2>2, AddUpNext DEF First
<1>3. First(r, 0) = 0
  BY <1>1, <1>2
<1>4. ASSUME NEW n \in 0 .. InboxSize(r) PROVE First(r, n) \in Nat
  <2>1. CASE n = 0
    BY <1>3, <2>1
  <2>2. CASE n # 0
    <3>1. PICK m \in 0 .. InboxSize(r) - 1 : n = m + 1
      <4>1. n - 1 \in 0 .. InboxSize(r) - 1 /\ n = n - 1 + 1
        BY <1>1, <2>2
      <4>2. QED
        BY <4>1
    <3>2. First(r, n) = First(r, m) + Counts(r)[m] /\ First(r, m) \in Nat
      BY <1>2, <3>1
    <3>3. Counts(r)[m] \in Nat
      BY CountsType
    <3>4. QED
      BY <3>2, <3>3
  <2>3. QED
    BY <2>1, <2>2
<1>5. \A n \in 0 .. InboxSize(r) - 1 : n + 1 \in 0 .. InboxSize(r)
  BY <1>1
<1>6. QED
  BY <1>2, <1>3, <1>4, <1>5

LEMMA FirstGrow ==
  ASSUME expertIds \in [Ranks -> Assignments], NEW r \in Ranks,
         NEW n \in 0 .. InboxSize(r), NEW m \in 0 .. InboxSize(r), n <= m
  PROVE  First(r, n) <= First(r, m)
<1> DEFINE S == {x \in Nat : n + x <= InboxSize(r) => First(r, n) <= First(r, n + x)}
<1>1. InboxSize(r) \in Nat \ {0} /\ n \in Nat /\ m \in Nat
  BY Inboxes
<1>2. 0 \in S
  <2>1. n + 0 = n /\ First(r, n) \in Nat
    BY <1>1, FirstNext
  <2>2. QED
    BY <2>1
<1>3. ASSUME NEW x \in S PROVE x + 1 \in S
  <2>1. SUFFICES ASSUME n + (x + 1) <= InboxSize(r)
        PROVE  First(r, n) <= First(r, n + (x + 1))
    OBVIOUS
  <2>2. n + x \in 0 .. InboxSize(r) - 1 /\ n + (x + 1) = n + x + 1
    BY <1>1, <2>1
  <2>3. First(r, n) <= First(r, n + x)
    BY <1>1, <2>2
  <2>4. First(r, n + (x + 1)) = First(r, n + x) + Counts(r)[n + x]
    BY <2>2, FirstNext
  <2>5. First(r, n) \in Nat /\ First(r, n + x) \in Nat /\ Counts(r)[n + x] \in Nat
    <3>1. n + x \in 0 .. InboxSize(r)
      BY <1>1, <2>2
    <3>2. QED
      BY <2>2, <3>1, FirstNext, CountsType
  <2>6. QED
    BY <2>3, <2>4, <2>5
<1>4. S = Nat
  <2>1. S \in SUBSET Nat
    OBVIOUS
  <2> HIDE DEF S
  <2>2. QED
    BY <1>2, <1>3, <2>1, Grow
<1>5. PICK x \in Nat : n + x = m
  <2>1. m - n \in Nat /\ n + (m - n) = m
    BY <1>1
  <2>2. QED
    BY <2>1
<1>6. n + x <= InboxSize(r) => First(r, n) <= First(r, n + x)
  BY <1>4
<1>7. QED
  BY <1>1, <1>5, <1>6

\* There are rows enough.
LEMMA FirstBound ==
  ASSUME expertIds \in [Ranks -> Assignments], NEW r \in Ranks,
         NEW n \in 0 .. InboxSize(r)
  PROVE  First(r, n) \in 0 .. R * M * BS
<1> DEFINE S == {x \in Nat : x <= InboxSize(r) => First(r, x) <= BS * x}
<1>1. InboxSize(r) \in Nat \ {0} /\ n \in Nat /\ BS \in Nat
  BY Inboxes, Sizes
<1>2. 0 \in S
  <2>1. First(r, 0) = 0 /\ BS * 0 = 0
    BY <1>1, FirstNext
  <2>2. QED
    BY <2>1
<1>3. ASSUME NEW x \in S PROVE x + 1 \in S
  <2>1. SUFFICES ASSUME x + 1 <= InboxSize(r) PROVE First(r, x + 1) <= BS * (x + 1)
    OBVIOUS
  <2>2. x \in 0 .. InboxSize(r) - 1 /\ x \in 0 .. InboxSize(r)
    BY <1>1, <2>1
  <2>3. First(r, x) <= BS * x
    BY <1>1, <2>2
  <2>4. First(r, x + 1) = First(r, x) + Counts(r)[x]
    BY <2>2, FirstNext
  <2>5. First(r, x) \in Nat /\ Counts(r)[x] \in 0 .. BS
    BY <2>2, FirstNext, CountsType
  <2>6. BS * (x + 1) = BS * x + BS /\ BS * x \in Int
    BY <1>1, MulSucc
  <2>7. QED
    BY <1>1, <2>3, <2>4, <2>5, <2>6
<1>4. S = Nat
  <2>1. S \in SUBSET Nat
    OBVIOUS
  <2> HIDE DEF S
  <2>2. QED
    BY <1>2, <1>3, <2>1, Grow
<1>5. First(r, n) <= BS * n
  BY <1>1, <1>4
<1>6. BS * n <= BS * (R * M) /\ BS * (R * M) = R * M * BS /\ BS * n \in Int /\ R * M * BS \in Int
  <2>1. PICK a \in Nat : a = R * M
    BY Inboxes
  <2>2. n <= a
    BY <1>1, <2>1, Inboxes
  <2>3. BS * n <= BS * a /\ BS * a = a * BS /\ BS * n \in Int /\ a * BS \in Int
    BY <1>1, <2>1, <2>2, MulMono
  <2>4. QED
    BY <2>1, <2>3
<1>7. First(r, n) \in Nat
  BY FirstNext
<1>8. QED
  BY <1>5, <1>6, <1>7

\* Every row belongs to one place of one word.
LEMMA RowOnce ==
  ASSUME expertIds \in [Ranks -> Assignments], NEW r \in Ranks,
         NEW n \in 0 .. InboxSize(r) - 1, NEW k \in 0 .. Counts(r)[n] - 1,
         NEW m \in 0 .. InboxSize(r) - 1, NEW j \in 0 .. Counts(r)[m] - 1,
         First(r, n) + k = First(r, m) + j
  PROVE  n = m /\ k = j
<1>1. ASSUME NEW x \in 0 .. InboxSize(r) - 1, NEW u \in 0 .. Counts(r)[x] - 1,
             NEW y \in 0 .. InboxSize(r) - 1, NEW v \in 0 .. Counts(r)[y] - 1,
             x < y
      PROVE  First(r, x) + u < First(r, y) + v
  <2>1. InboxSize(r) \in Nat \ {0}
    BY Inboxes
  <2>2. x + 1 \in 0 .. InboxSize(r) /\ y \in 0 .. InboxSize(r) /\ x + 1 <= y
        /\ x \in 0 .. InboxSize(r)
    BY <1>1, <2>1
  <2>3. First(r, x + 1) <= First(r, y)
    BY <2>2, FirstGrow
  <2>4. First(r, x + 1) = First(r, x) + Counts(r)[x]
    BY FirstNext
  <2>5. First(r, x) \in Nat /\ First(r, y) \in Nat /\ Counts(r)[x] \in Nat /\ Counts(r)[y] \in Nat
    BY <2>2, FirstNext, CountsType
  <2>6. QED
    BY <2>3, <2>4, <2>5
<1>2. First(r, n) \in Nat /\ First(r, m) \in Nat /\ Counts(r)[n] \in Nat /\ Counts(r)[m] \in Nat
  <2>1. n \in 0 .. InboxSize(r) /\ m \in 0 .. InboxSize(r)
    BY Inboxes
  <2>2. QED
    BY <2>1, FirstNext, CountsType
<1>3. ~(n < m) /\ ~(m < n)
  <2>1. ASSUME n < m PROVE FALSE
    <3>1. First(r, n) + k < First(r, m) + j
      BY <1>1, <2>1
    <3>2. QED
      BY <1>2, <3>1
  <2>2. ASSUME m < n PROVE FALSE
    <3>1. First(r, m) + j < First(r, n) + k
      BY <1>1, <2>2
    <3>2. QED
      BY <1>2, <3>1
  <2>3. QED
    BY <2>1, <2>2
<1>4. n = m
  BY <1>3, Inboxes
<1>5. QED
  BY <1>2, <1>4

\* The rows before a word's are those of the words before it.
LEMMA RowThere ==
  ASSUME expertIds \in [Ranks -> Assignments], NEW r \in Ranks,
         NEW n \in 0 .. InboxSize(r), NEW m \in 0 .. InboxSize(r),
         NEW a \in First(r, n) .. First(r, m) - 1
  PROVE  \E x \in 0 .. InboxSize(r) - 1 :
           /\ n <= x /\ x < m
           /\ \E k \in 0 .. Counts(r)[x] - 1 : a = First(r, x) + k
<1> DEFINE Past == {x \in Nat : x <= InboxSize(r) /\ a < First(r, x)}
<1>1. InboxSize(r) \in Nat \ {0} /\ n \in Nat /\ m \in Nat
      /\ First(r, n) \in Nat /\ First(r, m) \in Nat
  BY Inboxes, FirstNext
<1>2. a \in Nat /\ First(r, n) <= a /\ a < First(r, m)
  BY <1>1
<1>3. PICK y \in Past : \A x \in Past : y <= x
  <2>1. Past \in SUBSET Nat /\ m \in Past
    BY <1>1, <1>2
  <2> HIDE DEF Past
  <2>2. QED
    BY <2>1, Least
<1>4. y \in 0 .. InboxSize(r) /\ a < First(r, y) /\ y <= m
  BY <1>1, <1>2, <1>3
<1>5. n < y
  <2>1. SUFFICES ASSUME y <= n PROVE FALSE
    BY <1>1, <1>4
  <2>2. First(r, y) <= First(r, n) /\ First(r, y) \in Nat
    BY <1>4, <2>1, FirstGrow, FirstNext
  <2>3. QED
    BY <1>1, <1>2, <1>4, <2>2
<1>6. PICK x \in 0 .. InboxSize(r) - 1 : y = x + 1
  <2>1. y - 1 \in 0 .. InboxSize(r) - 1 /\ y = y - 1 + 1
    BY <1>1, <1>4, <1>5
  <2>2. QED
    BY <2>1
<1>7. x \in 0 .. InboxSize(r) /\ x \notin Past
  BY <1>1, <1>3, <1>6
<1>8. ~(a < First(r, x)) /\ First(r, x) \in Nat /\ Counts(r)[x] \in Nat
  BY <1>1, <1>7, FirstNext, CountsType
<1>9. First(r, y) = First(r, x) + Counts(r)[x]
  BY <1>6, FirstNext
<1>10. a - First(r, x) \in 0 .. Counts(r)[x] - 1 /\ a = First(r, x) + (a - First(r, x))
  BY <1>2, <1>4, <1>8, <1>9
<1>11. n <= x /\ x < m
  BY <1>1, <1>4, <1>5, <1>6
<1>12. QED
  BY <1>10, <1>11

\* The rows of a shared expert's rank follow the runs of the tokens.
LEMMA FirstShared ==
  ASSUME expertIds \in [Ranks -> Assignments], NEW r \in Ranks, r < Shared
  PROVE  /\ \A n \in 0 .. R : First(r, n) = Dealt(r + n) - Dealt(r)
         /\ First(r, Shared) = BS
<1> DEFINE S == {x \in Nat : x <= R => First(r, x) = Dealt(r + x) - Dealt(r)}
<1>1. /\ InboxSize(r) = R /\ R \in Nat \ {0} /\ BS \in Nat /\ r \in Nat
      /\ Shared \in Nat /\ Shared # 0 /\ Shared < R
  BY Sizes, Inboxes DEF InboxSize
<1>2. 0 \in S
  <2>1. First(r, 0) = 0 /\ r + 0 = r /\ Dealt(r) \in Nat
    BY <1>1, FirstNext, DealtCut
  <2>2. QED
    BY <2>1
<1>3. ASSUME NEW x \in S PROVE x + 1 \in S
  <2>1. SUFFICES ASSUME x + 1 <= R PROVE First(r, x + 1) = Dealt(r + (x + 1)) - Dealt(r)
    OBVIOUS
  <2>2. x \in 0 .. InboxSize(r) - 1 /\ r + (x + 1) = r + x + 1 /\ r + x \in Nat /\ r + x + 1 \in Nat
    BY <1>1, <2>1
  <2>3. First(r, x) = Dealt(r + x) - Dealt(r)
    BY <1>1, <2>2
  <2>4. First(r, x + 1) = First(r, x) + Counts(r)[x]
    BY <2>2, FirstNext
  <2>5. Counts(r)[x] = Dealt(r + x + 1) - Dealt(r + x)
    <3>1. Counts(r)[x] = SharedCount(x, r)
      BY <2>2, CountsType
    <3>2. SharedCount(x, r) = Dealt(r + x + 1) - Dealt(r + x)
      BY <1>1, SharedRun
    <3>3. QED
      BY <3>1, <3>2
  <2>6. Dealt(r) \in Nat /\ Dealt(r + x) \in Nat /\ Dealt(r + x + 1) \in Nat
    BY <1>1, <2>2, DealtCut
  <2>7. QED
    BY <2>2, <2>3, <2>4, <2>5, <2>6
<1>4. S = Nat
  <2>1. S \in SUBSET Nat
    OBVIOUS
  <2> HIDE DEF S
  <2>2. QED
    BY <1>2, <1>3, <2>1, Grow
<1>5. \A n \in 0 .. R : First(r, n) = Dealt(r + n) - Dealt(r)
  BY <1>1, <1>4
<1>6. First(r, Shared) = BS
  <2>1. Dealt(r + Shared) = Dealt(r) + BS /\ Dealt(r) \in Nat
    BY <1>1, DealtRuns, DealtCut
  <2>2. QED
    BY <1>1, <1>5, <2>1
<1>7. QED
  BY <1>5, <1>6

-------------------------------------------------------------------------------
(***************************************************************************)
(* Writes: what all cores together are to write to one memory, of which    *)
(* no two go to the same address.                                          *)
(***************************************************************************)
OneValue(writes) == \A v, w \in writes : v[1] = w[1] => v = w

AllSent(d) ==
  UNION {{<<Region(d, n) * BS + k, TokenAt(d, n, k)>> : k \in 0 .. Counts(d)[n] - 1} :
         n \in 0 .. InboxSize(d) - 1}
AllTold(d) ==
  {<<n, CountFor(WordSender(d, n), WordExpert(d, n))>> : n \in 0 .. InboxSize(d) - 1}
AllPlaces(r) == {<<i, PicksBefore(r, expertIds[r][i], i)>> : i \in Picks}
AllRows(r) ==
  {<<t, <<r, t>>>> : t \in IF r < Shared THEN Tokens ELSE {}}
  \cup UNION {RowsAt(r, n) : n \in {m \in 0 .. InboxSize(r) - 1 : ~Own(r, m)}}
AllSums(r) == {<<n, First(r, n + 1)>> : n \in 0 .. InboxSize(r) - 1}

\* A step may add to a memory, and may not change what is there.
Adds(memory, next, A) == \A a \in A : memory[a] # Nothing => next[a] = memory[a]

\* One memory after the writes of one core.
LEMMA MemoryNext ==
  ASSUME NEW A, NEW S, NEW mem \in [A -> S \cup {Nothing}], NEW V, NEW W, NEW All,
         All \in SUBSET (A \X S), OneValue(All), W \subseteq All, V \subseteq All,
         Holds(mem, W)
  PROVE  /\ After(mem, V) \in [A -> S \cup {Nothing}]
         /\ Holds(After(mem, V), W \cup V)
         /\ Adds(mem, After(mem, V), A)
<1>0. V \in SUBSET (A \X S) /\ W \in SUBSET (A \X S) /\ OneValue(W \cup V)
  BY DEF OneValue
<1>1. DOMAIN mem = A
  OBVIOUS
<1>2. After(mem, V) = [a \in A |-> IF \E w \in V : w[1] = a
                                   THEN (CHOOSE w \in V : w[1] = a)[2] ELSE mem[a]]
  BY <1>1 DEF After
<1> DEFINE new == After(mem, V)
<1>3. ASSUME NEW a \in A, NEW v \in V, v[1] = a
      PROVE  new[a] = v[2] /\ new[a] \in S /\ <<a, new[a]>> \in V
  <2> DEFINE x == CHOOSE w \in V : w[1] = a
  <2>1. x \in V /\ x[1] = a
    BY <1>3
  <2>2. new[a] = x[2]
    BY <1>2, <1>3
  <2> HIDE DEF x, new
  <2>3. x = v
    BY <1>0, <1>3, <2>1 DEF OneValue
  <2>4. v = <<v[1], v[2]>> /\ v[2] \in S
    BY <1>0
  <2>5. QED
    BY <1>3, <2>2, <2>3, <2>4
<1>4. ASSUME NEW a \in A, \A v \in V : v[1] # a PROVE new[a] = mem[a]
  BY <1>2, <1>4
<1>5. new \in [A -> S \cup {Nothing}]
  <2>1. ASSUME NEW a \in A PROVE new[a] \in S \cup {Nothing}
    <3>1. CASE \E v \in V : v[1] = a
      BY <1>3, <3>1
    <3>2. CASE \A v \in V : v[1] # a
      BY <1>4, <3>2
    <3>3. QED
      BY <3>1, <3>2
  <2>2. QED
    BY <1>2, <2>1
<1>6. DOMAIN new = A
  BY <1>2
<1> HIDE DEF new
<1>7. ASSUME NEW a \in A PROVE
        /\ new[a] # Nothing => <<a, new[a]>> \in W \cup V
        /\ \A w \in W \cup V : w[1] = a => new[a] = w[2]
        /\ mem[a] # Nothing => new[a] = mem[a]
  <2>1. /\ mem[a] # Nothing => <<a, mem[a]>> \in W
        /\ \A w \in W : w[1] = a => mem[a] = w[2]
    BY <1>1 DEF Holds
  <2>2. CASE \E v \in V : v[1] = a
    <3>1. PICK v \in V : v[1] = a
      BY <2>2
    <3>2. new[a] = v[2] /\ <<a, new[a]>> \in V
      BY <1>3, <3>1
    <3>3. ASSUME NEW w \in W \cup V, w[1] = a PROVE w[2] = v[2]
      <4>1. w = v
        BY <1>0, <3>1, <3>3 DEF OneValue
      <4>2. QED
        BY <4>1
    <3>4. mem[a] # Nothing => new[a] = mem[a]
      <4>1. SUFFICES ASSUME mem[a] # Nothing PROVE new[a] = mem[a]
        OBVIOUS
      <4>2. <<a, mem[a]>> \in W
        BY <2>1, <4>1
      <4>3. PICK w \in W : w = <<a, mem[a]>>
        BY <4>2
      <4>4. w[1] = a /\ w[2] = mem[a]
        BY <4>3
      <4>5. QED
        BY <3>2, <3>3, <4>4
    <3>5. QED
      BY <3>2, <3>3, <3>4
  <2>3. CASE \A v \in V : v[1] # a
    <3>1. new[a] = mem[a]
      BY <1>4, <2>3
    <3>2. QED
      BY <2>1, <2>3, <3>1
  <2>4. QED
    BY <2>2, <2>3
<1>8. Holds(new, W \cup V)
  BY <1>6, <1>7 DEF Holds
<1>9. QED
  BY <1>5, <1>7, <1>8 DEF new, Adds

LEMMA SentApart ==
  ASSUME expertIds \in [Ranks -> Assignments], NEW d \in Ranks
  PROVE  /\ AllSent(d) \in SUBSET (Slots \X AllTokens) /\ OneValue(AllSent(d))
         /\ \A s \in Ranks, c \in Cores : SentFrom(s, c, d) \subseteq AllSent(d)
<1>1. ASSUME NEW w \in AllSent(d)
      PROVE  \E n \in 0 .. InboxSize(d) - 1 : \E k \in 0 .. Counts(d)[n] - 1 :
               w = <<Region(d, n) * BS + k, TokenAt(d, n, k)>>
  BY DEF AllSent
<1>2. ASSUME NEW w \in AllSent(d) PROVE w \in Slots \X AllTokens
  <2>1. PICK n, k :
          /\ n \in 0 .. InboxSize(d) - 1 /\ k \in 0 .. Counts(d)[n] - 1
          /\ w = <<Region(d, n) * BS + k, TokenAt(d, n, k)>>
    BY <1>1
  <2>2. Region(d, n) * BS + k \in Slots
    BY <2>1, SlotOnce
  <2>3. TokenAt(d, n, k) \in AllTokens
    BY <2>1, TokenIs
  <2>4. QED
    BY <2>1, <2>2, <2>3
<1>3. ASSUME NEW v \in AllSent(d), NEW w \in AllSent(d), v[1] = w[1] PROVE v = w
  <2>1. PICK n, k :
          /\ n \in 0 .. InboxSize(d) - 1 /\ k \in 0 .. Counts(d)[n] - 1
          /\ v = <<Region(d, n) * BS + k, TokenAt(d, n, k)>>
    BY <1>1
  <2>2. PICK m, j :
          /\ m \in 0 .. InboxSize(d) - 1 /\ j \in 0 .. Counts(d)[m] - 1
          /\ w = <<Region(d, m) * BS + j, TokenAt(d, m, j)>>
    BY <1>1
  <2>3. Region(d, n) * BS + k = Region(d, m) * BS + j
    BY <1>3, <2>1, <2>2
  <2>4. n = m /\ k = j
    BY <2>1, <2>2, <2>3, SlotOnce
  <2>5. QED
    BY <2>1, <2>2, <2>4
<1>4. ASSUME NEW s \in Ranks, NEW c \in Cores, NEW w \in SentFrom(s, c, d)
      PROVE  w \in AllSent(d)
  <2>1. PICK n, k :
          /\ n \in 0 .. InboxSize(d) - 1 /\ k \in 0 .. Counts(d)[n] - 1
          /\ w = <<Region(d, n) * BS + k, TokenAt(d, n, k)>>
    BY SentWhere
  <2>2. QED
    BY <2>1 DEF AllSent
<1>5. QED
  BY <1>2, <1>3, <1>4 DEF OneValue

LEMMA ToldApart ==
  ASSUME expertIds \in [Ranks -> Assignments], NEW d \in Ranks
  PROVE  /\ AllTold(d) \in SUBSET (Words \X (0 .. BS)) /\ OneValue(AllTold(d))
         /\ \A s \in Ranks, c \in Cores : \A w \in Told(s, c, d) :
              w \in AllTold(d) /\ WordSender(d, w[1]) = s
<1>1. ASSUME NEW s \in Ranks, NEW e \in Experts PROVE CountFor(s, e) \in 0 .. BS
  <2>1. BS \in Nat /\ BS * K \in Nat /\ Shared \in Nat /\ s \in Nat /\ e \in Nat
    <3>1. BS \in Nat /\ K \in Nat /\ Shared \in Nat /\ s \in Nat
      BY Sizes, Inboxes
    <3>2. BS * K \in Nat /\ e \in Nat
      BY <3>1 DEF Experts
    <3>3. QED
      BY <3>1, <3>2
  <2>2. CASE e < Shared
    <3>1. SharedCount(s, e) \in 0 .. BS
      BY <2>1, <2>2, SharedRun
    <3>2. QED
      BY <2>1, <2>2, <3>1 DEF CountFor
  <2>3. CASE ~(e < Shared)
    <3>1. PICK f : f = e - Shared
      OBVIOUS
    <3>2. PicksBefore(s, f, BS * K) \in Nat
      BY <2>1, PicksMore
    <3>3. PicksBefore(s, f, BS * K) <= BS
      <4>1. expertIds[s] \in Assignments /\ BS * K \in 0 .. BS * K
        BY <2>1
      <4>2. QED
        BY <4>1, PicksFew
    <3>4. QED
      BY <2>1, <2>3, <3>1, <3>2, <3>3 DEF CountFor
  <2>4. QED
    BY <2>2, <2>3
<1>2. AllTold(d) \in SUBSET (Words \X (0 .. BS))
  <2>1. ASSUME NEW n \in 0 .. InboxSize(d) - 1
        PROVE  n \in Words /\ CountFor(WordSender(d, n), WordExpert(d, n)) \in 0 .. BS
    BY <1>1, WordThere, Inboxes
  <2>2. QED
    BY <2>1 DEF AllTold
<1>3. OneValue(AllTold(d))
  BY DEF OneValue, AllTold
<1>4. ASSUME NEW s \in Ranks, NEW c \in Cores, NEW w \in Told(s, c, d)
      PROVE  w \in AllTold(d) /\ WordSender(d, w[1]) = s
  <2>1. PICK e \in Slice(ExpertNum, C, c) :
          Home(e) = d /\ w = <<StatusIndex(<<s, e>>), CountFor(s, e)>>
    BY DEF Told
  <2>2. e \in Experts
    BY DEF Slice, Experts
  <2>3. PICK n : n = StatusIndex(<<s, e>>)
    OBVIOUS
  <2>4. n \in 0 .. InboxSize(d) - 1 /\ WordSender(d, n) = s /\ WordExpert(d, n) = e
    BY <2>1, <2>2, <2>3, WordIs
  <2>5. w = <<n, CountFor(WordSender(d, n), WordExpert(d, n))>>
    BY <2>1, <2>3, <2>4
  <2>6. QED
    BY <2>4, <2>5 DEF AllTold
<1>5. QED
  BY <1>2, <1>3, <1>4

LEMMA PlacesApart ==
  ASSUME expertIds \in [Ranks -> Assignments], NEW r \in Ranks
  PROVE  /\ AllPlaces(r) \in SUBSET (Picks \X Tokens) /\ OneValue(AllPlaces(r))
         /\ \A c \in Cores : PlacesFrom(r, c) \subseteq AllPlaces(r)
<1>1. ASSUME NEW i \in Picks PROVE PicksBefore(r, expertIds[r][i], i) \in Tokens
  <2>1. BS \in Nat /\ BS * K \in Nat
    <3>1. BS \in Nat /\ K \in Nat
      BY Sizes
    <3>2. QED
      BY <3>1
  <2>2. PICK e : e = expertIds[r][i]
    OBVIOUS
  <2>3. PicksBefore(r, e, i) \in Nat /\ PicksBefore(r, e, i) < PicksBefore(r, e, BS * K)
    BY <2>2, PlaceIs
  <2>4. PicksBefore(r, e, BS * K) <= BS
    <3>1. expertIds[r] \in Assignments /\ BS * K \in 0 .. BS * K
      BY <2>1
    <3>2. QED
      BY <3>1, PicksFew
  <2>5. PicksBefore(r, e, BS * K) \in Nat
    BY <2>1, PicksMore
  <2>6. QED
    BY <2>1, <2>2, <2>3, <2>4, <2>5 DEF Tokens
<1>2. AllPlaces(r) \in SUBSET (Picks \X Tokens)
  BY <1>1 DEF AllPlaces
<1>3. OneValue(AllPlaces(r))
  BY DEF OneValue, AllPlaces
<1>4. \A c \in Cores : PlacesFrom(r, c) \subseteq AllPlaces(r)
  BY SharesIn DEF PlacesFrom, AllPlaces
<1>5. QED
  BY <1>2, <1>3, <1>4

LEMMA SumsApart ==
  ASSUME expertIds \in [Ranks -> Assignments], NEW r \in Ranks
  PROVE  /\ AllSums(r) \in SUBSET (Words \X (0 .. R * M * BS)) /\ OneValue(AllSums(r))
         /\ \A c \in Cores : SumsFrom(r, c) \subseteq AllSums(r)
<1>1. ASSUME NEW n \in 0 .. InboxSize(r) - 1
      PROVE  n \in Words /\ First(r, n + 1) \in 0 .. R * M * BS
  BY FirstNext, FirstBound, Inboxes
<1>2. AllSums(r) \in SUBSET (Words \X (0 .. R * M * BS))
  BY <1>1 DEF AllSums
<1>3. OneValue(AllSums(r))
  BY DEF OneValue, AllSums
<1>4. \A c \in Cores : SumsFrom(r, c) \subseteq AllSums(r)
  BY DEF SumsFrom, AllSums, Slice
<1>5. QED
  BY <1>2, <1>3, <1>4

LEMMA RowsApart ==
  ASSUME expertIds \in [Ranks -> Assignments], NEW r \in Ranks
  PROVE  /\ AllRows(r) \in SUBSET (Rows \X AllTokens) /\ OneValue(AllRows(r))
         /\ \A c \in Cores : /\ KeptBy(r, c) \subseteq AllRows(r)
                             /\ RowsFrom(r, c) \subseteq AllRows(r)
<1> DEFINE Kept == {<<t, <<r, t>>>> : t \in IF r < Shared THEN Tokens ELSE {}}
           Placed == UNION {RowsAt(r, n) : n \in {m \in 0 .. InboxSize(r) - 1 : ~Own(r, m)}}
<1>1. BS \in Nat \ {0} /\ R * M * BS \in Nat /\ BS <= R * M * BS
  <2>1. PICK a \in Nat \ {0} : a = R * M
    <3>1. R * M \in Nat /\ InboxSize(r) \in Nat \ {0} /\ InboxSize(r) <= R * M
      BY Inboxes
    <3>2. QED
      BY <3>1
  <2>2. BS * 1 <= BS * a /\ BS * a = a * BS /\ BS * a \in Nat
    BY <2>1, MulMono, Sizes
  <2>3. QED
    BY <2>1, <2>2, Sizes
<1>2. ASSUME NEW w \in Kept
      PROVE  r < Shared /\ \E t \in Tokens : w = <<t, <<r, t>>>>
  OBVIOUS
<1>3. ASSUME NEW w \in Placed
      PROVE  \E n \in 0 .. InboxSize(r) - 1 : \E k \in 0 .. Counts(r)[n] - 1 :
               ~Own(r, n) /\ w = <<First(r, n) + k, TokenAt(r, n, k)>>
  BY DEF RowsAt
<1>4. AllRows(r) = Kept \cup Placed
  BY DEF AllRows
<1> HIDE DEF Kept, Placed
<1>5. ASSUME NEW n \in 0 .. InboxSize(r) - 1, NEW k \in 0 .. Counts(r)[n] - 1
      PROVE  /\ First(r, n) + k \in Rows
             /\ r < Shared /\ ~Own(r, n) => BS <= First(r, n) + k
  <2>1. /\ n + 1 \in 0 .. InboxSize(r) /\ n \in 0 .. InboxSize(r)
        /\ First(r, n + 1) = First(r, n) + Counts(r)[n]
    BY FirstNext, Inboxes
  <2>2. First(r, n) \in Nat /\ First(r, n + 1) \in 0 .. R * M * BS /\ Counts(r)[n] \in Nat
    BY <2>1, FirstNext, FirstBound, CountsType
  <2>3. First(r, n) + k \in Rows
    BY <1>1, <2>1, <2>2 DEF Rows
  <2>4. ASSUME r < Shared, ~Own(r, n) PROVE BS <= First(r, n) + k
    <3>1. Shared <= n /\ Shared \in 0 .. InboxSize(r)
      BY <2>4, Sizes, Inboxes DEF Own, InboxSize
    <3>2. First(r, Shared) <= First(r, n) /\ First(r, Shared) = BS
      BY <2>1, <2>4, <3>1, FirstGrow, FirstShared
    <3>3. QED
      BY <1>1, <2>2, <3>2
  <2>5. QED
    BY <2>3, <2>4
<1>6. ASSUME NEW w \in AllRows(r) PROVE w \in Rows \X AllTokens
  <2>1. CASE w \in Kept
    <3>1. PICK t \in Tokens : w = <<t, <<r, t>>>>
      BY <1>2, <2>1
    <3>2. t \in Rows
      BY <1>1 DEF Tokens, Rows
    <3>3. QED
      BY <3>1, <3>2 DEF AllTokens
  <2>2. CASE w \in Placed
    <3>1. PICK n, k :
            /\ n \in 0 .. InboxSize(r) - 1 /\ k \in 0 .. Counts(r)[n] - 1
            /\ w = <<First(r, n) + k, TokenAt(r, n, k)>>
      BY <1>3, <2>2
    <3>2. First(r, n) + k \in Rows /\ TokenAt(r, n, k) \in AllTokens
      BY <1>5, <3>1, TokenIs
    <3>3. QED
      BY <3>1, <3>2
  <2>3. QED
    BY <1>4, <2>1, <2>2
<1>7. ASSUME NEW v \in AllRows(r), NEW w \in AllRows(r), v[1] = w[1] PROVE v = w
  <2>1. ASSUME NEW x \in Kept, NEW y \in Placed PROVE x[1] # y[1]
    <3>1. PICK t \in Tokens : x = <<t, <<r, t>>>>
      BY <1>2
    <3>2. PICK n, k :
            /\ n \in 0 .. InboxSize(r) - 1 /\ k \in 0 .. Counts(r)[n] - 1
            /\ ~Own(r, n) /\ y = <<First(r, n) + k, TokenAt(r, n, k)>>
      BY <1>3
    <3>3. BS <= First(r, n) + k /\ First(r, n) + k \in Rows
      BY <1>2, <1>5, <3>2
    <3>4. t # First(r, n) + k
      BY <1>1, <3>3 DEF Tokens, Rows
    <3>5. QED
      BY <3>1, <3>2, <3>4
  <2>2. CASE v \in Kept /\ w \in Kept
    <3>1. PICK t \in Tokens : v = <<t, <<r, t>>>>
      BY <1>2, <2>2
    <3>2. PICK u \in Tokens : w = <<u, <<r, u>>>>
      BY <1>2, <2>2
    <3>3. QED
      BY <1>7, <3>1, <3>2
  <2>3. CASE v \in Placed /\ w \in Placed
    <3>1. PICK n, k :
            /\ n \in 0 .. InboxSize(r) - 1 /\ k \in 0 .. Counts(r)[n] - 1
            /\ v = <<First(r, n) + k, TokenAt(r, n, k)>>
      BY <1>3, <2>3
    <3>2. PICK m, j :
            /\ m \in 0 .. InboxSize(r) - 1 /\ j \in 0 .. Counts(r)[m] - 1
            /\ w = <<First(r, m) + j, TokenAt(r, m, j)>>
      BY <1>3, <2>3
    <3>3. First(r, n) + k = First(r, m) + j
      BY <1>7, <3>1, <3>2
    <3>4. n = m /\ k = j
      BY <3>1, <3>2, <3>3, RowOnce
    <3>5. QED
      BY <3>1, <3>2, <3>4
  <2>4. QED
    BY <1>4, <1>7, <2>1, <2>2, <2>3
<1>8. ASSUME NEW c \in Cores
      PROVE  KeptBy(r, c) \subseteq AllRows(r) /\ RowsFrom(r, c) \subseteq AllRows(r)
  <2>1. KeptBy(r, c) \subseteq Kept
    BY SharesIn DEF KeptBy, Kept
  <2>2. RowsFrom(r, c) \subseteq Placed
    <3>1. Slice(InboxSize(r), C, c) \subseteq 0 .. InboxSize(r) - 1
      BY DEF Slice
    <3>2. QED
      BY <3>1 DEF RowsFrom, Placed
  <2>3. QED
    BY <1>4, <2>1, <2>2
<1>9. QED
  BY <1>6, <1>7, <1>8 DEF OneValue

-------------------------------------------------------------------------------
(***************************************************************************)
(* What a rank has when all its words have come.                           *)
(***************************************************************************)
LEMMA SentToIs ==
  ASSUME NEW d, NEW w
  PROVE  w \in SentTo(d) <=>
           \E s \in Ranks, c \in Cores : pc[s][c] # "send" /\ w \in SentFrom(s, c, d)
<1>1. ASSUME w \in SentTo(d)
      PROVE  \E s \in Ranks, c \in Cores : pc[s][c] # "send" /\ w \in SentFrom(s, c, d)
  <2>1. PICK p \in Beyond({"send"}) : w \in SentFrom(p[1], p[2], d)
    BY <1>1 DEF SentTo
  <2>2. p[1] \in Ranks /\ p[2] \in Cores /\ pc[p[1]][p[2]] \notin {"send"}
    BY DEF Beyond
  <2>3. QED
    BY <2>1, <2>2
<1>2. ASSUME NEW s \in Ranks, NEW c \in Cores, pc[s][c] # "send", w \in SentFrom(s, c, d)
      PROVE  w \in SentTo(d)
  <2>1. PICK p : p = <<s, c>>
    OBVIOUS
  <2>2. p \in Beyond({"send"}) /\ w \in SentFrom(p[1], p[2], d)
    BY <1>2, <2>1 DEF Beyond
  <2>3. QED
    BY <2>2 DEF SentTo
<1>3. QED
  BY <1>1, <1>2

LEMMA ToldToIs ==
  ASSUME NEW d, NEW w
  PROVE  w \in ToldTo(d) <=>
           \E s \in Ranks, c \in Cores :
             pc[s][c] \notin {"send", "status"} /\ w \in Told(s, c, d)
<1>1. ASSUME w \in ToldTo(d)
      PROVE  \E s \in Ranks, c \in Cores : pc[s][c] \notin {"send", "status"} /\ w \in Told(s, c, d)
  <2>1. PICK p \in Beyond({"send", "status"}) : w \in Told(p[1], p[2], d)
    BY <1>1 DEF ToldTo
  <2>2. p[1] \in Ranks /\ p[2] \in Cores /\ pc[p[1]][p[2]] \notin {"send", "status"}
    BY DEF Beyond
  <2>3. QED
    BY <2>1, <2>2
<1>2. ASSUME NEW s \in Ranks, NEW c \in Cores, pc[s][c] \notin {"send", "status"}, w \in Told(s, c, d)
      PROVE  w \in ToldTo(d)
  <2>1. PICK p : p = <<s, c>>
    OBVIOUS
  <2>2. p \in Beyond({"send", "status"}) /\ w \in Told(p[1], p[2], d)
    BY <1>2, <2>1 DEF Beyond
  <2>3. QED
    BY <2>2 DEF ToldTo
<1>3. QED
  BY <1>1, <1>2

\* A word that has come tells the count, and that its sender has sent all tokens.
LEMMA WordCame ==
  ASSUME TypeOK, Ordered, WordsHold, NEW r \in Ranks,
         NEW n \in 0 .. InboxSize(r) - 1, status[r][n] # Nothing
  PROVE  /\ status[r][n] = CountFor(WordSender(r, n), WordExpert(r, n))
         /\ AllPast(WordSender(r, n), {"send"})
<1>1. expertIds \in [Ranks -> Assignments] /\ status[r] \in [Words -> (0 .. BS) \cup {Nothing}]
  BY DEF TypeOK
<1>2. n \in DOMAIN status[r]
  BY <1>1, Inboxes
<1>3. PICK w : w = <<n, status[r][n]>> /\ w \in ToldTo(r)
  BY <1>2 DEF WordsHold, Holds
<1>4. PICK s \in Ranks, c \in Cores :
        pc[s][c] \notin {"send", "status"} /\ w \in Told(s, c, r)
  BY <1>3, ToldToIs
<1>5. w \in AllTold(r) /\ WordSender(r, w[1]) = s
  BY <1>1, <1>4, ToldApart
<1>6. status[r][n] = CountFor(WordSender(r, n), WordExpert(r, n))
  BY <1>3, <1>5 DEF AllTold
<1>7. WordSender(r, n) = s
  BY <1>3, <1>5
<1>8. AllPast(s, {"send"})
  BY <1>4 DEF Ordered
<1>9. QED
  BY <1>6, <1>7, <1>8

\* All senders have sent their tokens.
LEMMA SendersDone ==
  ASSUME TypeOK, Ordered, WordsHold, NEW r \in Ranks, Arrived(r), NEW s \in Ranks
  PROVE  AllPast(s, {"send"})
<1>1. s \in Nat /\ s < R /\ R \in Nat \ {0} /\ M \in Nat \ {0}
  BY Sizes, Inboxes
<1>2. s \in 0 .. InboxSize(r) - 1
  <2>1. R * 1 <= R * M /\ R * M \in Int
    BY <1>1, MulMono
  <2>2. QED
    BY <1>1, <2>1 DEF InboxSize
<1>3. WordSender(r, s) = s
  <2>1. s % R = s
    <3>1. (s + 0 * R) % R = s
      BY <1>1, Digits
    <3>2. s + 0 * R = s
      BY <1>1
    <3>3. QED
      BY <3>1, <3>2
  <2>2. QED
    BY <2>1 DEF WordSender
<1>4. status[r][s] # Nothing
  BY <1>2 DEF Arrived
<1>5. QED
  BY <1>2, <1>3, <1>4, WordCame

\* The counts it works with are those of its words, its own tokens included.
LEMMA CountsCome ==
  ASSUME TypeOK, Ordered, WordsHold, NEW r \in Ranks, Arrived(r),
         NEW n \in 0 .. InboxSize(r) - 1
  PROVE  Count(r, n) = Counts(r)[n] /\ CumSum(r, n) = First(r, n + 1)
<1>1. expertIds \in [Ranks -> Assignments]
  BY DEF TypeOK
<1>2. ASSUME NEW m \in 0 .. InboxSize(r) - 1 PROVE Count(r, m) = Counts(r)[m]
  <2>1. status[r][m] = CountFor(WordSender(r, m), WordExpert(r, m))
    BY <1>2, WordCame DEF Arrived
  <2>2. Counts(r)[m] = IF r < Shared THEN SharedCount(m, r)
                       ELSE PicksBefore(WordSender(r, m), WordExpert(r, m) - Shared, BS * K)
    BY <1>1, CountsType
  <2>3. r \in Nat /\ m \in Nat /\ Shared \in Nat
    BY Inboxes, Sizes
  <2>4. CASE r < Shared /\ m < Shared
    <3>1. SharedCount(r, m) = SharedCount(m, r)
      <4>1. Shared # 0 /\ m + r = r + m
        BY <2>3, <2>4
      <4>2. SharedCount(r, m) = Dealt(m + r + 1) - Dealt(m + r)
        BY <2>3, <4>1, SharedRun
      <4>3. SharedCount(m, r) = Dealt(r + m + 1) - Dealt(r + m)
        BY <2>3, <4>1, SharedRun
      <4>4. QED
        BY <4>1, <4>2, <4>3
    <3>2. QED
      BY <2>2, <2>4, <3>1 DEF Count
  <2>5. CASE r < Shared /\ ~(m < Shared)
    BY <2>1, <2>2, <2>5 DEF Count, CountFor, WordSender, WordExpert
  <2>6. CASE ~(r < Shared)
    <3>1. ~(WordExpert(r, m) < Shared)
      <4>1. WordExpert(r, m) \in Experts /\ Home(WordExpert(r, m)) = r
        BY WordThere
      <4>2. Home(WordExpert(r, m)) < Shared <=> WordExpert(r, m) < Shared
        BY <4>1, WordIs
      <4>3. QED
        BY <2>6, <4>1, <4>2
    <3>2. QED
      BY <2>1, <2>2, <2>6, <3>1 DEF Count, CountFor
  <2>7. QED
    BY <2>4, <2>5, <2>6
<1>3. CumSum(r, n) = First(r, n + 1)
  <2>1. n \in Nat /\ n + 1 \in Nat /\ n + 1 - 1 = n
    BY Inboxes
  <2>2. \A m \in 0 .. n : Counts(r)[m] \in Nat /\ Count(r, m) = Counts(r)[m]
    <3>1. \A m \in 0 .. n : m \in 0 .. InboxSize(r) - 1
      BY Inboxes
    <3>2. QED
      BY <1>1, <1>2, <3>1, CountsType
  <2>3. PICK f : f = Counts(r)
    OBVIOUS
  <2>4. \A m \in 0 .. n : f[m] \in Nat /\ Count(r, m) = f[m]
    BY <2>2, <2>3
  <2>5. CumSum(r, n) = Total(f, 0 .. n)
    BY <2>1, <2>4, CumSumIs
  <2>6. AddUp(f, n + 1) = Total(f, 0 .. n)
    <3>1. \A m \in 0 .. n + 1 - 1 : f[m] \in Nat
      BY <2>1, <2>4
    <3>2. AddUp(f, n + 1) = Total(f, 0 .. n + 1 - 1)
      BY <2>1, <3>1, AddUpIs
    <3>3. QED
      BY <2>1, <3>2
  <2>7. QED
    BY <2>3, <2>5, <2>6 DEF First
<1>4. QED
  BY <1>2, <1>3

\* The tokens are where its words' regions are.
LEMMA TokensCome ==
  ASSUME TypeOK, Ordered, WindowsHold, WordsHold, NEW r \in Ranks, Arrived(r),
         NEW n \in 0 .. InboxSize(r) - 1, ~Own(r, n), NEW k \in 0 .. Counts(r)[n] - 1
  PROVE  window[r][Region(r, n) * BS + k] = TokenAt(r, n, k)
<1>1. /\ expertIds \in [Ranks -> Assignments]
      /\ window[r] \in [Slots -> AllTokens \cup {Nothing}]
  BY DEF TypeOK
<1>2. PICK s \in Ranks : s = WordSender(r, n)
  BY WordThere
<1>3. PICK w : w = <<Region(r, n) * BS + k, TokenAt(r, n, k)>>
  OBVIOUS
<1>4. PICK c \in Cores : w \in SentFrom(s, c, r)
  BY <1>1, <1>2, <1>3, SentThere
<1>5. pc[s][c] # "send"
  BY SendersDone DEF AllPast
<1>6. w \in SentTo(r)
  BY <1>4, <1>5, SentToIs
<1>7. w[1] \in DOMAIN window[r]
  BY <1>1, <1>3, SlotOnce
<1>8. window[r][w[1]] = w[2]
  BY <1>6, <1>7 DEF WindowsHold, Holds
<1>9. QED
  BY <1>3, <1>8

\* So it copies to the rows the tokens that belong there.
LEMMA RowsCome ==
  ASSUME TypeOK, Ordered, WindowsHold, WordsHold, NEW r \in Ranks, Arrived(r),
         NEW c \in Cores
  PROVE  /\ RowsCopied(r, c) = RowsFrom(r, c)
         /\ {<<n, CumSum(r, n)>> : n \in Slice(InboxSize(r), C, c)} = SumsFrom(r, c)
<1> DEFINE Piece(n) ==
      {<<CumSum(r, n) - Count(r, n) + k, window[r][Region(r, n) * BS + k]>> :
         k \in 0 .. Count(r, n) - 1}
<1>1. Slice(InboxSize(r), C, c) \subseteq 0 .. InboxSize(r) - 1
  BY DEF Slice
<1>2. expertIds \in [Ranks -> Assignments]
  BY DEF TypeOK
<1>3. ASSUME NEW n \in 0 .. InboxSize(r) - 1, ~Own(r, n)
      PROVE  Piece(n) = RowsAt(r, n)
  <2>1. Count(r, n) = Counts(r)[n] /\ CumSum(r, n) = First(r, n + 1)
    BY CountsCome
  <2>2. CumSum(r, n) - Count(r, n) = First(r, n)
    <3>1. /\ n \in 0 .. InboxSize(r) /\ First(r, n) \in Nat /\ Counts(r)[n] \in Nat
          /\ First(r, n + 1) = First(r, n) + Counts(r)[n]
      BY <1>2, FirstNext, CountsType, Inboxes
    <3>2. QED
      BY <2>1, <3>1
  <2>3. \A k \in 0 .. Counts(r)[n] - 1 : window[r][Region(r, n) * BS + k] = TokenAt(r, n, k)
    BY <1>3, TokensCome
  <2>4. QED
    BY <2>1, <2>2, <2>3 DEF RowsAt
<1>4. RowsCopied(r, c) =
        UNION {Piece(n) : n \in {m \in Slice(InboxSize(r), C, c) : ~Own(r, m)}}
  BY DEF RowsCopied, Own
<1> HIDE DEF Piece
<1>5. RowsCopied(r, c) = RowsFrom(r, c)
  BY <1>1, <1>3, <1>4 DEF RowsFrom
<1>6. {<<n, CumSum(r, n)>> : n \in Slice(InboxSize(r), C, c)} = SumsFrom(r, c)
  <2>1. \A n \in Slice(InboxSize(r), C, c) : CumSum(r, n) = First(r, n + 1)
    BY <1>1, CountsCome
  <2>2. QED
    BY <2>1 DEF SumsFrom
<1>7. QED
  BY <1>5, <1>6

-------------------------------------------------------------------------------
(***************************************************************************)
(* The routing of an invocation does not change, so neither does what is   *)
(* to be written.                                                          *)
(***************************************************************************)
LEMMA RoutingStays ==
  ASSUME expertIds' = expertIds
  PROVE  /\ \A r, c, d : SentFrom(r, c, d)' = SentFrom(r, c, d)
         /\ \A r, c, d : Told(r, c, d)' = Told(r, c, d)
         /\ \A r, c : PlacesFrom(r, c)' = PlacesFrom(r, c)
         /\ \A r, n : First(r, n)' = First(r, n)
         /\ \A r, c : RowsFrom(r, c)' = RowsFrom(r, c)
         /\ \A r, c : SumsFrom(r, c)' = SumsFrom(r, c)
<1>1. \A r, e, i : PicksBefore(r, e, i)' = PicksBefore(r, e, i)
  BY DEF PicksBefore
<1>2. \A r, i : MoeSlot(r, i)' = MoeSlot(r, i)
  BY DEF MoeSlot, PicksBefore
<1>3. \A r, c, d : SentFrom(r, c, d)' = SentFrom(r, c, d)
  BY <1>2 DEF SentFrom, MoeSent, SharedSent
<1>4. \A r, e : CountFor(r, e)' = CountFor(r, e)
  BY <1>1 DEF CountFor
<1>5. \A r, c, d : Told(r, c, d)' = Told(r, c, d)
  BY <1>4 DEF Told
<1>6. \A r, c : PlacesFrom(r, c)' = PlacesFrom(r, c)
  BY DEF PlacesFrom, PicksBefore
<1>7. \A r : Counts(r)' = Counts(r)
  BY <1>1 DEF Counts
<1>8. \A r, n : First(r, n)' = First(r, n)
  BY <1>7 DEF First
<1>9. \A r, n, k : TokenAt(r, n, k)' = TokenAt(r, n, k)
  <2>1. \A s, e, k : PickAt(s, e, k)' = PickAt(s, e, k)
    BY DEF PickAt, PicksBefore
  <2>2. QED
    BY <2>1 DEF TokenAt
<1>10. \A r, n : RowsAt(r, n)' = RowsAt(r, n)
  BY <1>7, <1>8, <1>9 DEF RowsAt
<1>11. \A r, c : RowsFrom(r, c)' = RowsFrom(r, c)
  BY <1>10 DEF RowsFrom
<1>12. \A r, c : SumsFrom(r, c)' = SumsFrom(r, c)
  BY <1>8 DEF SumsFrom
<1>13. QED
  BY <1>3, <1>5, <1>6, <1>8, <1>11, <1>12

-------------------------------------------------------------------------------
(***************************************************************************)
(* Steps.  A core that goes on adds its writes to those of the cores       *)
(* beyond the function it has left.                                        *)
(***************************************************************************)
LEMMA CoreMoves ==
  ASSUME pc \in [Ranks -> [Cores -> Labels]], NEW r \in Ranks, NEW c \in Cores,
         NEW label \in Labels, Goto(r, c, label)
  PROVE  /\ pc' \in [Ranks -> [Cores -> Labels]]
         /\ pc'[r][c] = label
         /\ \A s \in Ranks, d \in Cores : s # r \/ d # c => pc'[s][d] = pc[s][d]
BY DEF Goto

LEMMA BeyondNext ==
  ASSUME pc \in [Ranks -> [Cores -> Labels]], NEW r \in Ranks, NEW c \in Cores,
         NEW label \in Labels, Goto(r, c, label), NEW L
  PROVE  /\ label \notin L => /\ Beyond(L)' = Beyond(L) \cup {<<r, c>>}
                              /\ BeyondAt(r, L)' = BeyondAt(r, L) \cup {c}
         /\ (pc[r][c] \in L <=> label \in L) =>
              /\ Beyond(L)' = Beyond(L)
              /\ BeyondAt(r, L)' = BeyondAt(r, L)
         /\ \A s \in Ranks \ {r} : BeyondAt(s, L)' = BeyondAt(s, L)
<1>1. /\ pc'[r][c] = label
      /\ \A s \in Ranks, d \in Cores : s # r \/ d # c => pc'[s][d] = pc[s][d]
  BY CoreMoves
<1>2. \A p \in Ranks \X Cores :
        pc'[p[1]][p[2]] = IF p = <<r, c>> THEN label ELSE pc[p[1]][p[2]]
  BY <1>1
<1>3. ASSUME label \notin L
      PROVE  /\ Beyond(L)' = Beyond(L) \cup {<<r, c>>}
             /\ BeyondAt(r, L)' = BeyondAt(r, L) \cup {c}
  <2>1. Beyond(L)' = Beyond(L) \cup {<<r, c>>}
    BY <1>2, <1>3 DEF Beyond
  <2>2. BeyondAt(r, L)' = BeyondAt(r, L) \cup {c}
    BY <1>1, <1>3 DEF BeyondAt
  <2>3. QED
    BY <2>1, <2>2
<1>4. ASSUME pc[r][c] \in L <=> label \in L
      PROVE  /\ Beyond(L)' = Beyond(L)
             /\ BeyondAt(r, L)' = BeyondAt(r, L)
  <2>1. Beyond(L)' = Beyond(L)
    BY <1>2, <1>4 DEF Beyond
  <2>2. BeyondAt(r, L)' = BeyondAt(r, L)
    BY <1>1, <1>4 DEF BeyondAt
  <2>3. QED
    BY <2>1, <2>2
<1>5. \A s \in Ranks \ {r} : BeyondAt(s, L)' = BeyondAt(s, L)
  BY <1>1 DEF BeyondAt
<1>6. QED
  BY <1>3, <1>4, <1>5

\* The sets of one rank when only another's cores have moved.
LEMMA OthersStay ==
  ASSUME pc \in [Ranks -> [Cores -> Labels]], NEW r \in Ranks, NEW c \in Cores,
         NEW label \in Labels, Goto(r, c, label), expertIds' = expertIds,
         NEW s \in Ranks, s # r
  PROVE  PlacesOf(s)' = PlacesOf(s) /\ RowsOf(s)' = RowsOf(s) /\ SumsOf(s)' = SumsOf(s)
<1>1. \A L : BeyondAt(s, L)' = BeyondAt(s, L)
  <2>1. \A d \in Cores : pc'[s][d] = pc[s][d]
    BY CoreMoves
  <2>2. QED
    BY <2>1 DEF BeyondAt
<1>2. \A d : /\ PlacesFrom(s, d)' = PlacesFrom(s, d)
             /\ RowsFrom(s, d)' = RowsFrom(s, d) /\ SumsFrom(s, d)' = SumsFrom(s, d)
  BY RoutingStays
<1>3. PlacesOf(s)' = PlacesOf(s)
  BY <1>1, <1>2 DEF PlacesOf
<1>4. RowsOf(s)' = RowsOf(s)
  BY <1>1, <1>2 DEF RowsOf, KeptBy
<1>5. SumsOf(s)' = SumsOf(s)
  BY <1>1, <1>2 DEF SumsOf
<1>6. QED
  BY <1>3, <1>4, <1>5

LEMMA AfterSend ==
  ASSUME pc \in [Ranks -> [Cores -> Labels]], NEW r \in Ranks, NEW c \in Cores,
         pc[r][c] = "send", Goto(r, c, "status"), expertIds' = expertIds
  PROVE  /\ \A d : SentTo(d)' = SentTo(d) \cup SentFrom(r, c, d) /\ ToldTo(d)' = ToldTo(d)
         /\ PlacesOf(r)' = PlacesOf(r) \cup PlacesFrom(r, c)
         /\ RowsOf(r)' = RowsOf(r) \cup KeptBy(r, c) /\ SumsOf(r)' = SumsOf(r)
<1>1. /\ Beyond({"send"})' = Beyond({"send"}) \cup {<<r, c>>}
      /\ BeyondAt(r, {"send"})' = BeyondAt(r, {"send"}) \cup {c}
      /\ Beyond({"send", "status"})' = Beyond({"send", "status"})
      /\ BeyondAt(r, {"send", "status", "copy"})' = BeyondAt(r, {"send", "status", "copy"})
  <2>1. "status" \in Labels /\ "status" \notin {"send"}
    BY DEF Labels
  <2>2. /\ pc[r][c] \in {"send", "status"} <=> "status" \in {"send", "status"}
        /\ pc[r][c] \in {"send", "status", "copy"} <=> "status" \in {"send", "status", "copy"}
    OBVIOUS
  <2>3. QED
    BY <2>1, <2>2, BeyondNext
<1>2. /\ \A s, d, e : SentFrom(s, d, e)' = SentFrom(s, d, e) /\ Told(s, d, e)' = Told(s, d, e)
      /\ \A s, d : /\ PlacesFrom(s, d)' = PlacesFrom(s, d)
                   /\ RowsFrom(s, d)' = RowsFrom(s, d) /\ SumsFrom(s, d)' = SumsFrom(s, d)
  BY RoutingStays
<1>3. ASSUME NEW d PROVE SentTo(d)' = SentTo(d) \cup SentFrom(r, c, d)
  <2>1. SentTo(d)' = UNION {SentFrom(p[1], p[2], d) : p \in Beyond({"send"}) \cup {<<r, c>>}}
    BY <1>1, <1>2 DEF SentTo
  <2>2. ASSUME NEW w \in SentTo(d)' PROVE w \in SentTo(d) \cup SentFrom(r, c, d)
    <3>1. PICK p \in Beyond({"send"}) \cup {<<r, c>>} : w \in SentFrom(p[1], p[2], d)
      BY <2>1
    <3>2. CASE p \in Beyond({"send"})
      BY <3>1, <3>2 DEF SentTo
    <3>3. CASE p = <<r, c>>
      <4>1. p[1] = r /\ p[2] = c
        BY <3>3
      <4>2. QED
        BY <3>1, <4>1
    <3>4. QED
      BY <3>2, <3>3
  <2>3. SentFrom(r, c, d) \subseteq SentTo(d)'
    <3>1. PICK p : p = <<r, c>>
      OBVIOUS
    <3>2. p[1] = r /\ p[2] = c
      BY <3>1
    <3>3. QED
      BY <2>1, <3>1, <3>2
  <2>4. SentTo(d) \subseteq SentTo(d)'
    BY <2>1 DEF SentTo
  <2>5. QED
    BY <2>2, <2>3, <2>4
<1>4. ASSUME NEW d PROVE ToldTo(d)' = ToldTo(d)
  BY <1>1, <1>2 DEF ToldTo
<1>5. PlacesOf(r)' = PlacesOf(r) \cup PlacesFrom(r, c)
  BY <1>1, <1>2 DEF PlacesOf
<1>6. RowsOf(r)' = RowsOf(r) \cup KeptBy(r, c)
  <2>1. UNION {KeptBy(r, d) : d \in BeyondAt(r, {"send"})'}
          = (UNION {KeptBy(r, d) : d \in BeyondAt(r, {"send"})}) \cup KeptBy(r, c)
    BY <1>1
  <2>2. UNION {RowsFrom(r, d)' : d \in BeyondAt(r, {"send", "status", "copy"})'}
          = UNION {RowsFrom(r, d) : d \in BeyondAt(r, {"send", "status", "copy"})}
    BY <1>1, <1>2
  <2>3. RowsOf(r)' = (UNION {KeptBy(r, d) : d \in BeyondAt(r, {"send"})'})
          \cup (UNION {RowsFrom(r, d)' : d \in BeyondAt(r, {"send", "status", "copy"})'})
    BY DEF RowsOf, KeptBy
  <2>4. QED
    BY <2>1, <2>2, <2>3 DEF RowsOf
<1>7. SumsOf(r)' = SumsOf(r)
  BY <1>1, <1>2 DEF SumsOf
<1>8. QED
  BY <1>3, <1>4, <1>5, <1>6, <1>7

LEMMA AfterStatus ==
  ASSUME pc \in [Ranks -> [Cores -> Labels]], NEW r \in Ranks, NEW c \in Cores,
         pc[r][c] = "status", Goto(r, c, "copy"), expertIds' = expertIds
  PROVE  /\ \A d : SentTo(d)' = SentTo(d) /\ ToldTo(d)' = ToldTo(d) \cup Told(r, c, d)
         /\ PlacesOf(r)' = PlacesOf(r)
         /\ RowsOf(r)' = RowsOf(r) /\ SumsOf(r)' = SumsOf(r)
<1>1. /\ Beyond({"send"})' = Beyond({"send"})
      /\ BeyondAt(r, {"send"})' = BeyondAt(r, {"send"})
      /\ Beyond({"send", "status"})' = Beyond({"send", "status"}) \cup {<<r, c>>}
      /\ BeyondAt(r, {"send", "status", "copy"})' = BeyondAt(r, {"send", "status", "copy"})
  <2>1. "copy" \in Labels /\ "copy" \notin {"send", "status"}
    BY DEF Labels
  <2>2. /\ pc[r][c] \in {"send"} <=> "copy" \in {"send"}
        /\ pc[r][c] \in {"send", "status", "copy"} <=> "copy" \in {"send", "status", "copy"}
    OBVIOUS
  <2>3. QED
    BY <2>1, <2>2, BeyondNext
<1>2. /\ \A s, d, e : SentFrom(s, d, e)' = SentFrom(s, d, e) /\ Told(s, d, e)' = Told(s, d, e)
      /\ \A s, d : /\ PlacesFrom(s, d)' = PlacesFrom(s, d)
                   /\ RowsFrom(s, d)' = RowsFrom(s, d) /\ SumsFrom(s, d)' = SumsFrom(s, d)
  BY RoutingStays
<1>3. ASSUME NEW d PROVE SentTo(d)' = SentTo(d)
  BY <1>1, <1>2 DEF SentTo
<1>4. ASSUME NEW d PROVE ToldTo(d)' = ToldTo(d) \cup Told(r, c, d)
  <2>1. ToldTo(d)' = UNION {Told(p[1], p[2], d) : p \in Beyond({"send", "status"}) \cup {<<r, c>>}}
    BY <1>1, <1>2 DEF ToldTo
  <2>2. ASSUME NEW w \in ToldTo(d)' PROVE w \in ToldTo(d) \cup Told(r, c, d)
    <3>1. PICK p \in Beyond({"send", "status"}) \cup {<<r, c>>} : w \in Told(p[1], p[2], d)
      BY <2>1
    <3>2. CASE p \in Beyond({"send", "status"})
      BY <3>1, <3>2 DEF ToldTo
    <3>3. CASE p = <<r, c>>
      <4>1. p[1] = r /\ p[2] = c
        BY <3>3
      <4>2. QED
        BY <3>1, <4>1
    <3>4. QED
      BY <3>2, <3>3
  <2>3. Told(r, c, d) \subseteq ToldTo(d)'
    <3>1. PICK p : p = <<r, c>>
      OBVIOUS
    <3>2. p[1] = r /\ p[2] = c
      BY <3>1
    <3>3. QED
      BY <2>1, <3>1, <3>2
  <2>4. ToldTo(d) \subseteq ToldTo(d)'
    BY <2>1 DEF ToldTo
  <2>5. QED
    BY <2>2, <2>3, <2>4
<1>5. PlacesOf(r)' = PlacesOf(r)
  BY <1>1, <1>2 DEF PlacesOf
<1>6. RowsOf(r)' = RowsOf(r)
  BY <1>1, <1>2 DEF RowsOf, KeptBy
<1>7. SumsOf(r)' = SumsOf(r)
  BY <1>1, <1>2 DEF SumsOf
<1>8. QED
  BY <1>3, <1>4, <1>5, <1>6, <1>7

LEMMA AfterCopy ==
  ASSUME pc \in [Ranks -> [Cores -> Labels]], NEW r \in Ranks, NEW c \in Cores,
         pc[r][c] = "copy", Goto(r, c, "totals"), expertIds' = expertIds
  PROVE  /\ \A d : SentTo(d)' = SentTo(d) /\ ToldTo(d)' = ToldTo(d)
         /\ PlacesOf(r)' = PlacesOf(r)
         /\ RowsOf(r)' = RowsOf(r) \cup RowsFrom(r, c)
         /\ SumsOf(r)' = SumsOf(r) \cup SumsFrom(r, c)
<1>1. /\ Beyond({"send"})' = Beyond({"send"})
      /\ BeyondAt(r, {"send"})' = BeyondAt(r, {"send"})
      /\ Beyond({"send", "status"})' = Beyond({"send", "status"})
      /\ BeyondAt(r, {"send", "status", "copy"})'
           = BeyondAt(r, {"send", "status", "copy"}) \cup {c}
  <2>1. "totals" \in Labels /\ "totals" \notin {"send", "status", "copy"}
    BY DEF Labels
  <2>2. /\ pc[r][c] \in {"send"} <=> "totals" \in {"send"}
        /\ pc[r][c] \in {"send", "status"} <=> "totals" \in {"send", "status"}
    OBVIOUS
  <2>3. QED
    BY <2>1, <2>2, BeyondNext
<1>2. /\ \A s, d, e : SentFrom(s, d, e)' = SentFrom(s, d, e) /\ Told(s, d, e)' = Told(s, d, e)
      /\ \A s, d : /\ PlacesFrom(s, d)' = PlacesFrom(s, d)
                   /\ RowsFrom(s, d)' = RowsFrom(s, d) /\ SumsFrom(s, d)' = SumsFrom(s, d)
  BY RoutingStays
<1>3. ASSUME NEW d PROVE SentTo(d)' = SentTo(d)
  BY <1>1, <1>2 DEF SentTo
<1>4. ASSUME NEW d PROVE ToldTo(d)' = ToldTo(d)
  BY <1>1, <1>2 DEF ToldTo
<1>5. PlacesOf(r)' = PlacesOf(r)
  BY <1>1, <1>2 DEF PlacesOf
<1>6. RowsOf(r)' = RowsOf(r) \cup RowsFrom(r, c)
  <2>1. UNION {KeptBy(r, d) : d \in BeyondAt(r, {"send"})'}
          = UNION {KeptBy(r, d) : d \in BeyondAt(r, {"send"})}
    BY <1>1
  <2>2. UNION {RowsFrom(r, d)' : d \in BeyondAt(r, {"send", "status", "copy"})'}
          = (UNION {RowsFrom(r, d) : d \in BeyondAt(r, {"send", "status", "copy"})})
              \cup RowsFrom(r, c)
    BY <1>1, <1>2
  <2>3. RowsOf(r)' = (UNION {KeptBy(r, d) : d \in BeyondAt(r, {"send"})'})
          \cup (UNION {RowsFrom(r, d)' : d \in BeyondAt(r, {"send", "status", "copy"})'})
    BY DEF RowsOf, KeptBy
  <2>4. QED
    BY <2>1, <2>2, <2>3 DEF RowsOf
<1>7. SumsOf(r)' = SumsOf(r) \cup SumsFrom(r, c)
  BY <1>1, <1>2 DEF SumsOf
<1>8. QED
  BY <1>3, <1>4, <1>5, <1>6, <1>7

LEMMA AfterTotals ==
  ASSUME pc \in [Ranks -> [Cores -> Labels]], NEW r \in Ranks, NEW c \in Cores,
         pc[r][c] = "totals", Goto(r, c, "done"), expertIds' = expertIds
  PROVE  /\ \A d : SentTo(d)' = SentTo(d) /\ ToldTo(d)' = ToldTo(d)
         /\ PlacesOf(r)' = PlacesOf(r)
         /\ RowsOf(r)' = RowsOf(r) /\ SumsOf(r)' = SumsOf(r)
<1>1. /\ Beyond({"send"})' = Beyond({"send"})
      /\ BeyondAt(r, {"send"})' = BeyondAt(r, {"send"})
      /\ Beyond({"send", "status"})' = Beyond({"send", "status"})
      /\ BeyondAt(r, {"send", "status", "copy"})' = BeyondAt(r, {"send", "status", "copy"})
  <2>1. "done" \in Labels
    BY DEF Labels
  <2>2. /\ pc[r][c] \in {"send"} <=> "done" \in {"send"}
        /\ pc[r][c] \in {"send", "status"} <=> "done" \in {"send", "status"}
        /\ pc[r][c] \in {"send", "status", "copy"} <=> "done" \in {"send", "status", "copy"}
    OBVIOUS
  <2>3. QED
    BY <2>1, <2>2, BeyondNext
<1>2. /\ \A s, d, e : SentFrom(s, d, e)' = SentFrom(s, d, e) /\ Told(s, d, e)' = Told(s, d, e)
      /\ \A s, d : /\ PlacesFrom(s, d)' = PlacesFrom(s, d)
                   /\ RowsFrom(s, d)' = RowsFrom(s, d) /\ SumsFrom(s, d)' = SumsFrom(s, d)
  BY RoutingStays
<1>3. ASSUME NEW d PROVE SentTo(d)' = SentTo(d)
  BY <1>1, <1>2 DEF SentTo
<1>4. ASSUME NEW d PROVE ToldTo(d)' = ToldTo(d)
  BY <1>1, <1>2 DEF ToldTo
<1>5. PlacesOf(r)' = PlacesOf(r)
  BY <1>1, <1>2 DEF PlacesOf
<1>6. RowsOf(r)' = RowsOf(r)
  BY <1>1, <1>2 DEF RowsOf, KeptBy
<1>7. SumsOf(r)' = SumsOf(r)
  BY <1>1, <1>2 DEF SumsOf
<1>8. QED
  BY <1>3, <1>4, <1>5, <1>6, <1>7

\* What has been written is among what is to be.
LEMMA SoFar ==
  ASSUME TypeOK, NEW r \in Ranks
  PROVE  /\ SentTo(r) \subseteq AllSent(r) /\ ToldTo(r) \subseteq AllTold(r)
         /\ PlacesOf(r) \subseteq AllPlaces(r) /\ RowsOf(r) \subseteq AllRows(r)
         /\ SumsOf(r) \subseteq AllSums(r)
<1>1. expertIds \in [Ranks -> Assignments]
  BY DEF TypeOK
<1>2. SentTo(r) \subseteq AllSent(r)
  BY <1>1, SentToIs, SentApart
<1>3. ToldTo(r) \subseteq AllTold(r)
  BY <1>1, ToldToIs, ToldApart
<1>4. \A L : BeyondAt(r, L) \subseteq Cores
  BY DEF BeyondAt
<1>5. PlacesOf(r) \subseteq AllPlaces(r)
  BY <1>1, <1>4, PlacesApart DEF PlacesOf
<1>6. RowsOf(r) \subseteq AllRows(r)
  <2>1. \A c \in Cores : KeptBy(r, c) \subseteq AllRows(r) /\ RowsFrom(r, c) \subseteq AllRows(r)
    BY <1>1, RowsApart
  <2>2. QED
    BY <1>4, <2>1 DEF RowsOf
<1>7. SumsOf(r) \subseteq AllSums(r)
  BY <1>1, <1>4, SumsApart DEF SumsOf
<1>8. QED
  BY <1>2, <1>3, <1>5, <1>6, <1>7

\* A step changes nothing that has been written.
Added == \A r \in Ranks : /\ Adds(window[r], window'[r], Slots)
                          /\ Adds(status[r], status'[r], Words)
                          /\ Adds(expandXOut[r], expandXOut'[r], Rows)

LEMMA LastCoreIs ==
  ASSUME NEW r \in Ranks
  PROVE  LastCore(r) \in Cores
<1>1. InboxSize(r) \in Nat \ {0} /\ C \in Nat \ {0}
  BY Inboxes, Sizes
<1>2. QED
  BY <1>1 DEF LastCore, Cores

LEMMA NumsStay ==
  ASSUME expertIds' = expertIds, tokenNumsType' = tokenNumsType
  PROVE  \A r : FinalNums(r)' = FinalNums(r)
<1>1. \A r, n : First(r, n)' = First(r, n)
  BY RoutingStays
<1>2. QED
  BY <1>1 DEF FinalNums

LEMMA InitIInv == Init => IInv
<1> SUFFICES ASSUME Init PROVE IInv
  OBVIOUS
<1>1. /\ \A r \in Ranks : expertIds[r] \in Assignments
      /\ expertIds \in [Ranks -> Assignments]
  BY LayoutAssumption DEF Init
<1>2. TypeOK
  <2>1. "send" \in Labels
    BY DEF Labels
  <2>2. QED
    BY <1>1, <2>1 DEF Init, TypeOK
<1>3. \A r \in Ranks, c \in Cores : pc[r][c] = "send"
  BY DEF Init
<1>4. Ordered
  BY <1>3 DEF Ordered
<1>5. \A r \in Ranks : /\ BeyondAt(r, {"send"}) = {}
                       /\ BeyondAt(r, {"send", "status", "copy"}) = {}
  BY <1>3 DEF BeyondAt
<1>6. ASSUME NEW r \in Ranks
      PROVE  /\ SentTo(r) = {} /\ ToldTo(r) = {} /\ PlacesOf(r) = {}
             /\ RowsOf(r) = {} /\ SumsOf(r) = {}
  <2>1. SentTo(r) = {}
    BY <1>3, SentToIs
  <2>2. ToldTo(r) = {}
    BY <1>3, ToldToIs
  <2>3. PlacesOf(r) = {}
    BY <1>5 DEF PlacesOf
  <2>4. RowsOf(r) = {}
    BY <1>5 DEF RowsOf
  <2>5. SumsOf(r) = {}
    BY <1>5 DEF SumsOf
  <2>6. QED
    BY <2>1, <2>2, <2>3, <2>4, <2>5
<1>7. \A A : Holds([a \in A |-> Nothing], {})
  BY DEF Holds
<1>8. /\ \A r \in Ranks : window[r] = [a \in Slots |-> Nothing]
      /\ \A r \in Ranks : expandIdx[r] = [a \in Picks |-> Nothing]
      /\ \A r \in Ranks : status[r] = [a \in Words |-> Nothing]
      /\ \A r \in Ranks : expandXOut[r] = [a \in Rows |-> Nothing]
      /\ \A r \in Ranks : sendCounts[r] = [a \in Words |-> Nothing]
      /\ \A r \in Ranks : expertTokenNums[r] = [m \in 0 .. M - 1 |-> Nothing]
  BY DEF Init
<1>9. WindowsHold
  BY <1>6, <1>7, <1>8 DEF WindowsHold
<1>10. WordsHold
  BY <1>6, <1>7, <1>8 DEF WordsHold
<1>11. PlacesHold
  BY <1>6, <1>7, <1>8 DEF PlacesHold
<1>12. RowsHold
  BY <1>6, <1>7, <1>8 DEF RowsHold
<1>13. SumsHold
  BY <1>6, <1>7, <1>8 DEF SumsHold
<1>14. TotalsHold
  BY <1>3, <1>8, LastCoreIs DEF TotalsHold
<1>15. QED
  BY <1>2, <1>4, <1>9, <1>10, <1>11, <1>12, <1>13, <1>14 DEF IInv

\* Tokens.
LEMMA SendKeeps ==
  ASSUME IInv, NEW r \in Ranks, NEW c \in Cores, Send(r, c)
  PROVE  IInv' /\ Added
<1>1. TypeOK /\ pc \in [Ranks -> [Cores -> Labels]] /\ expertIds \in [Ranks -> Assignments]
  BY DEF IInv, TypeOK
<1>2. /\ pc[r][c] = "send" /\ Goto(r, c, "status") /\ expertIds' = expertIds
      /\ tokenNumsType' = tokenNumsType /\ "status" \in Labels
      /\ status' = status /\ sendCounts' = sendCounts /\ expertTokenNums' = expertTokenNums
  BY DEF Send, inputs, Labels
<1>3. /\ pc' \in [Ranks -> [Cores -> Labels]] /\ pc'[r][c] = "status"
      /\ \A s \in Ranks, d \in Cores : s # r \/ d # c => pc'[s][d] = pc[s][d]
  BY <1>1, <1>2, CoreMoves
<1>4. /\ \A d : SentTo(d)' = SentTo(d) \cup SentFrom(r, c, d) /\ ToldTo(d)' = ToldTo(d)
      /\ PlacesOf(r)' = PlacesOf(r) \cup PlacesFrom(r, c)
      /\ RowsOf(r)' = RowsOf(r) \cup KeptBy(r, c) /\ SumsOf(r)' = SumsOf(r)
  BY <1>1, <1>2, AfterSend
<1>5. ASSUME NEW s \in Ranks, s # r
      PROVE  PlacesOf(s)' = PlacesOf(s) /\ RowsOf(s)' = RowsOf(s) /\ SumsOf(s)' = SumsOf(s)
  BY <1>1, <1>2, <1>5, OthersStay
<1>6. ASSUME NEW d \in Ranks
      PROVE  /\ window'[d] \in [Slots -> AllTokens \cup {Nothing}]
             /\ Holds(window'[d], SentTo(d)') /\ Adds(window[d], window'[d], Slots)
  <2>1. window'[d] = After(window[d], SentFrom(r, c, d))
    BY DEF Send, SentFrom
  <2>2. /\ AllSent(d) \in SUBSET (Slots \X AllTokens) /\ OneValue(AllSent(d))
        /\ SentTo(d) \subseteq AllSent(d) /\ SentFrom(r, c, d) \subseteq AllSent(d)
    BY <1>1, SentApart, SoFar
  <2>3. window[d] \in [Slots -> AllTokens \cup {Nothing}] /\ Holds(window[d], SentTo(d))
    BY DEF IInv, TypeOK, WindowsHold
  <2>4. /\ After(window[d], SentFrom(r, c, d)) \in [Slots -> AllTokens \cup {Nothing}]
        /\ Holds(After(window[d], SentFrom(r, c, d)), SentTo(d) \cup SentFrom(r, c, d))
        /\ Adds(window[d], After(window[d], SentFrom(r, c, d)), Slots)
    BY <2>2, <2>3, MemoryNext
  <2>5. QED
    BY <1>4, <2>1, <2>4
<1>7. window' \in [Ranks -> [Slots -> AllTokens \cup {Nothing}]]
  <2>1. window' = [d \in Ranks |-> window'[d]]
    BY DEF Send
  <2>2. QED
    BY <1>6, <2>1
<1>8. /\ expandIdx' \in [Ranks -> [Picks -> Tokens \cup {Nothing}]]
      /\ \A s \in Ranks : Holds(expandIdx'[s], PlacesOf(s)')
  <2>1. expandIdx \in [Ranks -> [Picks -> Tokens \cup {Nothing}]]
    BY DEF IInv, TypeOK
  <2>2. expandIdx' = [expandIdx EXCEPT ![r] = After(expandIdx[r], PlacesFrom(r, c))]
    BY DEF Send, PlacesFrom
  <2>3. /\ AllPlaces(r) \in SUBSET (Picks \X Tokens) /\ OneValue(AllPlaces(r))
        /\ PlacesOf(r) \subseteq AllPlaces(r) /\ PlacesFrom(r, c) \subseteq AllPlaces(r)
    BY <1>1, PlacesApart, SoFar
  <2>4. \A s \in Ranks : Holds(expandIdx[s], PlacesOf(s))
    BY DEF IInv, PlacesHold
  <2>5. /\ After(expandIdx[r], PlacesFrom(r, c)) \in [Picks -> Tokens \cup {Nothing}]
        /\ Holds(After(expandIdx[r], PlacesFrom(r, c)), PlacesOf(r) \cup PlacesFrom(r, c))
    BY <2>1, <2>3, <2>4, MemoryNext
  <2>6. expandIdx' \in [Ranks -> [Picks -> Tokens \cup {Nothing}]]
    BY <2>1, <2>2, <2>5
  <2>7. ASSUME NEW s \in Ranks PROVE Holds(expandIdx'[s], PlacesOf(s)')
    <3>1. CASE s = r
      BY <1>4, <2>1, <2>2, <2>5, <3>1
    <3>2. CASE s # r
      <4>1. expandIdx'[s] = expandIdx[s] /\ PlacesOf(s)' = PlacesOf(s)
        BY <1>5, <2>1, <2>2, <3>2
      <4>2. QED
        BY <2>4, <4>1
    <3>3. QED
      BY <3>1, <3>2
  <2>8. QED
    BY <2>6, <2>7
<1>9. /\ expandXOut' \in [Ranks -> [Rows -> AllTokens \cup {Nothing}]]
      /\ \A s \in Ranks : /\ Holds(expandXOut'[s], RowsOf(s)')
                          /\ Adds(expandXOut[s], expandXOut'[s], Rows)
  <2>1. expandXOut \in [Ranks -> [Rows -> AllTokens \cup {Nothing}]]
    BY DEF IInv, TypeOK
  <2>2. expandXOut' = [expandXOut EXCEPT ![r] = After(expandXOut[r], KeptBy(r, c))]
    BY DEF Send, KeptBy
  <2>3. /\ AllRows(r) \in SUBSET (Rows \X AllTokens) /\ OneValue(AllRows(r))
        /\ RowsOf(r) \subseteq AllRows(r) /\ KeptBy(r, c) \subseteq AllRows(r)
    BY <1>1, RowsApart, SoFar
  <2>4. \A s \in Ranks : Holds(expandXOut[s], RowsOf(s))
    BY DEF IInv, RowsHold
  <2>5. /\ After(expandXOut[r], KeptBy(r, c)) \in [Rows -> AllTokens \cup {Nothing}]
        /\ Holds(After(expandXOut[r], KeptBy(r, c)), RowsOf(r) \cup KeptBy(r, c))
        /\ Adds(expandXOut[r], After(expandXOut[r], KeptBy(r, c)), Rows)
    BY <2>1, <2>3, <2>4, MemoryNext
  <2>6. expandXOut' \in [Ranks -> [Rows -> AllTokens \cup {Nothing}]]
    BY <2>1, <2>2, <2>5
  <2>7. ASSUME NEW s \in Ranks
        PROVE  Holds(expandXOut'[s], RowsOf(s)') /\ Adds(expandXOut[s], expandXOut'[s], Rows)
    <3>1. CASE s = r
      BY <1>4, <2>1, <2>2, <2>5, <3>1
    <3>2. CASE s # r
      <4>1. expandXOut'[s] = expandXOut[s] /\ RowsOf(s)' = RowsOf(s)
        BY <1>5, <2>1, <2>2, <3>2
      <4>2. QED
        BY <2>4, <4>1 DEF Adds
    <3>3. QED
      BY <3>1, <3>2
  <2>8. QED
    BY <2>6, <2>7
<1>10. TypeOK'
  BY <1>1, <1>2, <1>3, <1>7, <1>8, <1>9 DEF TypeOK
<1>11. Ordered'
  <2>1. ASSUME NEW s \in Ranks, AllPast(s, {"send"}) PROVE AllPast(s, {"send"})'
    BY <1>3, <2>1 DEF AllPast
  <2>2. ASSUME NEW s \in Ranks, AllPast(s, {"send", "status"}), s # r
        PROVE  AllPast(s, {"send", "status"})'
    BY <1>3, <2>2 DEF AllPast
  <2>3. ~AllPast(r, {"send", "status"})
    BY <1>2 DEF AllPast
  <2>4. \A s \in Ranks : Arrived(s) => Arrived(s)'
    BY <1>2 DEF Arrived
  <2>5. Ordered
    BY DEF IInv
  <2>6. ASSUME NEW s \in Ranks, NEW d \in Cores
        PROVE  /\ pc'[s][d] # "send" /\ pc'[s][d] # "status" => AllPast(s, {"send"})'
               /\ pc'[s][d] \in {"totals", "done"} =>
                    AllPast(s, {"send", "status"})' /\ Arrived(s)'
    <3>1. CASE s = r /\ d = c
      BY <1>3, <3>1
    <3>2. CASE s # r \/ d # c
      <4>1. pc'[s][d] = pc[s][d]
        BY <1>3, <3>2
      <4>2. QED
        BY <2>1, <2>2, <2>3, <2>4, <2>5, <4>1 DEF Ordered
    <3>3. QED
      BY <3>1, <3>2
  <2>7. QED
    BY <2>6 DEF Ordered
<1>12. WordsHold'
  BY <1>2, <1>4 DEF IInv, WordsHold
<1>13. SumsHold'
  <2>1. \A s \in Ranks : SumsOf(s)' = SumsOf(s)
    BY <1>4, <1>5
  <2>2. QED
    BY <1>2, <2>1 DEF IInv, SumsHold
<1>14. TotalsHold'
  <2>1. \A s \in Ranks : FinalNums(s)' = FinalNums(s)
    BY <1>2, NumsStay
  <2>2. \A s \in Ranks : pc'[s][LastCore(s)] = "done" <=> pc[s][LastCore(s)] = "done"
    BY <1>2, <1>3, LastCoreIs
  <2>3. QED
    BY <1>2, <2>1, <2>2 DEF IInv, TotalsHold
<1>15. Added
  BY <1>2, <1>6, <1>9 DEF Added, Adds
<1>16. QED
  BY <1>6, <1>8, <1>9, <1>10, <1>11, <1>12, <1>13, <1>14, <1>15
     DEF IInv, WindowsHold, PlacesHold, RowsHold

\* Counts.
LEMMA StatusKeeps ==
  ASSUME IInv, NEW r \in Ranks, NEW c \in Cores, SetStatus(r, c)
  PROVE  IInv' /\ Added
<1>1. TypeOK /\ pc \in [Ranks -> [Cores -> Labels]] /\ expertIds \in [Ranks -> Assignments]
  BY DEF IInv, TypeOK
<1>2. /\ pc[r][c] = "status" /\ Goto(r, c, "copy") /\ expertIds' = expertIds
      /\ tokenNumsType' = tokenNumsType /\ "copy" \in Labels
      /\ AllPast(r, {"send"})
      /\ window' = window /\ expandIdx' = expandIdx /\ expandXOut' = expandXOut
      /\ sendCounts' = sendCounts /\ expertTokenNums' = expertTokenNums
  BY DEF SetStatus, inputs, Labels
<1>3. /\ pc' \in [Ranks -> [Cores -> Labels]] /\ pc'[r][c] = "copy"
      /\ \A s \in Ranks, d \in Cores : s # r \/ d # c => pc'[s][d] = pc[s][d]
  BY <1>1, <1>2, CoreMoves
<1>4. /\ \A d : SentTo(d)' = SentTo(d) /\ ToldTo(d)' = ToldTo(d) \cup Told(r, c, d)
      /\ PlacesOf(r)' = PlacesOf(r) /\ RowsOf(r)' = RowsOf(r) /\ SumsOf(r)' = SumsOf(r)
  BY <1>1, <1>2, AfterStatus
<1>5. ASSUME NEW s \in Ranks
      PROVE  PlacesOf(s)' = PlacesOf(s) /\ RowsOf(s)' = RowsOf(s) /\ SumsOf(s)' = SumsOf(s)
  BY <1>1, <1>2, <1>4, OthersStay
<1>6. ASSUME NEW d \in Ranks
      PROVE  /\ status'[d] \in [Words -> (0 .. BS) \cup {Nothing}]
             /\ Holds(status'[d], ToldTo(d)') /\ Adds(status[d], status'[d], Words)
  <2>1. status'[d] = After(status[d], Told(r, c, d))
    BY DEF SetStatus
  <2>2. /\ AllTold(d) \in SUBSET (Words \X (0 .. BS)) /\ OneValue(AllTold(d))
        /\ ToldTo(d) \subseteq AllTold(d) /\ Told(r, c, d) \subseteq AllTold(d)
    BY <1>1, ToldApart, SoFar
  <2>3. status[d] \in [Words -> (0 .. BS) \cup {Nothing}] /\ Holds(status[d], ToldTo(d))
    BY DEF IInv, TypeOK, WordsHold
  <2>4. /\ After(status[d], Told(r, c, d)) \in [Words -> (0 .. BS) \cup {Nothing}]
        /\ Holds(After(status[d], Told(r, c, d)), ToldTo(d) \cup Told(r, c, d))
        /\ Adds(status[d], After(status[d], Told(r, c, d)), Words)
    BY <2>2, <2>3, MemoryNext
  <2>5. QED
    BY <1>4, <2>1, <2>4
<1>7. status' \in [Ranks -> [Words -> (0 .. BS) \cup {Nothing}]]
  <2>1. status' = [d \in Ranks |-> status'[d]]
    BY DEF SetStatus
  <2>2. QED
    BY <1>6, <2>1
<1>8. TypeOK'
  BY <1>1, <1>2, <1>3, <1>7 DEF TypeOK
<1>9. Ordered'
  <2>1. ASSUME NEW s \in Ranks, AllPast(s, {"send"}) PROVE AllPast(s, {"send"})'
    BY <1>3, <2>1 DEF AllPast
  <2>2. ASSUME NEW s \in Ranks, AllPast(s, {"send", "status"})
        PROVE  AllPast(s, {"send", "status"})'
    BY <1>3, <2>2 DEF AllPast
  <2>3. ASSUME NEW s \in Ranks, Arrived(s) PROVE Arrived(s)'
    <3>1. ASSUME NEW n \in 0 .. InboxSize(s) - 1 PROVE status'[s][n] # Nothing
      <4>1. n \in Words /\ status[s][n] # Nothing
        BY <2>3, Inboxes DEF Arrived
      <4>2. QED
        BY <1>6, <4>1 DEF Adds
    <3>2. QED
      BY <3>1 DEF Arrived
  <2>4. Ordered
    BY DEF IInv
  <2>5. ASSUME NEW s \in Ranks, NEW d \in Cores
        PROVE  /\ pc'[s][d] # "send" /\ pc'[s][d] # "status" => AllPast(s, {"send"})'
               /\ pc'[s][d] \in {"totals", "done"} =>
                    AllPast(s, {"send", "status"})' /\ Arrived(s)'
    <3>1. CASE s = r /\ d = c
      BY <1>2, <1>3, <2>1, <3>1
    <3>2. CASE s # r \/ d # c
      <4>1. pc'[s][d] = pc[s][d]
        BY <1>3, <3>2
      <4>2. QED
        BY <2>1, <2>2, <2>3, <2>4, <4>1 DEF Ordered
    <3>3. QED
      BY <3>1, <3>2
  <2>6. QED
    BY <2>5 DEF Ordered
<1>10. WindowsHold'
  BY <1>2, <1>4 DEF IInv, WindowsHold
<1>11. PlacesHold'
  BY <1>2, <1>5 DEF IInv, PlacesHold
<1>12. RowsHold'
  BY <1>2, <1>5 DEF IInv, RowsHold
<1>13. SumsHold'
  BY <1>2, <1>5 DEF IInv, SumsHold
<1>14. TotalsHold'
  <2>1. \A s \in Ranks : FinalNums(s)' = FinalNums(s)
    BY <1>2, NumsStay
  <2>2. \A s \in Ranks : pc'[s][LastCore(s)] = "done" <=> pc[s][LastCore(s)] = "done"
    BY <1>2, <1>3, LastCoreIs
  <2>3. QED
    BY <1>2, <2>1, <2>2 DEF IInv, TotalsHold
<1>15. Added
  BY <1>2, <1>6 DEF Added, Adds
<1>16. QED
  BY <1>6, <1>8, <1>9, <1>10, <1>11, <1>12, <1>13, <1>14, <1>15 DEF IInv, WordsHold

\* Rows.
LEMMA CopyKeeps ==
  ASSUME IInv, NEW r \in Ranks, NEW c \in Cores, LocalWindowCopy(r, c)
  PROVE  IInv' /\ Added
<1>1. TypeOK /\ pc \in [Ranks -> [Cores -> Labels]] /\ expertIds \in [Ranks -> Assignments]
  BY DEF IInv, TypeOK
<1>2. /\ pc[r][c] = "copy" /\ Goto(r, c, "totals") /\ expertIds' = expertIds
      /\ tokenNumsType' = tokenNumsType /\ "totals" \in Labels
      /\ AllPast(r, {"send", "status"}) /\ Arrived(r)
      /\ window' = window /\ expandIdx' = expandIdx /\ status' = status
      /\ expertTokenNums' = expertTokenNums
  BY DEF LocalWindowCopy, inputs, Labels, Arrived
<1>3. /\ pc' \in [Ranks -> [Cores -> Labels]] /\ pc'[r][c] = "totals"
      /\ \A s \in Ranks, d \in Cores : s # r \/ d # c => pc'[s][d] = pc[s][d]
  BY <1>1, <1>2, CoreMoves
<1>4. /\ \A d : SentTo(d)' = SentTo(d) /\ ToldTo(d)' = ToldTo(d)
      /\ PlacesOf(r)' = PlacesOf(r) /\ RowsOf(r)' = RowsOf(r) \cup RowsFrom(r, c)
      /\ SumsOf(r)' = SumsOf(r) \cup SumsFrom(r, c)
  BY <1>1, <1>2, AfterCopy
<1>5. ASSUME NEW s \in Ranks, s # r
      PROVE  PlacesOf(s)' = PlacesOf(s) /\ RowsOf(s)' = RowsOf(s) /\ SumsOf(s)' = SumsOf(s)
  BY <1>1, <1>2, <1>5, OthersStay
<1>6. /\ RowsCopied(r, c) = RowsFrom(r, c)
      /\ {<<n, CumSum(r, n)>> : n \in Slice(InboxSize(r), C, c)} = SumsFrom(r, c)
  BY <1>2, RowsCome DEF IInv
<1>7. /\ expandXOut' \in [Ranks -> [Rows -> AllTokens \cup {Nothing}]]
      /\ \A s \in Ranks : /\ Holds(expandXOut'[s], RowsOf(s)')
                          /\ Adds(expandXOut[s], expandXOut'[s], Rows)
  <2>1. expandXOut \in [Ranks -> [Rows -> AllTokens \cup {Nothing}]]
    BY DEF IInv, TypeOK
  <2>2. expandXOut' = [expandXOut EXCEPT ![r] = After(expandXOut[r], RowsFrom(r, c))]
    BY <1>6 DEF LocalWindowCopy
  <2>3. /\ AllRows(r) \in SUBSET (Rows \X AllTokens) /\ OneValue(AllRows(r))
        /\ RowsOf(r) \subseteq AllRows(r) /\ RowsFrom(r, c) \subseteq AllRows(r)
    BY <1>1, RowsApart, SoFar
  <2>4. \A s \in Ranks : Holds(expandXOut[s], RowsOf(s))
    BY DEF IInv, RowsHold
  <2>5. /\ After(expandXOut[r], RowsFrom(r, c)) \in [Rows -> AllTokens \cup {Nothing}]
        /\ Holds(After(expandXOut[r], RowsFrom(r, c)), RowsOf(r) \cup RowsFrom(r, c))
        /\ Adds(expandXOut[r], After(expandXOut[r], RowsFrom(r, c)), Rows)
    BY <2>1, <2>3, <2>4, MemoryNext
  <2>6. expandXOut' \in [Ranks -> [Rows -> AllTokens \cup {Nothing}]]
    BY <2>1, <2>2, <2>5
  <2>7. ASSUME NEW s \in Ranks
        PROVE  Holds(expandXOut'[s], RowsOf(s)') /\ Adds(expandXOut[s], expandXOut'[s], Rows)
    <3>1. CASE s = r
      BY <1>4, <2>1, <2>2, <2>5, <3>1
    <3>2. CASE s # r
      <4>1. expandXOut'[s] = expandXOut[s] /\ RowsOf(s)' = RowsOf(s)
        BY <1>5, <2>1, <2>2, <3>2
      <4>2. QED
        BY <2>4, <4>1 DEF Adds
    <3>3. QED
      BY <3>1, <3>2
  <2>8. QED
    BY <2>6, <2>7
<1>8. /\ sendCounts' \in [Ranks -> [Words -> (0 .. R * M * BS) \cup {Nothing}]]
      /\ \A s \in Ranks : Holds(sendCounts'[s], SumsOf(s)')
  <2>1. sendCounts \in [Ranks -> [Words -> (0 .. R * M * BS) \cup {Nothing}]]
    BY DEF IInv, TypeOK
  <2>2. sendCounts' = [sendCounts EXCEPT ![r] = After(sendCounts[r], SumsFrom(r, c))]
    BY <1>6 DEF LocalWindowCopy
  <2>3. /\ AllSums(r) \in SUBSET (Words \X (0 .. R * M * BS)) /\ OneValue(AllSums(r))
        /\ SumsOf(r) \subseteq AllSums(r) /\ SumsFrom(r, c) \subseteq AllSums(r)
    BY <1>1, SumsApart, SoFar
  <2>4. \A s \in Ranks : Holds(sendCounts[s], SumsOf(s))
    BY DEF IInv, SumsHold
  <2>5. /\ After(sendCounts[r], SumsFrom(r, c)) \in [Words -> (0 .. R * M * BS) \cup {Nothing}]
        /\ Holds(After(sendCounts[r], SumsFrom(r, c)), SumsOf(r) \cup SumsFrom(r, c))
    <3>1. PICK sums, all, mem, W, V :
            /\ sums = 0 .. R * M * BS /\ all = AllSums(r) /\ mem = sendCounts[r]
            /\ W = SumsOf(r) /\ V = SumsFrom(r, c)
      OBVIOUS
    <3>2. mem \in [Words -> sums \cup {Nothing}]
      BY <2>1, <3>1
    <3>3. all \in SUBSET (Words \X sums) /\ OneValue(all) /\ W \subseteq all /\ V \subseteq all
      BY <2>3, <3>1
    <3>4. Holds(mem, W)
      BY <2>4, <3>1
    <3>5. /\ After(mem, V) \in [Words -> sums \cup {Nothing}]
          /\ Holds(After(mem, V), W \cup V)
      BY <3>2, <3>3, <3>4, MemoryNext
    <3>6. QED
      BY <3>1, <3>5
  <2>6. sendCounts' \in [Ranks -> [Words -> (0 .. R * M * BS) \cup {Nothing}]]
    BY <2>1, <2>2, <2>5
  <2>7. ASSUME NEW s \in Ranks PROVE Holds(sendCounts'[s], SumsOf(s)')
    <3>1. CASE s = r
      BY <1>4, <2>1, <2>2, <2>5, <3>1
    <3>2. CASE s # r
      <4>1. sendCounts'[s] = sendCounts[s] /\ SumsOf(s)' = SumsOf(s)
        BY <1>5, <2>1, <2>2, <3>2
      <4>2. QED
        BY <2>4, <4>1
    <3>3. QED
      BY <3>1, <3>2
  <2>8. QED
    BY <2>6, <2>7
<1>9. TypeOK'
  BY <1>1, <1>2, <1>3, <1>7, <1>8 DEF TypeOK
<1>10. Ordered'
  <2>1. ASSUME NEW s \in Ranks, AllPast(s, {"send"}) PROVE AllPast(s, {"send"})'
    BY <1>3, <2>1 DEF AllPast
  <2>2. ASSUME NEW s \in Ranks, AllPast(s, {"send", "status"})
        PROVE  AllPast(s, {"send", "status"})'
    BY <1>3, <2>2 DEF AllPast
  <2>3. \A s \in Ranks : Arrived(s) => Arrived(s)'
    BY <1>2 DEF Arrived
  <2>4. Ordered
    BY DEF IInv
  <2>5. AllPast(r, {"send"})
    BY <1>2 DEF AllPast
  <2>6. ASSUME NEW s \in Ranks, NEW d \in Cores
        PROVE  /\ pc'[s][d] # "send" /\ pc'[s][d] # "status" => AllPast(s, {"send"})'
               /\ pc'[s][d] \in {"totals", "done"} =>
                    AllPast(s, {"send", "status"})' /\ Arrived(s)'
    <3>1. CASE s = r /\ d = c
      BY <1>2, <2>1, <2>2, <2>3, <2>5, <3>1
    <3>2. CASE s # r \/ d # c
      <4>1. pc'[s][d] = pc[s][d]
        BY <1>3, <3>2
      <4>2. QED
        BY <2>1, <2>2, <2>3, <2>4, <4>1 DEF Ordered
    <3>3. QED
      BY <3>1, <3>2
  <2>7. QED
    BY <2>6 DEF Ordered
<1>11. WindowsHold'
  BY <1>2, <1>4 DEF IInv, WindowsHold
<1>12. WordsHold'
  BY <1>2, <1>4 DEF IInv, WordsHold
<1>13. PlacesHold'
  <2>1. \A s \in Ranks : PlacesOf(s)' = PlacesOf(s)
    BY <1>4, <1>5
  <2>2. QED
    BY <1>2, <2>1 DEF IInv, PlacesHold
<1>14. TotalsHold'
  <2>1. \A s \in Ranks : FinalNums(s)' = FinalNums(s)
    BY <1>2, NumsStay
  <2>2. \A s \in Ranks : pc'[s][LastCore(s)] = "done" <=> pc[s][LastCore(s)] = "done"
    BY <1>2, <1>3, LastCoreIs
  <2>3. QED
    BY <1>2, <2>1, <2>2 DEF IInv, TotalsHold
<1>15. Added
  BY <1>2, <1>7 DEF Added, Adds
<1>16. QED
  BY <1>7, <1>8, <1>9, <1>10, <1>11, <1>12, <1>13, <1>14, <1>15
     DEF IInv, RowsHold, SumsHold

-------------------------------------------------------------------------------
(* The totals.                                                                 *)

\* A rank whose cores have all copied has the sum of every word.
LEMMA SumsAll ==
  ASSUME SumsHold, NEW r \in Ranks, sendCounts[r] \in [Words -> (0 .. R * M * BS) \cup {Nothing}],
         AllPast(r, {"send", "status", "copy"}), NEW n \in 0 .. InboxSize(r) - 1
  PROVE  sendCounts[r][n] = First(r, n + 1)
<1>1. InboxSize(r) \in Nat /\ C \in Nat \ {0} /\ n \in Words
  BY Inboxes, Sizes
<1>2. PICK c \in Cores : n \in Slice(InboxSize(r), C, c)
  BY <1>1, SliceCover DEF Cores
<1>3. PICK w : w = <<n, First(r, n + 1)>>
  OBVIOUS
<1>4. w \in SumsFrom(r, c)
  BY <1>2, <1>3 DEF SumsFrom
<1>5. c \in BeyondAt(r, {"send", "status", "copy"})
  BY DEF AllPast, BeyondAt
<1>6. w \in SumsOf(r)
  BY <1>4, <1>5 DEF SumsOf
<1>7. Holds(sendCounts[r], SumsOf(r)) /\ n \in DOMAIN sendCounts[r]
  BY <1>1 DEF SumsHold
<1>8. w[1] = n /\ w[2] = First(r, n + 1)
  BY <1>3
<1>9. QED
  BY <1>6, <1>7, <1>8 DEF Holds

\* The words of one local expert of a rank with several.
LEMMA ExpertWords ==
  ASSUME NEW r \in Ranks, ~(r < Shared), NEW m \in 0 .. M - 1
  PROVE  /\ InboxSize(r) = R * M
         /\ R * m \in 0 .. R * M /\ R * (m + 1) \in 0 .. R * M
         /\ R * m + R - 1 \in 0 .. R * M - 1
         /\ R * m + R - 1 + 1 = R * (m + 1) /\ R * m <= R * (m + 1)
         /\ R * 0 = 0
<1>1. R \in Nat \ {0} /\ M \in Nat \ {0} /\ m \in Nat
  BY Sizes
<1>2. R - 1 + m * R \in 0 .. M * R - 1 /\ m * R \in Nat
  BY <1>1, Within
<1>3. m * R = R * m /\ M * R = R * M /\ R * (m + 1) = R * m + R
  BY <1>1
<1>4. R * M \in Int /\ R * m \in Nat
  BY <1>1, <1>2, <1>3
<1>5. R * 0 = 0
  BY <1>1
<1>6. PICK a, b : a = R * m /\ b = R * M
  OBVIOUS
<1>7. a \in Nat /\ b \in Int /\ R - 1 + a \in 0 .. b - 1
  BY <1>2, <1>3, <1>4, <1>6
<1>8. /\ a \in 0 .. b /\ a + R \in 0 .. b /\ a + R - 1 \in 0 .. b - 1
      /\ a + R - 1 + 1 = a + R /\ a <= a + R
  BY <1>1, <1>7
<1>9. QED
  BY <1>3, <1>5, <1>6, <1>8 DEF InboxSize

\* What UpdateMultiMoeTokenNumsOut leaves, running or not.
LEMMA TokenSumsIs ==
  ASSUME TypeOK, SumsHold, NEW r \in Ranks, MultiExpert(r),
         AllPast(r, {"send", "status", "copy"})
  PROVE  TokenSums(r) = FinalNums(r)
<1> DEFINE upTo(m) == sendCounts[r][R * m + R - 1]
           Solves(g) == g = [m \in 0 .. M - 1 |->
             IF m = 0 THEN upTo(0)
             ELSE (IF tokenNumsType = 0 THEN g[m - 1] ELSE 0) + (upTo(m) - upTo(m - 1))]
           F == FinalNums(r)
<1>1. TokenSums(r) = CHOOSE g : Solves(g)
  BY DEF TokenSums
<1>2. /\ expertIds \in [Ranks -> Assignments] /\ ~(r < Shared) /\ r \in Nat
      /\ sendCounts[r] \in [Words -> (0 .. R * M * BS) \cup {Nothing}]
      /\ Shared \in Nat
  BY Inboxes, Sizes DEF TypeOK, MultiExpert
<1>3. ASSUME NEW m \in 0 .. M - 1
      PROVE  /\ upTo(m) = First(r, R * (m + 1)) /\ upTo(m) \in Nat
             /\ F[m] = upTo(m) - (IF tokenNumsType = 0 THEN 0 ELSE First(r, R * m))
  <2>1. /\ R * (m + 1) \in 0 .. InboxSize(r) /\ R * m + R - 1 \in 0 .. InboxSize(r) - 1
        /\ R * m + R - 1 + 1 = R * (m + 1)
    BY <1>2, ExpertWords
  <2>2. upTo(m) = First(r, R * (m + 1))
    BY <1>2, <2>1, SumsAll
  <2>3. First(r, R * (m + 1)) \in Nat
    BY <1>2, <2>1, FirstNext
  <2>4. QED
    BY <2>2, <2>3 DEF FinalNums
<1>4. ASSUME NEW m \in 0 .. M - 1
      PROVE  F[m] = IF m = 0 THEN upTo(0)
                    ELSE (IF tokenNumsType = 0 THEN F[m - 1] ELSE 0) + (upTo(m) - upTo(m - 1))
  <2>1. CASE m = 0
    <3>1. R * 0 = 0 /\ First(r, 0) = 0
      BY <1>2, ExpertWords, FirstNext
    <3>2. PICK u : u = upTo(0)
      OBVIOUS
    <3>3. F[0] = u - (IF tokenNumsType = 0 THEN 0 ELSE 0) /\ u \in Nat
      BY <1>3, <2>1, <3>1, <3>2
    <3>4. F[0] = u
      BY <3>3
    <3>5. QED
      BY <2>1, <3>2, <3>4
  <2>2. CASE m # 0
    <3>1. PICK k \in 0 .. M - 1 : k = m - 1 /\ m = k + 1
      BY <2>2, Sizes
    <3>2. PICK u, v : u = upTo(m) /\ v = upTo(k)
      OBVIOUS
    <3>3. /\ u \in Nat /\ v \in Nat /\ First(r, R * m) = v
          /\ F[m] = u - (IF tokenNumsType = 0 THEN 0 ELSE First(r, R * m))
          /\ F[k] = v - (IF tokenNumsType = 0 THEN 0 ELSE First(r, R * k))
      BY <1>3, <3>1, <3>2
    <3>4. F[m] = (IF tokenNumsType = 0 THEN F[k] ELSE 0) + (u - v)
      BY <3>3
    <3>5. QED
      BY <2>2, <3>1, <3>2, <3>4
  <2>3. QED
    BY <2>1, <2>2
<1>5. Solves(F)
  <2>1. F = [m \in 0 .. M - 1 |-> F[m]]
    BY DEF FinalNums
  <2> HIDE DEF F, upTo
  <2>2. QED
    BY <1>4, <2>1
<1>6. ASSUME NEW g, Solves(g) PROVE g = F
  <2> DEFINE Bad == {m \in 0 .. M - 1 : g[m] # F[m]}
  <2>1. SUFFICES ASSUME Bad # {} PROVE FALSE
    <3>1. g = [m \in 0 .. M - 1 |-> g[m]] /\ F = [m \in 0 .. M - 1 |-> F[m]]
      BY <1>6 DEF FinalNums
    <3> HIDE DEF F, Solves
    <3>2. QED
      BY <3>1
  <2>2. Bad \in SUBSET Nat
    OBVIOUS
  <2>3. PICK m \in Bad : \A k \in Bad : m <= k
    BY <2>1, <2>2, Least
  <2> HIDE DEF F, upTo
  <2>4. g[m] = IF m = 0 THEN upTo(0)
               ELSE (IF tokenNumsType = 0 THEN g[m - 1] ELSE 0) + (upTo(m) - upTo(m - 1))
    BY <1>6
  <2>5. m # 0 => m - 1 \in 0 .. M - 1 /\ ~(m <= m - 1)
    BY <2>3, Sizes
  <2>6. m # 0 => g[m - 1] = F[m - 1]
    BY <2>3, <2>5
  <2>7. g[m] = F[m]
    BY <1>4, <2>4, <2>6
  <2>8. QED
    BY <2>7
<1> HIDE DEF Solves, F
<1>7. QED
  BY <1>1, <1>5, <1>6 DEF F

LEMMA NumsType ==
  ASSUME expertIds \in [Ranks -> Assignments], NEW r \in Ranks
  PROVE  FinalNums(r) \in [0 .. M - 1 -> (0 .. R * M * BS) \cup {Nothing}]
<1>1. PICK sums : sums = 0 .. R * M * BS
  OBVIOUS
<1>2. ASSUME NEW m \in 0 .. M - 1, MultiExpert(r)
      PROVE  First(r, R * (m + 1)) - (IF tokenNumsType = 0 THEN 0 ELSE First(r, R * m)) \in sums
  <2>1. ~(r < Shared)
    BY <1>2, Inboxes, Sizes DEF MultiExpert
  <2>2. PICK n, k : n = R * (m + 1) /\ k = R * m
    OBVIOUS
  <2>3. n \in 0 .. InboxSize(r) /\ k \in 0 .. InboxSize(r) /\ k <= n
    BY <2>1, <2>2, ExpertWords
  <2>4. /\ First(r, n) \in 0 .. R * M * BS /\ First(r, k) \in 0 .. R * M * BS
        /\ First(r, k) <= First(r, n)
    BY <2>3, FirstBound, FirstGrow
  <2>5. PICK b : b = R * M * BS
    OBVIOUS
  <2>6. b \in Nat
    BY <2>5, Inboxes
  <2>7. First(r, n) - (IF tokenNumsType = 0 THEN 0 ELSE First(r, k)) \in 0 .. b
    BY <2>4, <2>5, <2>6
  <2>8. QED
    BY <1>1, <2>2, <2>5, <2>7
<1>3. First(r, InboxSize(r)) \in sums
  <2>1. InboxSize(r) \in 0 .. InboxSize(r)
    BY Inboxes
  <2>2. QED
    BY <1>1, <2>1, FirstBound
<1>4. FinalNums(r) \in [0 .. M - 1 -> sums \cup {Nothing}]
  BY <1>2, <1>3 DEF FinalNums
<1>5. QED
  BY <1>1, <1>4

\* What the last core of a rank writes.
LEMMA NumsCome ==
  ASSUME IInv, NEW r \in Ranks, NEW c \in Cores, UpdateTokenNumsOut(r, c), c = LastCore(r)
  PROVE  expertTokenNums'[r] = FinalNums(r)
<1>1. /\ TypeOK /\ Ordered /\ WordsHold /\ SumsHold /\ TotalsHold
      /\ expertTokenNums \in [Ranks -> [0 .. M - 1 -> (0 .. R * M * BS) \cup {Nothing}]]
      /\ pc[r][c] = "totals" /\ M \in Nat \ {0}
  BY Sizes DEF IInv, TypeOK, UpdateTokenNumsOut
<1>2. CASE MultiExpert(r)
  <2>1. AllPast(r, {"send", "status", "copy"}) /\ expertTokenNums'[r] = TokenSums(r)
    BY <1>1, <1>2 DEF UpdateTokenNumsOut
  <2>2. QED
    BY <1>1, <1>2, <2>1, TokenSumsIs
<1>3. CASE ~MultiExpert(r)
  <2>1. expertTokenNums[r] = [m \in 0 .. M - 1 |-> Nothing]
    BY <1>1 DEF TotalsHold
  <2>2. InboxSize(r) - 1 \in 0 .. InboxSize(r) - 1 /\ InboxSize(r) - 1 + 1 = InboxSize(r)
    BY Inboxes
  <2>3. Arrived(r)
    BY <1>1 DEF Ordered
  <2>4. CumSum(r, InboxSize(r) - 1) = First(r, InboxSize(r))
    <3>1. CumSum(r, InboxSize(r) - 1) = First(r, InboxSize(r) - 1 + 1)
      BY <1>1, <2>2, <2>3, CountsCome
    <3>2. QED
      BY <2>2, <3>1
  <2>5. PICK total : total = CumSum(r, InboxSize(r) - 1)
    OBVIOUS
  <2>6. expertTokenNums'[r] = [expertTokenNums[r] EXCEPT ![0] = total]
    BY <1>1, <1>3, <2>5 DEF UpdateTokenNumsOut
  <2>7. FinalNums(r) = [m \in 0 .. M - 1 |-> IF m = 0 THEN total ELSE Nothing]
    BY <1>3, <2>4, <2>5 DEF FinalNums
  <2>8. [expertTokenNums[r] EXCEPT ![0] = total]
        = [m \in 0 .. M - 1 |-> IF m = 0 THEN total ELSE Nothing]
    BY <2>1
  <2>9. QED
    BY <2>6, <2>7, <2>8
<1>4. QED
  BY <1>2, <1>3

\* UpdateTokenNumsOut.
LEMMA TotalsKeeps ==
  ASSUME IInv, NEW r \in Ranks, NEW c \in Cores, UpdateTokenNumsOut(r, c)
  PROVE  IInv' /\ Added
<1>1. TypeOK /\ pc \in [Ranks -> [Cores -> Labels]] /\ expertIds \in [Ranks -> Assignments]
  BY DEF IInv, TypeOK
<1>2. /\ pc[r][c] = "totals" /\ Goto(r, c, "done") /\ expertIds' = expertIds
      /\ tokenNumsType' = tokenNumsType /\ "done" \in Labels
      /\ window' = window /\ expandIdx' = expandIdx /\ status' = status
      /\ expandXOut' = expandXOut /\ sendCounts' = sendCounts
  BY DEF UpdateTokenNumsOut, inputs, Labels
<1>3. /\ pc' \in [Ranks -> [Cores -> Labels]] /\ pc'[r][c] = "done"
      /\ \A s \in Ranks, d \in Cores : s # r \/ d # c => pc'[s][d] = pc[s][d]
  BY <1>1, <1>2, CoreMoves
<1>4. /\ \A d : SentTo(d)' = SentTo(d) /\ ToldTo(d)' = ToldTo(d)
      /\ PlacesOf(r)' = PlacesOf(r)
      /\ RowsOf(r)' = RowsOf(r) /\ SumsOf(r)' = SumsOf(r)
  BY <1>1, <1>2, AfterTotals
<1>5. ASSUME NEW s \in Ranks
      PROVE  PlacesOf(s)' = PlacesOf(s) /\ RowsOf(s)' = RowsOf(s) /\ SumsOf(s)' = SumsOf(s)
  <2>1. CASE s = r
    BY <1>4, <2>1
  <2>2. CASE s # r
    BY <1>1, <1>2, <2>2, OthersStay
  <2>3. QED
    BY <2>1, <2>2
<1>6. expertTokenNums \in [Ranks -> [0 .. M - 1 -> (0 .. R * M * BS) \cup {Nothing}]]
  BY <1>1 DEF TypeOK
<1>7. /\ expertTokenNums' \in [Ranks -> [0 .. M - 1 -> (0 .. R * M * BS) \cup {Nothing}]]
      /\ c = LastCore(r) => expertTokenNums'[r] = FinalNums(r)
      /\ \A s \in Ranks : s # r \/ c # LastCore(r) => expertTokenNums'[s] = expertTokenNums[s]
  <2>1. PICK nums : nums = [0 .. M - 1 -> (0 .. R * M * BS) \cup {Nothing}]
    OBVIOUS
  <2>2. CASE c # LastCore(r)
    <3>1. expertTokenNums' = expertTokenNums
      BY <2>2 DEF UpdateTokenNumsOut
    <3>2. QED
      BY <1>6, <2>2, <3>1
  <2>3. CASE c = LastCore(r)
    <3>1. expertTokenNums'[r] = FinalNums(r)
      BY <2>3, NumsCome
    <3>2. PICK v : expertTokenNums' = [expertTokenNums EXCEPT ![r] = v]
      <4>1. CASE MultiExpert(r)
        <5>1. expertTokenNums' = [expertTokenNums EXCEPT ![r] = TokenSums(r)]
          BY <2>3, <4>1 DEF UpdateTokenNumsOut
        <5>2. QED
          BY <5>1
      <4>2. CASE ~MultiExpert(r)
        <5>1. expertTokenNums' = [expertTokenNums EXCEPT ![r] =
                [expertTokenNums[r] EXCEPT ![0] = CumSum(r, InboxSize(r) - 1)]]
          BY <2>3, <4>2 DEF UpdateTokenNumsOut
        <5>2. QED
          BY <5>1
      <4>3. QED
        BY <4>1, <4>2
    <3>3. expertTokenNums'[r] = v /\ FinalNums(r) \in nums /\ v \in nums
      BY <1>1, <1>6, <2>1, <3>1, <3>2, NumsType
    <3>4. expertTokenNums \in [Ranks -> nums]
      BY <1>6, <2>1
    <3>5. expertTokenNums' \in [Ranks -> nums]
      BY <3>2, <3>3, <3>4
    <3>6. QED
      BY <2>1, <2>3, <3>1, <3>2, <3>4, <3>5
  <2>4. QED
    BY <2>2, <2>3
<1>8. TypeOK'
  BY <1>1, <1>2, <1>3, <1>7 DEF TypeOK
<1>9. Ordered'
  <2>1. ASSUME NEW s \in Ranks, AllPast(s, {"send"}) PROVE AllPast(s, {"send"})'
    BY <1>3, <2>1 DEF AllPast
  <2>2. ASSUME NEW s \in Ranks, AllPast(s, {"send", "status"})
        PROVE  AllPast(s, {"send", "status"})'
    BY <1>3, <2>2 DEF AllPast
  <2>3. \A s \in Ranks : Arrived(s) => Arrived(s)'
    BY <1>2 DEF Arrived
  <2>4. Ordered
    BY DEF IInv
  <2>5. AllPast(r, {"send"}) /\ AllPast(r, {"send", "status"}) /\ Arrived(r)
    BY <1>2, <2>4 DEF Ordered
  <2>6. ASSUME NEW s \in Ranks, NEW d \in Cores
        PROVE  /\ pc'[s][d] # "send" /\ pc'[s][d] # "status" => AllPast(s, {"send"})'
               /\ pc'[s][d] \in {"totals", "done"} =>
                    AllPast(s, {"send", "status"})' /\ Arrived(s)'
    <3>1. CASE s = r /\ d = c
      BY <2>1, <2>2, <2>3, <2>5, <3>1
    <3>2. CASE s # r \/ d # c
      <4>1. pc'[s][d] = pc[s][d]
        BY <1>3, <3>2
      <4>2. QED
        BY <2>1, <2>2, <2>3, <2>4, <4>1 DEF Ordered
    <3>3. QED
      BY <3>1, <3>2
  <2>7. QED
    BY <2>6 DEF Ordered
<1>10. WindowsHold' /\ WordsHold'
  BY <1>2, <1>4 DEF IInv, WindowsHold, WordsHold
<1>11. PlacesHold'
  BY <1>2, <1>5 DEF IInv, PlacesHold
<1>12. RowsHold'
  BY <1>2, <1>5 DEF IInv, RowsHold
<1>13. SumsHold'
  BY <1>2, <1>5 DEF IInv, SumsHold
<1>14. TotalsHold'
  <2>1. \A s \in Ranks : FinalNums(s)' = FinalNums(s)
    BY <1>2, NumsStay
  <2>2. ASSUME NEW s \in Ranks
        PROVE  expertTokenNums'[s] = IF pc'[s][LastCore(s)] = "done" THEN FinalNums(s)
                                     ELSE [m \in 0 .. M - 1 |-> Nothing]
    <3>1. CASE s = r /\ c = LastCore(r)
      BY <1>3, <1>7, <3>1
    <3>2. CASE s # r \/ c # LastCore(r)
      <4>1. pc'[s][LastCore(s)] = pc[s][LastCore(s)]
        BY <1>3, <3>2, LastCoreIs
      <4>2. QED
        BY <1>7, <3>2, <4>1 DEF IInv, TotalsHold
    <3>3. QED
      BY <3>1, <3>2
  <2>3. \A s : LastCore(s)' = LastCore(s)
    BY DEF LastCore, InboxSize
  <2>4. QED
    BY <2>1, <2>2, <2>3 DEF TotalsHold
<1>15. Added
  BY <1>2 DEF Added, Adds
<1>16. QED
  BY <1>8, <1>9, <1>10, <1>11, <1>12, <1>13, <1>14, <1>15 DEF IInv

\* Waiting, and steps of others.
LEMMA Idle ==
  ASSUME IInv, UNCHANGED vars
  PROVE  IInv' /\ Added
<1>1. /\ expertIds' = expertIds /\ tokenNumsType' = tokenNumsType /\ pc' = pc
      /\ window' = window /\ expandIdx' = expandIdx /\ status' = status
      /\ expandXOut' = expandXOut /\ sendCounts' = sendCounts
      /\ expertTokenNums' = expertTokenNums
  BY DEF vars, inputs
<1>2. Added
  BY <1>1 DEF Added, Adds
<1>3. /\ \A r, c, d : SentFrom(r, c, d)' = SentFrom(r, c, d)
      /\ \A r, c, d : Told(r, c, d)' = Told(r, c, d)
      /\ \A r, c : PlacesFrom(r, c)' = PlacesFrom(r, c)
      /\ \A r, c : RowsFrom(r, c)' = RowsFrom(r, c)
      /\ \A r, c : SumsFrom(r, c)' = SumsFrom(r, c)
      /\ \A r : FinalNums(r)' = FinalNums(r)
  BY <1>1, RoutingStays, NumsStay
<1>4. \A r, c : KeptBy(r, c)' = KeptBy(r, c)
  BY DEF KeptBy, SharedShare, SharedCores, Slice
<1>5. /\ \A L : Beyond(L)' = Beyond(L)
      /\ \A r, L : BeyondAt(r, L)' = BeyondAt(r, L)
  BY <1>1 DEF Beyond, BeyondAt
<1>6. \A r : SentTo(r)' = SentTo(r) /\ ToldTo(r)' = ToldTo(r)
  BY <1>3, <1>5 DEF SentTo, ToldTo
<1>7. \A r : PlacesOf(r)' = PlacesOf(r) /\ SumsOf(r)' = SumsOf(r)
  BY <1>3, <1>5 DEF PlacesOf, SumsOf
<1>8. \A r : RowsOf(r)' = RowsOf(r)
  BY <1>3, <1>4, <1>5 DEF RowsOf
<1>9. TypeOK' /\ Ordered'
  BY <1>1 DEF IInv, TypeOK, Ordered, AllPast, Arrived
<1>10. WindowsHold' /\ WordsHold'
  BY <1>1, <1>6 DEF IInv, WindowsHold, WordsHold
<1>11. PlacesHold' /\ SumsHold'
  BY <1>1, <1>7 DEF IInv, PlacesHold, SumsHold
<1>12. RowsHold'
  BY <1>1, <1>8 DEF IInv, RowsHold
<1>13. TotalsHold'
  BY <1>1, <1>3 DEF IInv, TotalsHold, LastCore, InboxSize
<1>14. QED
  BY <1>2, <1>9, <1>10, <1>11, <1>12, <1>13 DEF IInv

LEMMA NextIInv ==
  ASSUME IInv, [Next]_vars
  PROVE  IInv' /\ Added
<1>1. ASSUME NEW r \in Ranks, NEW c \in Cores, Send(r, c) PROVE IInv' /\ Added
  BY <1>1, SendKeeps
<1>2. ASSUME NEW r \in Ranks, NEW c \in Cores, SetStatus(r, c) PROVE IInv' /\ Added
  BY <1>2, StatusKeeps
<1>3. ASSUME NEW r \in Ranks, NEW c \in Cores, LocalWindowCopy(r, c) PROVE IInv' /\ Added
  BY <1>3, CopyKeeps
<1>4. ASSUME NEW r \in Ranks, NEW c \in Cores, UpdateTokenNumsOut(r, c)
      PROVE  IInv' /\ Added
  BY <1>4, TotalsKeeps
<1>5. CASE Finished
  <2>1. UNCHANGED vars
    BY <1>5 DEF Finished
  <2>2. QED
    BY <2>1, Idle
<1>6. CASE UNCHANGED vars
  BY <1>6, Idle
<1>7. QED
  BY <1>1, <1>2, <1>3, <1>4, <1>5, <1>6 DEF Next, Step

\* In every state, memory holds what the cores that have come past the writing
\* of it were to write, and nothing else.
THEOREM LayoutInvariant == Spec => []IInv
<1>1. Init => IInv
  BY InitIInv
<1>2. IInv /\ [Next]_vars => IInv'
  BY NextIInv
<1>3. QED
  BY <1>1, <1>2, PTL DEF Spec

\* Windows, words and outputs hold tokens and counts in range, or nothing.
THEOREM LayoutTypes == Spec => []TypeOK
<1>1. IInv => TypeOK
  BY DEF IInv
<1>2. QED
  BY <1>1, LayoutInvariant, PTL

\* No slot of a window, status word or row of expandXOut is written twice with
\* different contents, whoever writes: SendToMoeExpert, SendToSharedExpert,
\* SetStatus and LocalWindowCopy of all cores of all ranks.
THEOREM LayoutWrittenOnce == Spec => WrittenOnce
<1>1. IInv /\ [Next]_vars =>
        [\A r \in Ranks :
           /\ \A a \in Slots :
                window[r][a] # Nothing => window'[r][a] = window[r][a]
           /\ \A n \in Words :
                status[r][n] # Nothing => status'[r][n] = status[r][n]
           /\ \A a \in Rows :
                expandXOut[r][a] # Nothing => expandXOut'[r][a] = expandXOut[r][a]]_vars
  BY NextIInv DEF Added, Adds
<1>2. QED
  BY <1>1, LayoutInvariant, PTL DEF Spec, WrittenOnce

-------------------------------------------------------------------------------
(* What the operator promises.                                                 *)

\* Once the cores of the receiver have copied, the rows of a word are in place.
LEMMA RowsAll ==
  ASSUME IInv, NEW r \in Ranks, AllPast(r, {"send", "status", "copy"}),
         NEW n \in 0 .. InboxSize(r) - 1, ~Own(r, n), NEW k \in 0 .. Counts(r)[n] - 1
  PROVE  expandXOut[r][First(r, n) + k] = TokenAt(r, n, k)
<1>1. TypeOK /\ RowsHold /\ expertIds \in [Ranks -> Assignments]
  BY DEF IInv, TypeOK
<1>2. InboxSize(r) \in Nat /\ C \in Nat \ {0}
  BY Inboxes, Sizes
<1>3. PICK c \in Cores : n \in Slice(InboxSize(r), C, c)
  BY <1>2, SliceCover DEF Cores
<1>4. PICK w : w = <<First(r, n) + k, TokenAt(r, n, k)>>
  OBVIOUS
<1>5. w \in RowsFrom(r, c)
  <2>1. w \in RowsAt(r, n)
    BY <1>4 DEF RowsAt
  <2>2. QED
    BY <1>3, <2>1 DEF RowsFrom
<1>6. c \in BeyondAt(r, {"send", "status", "copy"})
  BY DEF AllPast, BeyondAt
<1>7. w \in RowsOf(r)
  BY <1>5, <1>6 DEF RowsOf
<1>8. w \in Rows \X AllTokens
  <2>1. RowsOf(r) \subseteq AllRows(r) /\ AllRows(r) \in SUBSET (Rows \X AllTokens)
    BY <1>1, RowsApart, SoFar
  <2>2. QED
    BY <1>7, <2>1
<1>9. expandXOut[r] \in [Rows -> AllTokens \cup {Nothing}]
  BY <1>1 DEF TypeOK
<1>10. Holds(expandXOut[r], RowsOf(r)) /\ w[1] \in DOMAIN expandXOut[r]
  BY <1>1, <1>8, <1>9 DEF RowsHold
<1>11. expandXOut[r][w[1]] = w[2]
  BY <1>7, <1>10 DEF Holds
<1>12. QED
  BY <1>4, <1>11

\* A sender's own expandIdx says which row of the receiver a choice went to.
LEMMA PlacesAll ==
  ASSUME IInv, NEW s \in Ranks, AllPast(s, {"send"}), NEW i \in Picks
  PROVE  expandIdx[s][i] = PicksBefore(s, expertIds[s][i], i)
<1>1. expandIdx[s] \in [Picks -> Tokens \cup {Nothing}] /\ Holds(expandIdx[s], PlacesOf(s))
  BY DEF IInv, TypeOK, PlacesHold
<1>2. PICK c \in Cores : i \in MoeShare(s, c)
  BY SharesCover
<1>3. PICK w : w = <<i, PicksBefore(s, expertIds[s][i], i)>>
  OBVIOUS
<1>4. w \in PlacesFrom(s, c) /\ c \in BeyondAt(s, {"send"})
  BY <1>2, <1>3 DEF PlacesFrom, AllPast, BeyondAt
<1>5. w \in PlacesOf(s)
  BY <1>4 DEF PlacesOf
<1>6. QED
  BY <1>1, <1>3, <1>5 DEF Holds

\* What moe_distribute_combine relies on to send the results back: the place of
\* a choice in the sender's expandIdx, after the sum before its word in the
\* receiver's sendCounts, is the row of expandXOut that holds its token.
THEOREM LayoutRowsFound == Spec => []RowsFound
<1>1. ASSUME IInv PROVE RowsFound
  <2>1. SUFFICES ASSUME NEW s \in Ranks, NEW d \in Ranks, Copied(s), Copied(d),
                        NEW i \in Picks, RankOf(expertIds[s][i]) = d,
                        NEW n, n = StatusIndex(<<s, expertIds[s][i] + Shared>>)
                 PROVE  expandXOut[d][(IF n = 0 THEN 0 ELSE sendCounts[d][n - 1])
                                      + expandIdx[s][i]] = <<s, i \div K>>
    BY DEF RowsFound
  <2>2. /\ TypeOK /\ SumsHold /\ expertIds \in [Ranks -> Assignments]
        /\ sendCounts[d] \in [Words -> (0 .. R * M * BS) \cup {Nothing}]
    BY <1>1 DEF IInv, TypeOK
  <2>3. /\ AllPast(d, {"send", "status", "copy"}) /\ AllPast(s, {"send"})
    BY <2>1 DEF Copied, AllPast
  <2>4. PICK k : k = PicksBefore(s, expertIds[s][i], i)
    OBVIOUS
  <2>5. /\ ~(d < Shared) /\ n \in 0 .. InboxSize(d) - 1 /\ k \in 0 .. Counts(d)[n] - 1
        /\ TokenAt(d, n, k) = <<s, i \div K>>
    BY <2>1, <2>2, <2>4, PickGoes
  <2>6. expandIdx[s][i] = k
    BY <1>1, <2>3, <2>4, PlacesAll
  <2>7. (IF n = 0 THEN 0 ELSE sendCounts[d][n - 1]) = First(d, n)
    <3>1. CASE n = 0
      BY <2>2, <3>1, FirstNext
    <3>2. CASE n # 0
      <4>1. n - 1 \in 0 .. InboxSize(d) - 1 /\ n - 1 + 1 = n
        BY <2>5, <3>2, Inboxes
      <4>2. sendCounts[d][n - 1] = First(d, n - 1 + 1)
        BY <2>2, <2>3, <4>1, SumsAll
      <4>3. QED
        BY <3>2, <4>1, <4>2
    <3>3. QED
      BY <3>1, <3>2
  <2>8. ~Own(d, n)
    BY <2>5 DEF Own
  <2>9. expandXOut[d][First(d, n) + k] = TokenAt(d, n, k)
    BY <1>1, <2>3, <2>5, <2>8, RowsAll
  <2>10. QED
    BY <2>5, <2>6, <2>7, <2>9
<1>2. QED
  BY <1>1, LayoutInvariant, PTL

-------------------------------------------------------------------------------
(* The runs of rows of the local experts.                                      *)

\* What a rank reports in the end.
LEMMA NumsAll ==
  ASSUME IInv, NEW r \in Ranks, Done(r)
  PROVE  expertTokenNums[r] = FinalNums(r) /\ AllPast(r, {"send", "status", "copy"})
<1>1. pc \in [Ranks -> [Cores -> Labels]] /\ TotalsHold
  BY DEF IInv, TypeOK
<1>2. \A c \in Cores : pc[r][c] = "done"
  BY <1>1 DEF Done, AllPast, Labels
<1>3. pc[r][LastCore(r)] = "done"
  BY <1>2, LastCoreIs
<1>4. QED
  BY <1>1, <1>2, <1>3 DEF TotalsHold, AllPast

\* Added up, the numbers of the first local experts are the rows before the next.
LEMMA NumsAddUp ==
  ASSUME expertIds \in [Ranks -> Assignments], NEW r \in Ranks, ~(r < Shared),
         ~(tokenNumsType = 0 /\ M > 1)
  PROVE  \A k \in 0 .. M - 1 : AddUp(FinalNums(r), k + 1) = First(r, R * (k + 1))
<1> DEFINE F == FinalNums(r)
           S == {k \in Nat : k <= M => AddUp(F, k) = First(r, R * k)}
<1>1. M \in Nat \ {0} /\ Shared \in Nat /\ r \in Nat
  BY Sizes, Inboxes
<1>2. ASSUME NEW m \in 0 .. M - 1
      PROVE  /\ F[m] \in Nat /\ First(r, R * m) \in Nat
             /\ First(r, R * (m + 1)) = First(r, R * m) + F[m]
  <2>1. /\ InboxSize(r) = R * M /\ R * m \in 0 .. InboxSize(r)
        /\ R * (m + 1) \in 0 .. InboxSize(r) /\ R * m <= R * (m + 1)
        /\ R * 0 = 0
    BY ExpertWords
  <2>2. PICK n, k : n = R * (m + 1) /\ k = R * m
    OBVIOUS
  <2>3. /\ First(r, n) \in Nat /\ First(r, k) \in Nat /\ First(r, k) <= First(r, n)
        /\ First(r, 0) = 0
    BY <2>1, <2>2, FirstNext, FirstGrow
  <2>4. F[m] = First(r, n) - First(r, k)
    <3>1. CASE M = 1
      <4>1. m = 0 /\ ~MultiExpert(r) /\ m + 1 = M
        BY <1>1, <3>1 DEF MultiExpert
      <4>2. F[m] = First(r, InboxSize(r))
        BY <4>1 DEF FinalNums
      <4>3. n = InboxSize(r) /\ k = 0
        BY <2>1, <2>2, <4>1
      <4>4. QED
        BY <2>3, <4>2, <4>3
    <3>2. CASE M # 1
      <4>1. MultiExpert(r) /\ tokenNumsType # 0
        BY <1>1, <3>2 DEF MultiExpert
      <4>2. QED
        BY <2>2, <4>1 DEF FinalNums
    <3>3. QED
      BY <3>1, <3>2
  <2> HIDE DEF F
  <2>5. QED
    BY <2>2, <2>3, <2>4
<1>3. S \in SUBSET Nat
  OBVIOUS
<1>4. 0 \in S
  <2>1. 0 \in 0 .. M - 1
    BY <1>1
  <2>2. R * 0 = 0 /\ First(r, 0) = 0
    BY <2>1, ExpertWords, FirstNext
  <2>3. \A j \in 0 .. 0 : F[j] \in Nat
    BY <1>2, <2>1
  <2> HIDE DEF F
  <2>4. AddUp(F, 0) = 0
    BY <2>3, AddUpNext
  <2>5. QED
    BY <2>2, <2>4
<1>5. ASSUME NEW k \in S PROVE k + 1 \in S
  <2>1. SUFFICES ASSUME k + 1 <= M PROVE AddUp(F, k + 1) = First(r, R * (k + 1))
    OBVIOUS
  <2>2. k \in 0 .. M - 1 /\ AddUp(F, k) = First(r, R * k)
    BY <1>1, <2>1
  <2>3. ASSUME NEW j \in 0 .. k PROVE F[j] \in Nat
    <3>1. j \in 0 .. M - 1
      BY <1>1, <2>2
    <3>2. QED
      BY <1>2, <3>1
  <2> HIDE DEF F, S
  <2>4. AddUp(F, k + 1) = AddUp(F, k) + F[k]
    BY <2>2, <2>3, AddUpNext
  <2>5. QED
    BY <1>2, <2>2, <2>4
<1> HIDE DEF F, S
<1>6. S = Nat
  BY <1>3, <1>4, <1>5, Grow
<1>7. QED
  BY <1>1, <1>6 DEF F, S

\* The words of local expert m are the R words from R * m.
LEMMA GroupWords ==
  ASSUME NEW r \in Ranks, ~(r < Shared), NEW m \in 0 .. M - 1,
         NEW n \in 0 .. InboxSize(r) - 1
  PROVE  /\ WordExpert(r, n) = Shared + (r - Shared) * M + m <=>
              R * m <= n /\ n < R * (m + 1)
         /\ ((r - Shared) * M + m) \div M + Shared = r
<1>1. /\ R \in Nat \ {0} /\ M \in Nat \ {0} /\ Shared \in Nat /\ r \in Nat
      /\ n \in Nat /\ m \in Nat /\ m < M
  BY Sizes, Inboxes
<1>2. R * (m + 1) = R * m + R /\ R * m \in Nat
  <2>1. R * m \in Nat
    BY ExpertWords
  <2>2. QED
    BY <1>1, <2>1
<1>3. n \div R = m <=> R * m <= n /\ n < R * m + R
  BY <1>1, DivIs
<1>4. PICK q : q = n \div R
  OBVIOUS
<1>5. q \in Int
  BY <1>1, <1>4
<1>6. WordExpert(r, n) = Shared + (r - Shared) * M + q
  BY <1>4 DEF WordExpert
<1>7. PICK b : b = (r - Shared) * M
  OBVIOUS
<1>8. b \in Int
  BY <1>1, <1>7
<1>9. WordExpert(r, n) = Shared + b + m <=> q = m
  BY <1>1, <1>5, <1>6, <1>7, <1>8
<1>10. (b + m) \div M = r - Shared
  <2>1. M * (r - Shared) = b /\ r - Shared \in Int /\ b + m \in Int
    BY <1>1, <1>7, <1>8
  <2>2. (b + m) \div M = r - Shared <=>
          M * (r - Shared) <= b + m /\ b + m < M * (r - Shared) + M
    BY <1>1, <2>1, DivIs
  <2>3. QED
    BY <1>1, <1>8, <2>1, <2>2
<1>11. (b + m) \div M + Shared = r
  BY <1>1, <1>10
<1>12. QED
  BY <1>2, <1>3, <1>4, <1>7, <1>9, <1>11

\* The words of the local experts before m, and the number of local expert m.
WordsBefore(m) == R * m
ExpertAt(r, m) == (r - Shared) * M + m

\* A row between the sums of local expert m holds a token routed to it: that of
\* the choice whose place it is.
LEMMA GroupRow ==
  ASSUME IInv, NEW r \in Ranks, ~(r < Shared), AllPast(r, {"send", "status", "copy"}),
         NEW m \in 0 .. M - 1,
         NEW a \in First(r, WordsBefore(m)) .. First(r, WordsBefore(m + 1)) - 1
  PROVE  \E s \in Ranks, i \in Picks :
           /\ expandXOut[r][a] = <<s, i \div K>> /\ expertIds[s][i] = ExpertAt(r, m)
           /\ a = First(r, StatusIndex(<<s, expertIds[s][i] + Shared>>))
                    + PicksBefore(s, expertIds[s][i], i)
<1>1. expertIds \in [Ranks -> Assignments] /\ Shared \in Nat /\ r \in Nat /\ M \in Nat \ {0}
  BY Sizes, Inboxes DEF IInv, TypeOK
<1>2. PICK lo, hi, e : /\ lo = R * m /\ hi = R * (m + 1) /\ e = (r - Shared) * M + m
                       /\ a \in First(r, lo) .. First(r, hi) - 1 /\ e = ExpertAt(r, m)
  BY DEF WordsBefore, ExpertAt
<1>3. lo \in 0 .. InboxSize(r) /\ hi \in 0 .. InboxSize(r)
  BY <1>2, ExpertWords
<1>4. PICK n \in 0 .. InboxSize(r) - 1 :
        /\ lo <= n /\ n < hi
        /\ \E k \in 0 .. Counts(r)[n] - 1 : a = First(r, n) + k
  BY <1>1, <1>2, <1>3, RowThere
<1>5. PICK k \in 0 .. Counts(r)[n] - 1 : a = First(r, n) + k
  BY <1>4
<1>6. expandXOut[r][a] = TokenAt(r, n, k)
  <2>1. ~Own(r, n)
    BY DEF Own
  <2>2. QED
    BY <1>5, <2>1, RowsAll
<1>7. PICK i \in Picks :
        /\ TokenAt(r, n, k) = <<WordSender(r, n), i \div K>> /\ WordSender(r, n) \in Ranks
        /\ expertIds[WordSender(r, n)][i] + Shared = WordExpert(r, n)
        /\ n = StatusIndex(<<WordSender(r, n), expertIds[WordSender(r, n)][i] + Shared>>)
        /\ k = PicksBefore(WordSender(r, n), expertIds[WordSender(r, n)][i], i)
  BY <1>1, TokenIs
<1>8. PICK s \in Ranks : s = WordSender(r, n)
  BY <1>7
<1>9. WordExpert(r, n) = Shared + (r - Shared) * M + m
  BY <1>2, <1>4, GroupWords
<1>10. expertIds[s][i] = e
  <2>1. PICK y, x : y = expertIds[s][i] /\ x = (r - Shared) * M
    OBVIOUS
  <2>2. y \in Nat /\ x \in Int
    <3>1. y \in MoeExperts
      BY <1>1, <2>1 DEF Assignments
    <3>2. QED
      BY <1>1, <2>1, <3>1 DEF MoeExperts
  <2>3. y + Shared = Shared + x + m
    BY <1>7, <1>8, <1>9, <2>1
  <2>4. y = x + m
    BY <1>1, <2>2, <2>3
  <2>5. QED
    BY <1>2, <2>1, <2>4
<1>11. QED
  BY <1>2, <1>5, <1>6, <1>7, <1>8, <1>10

\* The token of every choice of local expert m is in one of its rows.
LEMMA GroupThere ==
  ASSUME IInv, NEW r \in Ranks, ~(r < Shared), AllPast(r, {"send", "status", "copy"}),
         NEW m \in 0 .. M - 1, NEW s \in Ranks, NEW i \in Picks,
         expertIds[s][i] = ExpertAt(r, m)
  PROVE  \E a \in First(r, WordsBefore(m)) .. First(r, WordsBefore(m + 1)) - 1 :
           expandXOut[r][a] = <<s, i \div K>>
<1>1. /\ expertIds \in [Ranks -> Assignments] /\ Shared \in Nat /\ r \in Nat /\ M \in Nat \ {0}
      /\ 0 \in 0 .. InboxSize(r) - 1
  BY Sizes, Inboxes DEF IInv, TypeOK
<1>2. RankOf(expertIds[s][i]) = r
  BY <1>1, GroupWords DEF RankOf, ExpertAt
<1>3. PICK n, k : /\ n = StatusIndex(<<s, expertIds[s][i] + Shared>>)
                  /\ k = PicksBefore(s, expertIds[s][i], i)
  OBVIOUS
<1>4. /\ n \in 0 .. InboxSize(r) - 1 /\ WordExpert(r, n) = expertIds[s][i] + Shared
      /\ k \in 0 .. Counts(r)[n] - 1 /\ TokenAt(r, n, k) = <<s, i \div K>>
  BY <1>1, <1>2, <1>3, PickGoes
<1>5. WordExpert(r, n) = Shared + (r - Shared) * M + m
  <2>1. PICK x : x = (r - Shared) * M
    OBVIOUS
  <2>2. x \in Int
    BY <1>1, <2>1
  <2>3. x + m + Shared = Shared + x + m
    BY <1>1, <2>2
  <2>4. QED
    BY <1>4, <2>1, <2>3 DEF ExpertAt
<1>6. PICK lo, hi : lo = R * m /\ hi = R * (m + 1)
  OBVIOUS
<1>7. lo \in 0 .. InboxSize(r) /\ hi \in 0 .. InboxSize(r) /\ lo <= n /\ n < hi
  BY <1>4, <1>5, <1>6, ExpertWords, GroupWords
<1>8. PICK a : a = First(r, n) + k
  OBVIOUS
<1>9. expandXOut[r][a] = <<s, i \div K>>
  <2>1. ~Own(r, n)
    BY DEF Own
  <2>2. QED
    BY <1>4, <1>8, <2>1, RowsAll
<1>10. a \in First(r, lo) .. First(r, hi) - 1
  <2>1. n + 1 \in 0 .. InboxSize(r) /\ n \in 0 .. InboxSize(r) /\ n + 1 <= hi
    BY <1>4, <1>7, Inboxes
  <2>2. /\ First(r, lo) <= First(r, n) /\ First(r, n + 1) <= First(r, hi)
        /\ First(r, n + 1) = First(r, n) + Counts(r)[n]
        /\ First(r, lo) \in Nat /\ First(r, n) \in Nat /\ First(r, hi) \in Nat
    BY <1>1, <1>4, <1>7, <2>1, FirstGrow, FirstNext
  <2>3. Counts(r)[n] \in Nat
    BY <1>1, <1>4, CountsType
  <2>4. QED
    BY <1>4, <1>8, <2>2, <2>3
<1>11. QED
  BY <1>6, <1>9, <1>10 DEF WordsBefore

\* Sets that a function pairs have as many members.
LEMMA AsMany ==
  ASSUME NEW S, NEW T, IsFiniteSet(S), NEW f, \A a \in S : f[a] \in T,
         \A a, b \in S : f[a] = f[b] => a = b,
         \A t \in T : \E a \in S : f[a] = t
  PROVE  IsFiniteSet(T) /\ Cardinality(S) = Cardinality(T)
<1> DEFINE g == [a \in S |-> f[a]]
<1>1. g \in [S -> T] /\ (\A a, b \in S : g[a] = g[b] => a = b)
      /\ (\A t \in T : \E a \in S : g[a] = t)
  OBVIOUS
<1> HIDE DEF g
<1>2. g \in Surjection(S, T) /\ g \in Injection(S, T)
  BY <1>1 DEF Surjection, Injection, IsInjective
<1>3. QED
  BY <1>2, FS_Surjection

\* What the experts' matrix product relies on: expertTokenNumsOut divides the
\* rows of a rank into runs, one for each of its experts, and the run of an
\* expert holds the tokens that any rank routed to it, each once.
THEOREM LayoutRowsGrouped == Spec => []RowsGrouped
<1>1. ASSUME IInv PROVE RowsGrouped
  <2> DEFINE running == tokenNumsType = 0 /\ M > 1
             end(r, k) == IF running THEN expertTokenNums[r][k]
                          ELSE MapThenSumSet(LAMBDA j : expertTokenNums[r][j], 0 .. k)
             rows(r, m) == (IF m = 0 THEN 0 ELSE end(r, m - 1)) .. end(r, m) - 1
             routed(r, m) ==
               {p \in AllTokens : \E i \in Picks :
                  i \div K = p[2] /\ expertIds[p[1]][i] = (r - Shared) * M + m}
  <2>1. SUFFICES ASSUME NEW r \in Ranks \ (0 .. Shared - 1), Done(r), NEW m \in 0 .. M - 1
                 PROVE  /\ {expandXOut[r][a] : a \in rows(r, m)} = routed(r, m)
                        /\ Cardinality(rows(r, m)) = Cardinality(routed(r, m))
    BY DEF RowsGrouped
  <2>2. /\ expertIds \in [Ranks -> Assignments] /\ ~(r < Shared) /\ r \in Ranks
        /\ Shared \in Nat /\ r \in Nat /\ M \in Nat \ {0}
    BY <1>1, Sizes, Inboxes DEF IInv, TypeOK
  <2>3. expertTokenNums[r] = FinalNums(r) /\ AllPast(r, {"send", "status", "copy"})
    BY <1>1, <2>1, NumsAll
  <2>4. ASSUME NEW k \in 0 .. M - 1 PROVE end(r, k) = First(r, R * (k + 1))
    <3>1. CASE running
      <4>1. MultiExpert(r) /\ tokenNumsType = 0
        BY <2>2, <3>1 DEF MultiExpert
      <4>2. First(r, R * (k + 1)) \in Nat
        <5>1. R * (k + 1) \in 0 .. InboxSize(r)
          BY <2>2, ExpertWords
        <5>2. QED
          BY <2>2, <5>1, FirstNext
      <4>3. FinalNums(r)[k] = First(r, R * (k + 1))
        BY <4>1, <4>2 DEF FinalNums
      <4>4. QED
        BY <2>3, <3>1, <4>3
    <3>2. CASE ~running
      <4>1. AddUp(FinalNums(r), k + 1) = First(r, R * (k + 1))
        BY <2>2, <3>2, NumsAddUp
      <4>2. k + 1 - 1 = k
        OBVIOUS
      <4>3. end(r, k) = MapThenSumSet(LAMBDA j : FinalNums(r)[j], 0 .. k + 1 - 1)
        BY <2>3, <3>2, <4>2
      <4>4. end(r, k) = AddUp(FinalNums(r), k + 1)
        BY <4>3 DEF AddUp
      <4>5. QED
        BY <4>1, <4>4
    <3>3. QED
      BY <3>1, <3>2
  <2>5. rows(r, m) = First(r, R * m) .. First(r, R * (m + 1)) - 1
    <3>1. CASE m = 0
      <4>1. R * 0 = 0 /\ First(r, 0) = 0
        BY <2>2, ExpertWords, FirstNext
      <4>2. QED
        BY <2>4, <3>1, <4>1
    <3>2. CASE m # 0
      <4>1. m - 1 \in 0 .. M - 1 /\ m - 1 + 1 = m
        BY <2>2, <3>2
      <4>2. QED
        BY <2>4, <3>2, <4>1
    <3>3. QED
      BY <3>1, <3>2
  <2> HIDE DEF rows, end
  <2>6. PICK lo, hi, e : /\ lo = WordsBefore(m) /\ hi = WordsBefore(m + 1)
                              /\ e = ExpertAt(r, m)
    OBVIOUS
  <2>7. rows(r, m) = First(r, lo) .. First(r, hi) - 1
    BY <2>5, <2>6 DEF WordsBefore
  <2>8. routed(r, m) =
           {p \in AllTokens : \E i \in Picks : i \div K = p[2] /\ expertIds[p[1]][i] = e}
    BY <2>6 DEF ExpertAt
  <2> HIDE DEF routed
  <2>9. ASSUME NEW a \in rows(r, m)
        PROVE  \E s \in Ranks, i \in Picks :
                 /\ expandXOut[r][a] = <<s, i \div K>> /\ expertIds[s][i] = e
                 /\ a = First(r, StatusIndex(<<s, expertIds[s][i] + Shared>>))
                          + PicksBefore(s, expertIds[s][i], i)
    BY <1>1, <2>2, <2>3, <2>6, <2>7, GroupRow
  <2>10. ASSUME NEW a \in rows(r, m) PROVE expandXOut[r][a] \in routed(r, m)
    <3>1. PICK s \in Ranks, i \in Picks :
            expandXOut[r][a] = <<s, i \div K>> /\ expertIds[s][i] = e
      BY <2>9
    <3>2. i \div K \in Tokens
      BY TokenOfPick
    <3>3. <<s, i \div K>> \in AllTokens
      BY <3>2 DEF AllTokens
    <3>4. QED
      BY <2>8, <3>1, <3>3
  <2>11. ASSUME NEW p \in routed(r, m) PROVE \E a \in rows(r, m) : expandXOut[r][a] = p
    <3>1. PICK s \in Ranks, t \in Tokens : p = <<s, t>>
      BY <2>8 DEF AllTokens
    <3>2. PICK i \in Picks : i \div K = t /\ expertIds[s][i] = e
      BY <2>8, <3>1
    <3>3. \E a \in First(r, lo) .. First(r, hi) - 1 : expandXOut[r][a] = <<s, i \div K>>
      <4>1. IInv /\ expertIds[s][i] = ExpertAt(r, m) /\ ~(r < Shared) /\ r \in Ranks
        BY <1>1, <2>2, <2>6, <3>2
      <4>2. \E a \in First(r, WordsBefore(m)) .. First(r, WordsBefore(m + 1)) - 1 :
               expandXOut[r][a] = <<s, i \div K>>
        BY <2>3, <4>1, GroupThere, Zenon
      <4>3. QED
        BY <2>6, <4>2
    <3>4. QED
      BY <2>7, <3>1, <3>2, <3>3
  <2>12. ASSUME NEW a \in rows(r, m), NEW b \in rows(r, m), expandXOut[r][a] = expandXOut[r][b]
        PROVE  a = b
    <3>1. PICK s \in Ranks, i \in Picks :
            /\ expandXOut[r][a] = <<s, i \div K>>
            /\ expertIds[s][i] = e
            /\ a = First(r, StatusIndex(<<s, expertIds[s][i] + Shared>>))
                     + PicksBefore(s, expertIds[s][i], i)
      BY <2>9
    <3>2. PICK u \in Ranks, j \in Picks :
            /\ expandXOut[r][b] = <<u, j \div K>>
            /\ expertIds[u][j] = e
            /\ b = First(r, StatusIndex(<<u, expertIds[u][j] + Shared>>))
                     + PicksBefore(u, expertIds[u][j], j)
      BY <2>9
    <3>3. s = u /\ i \div K = j \div K
      <4>1. PICK x, y : x = i \div K /\ y = j \div K
        OBVIOUS
      <4>2. <<s, x>> = <<u, y>>
        BY <2>12, <3>1, <3>2, <4>1
      <4>3. QED
        BY <4>1, <4>2
    <3>4. i = j
      BY <2>2, <3>1, <3>2, <3>3 DEF Assignments
    <3>5. QED
      BY <3>1, <3>2, <3>3, <3>4
  <2>13. {expandXOut[r][a] : a \in rows(r, m)} = routed(r, m)
    BY <2>10, <2>11
  <2>14. IsFiniteSet(rows(r, m))
    <3>1. First(r, R * m) \in Int /\ First(r, R * (m + 1)) - 1 \in Int
      <4>1. PICK x, y : x = R * m /\ y = R * (m + 1)
        OBVIOUS
      <4>2. First(r, x) \in Nat /\ First(r, y) \in Nat
        BY <2>2, <4>1, ExpertWords, FirstNext
      <4>3. QED
        BY <4>1, <4>2
    <3>2. QED
      BY <2>5, <3>1, FS_Interval
  <2>15. Cardinality(rows(r, m)) = Cardinality(routed(r, m))
    BY <2>10, <2>11, <2>12, <2>14, AsMany
  <2>16. QED
    BY <2>13, <2>15
<1>2. QED
  BY <1>1, LayoutInvariant, PTL

-------------------------------------------------------------------------------
(* The rows of the shared experts.                                             *)

\* As the ranks are a multiple of the shared experts, each gets the same number.
LEMMA SharedTotal ==
  ASSUME Shared # 0, NEW r \in Nat
  PROVE  Dealt(r + R) = Dealt(r) + (BS * R) \div Shared /\ (BS * R) \div Shared \in Nat
<1>1. /\ Shared \in Nat \ {0} /\ BS \in Nat \ {0} /\ R \in Nat \ {0} /\ R % Shared = 0
      /\ R \in Int
  BY LayoutAssumption
<1>2. PICK q \in Nat : R = Shared * q
  <2>1. R \div Shared \in Nat /\ R = Shared * (R \div Shared) + (R % Shared)
    BY <1>1, DivNat, DivMod, Zenon
  <2>2. PICK q, y : q = R \div Shared /\ y = Shared * q
    OBVIOUS
  <2>3. q \in Nat /\ y \in Int /\ R = y + 0
    BY <1>1, <2>1, <2>2
  <2>4. QED
    BY <2>2, <2>3
<1>3. PICK a, b : a = BS * q /\ b = BS * R
  OBVIOUS
<1>4. a \in Nat /\ b \in Int /\ Shared * a = b
  BY <1>1, <1>2, <1>3
<1>5. b \div Shared = a
  <2>1. b \div Shared = a <=> Shared * a <= b /\ b < Shared * a + Shared
    BY <1>1, <1>4, DivIs
  <2>2. QED
    BY <1>1, <1>4, <2>1
<1>6. PICK x, y : x = r * BS /\ y = (r + R) * BS
  OBVIOUS
<1>7. x \in Int /\ y \in Int /\ y = x + b
  BY <1>1, <1>3, <1>6
<1>8. PICK d \in Nat : d = Dealt(r)
  BY DealtCut
<1>9. Shared * d <= x /\ x < Shared * d + Shared
  <2>1. x \div Shared = d
    BY <1>6, <1>8 DEF Dealt
  <2>2. QED
    BY <1>1, <1>7, <1>8, <2>1, DivIs
<1>10. y \div Shared = d + a
  <2>1. Shared * (d + a) = Shared * d + b /\ Shared * d \in Int
    BY <1>1, <1>4, <1>8
  <2>2. Shared * (d + a) <= y /\ y < Shared * (d + a) + Shared
    BY <1>1, <1>4, <1>7, <1>9, <2>1
  <2>3. d + a \in Int
    BY <1>4, <1>8
  <2>4. QED
    BY <1>1, <1>7, <2>2, <2>3, DivIs
<1>11. QED
  BY <1>3, <1>4, <1>5, <1>6, <1>8, <1>10 DEF Dealt

\* The rows of a shared expert: its own tokens, and then those of the others.
LEMMA SharedSums ==
  ASSUME expertIds \in [Ranks -> Assignments], NEW d \in Ranks, d < Shared
  PROVE  /\ InboxSize(d) = R /\ Shared \in 0 .. InboxSize(d) /\ Shared \in Nat \ {0}
         /\ First(d, Shared) = BS /\ First(d, R) = (BS * R) \div Shared
         /\ BS \in Nat /\ First(d, R) \in Nat /\ BS <= First(d, R)
         /\ 0 .. First(d, R) - 1 \subseteq Rows
<1>1. /\ d \in Nat /\ Shared \in Nat \ {0} /\ Shared < R /\ R \in Nat \ {0} /\ BS \in Nat
      /\ InboxSize(d) = R
  BY Sizes, Inboxes DEF InboxSize
<1>2. R \in 0 .. R /\ Shared \in 0 .. R
  BY <1>1
<1>3. First(d, R) = Dealt(d + R) - Dealt(d) /\ First(d, Shared) = BS
  BY <1>2, FirstShared
<1>4. First(d, R) = (BS * R) \div Shared
  <2>1. PICK x : x = (BS * R) \div Shared
    OBVIOUS
  <2>2. Dealt(d + R) = Dealt(d) + x /\ x \in Nat /\ Dealt(d) \in Nat
    BY <1>1, <2>1, SharedTotal, DealtCut
  <2>3. QED
    BY <1>3, <2>1, <2>2
<1>5. First(d, R) \in Nat /\ First(d, Shared) <= First(d, R)
  BY <1>1, <1>2, FirstNext, FirstGrow
<1>6. 0 .. First(d, R) - 1 \subseteq Rows
  <2>1. PICK b : b = R * M * BS
    OBVIOUS
  <2>2. b \in Nat /\ First(d, R) \in 0 .. b
    BY <1>1, <1>2, <2>1, FirstBound, Inboxes
  <2>3. Rows = 0 .. b - 1
    BY <2>1 DEF Rows
  <2>4. QED
    BY <2>2, <2>3
<1>7. QED
  BY <1>1, <1>2, <1>3, <1>4, <1>5, <1>6

\* A rank of a shared expert keeps its own tokens in the first rows.
LEMMA KeptAll ==
  ASSUME IInv, NEW d \in Ranks, d < Shared, AllPast(d, {"send"}), NEW t \in Tokens
  PROVE  expandXOut[d][t] = <<d, t>>
<1>1. expertIds \in [Ranks -> Assignments] /\ Shared # 0 /\ d \in Nat
  BY Sizes, Inboxes DEF IInv, TypeOK
<1>2. PICK c \in Cores : t \in SharedShare(c)
  BY <1>1, SharesCover
<1>3. PICK w : w = <<t, <<d, t>>>>
  OBVIOUS
<1>4. w \in KeptBy(d, c) /\ c \in BeyondAt(d, {"send"})
  BY <1>2, <1>3 DEF KeptBy, AllPast, BeyondAt
<1>5. w \in RowsOf(d)
  BY <1>4 DEF RowsOf
<1>6. t \in Rows
  BY <1>1, SharedSums DEF Tokens
<1>7. expandXOut[d] \in [Rows -> AllTokens \cup {Nothing}] /\ Holds(expandXOut[d], RowsOf(d))
  BY DEF IInv, TypeOK, RowsHold
<1>8. QED
  BY <1>3, <1>5, <1>6, <1>7 DEF Holds

\* Where the token of a rank ends up: the shared expert and the row.
PlaceOf(p) ==
  IF p[1] < Shared THEN p
  ELSE LET d == SharedExpertOf(p[1], p[2])
       IN <<d, First(d, p[1]) + (p[2] - SharedBefore(p[1], d))>>

\* It does end up there ...
LEMMA SharedThere ==
  ASSUME IInv, Shared # 0, \A r \in Ranks : Done(r), NEW s \in Ranks, NEW t \in Tokens
  PROVE  \E d \in 0 .. Shared - 1 : \E a \in 0 .. (BS * R) \div Shared - 1 :
           PlaceOf(<<s, t>>) = <<d, a>> /\ expandXOut[d][a] = <<s, t>>
<1>1. /\ expertIds \in [Ranks -> Assignments] /\ Shared \in Nat \ {0} /\ s \in Nat
      /\ t \in Nat /\ t < BS /\ BS \in Nat
  BY Sizes, Inboxes DEF IInv, TypeOK, Tokens
<1>2. \A r \in Ranks : AllPast(r, {"send", "status", "copy"}) /\ AllPast(r, {"send"})
  BY NumsAll DEF AllPast
<1>3. CASE s < Shared
  <2>1. PlaceOf(<<s, t>>) = <<s, t>>
    BY <1>3 DEF PlaceOf
  <2>2. expandXOut[s][t] = <<s, t>>
    BY <1>2, <1>3, KeptAll
  <2>3. t \in 0 .. First(s, R) - 1 /\ s \in 0 .. Shared - 1
        /\ First(s, R) = (BS * R) \div Shared
    BY <1>1, <1>3, SharedSums
  <2>4. QED
    BY <2>1, <2>2, <2>3
<1>4. CASE ~(s < Shared)
  <2>1. PICK d, k : d = SharedExpertOf(s, t) /\ k = t - SharedBefore(s, d)
    OBVIOUS
  <2>2. /\ d \in Ranks /\ d < Shared /\ s \in 0 .. InboxSize(d) - 1
        /\ k \in 0 .. Counts(d)[s] - 1 /\ TokenAt(d, s, k) = <<s, t>>
    BY <1>1, <1>4, <2>1, SharedGoes
  <2>3. ~Own(d, s)
    BY <1>4 DEF Own
  <2>4. expandXOut[d][First(d, s) + k] = <<s, t>>
    BY <1>2, <2>2, <2>3, RowsAll
  <2>5. PlaceOf(<<s, t>>) = <<d, First(d, s) + k>>
    BY <1>4, <2>1 DEF PlaceOf
  <2>6. First(d, s) + k \in 0 .. First(d, R) - 1
    <3>1. InboxSize(d) = R /\ s + 1 \in 0 .. InboxSize(d) /\ R \in 0 .. InboxSize(d)
          /\ s \in 0 .. InboxSize(d) /\ s + 1 <= R
      BY <2>2, Sizes DEF InboxSize
    <3>2. First(d, s + 1) = First(d, s) + Counts(d)[s] /\ First(d, s + 1) <= First(d, R)
          /\ First(d, s) \in Nat /\ First(d, R) \in Nat
      BY <1>1, <2>2, <3>1, FirstNext, FirstGrow
    <3>3. Counts(d)[s] \in Nat
      BY <1>1, <2>2, CountsType
    <3>4. QED
      BY <2>2, <3>2, <3>3
  <2>7. First(d, R) = (BS * R) \div Shared /\ d \in 0 .. Shared - 1
    <3>1. First(d, R) = (BS * R) \div Shared /\ d \in Nat
      BY <1>1, <2>2, SharedSums, Inboxes
    <3>2. QED
      BY <1>1, <2>2, <3>1
  <2>8. QED
    BY <2>4, <2>5, <2>6, <2>7
<1>5. QED
  BY <1>3, <1>4

\* ... and no row holds anything else.
LEMMA SharedHeld ==
  ASSUME IInv, Shared # 0, \A r \in Ranks : Done(r), NEW d \in 0 .. Shared - 1, NEW a \in Rows,
         expandXOut[d][a] # Nothing
  PROVE  /\ a \in 0 .. (BS * R) \div Shared - 1
         /\ expandXOut[d][a] \in AllTokens /\ PlaceOf(expandXOut[d][a]) = <<d, a>>
<1>1. /\ expertIds \in [Ranks -> Assignments] /\ Shared \in Nat \ {0} /\ d \in Nat
      /\ d \in Ranks /\ d < Shared /\ BS \in Nat
  BY Sizes DEF IInv, TypeOK, Ranks
<1>2. PICK v : v = expandXOut[d][a]
  OBVIOUS
<1>3. <<a, v>> \in AllRows(d)
  <2>1. TypeOK /\ Holds(expandXOut[d], RowsOf(d)) /\ DOMAIN expandXOut[d] = Rows
    BY <1>1 DEF IInv, RowsHold, TypeOK
  <2>2. <<a, v>> \in RowsOf(d)
    BY <1>2, <2>1 DEF Holds
  <2>3. QED
    BY <1>1, <2>1, <2>2, SoFar
<1>4. /\ First(d, R) = (BS * R) \div Shared /\ BS <= First(d, R) /\ First(d, R) \in Nat
      /\ InboxSize(d) = R
  BY <1>1, SharedSums
<1>5. CASE \E t \in Tokens : <<a, v>> = <<t, <<d, t>>>>
  <2>1. PICK t \in Tokens : a = t /\ v = <<d, t>>
    BY <1>5
  <2>2. a \in 0 .. First(d, R) - 1
    BY <1>1, <1>4, <2>1 DEF Tokens
  <2>3. v \in AllTokens /\ PlaceOf(v) = <<d, a>>
    BY <1>1, <2>1 DEF AllTokens, PlaceOf
  <2>4. QED
    BY <1>2, <1>4, <2>2, <2>3
<1>6. CASE \E n \in 0 .. InboxSize(d) - 1 : ~Own(d, n) /\ <<a, v>> \in RowsAt(d, n)
  <2>1. PICK n \in 0 .. InboxSize(d) - 1 : ~Own(d, n) /\ <<a, v>> \in RowsAt(d, n)
    BY <1>6
  <2>2. PICK k \in 0 .. Counts(d)[n] - 1 : a = First(d, n) + k /\ v = TokenAt(d, n, k)
    BY <2>1 DEF RowsAt
  <2>3. PICK t \in Tokens : /\ TokenAt(d, n, k) = <<n, t>> /\ n \in Ranks
                            /\ SharedExpertOf(n, t) = d /\ k = t - SharedBefore(n, d)
    BY <1>1, TokenIs
  <2>4. ~(n < Shared) /\ v = <<n, t>>
    BY <1>1, <2>1, <2>2, <2>3 DEF Own
  <2>5. PlaceOf(v) = <<d, a>>
    BY <2>2, <2>3, <2>4 DEF PlaceOf
  <2>6. a \in 0 .. First(d, R) - 1
    <3>1. n + 1 \in 0 .. InboxSize(d) /\ R \in 0 .. InboxSize(d)
          /\ n \in 0 .. InboxSize(d) /\ n + 1 <= R
      BY <1>4, Sizes
    <3>2. First(d, n + 1) = First(d, n) + Counts(d)[n] /\ First(d, n + 1) <= First(d, R)
          /\ First(d, n) \in Nat
      BY <1>1, <3>1, FirstNext, FirstGrow
    <3>3. Counts(d)[n] \in Nat
      BY <1>1, CountsType
    <3>4. QED
      BY <1>4, <2>2, <3>2, <3>3
  <2>7. QED
    BY <1>2, <1>4, <2>3, <2>4, <2>5, <2>6 DEF AllTokens
<1>7. QED
  BY <1>1, <1>3, <1>5, <1>6 DEF AllRows

\* Every token of every rank reaches the shared experts, once; each of them gets
\* the same number, BS * epWorldSize / sharedExpertRankNum, in its first rows,
\* and reports it.
THEOREM LayoutSharedBalanced == Spec => []SharedExpertsBalanced
<1>1. ASSUME IInv PROVE SharedExpertsBalanced
  <2> DEFINE places == {p \in (0 .. Shared - 1) \X Rows : expandXOut[p[1]][p[2]] # Nothing}
  <2>1. SUFFICES ASSUME Shared # 0, \A r \in Ranks : Done(r)
                 PROVE  /\ \A d \in 0 .. Shared - 1 :
                             /\ {p[2] : p \in {q \in places : q[1] = d}}
                                  = 0 .. (BS * R) \div Shared - 1
                             /\ expertTokenNums[d][0] = (BS * R) \div Shared
                        /\ {expandXOut[p[1]][p[2]] : p \in places} = AllTokens
                        /\ Cardinality(places) = Cardinality(AllTokens)
    BY DEF SharedExpertsBalanced
  <2>2. PICK each : each = (BS * R) \div Shared
    OBVIOUS
  <2>3. /\ expertIds \in [Ranks -> Assignments] /\ Shared \in Nat \ {0}
        /\ R \in Nat \ {0} /\ BS \in Nat \ {0} /\ M \in Nat \ {0}
    BY <1>1, <2>1, Sizes DEF IInv, TypeOK
  <2>4. ASSUME NEW d \in 0 .. Shared - 1 PROVE d \in Ranks /\ d < Shared /\ d \in Nat
    BY <2>3, Sizes DEF Ranks
  <2>5. \A s \in Ranks, t \in Tokens :
          \E d \in 0 .. Shared - 1 : \E a \in 0 .. each - 1 :
            PlaceOf(<<s, t>>) = <<d, a>> /\ expandXOut[d][a] = <<s, t>>
    BY <1>1, <2>1, <2>2, SharedThere
  <2>6. \A d \in 0 .. Shared - 1 : \A a \in Rows : expandXOut[d][a] # Nothing =>
          /\ a \in 0 .. each - 1
          /\ expandXOut[d][a] \in AllTokens /\ PlaceOf(expandXOut[d][a]) = <<d, a>>
    BY <1>1, <2>1, <2>2, SharedHeld
  <2>7. ASSUME NEW d \in 0 .. Shared - 1
        PROVE  /\ InboxSize(d) = R /\ First(d, R) = each /\ each \in Nat
               /\ 0 .. each - 1 \subseteq Rows
    BY <2>2, <2>3, <2>4, SharedSums
  <2>8. ASSUME NEW d \in 0 .. Shared - 1, NEW a \in 0 .. each - 1
        PROVE  expandXOut[d][a] # Nothing
    <3>1. IInv /\ d \in Ranks /\ d < Shared /\ d \in Nat
      BY <1>1, <2>4
    <3>2. AllPast(d, {"send", "status", "copy"}) /\ AllPast(d, {"send"})
      BY <2>1, <3>1, NumsAll DEF AllPast
    <3>3. Nothing \notin AllTokens
      BY LayoutAssumption DEF AllTokens
    <3>4. CASE a < BS
      <4>1. a \in Tokens
        BY <2>3, <2>7, <3>4 DEF Tokens
      <4>2. expandXOut[d][a] = <<d, a>>
        BY <3>1, <3>2, <4>1, KeptAll
      <4>3. QED
        BY <3>1, <3>3, <4>1, <4>2 DEF AllTokens
    <3>5. CASE ~(a < BS)
      <4>1. /\ First(d, Shared) = BS /\ Shared \in 0 .. InboxSize(d) /\ R \in 0 .. InboxSize(d)
            /\ a \in First(d, Shared) .. First(d, R) - 1
        BY <2>3, <2>7, <3>1, <3>5, SharedSums
      <4>2. PICK n \in 0 .. InboxSize(d) - 1 :
              Shared <= n /\ \E k \in 0 .. Counts(d)[n] - 1 : a = First(d, n) + k
        BY <2>3, <3>1, <4>1, RowThere
      <4>3. PICK k \in 0 .. Counts(d)[n] - 1 : a = First(d, n) + k
        BY <4>2
      <4>4. ~Own(d, n)
        BY <2>3, <2>7, <4>2 DEF Own
      <4>5. expandXOut[d][a] = TokenAt(d, n, k)
        BY <3>1, <3>2, <4>3, <4>4, RowsAll
      <4>6. TokenAt(d, n, k) \in AllTokens
        BY <2>3, <3>1, TokenIs
      <4>7. QED
        BY <3>3, <4>5, <4>6
    <3>6. QED
      BY <3>4, <3>5
  <2>9. ASSUME NEW d \in 0 .. Shared - 1
        PROVE  /\ {p[2] : p \in {q \in places : q[1] = d}} = 0 .. each - 1
               /\ expertTokenNums[d][0] = each
    <3>1. ASSUME NEW p \in places, p[1] = d PROVE p[2] \in 0 .. each - 1
      BY <2>6, <3>1
    <3>2. ASSUME NEW a \in 0 .. each - 1 PROVE <<d, a>> \in places
      BY <2>7, <2>8
    <3>3. expertTokenNums[d] = FinalNums(d)
      BY <1>1, <2>1, <2>4, NumsAll
    <3>4. FinalNums(d)[0] = each
      <4>1. ~MultiExpert(d) /\ 0 \in 0 .. M - 1
        BY <2>3, <2>4 DEF MultiExpert
      <4>2. QED
        BY <2>7, <4>1 DEF FinalNums
    <3> HIDE DEF places
    <3>5. {p[2] : p \in {q \in places : q[1] = d}} = 0 .. each - 1
      <4>1. \A a \in 0 .. each - 1 : a = <<d, a>>[2] /\ <<d, a>>[1] = d
        OBVIOUS
      <4>2. QED
        BY <3>1, <3>2, <4>1
    <3>6. QED
      BY <3>3, <3>4, <3>5
  <2>10. ASSUME NEW p \in AllTokens
         PROVE  /\ PlaceOf(p) \in places
                /\ expandXOut[PlaceOf(p)[1]][PlaceOf(p)[2]] = p
    <3>1. PICK s \in Ranks, t \in Tokens : p = <<s, t>>
      BY DEF AllTokens
    <3>2. PICK d \in 0 .. Shared - 1, a \in 0 .. each - 1 :
            PlaceOf(p) = <<d, a>> /\ expandXOut[d][a] = p
      BY <2>5, <3>1
    <3>3. <<d, a>> \in places
      BY <2>7, <2>8
    <3>4. QED
      BY <3>2, <3>3
  <2>11. ASSUME NEW q \in places
         PROVE  expandXOut[q[1]][q[2]] \in AllTokens /\ PlaceOf(expandXOut[q[1]][q[2]]) = q
    BY <2>6
  <2> HIDE DEF places
  <2>12. {expandXOut[p[1]][p[2]] : p \in places} = AllTokens
    BY <2>10, <2>11
  <2>13. Cardinality(places) = Cardinality(AllTokens)
    <3>1. IsFiniteSet(AllTokens)
      <4>1. IsFiniteSet(Ranks) /\ IsFiniteSet(Tokens)
        BY <2>3, Below DEF Ranks, Tokens
      <4>2. QED
        BY <4>1, FS_Product DEF AllTokens
    <3> DEFINE f == [p \in AllTokens |-> PlaceOf(p)]
    <3>2. \A p \in AllTokens : f[p] \in places
      BY <2>10
    <3>3. \A p, q \in AllTokens : f[p] = f[q] => p = q
      <4>1. SUFFICES ASSUME NEW p \in AllTokens, NEW q \in AllTokens, PlaceOf(p) = PlaceOf(q)
                     PROVE  p = q
        OBVIOUS
      <4>2. expandXOut[PlaceOf(p)[1]][PlaceOf(p)[2]] = p
            /\ expandXOut[PlaceOf(q)[1]][PlaceOf(q)[2]] = q
        BY <2>10
      <4>3. QED
        BY <4>1, <4>2
    <3>4. \A q \in places : \E p \in AllTokens : f[p] = q
      BY <2>11
    <3> HIDE DEF f
    <3>5. QED
      BY <3>1, <3>2, <3>3, <3>4, AsMany
  <2>14. QED
    BY <2>2, <2>9, <2>12, <2>13
<1>2. QED
  BY <1>1, LayoutInvariant, PTL

-------------------------------------------------------------------------------
(* The rows of a rank that is done with dispatch, and their results.           *)

\* The words of later local experts come later.
LEMMA WordsLater ==
  ASSUME NEW j \in Nat, NEW m \in Nat, j < m
  PROVE  WordsBefore(j + 1) <= WordsBefore(m)
<1>1. R \in Nat \ {0} /\ j \in Int /\ m \in Int
  BY Sizes
<1>2. PICK x \in Nat : x = m - (j + 1)
  BY <1>1
<1>3. R * x \in Nat
  BY <1>1
<1>4. m = j + 1 + x
  BY <1>1, <1>2
<1>5. R * m = R * (j + 1) + R * x
  BY <1>1, <1>4
<1>6. R * (j + 1) \in Int
  BY <1>1
<1>7. QED
  BY <1>3, <1>5, <1>6 DEF WordsBefore

\* What the experts take the rows up to local expert m to be.
LEMMA RowsUpToIs ==
  ASSUME IInv, NEW r \in Ranks, ~(r < Shared), Done(r), NEW m \in 0 .. M - 1
  PROVE  RowsUpTo(r, m) = First(r, WordsBefore(m + 1))
<1>1. /\ expertIds \in [Ranks -> Assignments]
      /\ Shared \in Nat /\ r \in Nat /\ M \in Nat \ {0}
  BY Sizes, Inboxes DEF IInv, TypeOK
<1>2. expertTokenNums[r] = FinalNums(r)
  BY NumsAll
<1>3. CASE tokenNumsType = 0 /\ M > 1
  <2>1. MultiExpert(r) /\ tokenNumsType = 0
    BY <1>1, <1>3 DEF MultiExpert
  <2>2. First(r, R * (m + 1)) \in Nat
    <3>1. R * (m + 1) \in 0 .. InboxSize(r)
      BY ExpertWords
    <3>2. QED
      BY <1>1, <3>1, FirstNext
  <2>3. FinalNums(r)[m] = First(r, R * (m + 1))
    BY <2>1, <2>2 DEF FinalNums
  <2>4. QED
    BY <1>2, <1>3, <2>3 DEF RowsUpTo, WordsBefore
<1>4. CASE ~(tokenNumsType = 0 /\ M > 1)
  <2>1. AddUp(FinalNums(r), m + 1) = First(r, R * (m + 1))
    BY <1>1, <1>4, NumsAddUp
  <2>2. m + 1 - 1 = m
    OBVIOUS
  <2>3. RowsUpTo(r, m) = MapThenSumSet(LAMBDA j : FinalNums(r)[j], 0 .. m + 1 - 1)
    BY <1>2, <1>4, <2>2 DEF RowsUpTo
  <2>4. RowsUpTo(r, m) = AddUp(FinalNums(r), m + 1)
    BY <2>3 DEF AddUp
  <2>5. QED
    BY <2>1, <2>4 DEF WordsBefore
<1>5. QED
  BY <1>3, <1>4

\* So they compute a word's rows with the word's expert.
LEMMA ExpertOfRow ==
  ASSUME IInv, NEW r \in Ranks, Done(r), NEW n \in 0 .. InboxSize(r) - 1,
         NEW k \in 0 .. Counts(r)[n] - 1
  PROVE  ExpertOf(r, First(r, n) + k) = WordExpert(r, n)
<1>1. /\ expertIds \in [Ranks -> Assignments] /\ R \in Nat \ {0}
      /\ Shared \in Nat /\ r \in Nat /\ M \in Nat \ {0}
  BY Sizes, Inboxes DEF IInv, TypeOK
<1>2. CASE r < Shared
  BY <1>2 DEF ExpertOf, WordExpert
<1>3. CASE ~(r < Shared)
  <2>1. PICK m, a : m = n \div R /\ a = First(r, n) + k
    OBVIOUS
  <2>2. InboxSize(r) = M * R /\ InboxSize(r) \in Nat /\ n \in Nat /\ n + 1 \in 0 .. InboxSize(r)
    <3>1. InboxSize(r) = R * M /\ InboxSize(r) \in Nat
      BY <1>1, <1>3, Inboxes DEF InboxSize
    <3>2. R * M = M * R
      BY <1>1
    <3>3. QED
      BY <3>1, <3>2
  <2>3. m \in 0 .. M - 1
    <3>1. n \in 0 .. M * R - 1
      BY <2>2
    <3>2. QED
      BY <1>1, <2>1, <3>1, Parts
  <2>4. WordsBefore(m) <= n /\ n < WordsBefore(m + 1)
    <3>1. R * m <= n /\ n < R * m + R
      BY <1>1, <2>1, <2>2, <2>3, DivIs
    <3>2. R * (m + 1) = R * m + R
      BY <1>1, <2>3
    <3>3. QED
      BY <3>1, <3>2 DEF WordsBefore
  <2>5. \A j \in 0 .. M - 1 : WordsBefore(j + 1) \in 0 .. InboxSize(r)
    BY <1>3, ExpertWords DEF WordsBefore
  <2>6. WordsBefore(m) \in 0 .. InboxSize(r)
    BY <1>3, <2>3, ExpertWords DEF WordsBefore
  <2>7. First(r, n) \in Nat /\ First(r, n) <= a /\ a < First(r, n + 1)
    <3>1. First(r, n) \in Nat /\ First(r, n + 1) = First(r, n) + Counts(r)[n]
      BY <1>1, <2>2, FirstNext
    <3>2. Counts(r)[n] \in Nat
      BY <1>1, CountsType
    <3>3. QED
      BY <2>1, <3>1, <3>2
  <2>8. a < RowsUpTo(r, m)
    <3>1. First(r, n + 1) <= First(r, WordsBefore(m + 1)) /\ First(r, WordsBefore(m + 1)) \in Nat
          /\ First(r, n + 1) \in Nat
      <4>1. n + 1 <= WordsBefore(m + 1)
        BY <2>2, <2>3, <2>4, <2>5
      <4>2. QED
        BY <1>1, <2>2, <2>3, <2>5, <4>1, FirstGrow, FirstNext
    <3>2. RowsUpTo(r, m) = First(r, WordsBefore(m + 1))
      BY <1>3, <2>3, RowsUpToIs
    <3>3. a \in Int
      BY <2>1, <2>7
    <3>4. QED
      BY <2>7, <3>1, <3>2, <3>3
  <2>9. ASSUME NEW j \in 0 .. m - 1 PROVE RowsUpTo(r, j) <= a
    <3>1. j \in 0 .. M - 1 /\ j < m /\ j \in Nat /\ m \in Nat
      BY <1>1, <2>3
    <3>2. WordsBefore(j + 1) <= n
      BY <2>2, <2>4, <2>5, <2>6, <3>1, WordsLater
    <3>3. First(r, WordsBefore(j + 1)) <= First(r, n) /\ First(r, WordsBefore(j + 1)) \in Nat
      <4>1. n \in 0 .. InboxSize(r)
        BY <2>2
      <4>2. QED
        BY <1>1, <2>5, <3>1, <3>2, <4>1, FirstGrow, FirstNext
    <3>4. RowsUpTo(r, j) = First(r, WordsBefore(j + 1))
      BY <1>3, <3>1, RowsUpToIs
    <3>5. a \in Int
      BY <2>1, <2>7
    <3>6. QED
      BY <2>7, <3>3, <3>4, <3>5
  <2> DEFINE P(x) == a < RowsUpTo(r, x) /\ \A j \in 0 .. x - 1 : RowsUpTo(r, j) <= a
  <2>10. P(m)
    BY <2>8, <2>9
  <2>11. ASSUME NEW x \in 0 .. M - 1, P(x) PROVE x = m
    <3>1. RowsUpTo(r, x) \in Nat /\ RowsUpTo(r, m) \in Nat /\ a \in Int
      <4>1. \A y \in 0 .. M - 1 : RowsUpTo(r, y) \in Nat
        <5>1. SUFFICES ASSUME NEW y \in 0 .. M - 1 PROVE RowsUpTo(r, y) \in Nat
          OBVIOUS
        <5>2. First(r, WordsBefore(y + 1)) \in Nat
          BY <1>1, <2>5, FirstNext
        <5>3. QED
          BY <1>3, <5>2, RowsUpToIs
      <4>2. QED
        BY <2>1, <2>3, <2>7, <4>1
    <3>2. CASE x < m
      <4>1. x \in 0 .. m - 1
        BY <2>3, <3>2
      <4>2. QED
        BY <2>9, <2>11, <3>1, <4>1
    <3>3. CASE m < x
      <4>1. m \in 0 .. x - 1
        BY <2>3, <3>3
      <4>2. QED
        BY <2>8, <2>11, <3>1, <4>1
    <3>4. QED
      BY <2>3, <3>2, <3>3
  <2> HIDE DEF P
  <2>12. m = CHOOSE x \in 0 .. M - 1 : P(x)
    BY <2>3, <2>10, <2>11
  <2>13. ExpertOf(r, a) = Shared + (r - Shared) * M + m
    BY <1>3, <2>12 DEF P, ExpertOf
  <2>14. QED
    BY <1>3, <2>1, <2>13 DEF WordExpert
<1>4. QED
  BY <1>2, <1>3


\* The rows of a word begin where combine takes them to.
LEMMA WordRows ==
  ASSUME IInv, NEW r \in Ranks, Done(r), NEW n \in 0 .. InboxSize(r) - 1
  PROVE  /\ First(r, n) \in Nat /\ Counts(r)[n] \in Nat
         /\ RowsBefore(r, n) = First(r, n)
         /\ sendCounts[r][n] = First(r, n) + Counts(r)[n]
<1>1. /\ expertIds \in [Ranks -> Assignments] /\ SumsHold
      /\ sendCounts[r] \in [Words -> (0 .. R * M * BS) \cup {Nothing}]
  BY DEF IInv, TypeOK
<1>2. AllPast(r, {"send", "status", "copy"})
  BY NumsAll
<1>3. \A m \in 0 .. InboxSize(r) - 1 : sendCounts[r][m] = First(r, m + 1)
  BY <1>1, <1>2, SumsAll
<1>4. /\ First(r, n) \in Nat /\ First(r, 0) = 0
      /\ First(r, n + 1) = First(r, n) + Counts(r)[n]
  <2>1. n \in 0 .. InboxSize(r)
    BY Inboxes
  <2>2. QED
    BY <1>1, <2>1, FirstNext
<1>5. Counts(r)[n] \in Nat
  BY <1>1, CountsType
<1>6. RowsBefore(r, n) = First(r, n)
  <2>1. CASE n = 0
    BY <1>4, <2>1 DEF RowsBefore
  <2>2. CASE n # 0
    <3>1. n - 1 \in 0 .. InboxSize(r) - 1 /\ n - 1 + 1 = n
      BY <2>2, Inboxes
    <3>2. QED
      BY <1>3, <2>2, <3>1 DEF RowsBefore
  <2>3. QED
    BY <2>1, <2>2
<1>7. QED
  BY <1>3, <1>4, <1>5, <1>6

\* The words of a shared expert that stand for its rank's own tokens divide them
\* as the tokens' experts do.
LEMMA OwnWord ==
  ASSUME expertIds \in [Ranks -> Assignments], NEW r \in Ranks, NEW n \in Nat, Own(r, n)
  PROVE  /\ n \in 0 .. InboxSize(r) - 1
         /\ First(r, n) = SharedBefore(r, n) /\ First(r, n) \in Nat
         /\ \A k \in 0 .. Counts(r)[n] - 1 :
              First(r, n) + k \in Tokens /\ SharedExpertOf(r, First(r, n) + k) = n
         /\ \A t \in Tokens : SharedExpertOf(r, t) = n =>
              t - First(r, n) \in 0 .. Counts(r)[n] - 1
<1>1. /\ r < Shared /\ n < Shared /\ Shared \in Nat /\ r \in Nat /\ R \in Nat /\ Shared < R
      /\ BS \in Nat
  BY Sizes, Inboxes DEF Own
<1>2. n \in 0 .. InboxSize(r) - 1 /\ InboxSize(r) = R /\ n \in 0 .. R
  BY <1>1 DEF InboxSize
<1>3. First(r, n) = Dealt(r + n) - Dealt(r) /\ First(r, Shared) = BS
  BY <1>1, <1>2, FirstShared
<1>4. Counts(r)[n] = SharedCount(n, r) /\ Counts(r)[n] \in Nat
  BY <1>1, <1>2, CountsType
<1>5. /\ SharedCount(n, r) = Dealt(r + n + 1) - Dealt(r + n)
      /\ SharedCount(r, n) = Dealt(n + r + 1) - Dealt(n + r)
      /\ SharedBefore(r, n) = Dealt(n + r) - Dealt(r) /\ SharedBefore(r, n) \in Nat
      /\ n + r = r + n
  BY <1>1, SharedRun
<1>6. First(r, n) = SharedBefore(r, n) /\ Counts(r)[n] = SharedCount(r, n)
  BY <1>3, <1>4, <1>5
<1>7. First(r, n) + Counts(r)[n] <= BS
  <2>1. First(r, n + 1) = First(r, n) + Counts(r)[n]
    BY <1>2, FirstNext
  <2>2. First(r, n + 1) <= First(r, Shared)
    <3>1. n + 1 \in 0 .. InboxSize(r) /\ Shared \in 0 .. InboxSize(r) /\ n + 1 <= Shared
      BY <1>1, <1>2
    <3>2. QED
      BY <3>1, FirstGrow
  <2>3. QED
    BY <1>3, <2>1, <2>2
<1>8. ASSUME NEW k \in 0 .. Counts(r)[n] - 1
      PROVE  First(r, n) + k \in Tokens /\ SharedExpertOf(r, First(r, n) + k) = n
  <2>1. First(r, n) + k \in Tokens
    BY <1>1, <1>4, <1>5, <1>6, <1>7 DEF Tokens
  <2>2. SharedBefore(r, n) <= First(r, n) + k
        /\ First(r, n) + k < SharedBefore(r, n) + SharedCount(r, n)
    BY <1>4, <1>5, <1>6
  <2>3. QED
    BY <1>1, <2>1, <2>2, SharedExpertIs
<1>9. ASSUME NEW t \in Tokens, SharedExpertOf(r, t) = n
      PROVE  t - First(r, n) \in 0 .. Counts(r)[n] - 1
  <2>1. SharedBefore(r, n) <= t /\ t < SharedBefore(r, n) + SharedCount(r, n)
    BY <1>1, <1>9, SharedExpertIs
  <2>2. t \in Int
    BY <1>1 DEF Tokens
  <2>3. QED
    BY <1>4, <1>5, <1>6, <2>1, <2>2
<1>10. QED
  BY <1>2, <1>5, <1>6, <1>8, <1>9

\* The result of a row is of the token whose place it is, by the word's expert.
LEMMA ResultIs ==
  ASSUME IInv, NEW r \in Ranks, Done(r), NEW n \in 0 .. InboxSize(r) - 1,
         NEW k \in 0 .. Counts(r)[n] - 1
  PROVE  Result(r, First(r, n) + k) =
           <<IF Own(r, n) THEN <<r, First(r, n) + k>> ELSE TokenAt(r, n, k),
             WordExpert(r, n)>>
<1>1. ExpertOf(r, First(r, n) + k) = WordExpert(r, n)
  BY ExpertOfRow
<1>2. AllPast(r, {"send", "status", "copy"})
  BY NumsAll
<1>3. CASE Own(r, n)
  <2>1. First(r, n) + k \in Tokens
    <3>1. n \in Nat /\ expertIds \in [Ranks -> Assignments]
      BY Inboxes DEF IInv, TypeOK
    <3>2. QED
      BY <1>3, <3>1, OwnWord
  <2>2. AllPast(r, {"send"}) /\ r < Shared
    BY <1>2, <1>3 DEF AllPast, Own
  <2>3. expandXOut[r][First(r, n) + k] = <<r, First(r, n) + k>>
    BY <2>1, <2>2, KeptAll
  <2>4. QED
    BY <1>1, <1>3, <2>3 DEF Result
<1>4. CASE ~Own(r, n)
  <2>1. expandXOut[r][First(r, n) + k] = TokenAt(r, n, k)
    BY <1>2, <1>4, RowsAll
  <2>2. QED
    BY <1>1, <1>4, <2>1 DEF Result
<1>5. QED
  BY <1>3, <1>4

-------------------------------------------------------------------------------
(* What a core sends back, from the words of its rank.                         *)

\* The rank a word's results go to, the region of its window, and the result of
\* place k with its slot.
BackRank(r, n) == IF Own(r, n) THEN r ELSE WordSender(r, n)
BackRegion(r, n) == IF Own(r, n) THEN n * M ELSE r * M + n \div R
Back(r, n, k) ==
  <<BackRegion(r, n) * BS + k,
    <<IF Own(r, n) THEN <<r, First(r, n) + k>> ELSE TokenAt(r, n, k), WordExpert(r, n)>>>>

\* The words of combine are those of dispatch.
LEMMA WordParts ==
  ASSUME NEW r \in Ranks
  PROVE  /\ \A n \in 0 .. InboxSize(r) - 1 :
              /\ n \div R \in 0 .. LocalExperts(r) - 1 /\ WordSender(r, n) \in Ranks
              /\ Word(r, n \div R, WordSender(r, n)) = n
         /\ \A m \in 0 .. LocalExperts(r) - 1 : \A s \in Ranks :
              /\ Word(r, m, s) \in 0 .. InboxSize(r) - 1
              /\ Word(r, m, s) \div R = m /\ WordSender(r, Word(r, m, s)) = s
<1>1. R \in Nat \ {0} /\ M \in Nat \ {0} /\ LocalExperts(r) \in Nat
  BY Sizes DEF LocalExperts
<1>2. InboxSize(r) = LocalExperts(r) * R
  BY <1>1 DEF InboxSize, LocalExperts
<1>3. ASSUME NEW m \in 0 .. LocalExperts(r) - 1, NEW s \in Ranks
      PROVE  /\ Word(r, m, s) \in 0 .. InboxSize(r) - 1
             /\ Word(r, m, s) \div R = m /\ WordSender(r, Word(r, m, s)) = s
  <2>1. s \in 0 .. R - 1
    BY DEF Ranks
  <2>2. PICK x : x = m * R
    OBVIOUS
  <2>3. s + x \in 0 .. InboxSize(r) - 1 /\ x \in Nat
    BY <1>1, <1>2, <2>1, <2>2, Within
  <2>4. Word(r, m, s) = s + x
    BY <2>1, <2>2, <2>3 DEF Word
  <2>5. (s + x) \div R = m
    <3>1. R * m = x
      BY <1>1, <2>2
    <3>2. s + x \in Int /\ m \in Int /\ R * m <= s + x /\ s + x < R * m + R
      BY <1>1, <2>1, <2>3, <3>1
    <3>3. QED
      BY <1>1, <3>2, DivIs
  <2>6. WordSender(r, s + x) = s
    <3>1. CASE r < Shared
      <4>1. m = 0
        BY <3>1 DEF LocalExperts
      <4>2. s + x = s
        BY <1>1, <2>1, <2>2, <4>1
      <4>3. QED
        BY <3>1, <4>2 DEF WordSender
    <3>2. CASE ~(r < Shared)
      <4>1. /\ s + x = ((s + x) % R) + ((s + x) \div R) * R
            /\ (s + x) % R \in 0 .. R - 1
        <5>1. s + x \in 0 .. LocalExperts(r) * R - 1
          BY <1>2, <2>3
        <5>2. QED
          BY <1>1, <5>1, Parts
      <4>2. s + x = ((s + x) % R) + x
        BY <2>2, <2>5, <4>1
      <4>3. (s + x) % R = s
        BY <1>1, <2>1, <2>3, <4>1, <4>2
      <4>4. QED
        BY <3>2, <4>3 DEF WordSender
    <3>3. QED
      BY <3>1, <3>2
  <2>7. QED
    BY <2>3, <2>4, <2>5, <2>6
<1>4. ASSUME NEW n \in 0 .. InboxSize(r) - 1
      PROVE  /\ n \div R \in 0 .. LocalExperts(r) - 1 /\ WordSender(r, n) \in Ranks
             /\ Word(r, n \div R, WordSender(r, n)) = n
  <2>1. /\ n \div R \in 0 .. LocalExperts(r) - 1 /\ n % R \in 0 .. R - 1
        /\ n = (n % R) + (n \div R) * R
    <3>1. n \in 0 .. LocalExperts(r) * R - 1
      BY <1>2
    <3>2. QED
      BY <1>1, <3>1, Parts
  <2>2. WordSender(r, n) = n % R
    <3>1. CASE r < Shared
      <4>1. n \div R = 0
        BY <2>1, <3>1 DEF LocalExperts
      <4>2. n = n % R
        BY <1>1, <2>1, <4>1
      <4>3. QED
        BY <3>1, <4>2 DEF WordSender
    <3>2. QED
      BY <3>1 DEF WordSender
  <2>3. PICK s, x : s = n % R /\ x = (n \div R) * R
    OBVIOUS
  <2>4. x \in Int /\ s \in Int
    BY <1>1, <2>1, <2>3
  <2>5. Word(r, n \div R, WordSender(r, n)) = x + s
    BY <2>2, <2>3 DEF Word
  <2>6. QED
    BY <2>1, <2>2, <2>3, <2>4, <2>5 DEF Ranks
<1>5. QED
  BY <1>3, <1>4

\* Where their results go.
LEMMA PlaceIsBack ==
  ASSUME NEW r \in Ranks, NEW n \in 0 .. InboxSize(r) - 1, NEW m, NEW s,
         m = n \div R, s = WordSender(r, n)
  PROVE  Place(r, m, s) = <<BackRank(r, n), BackRegion(r, n)>>
<1>1. /\ R \in Nat \ {0} /\ M \in Nat \ {0} /\ r \in Nat /\ n \in Nat
      /\ m \in 0 .. LocalExperts(r) - 1 /\ s \in Ranks
  BY Sizes, Inboxes, WordParts
<1>2. CASE r < Shared
  <2>1. m = 0 /\ s = n
    BY <1>1, <1>2 DEF LocalExperts, WordSender
  <2>2. PICK x : x = s * M
    OBVIOUS
  <2>3. x \in Int
    BY <1>1, <2>1, <2>2
  <2>4. x + m = x
    BY <2>1, <2>3
  <2>5. QED
    BY <1>2, <2>1, <2>2, <2>4 DEF Place, BackRank, BackRegion, Own
<1>3. CASE ~(r < Shared)
  BY <1>3 DEF Place, BackRank, BackRegion, Own
<1>4. QED
  BY <1>2, <1>3

\* A core sends back the results of the words whose turn is in its slice.
LEMMA SentBackIs ==
  ASSUME IInv, NEW r \in Ranks, Done(r), NEW c \in Cores, NEW d \in Ranks, NEW v
  PROVE  v \in SentBack(r, c, d) <=>
           \E n \in 0 .. InboxSize(r) - 1 : \E k \in 0 .. Counts(r)[n] - 1 :
             /\ WordSender(r, n) \in Slice(R, C, c) /\ BackRank(r, n) = d
             /\ v = Back(r, n, k)
<1> DEFINE slots(m, s) ==
             LET n == Word(r, m, s)
                 first == RowsBefore(r, n)
             IN {<<Place(r, m, s)[2] * BS + a - first, Result(r, a)>> :
                   a \in first .. sendCounts[r][n] - 1}
<1>1. Slice(R, C, c) \subseteq Ranks /\ BS \in Nat /\ M \in Nat /\ R \in Nat \ {0}
  BY Sizes DEF Slice, Ranks
<1>2. v \in SentBack(r, c, d) <=>
        \E m \in 0 .. LocalExperts(r) - 1 : \E s \in Slice(R, C, c) :
          Place(r, m, s)[1] = d /\ v \in slots(m, s)
  <2>1. SentBack(r, c, d) =
          UNION {slots(w[1], w[2]) :
                   w \in {u \in (0 .. LocalExperts(r) - 1) \X Slice(R, C, c) :
                           Place(r, u[1], u[2])[1] = d}}
    BY DEF SentBack
  <2> HIDE DEF slots
  <2>2. ASSUME NEW m \in 0 .. LocalExperts(r) - 1, NEW s \in Slice(R, C, c),
               Place(r, m, s)[1] = d, v \in slots(m, s)
        PROVE  v \in SentBack(r, c, d)
    <3>1. PICK w \in (0 .. LocalExperts(r) - 1) \X Slice(R, C, c) : w[1] = m /\ w[2] = s
      <4>1. <<m, s>> \in (0 .. LocalExperts(r) - 1) \X Slice(R, C, c)
        OBVIOUS
      <4>2. QED
        BY <4>1
    <3>2. QED
      BY <2>1, <2>2, <3>1
  <2>3. ASSUME v \in SentBack(r, c, d)
        PROVE  \E m \in 0 .. LocalExperts(r) - 1 : \E s \in Slice(R, C, c) :
                 Place(r, m, s)[1] = d /\ v \in slots(m, s)
    <3>1. PICK w \in (0 .. LocalExperts(r) - 1) \X Slice(R, C, c) :
            Place(r, w[1], w[2])[1] = d /\ v \in slots(w[1], w[2])
      BY <2>1, <2>3
    <3>2. w[1] \in 0 .. LocalExperts(r) - 1 /\ w[2] \in Slice(R, C, c)
      OBVIOUS
    <3>3. QED
      BY <3>1, <3>2
  <2>4. QED
    BY <2>2, <2>3
<1>3. ASSUME NEW n \in 0 .. InboxSize(r) - 1, NEW m, NEW s, m = n \div R, s = WordSender(r, n)
      PROVE  /\ Place(r, m, s)[1] = BackRank(r, n)
             /\ v \in slots(m, s) <=> \E k \in 0 .. Counts(r)[n] - 1 : v = Back(r, n, k)
  <2>1. Place(r, m, s) = <<BackRank(r, n), BackRegion(r, n)>> /\ Word(r, m, s) = n
    BY <1>3, PlaceIsBack, WordParts
  <2>2. /\ First(r, n) \in Nat /\ Counts(r)[n] \in Nat
        /\ RowsBefore(r, n) = First(r, n)
        /\ sendCounts[r][n] = First(r, n) + Counts(r)[n]
    BY WordRows
  <2>3. PICK b, f, t : b = BackRegion(r, n) * BS /\ f = First(r, n) /\ t = Counts(r)[n]
    OBVIOUS
  <2>4. b \in Int
    <3>1. BackRegion(r, n) \in Int
      BY <1>1, Inboxes DEF BackRegion
    <3>2. QED
      BY <1>1, <2>3, <3>1
  <2>5. slots(m, s) = {<<b + a - f, Result(r, a)>> : a \in f .. f + t - 1}
    BY <2>1, <2>2, <2>3
  <2>6. ASSUME NEW k \in 0 .. t - 1
        PROVE  Back(r, n, k) = <<b + (f + k) - f, Result(r, f + k)>> /\ f + k \in f .. f + t - 1
    <3>1. b + (f + k) - f = b + k /\ f + k \in f .. f + t - 1
      BY <2>2, <2>3, <2>4
    <3>2. Result(r, f + k) =
            <<IF Own(r, n) THEN <<r, f + k>> ELSE TokenAt(r, n, k), WordExpert(r, n)>>
      BY <2>3, ResultIs
    <3>3. QED
      BY <2>3, <3>1, <3>2 DEF Back
  <2>7. ASSUME NEW a \in f .. f + t - 1
        PROVE  \E k \in 0 .. t - 1 : a = f + k
    <3>1. a - f \in 0 .. t - 1 /\ a = f + (a - f)
      BY <2>2, <2>3
    <3>2. QED
      BY <3>1
  <2> HIDE DEF slots
  <2>8. v \in slots(m, s) <=> \E k \in 0 .. t - 1 : v = Back(r, n, k)
    BY <2>5, <2>6, <2>7
  <2>9. QED
    BY <2>1, <2>3, <2>8
<1> HIDE DEF slots
<1>4. ASSUME NEW m \in 0 .. LocalExperts(r) - 1, NEW s \in Slice(R, C, c),
             Place(r, m, s)[1] = d, v \in slots(m, s)
      PROVE  \E n \in 0 .. InboxSize(r) - 1 : \E k \in 0 .. Counts(r)[n] - 1 :
               /\ WordSender(r, n) \in Slice(R, C, c) /\ BackRank(r, n) = d
               /\ v = Back(r, n, k)
  <2>1. PICK n \in 0 .. InboxSize(r) - 1 : m = n \div R /\ s = WordSender(r, n)
    BY <1>1, WordParts
  <2>2. QED
    BY <1>3, <1>4, <2>1
<1>5. ASSUME NEW n \in 0 .. InboxSize(r) - 1, NEW k \in 0 .. Counts(r)[n] - 1,
             WordSender(r, n) \in Slice(R, C, c), BackRank(r, n) = d, v = Back(r, n, k)
      PROVE  \E m \in 0 .. LocalExperts(r) - 1 : \E s \in Slice(R, C, c) :
               Place(r, m, s)[1] = d /\ v \in slots(m, s)
  <2>1. PICK m, s : m = n \div R /\ s = WordSender(r, n)
    OBVIOUS
  <2>2. m \in 0 .. LocalExperts(r) - 1
    BY <2>1, WordParts
  <2>3. QED
    BY <1>3, <1>5, <2>1, <2>2
<1>6. QED
  BY <1>2, <1>4, <1>5

\* The place of a choice, seen from its expert's rank, is the slot where its own
\* rank looks.
LEMMA ChoiceIsBack ==
  ASSUME expertIds \in [Ranks -> Assignments], NEW r \in Ranks, ~(r < Shared),
         NEW n \in 0 .. InboxSize(r) - 1, NEW k, NEW s \in Ranks, NEW i \in Picks,
         TokenAt(r, n, k) = <<s, i \div K>>,
         expertIds[s][i] + Shared = WordExpert(r, n),
         k = PicksBefore(s, expertIds[s][i], i)
  PROVE  Back(r, n, k) = ChoiceBack(s, i)
<1>1. /\ Shared \in Nat /\ r \in Nat /\ M \in Nat \ {0} /\ R \in Nat \ {0} /\ n \in Nat
      /\ ~Own(r, n)
  BY Sizes, Inboxes DEF Own
<1>2. PICK e, q : e = expertIds[s][i] /\ q = n \div R
  OBVIOUS
<1>3. e \in Nat /\ q \in Int
  BY <1>1, <1>2, PickWord
<1>4. e + Shared = Shared + (r - Shared) * M + q
  BY <1>2 DEF WordExpert
<1>5. (r - Shared) * M = r * M - Shared * M
  BY <1>1
<1>6. Shared * M + e = r * M + q
  <2>1. r * M \in Int /\ Shared * M \in Int
    BY <1>1
  <2>2. QED
    BY <1>1, <1>3, <1>4, <1>5, <2>1
<1>7. BackRegion(r, n) = Shared * M + e
  BY <1>1, <1>2, <1>6 DEF BackRegion
<1>8. WordExpert(r, n) = e + Shared
  BY <1>2
<1>9. QED
  BY <1>1, <1>2, <1>7, <1>8 DEF Back, ChoiceBack

\* Every place of a MoE expert's word is that of a choice ...
LEMMA ChoiceOfWord ==
  ASSUME expertIds \in [Ranks -> Assignments], NEW r \in Ranks, ~(r < Shared),
         NEW n \in 0 .. InboxSize(r) - 1, NEW k \in 0 .. Counts(r)[n] - 1
  PROVE  /\ BackRank(r, n) = WordSender(r, n)
         /\ \E i \in Picks : /\ RankOf(expertIds[WordSender(r, n)][i]) = r
                             /\ Back(r, n, k) = ChoiceBack(WordSender(r, n), i)
<1>1. PICK s : s = WordSender(r, n)
  OBVIOUS
<1>2. PICK i \in Picks :
        /\ TokenAt(r, n, k) = <<s, i \div K>> /\ s \in Ranks
        /\ expertIds[s][i] + Shared = WordExpert(r, n)
        /\ RankOf(expertIds[s][i]) = r
        /\ k = PicksBefore(s, expertIds[s][i], i)
  BY <1>1, TokenIs
<1>3. Back(r, n, k) = ChoiceBack(s, i)
  BY <1>2, ChoiceIsBack
<1>4. QED
  BY <1>1, <1>2, <1>3 DEF BackRank, Own

\* ... and every choice has one.
LEMMA WordOfChoice ==
  ASSUME expertIds \in [Ranks -> Assignments], NEW d \in Ranks, NEW i \in Picks,
         NEW r, r = RankOf(expertIds[d][i])
  PROVE  /\ r \in Ranks
         /\ \E n \in 0 .. InboxSize(r) - 1 : \E k \in 0 .. Counts(r)[n] - 1 :
              /\ WordSender(r, n) = d /\ BackRank(r, n) = d
              /\ ChoiceBack(d, i) = Back(r, n, k)
<1>1. PICK n, k : /\ n = StatusIndex(<<d, expertIds[d][i] + Shared>>)
                  /\ k = PicksBefore(d, expertIds[d][i], i)
  OBVIOUS
<1>2. /\ r \in Ranks /\ ~(r < Shared) /\ n \in 0 .. InboxSize(r) - 1
      /\ WordSender(r, n) = d /\ WordExpert(r, n) = expertIds[d][i] + Shared
      /\ k \in 0 .. Counts(r)[n] - 1
      /\ TokenAt(r, n, k) = <<d, i \div K>>
  BY <1>1, PickGoes
<1>3. Back(r, n, k) = ChoiceBack(d, i)
  BY <1>1, <1>2, ChoiceIsBack
<1>4. BackRank(r, n) = d
  BY <1>2 DEF BackRank, Own
<1>5. QED
  BY <1>2, <1>3, <1>4

\* Where a token looks for the result of its shared expert.
LEMMA SharedBackIs ==
  ASSUME Shared # 0, NEW d \in Ranks, NEW t \in Tokens,
         NEW x, x = SharedExpertOf(d, t)
  PROVE  /\ x \in 0 .. Shared - 1 /\ t - SharedBefore(d, x) \in 0 .. BS - 1
         /\ SharedBack(d, t) =
              <<x * M * BS + (t - SharedBefore(d, x)),
                <<<<d, t>>, IF d < Shared THEN d ELSE x>>>>
<1>1. Shared \in Nat /\ d \in Nat /\ M \in Nat /\ BS \in Nat /\ t \in Int
  BY Sizes, Inboxes DEF Tokens
<1>2. x \in 0 .. Shared - 1 /\ x \in Nat
  BY <1>1, SharedExpertThere
<1>3. /\ SharedBefore(d, x) \in Nat /\ SharedCount(d, x) \in 0 .. BS
      /\ SharedBefore(d, x) <= t /\ t < SharedBefore(d, x) + SharedCount(d, x)
  BY <1>1, <1>2, SharedRun, SharedExpertIs
<1>4. SharedSlot(d, t) = x * M * BS + t - SharedBefore(d, x)
  <2>1. SharedSlot(d, t) =
          x * M * BS + t - (((x + d) * BS) \div Shared - (d * BS) \div Shared)
    BY DEF SharedSlot, SharedExpertOf
  <2>2. QED
    BY <2>1 DEF SharedBefore, SharedBase
<1>5. PICK z, b : z = x * M * BS /\ b = SharedBefore(d, x)
  OBVIOUS
<1>6. z \in Int
  <2>1. x * M \in Int
    BY <1>1, <1>2
  <2>2. QED
    BY <1>1, <1>5, <2>1
<1>7. z + t - b = z + (t - b)
  BY <1>1, <1>3, <1>5, <1>6
<1>8. QED
  BY <1>1, <1>2, <1>3, <1>4, <1>5, <1>7 DEF SharedBack, SharedFor

LEMMA SharedIsBack ==
  ASSUME expertIds \in [Ranks -> Assignments], NEW r \in Ranks, r < Shared,
         NEW n \in 0 .. InboxSize(r) - 1, NEW k \in 0 .. Counts(r)[n] - 1,
         NEW t \in Tokens, NEW d \in Ranks, d = BackRank(r, n),
         SharedFor(d, t) = r, SharedTurn(d, t) = n,
         d < Shared => t = First(r, n) + k,
         ~(d < Shared) => TokenAt(r, n, k) = <<d, t>> /\ k = t - SharedBefore(n, r)
  PROVE  Back(r, n, k) = SharedBack(d, t)
<1>1. /\ Shared \in Nat /\ Shared # 0 /\ r \in Nat /\ n \in Nat /\ M \in Nat /\ R \in Nat \ {0}
      /\ expertIds \in [Ranks -> Assignments] /\ InboxSize(r) = R /\ BS \in Nat
      /\ WordExpert(r, n) = r /\ d \in Nat
  BY Sizes, Inboxes DEF WordExpert, InboxSize
<1>2. CASE d < Shared
  <2>1. Own(r, n) /\ d = r
    <3>1. d = r
      BY <1>2 DEF SharedFor
    <3>2. n \in 0 .. Shared - 1
      BY <1>1, <1>2, SharedExpertThere DEF SharedTurn
    <3>3. QED
      BY <1>1, <3>1, <3>2 DEF Own
  <2>2. SharedExpertOf(r, t) = n /\ t = First(r, n) + k
    BY <1>2, <2>1 DEF SharedTurn
  <2>3. First(r, n) = SharedBefore(r, n) /\ First(r, n) \in Nat
    BY <1>1, <2>1, OwnWord
  <2>4. t - SharedBefore(r, n) = k
    BY <2>2, <2>3
  <2>5. SharedBack(r, t) = <<n * M * BS + k, <<<<r, t>>, r>>>>
    BY <1>1, <1>2, <2>1, <2>2, <2>4, SharedBackIs
  <2>6. QED
    BY <1>1, <2>1, <2>2, <2>5 DEF Back, BackRegion
<1>3. CASE ~(d < Shared)
  <2>1. ~Own(r, n) /\ d = n
    <3>1. ~Own(r, n)
      BY <1>3 DEF BackRank
    <3>2. QED
      BY <3>1 DEF BackRank, WordSender
  <2>2. SharedExpertOf(n, t) = r
    BY <1>3, <2>1 DEF SharedFor
  <2>3. n \div R = 0
    BY <1>1, DivIs
  <2>4. BackRegion(r, n) = r * M
    <3>1. r * M \in Int
      BY <1>1
    <3>2. QED
      BY <2>1, <2>3, <3>1 DEF BackRegion
  <2>5. SharedBack(n, t) = <<r * M * BS + k, <<<<n, t>>, r>>>>
    BY <1>1, <1>3, <2>1, <2>2, SharedBackIs
  <2>6. QED
    BY <1>1, <1>3, <2>1, <2>4, <2>5 DEF Back
<1>4. QED
  BY <1>2, <1>3

\* Every place of a shared expert's word is that of a token it serves ...
LEMMA SharedOfWord ==
  ASSUME expertIds \in [Ranks -> Assignments], NEW r \in Ranks, r < Shared,
         NEW n \in 0 .. InboxSize(r) - 1, NEW k \in 0 .. Counts(r)[n] - 1
  PROVE  /\ WordSender(r, n) = n
         /\ \E t \in Tokens : /\ SharedFor(BackRank(r, n), t) = r
                              /\ SharedTurn(BackRank(r, n), t) = n
                              /\ Back(r, n, k) = SharedBack(BackRank(r, n), t)
<1>1. Shared \in Nat /\ r \in Nat /\ n \in Nat /\ WordSender(r, n) = n
  BY Sizes, Inboxes DEF WordSender
<1>2. CASE Own(r, n)
  <2>1. PICK t \in Tokens : t = First(r, n) + k /\ SharedExpertOf(r, t) = n
    BY <1>1, <1>2, OwnWord
  <2>2. BackRank(r, n) = r /\ SharedFor(r, t) = r /\ SharedTurn(r, t) = n
    BY <1>2, <2>1 DEF BackRank, SharedFor, SharedTurn
  <2>3. Back(r, n, k) = SharedBack(r, t)
    BY <2>1, <2>2, SharedIsBack
  <2>4. QED
    BY <1>1, <2>2, <2>3
<1>3. CASE ~Own(r, n)
  <2>1. PICK t \in Tokens : /\ TokenAt(r, n, k) = <<n, t>> /\ n \in Ranks
                            /\ SharedExpertOf(n, t) = r /\ k = t - SharedBefore(n, r)
    BY TokenIs
  <2>2. /\ ~(n < Shared) /\ BackRank(r, n) = n /\ SharedFor(n, t) = r
        /\ SharedTurn(n, t) = n
    BY <1>1, <1>3, <2>1 DEF BackRank, Own, SharedFor, SharedTurn
  <2>3. Back(r, n, k) = SharedBack(n, t)
    BY <2>1, <2>2, SharedIsBack
  <2>4. QED
    BY <1>1, <2>2, <2>3
<1>4. QED
  BY <1>2, <1>3

\* ... and every token has one, whose expert it is.
LEMMA SharedTurnIs ==
  ASSUME Shared # 0, NEW d \in Ranks, NEW t \in Tokens
  PROVE  /\ SharedFor(d, t) \in Ranks /\ SharedFor(d, t) < Shared
         /\ SharedTurn(d, t) \in 0 .. InboxSize(SharedFor(d, t)) - 1
         /\ SharedTurn(d, t) \in Ranks
<1>1. Shared \in Nat /\ R \in Nat /\ Shared < R /\ d \in Nat /\ d < R
  BY Sizes, Inboxes
<1>2. SharedExpertOf(d, t) \in 0 .. Shared - 1
  BY <1>1, SharedExpertThere
<1>3. SharedFor(d, t) \in Ranks /\ SharedFor(d, t) < Shared
  BY <1>1, <1>2 DEF SharedFor, Ranks
<1>4. SharedTurn(d, t) \in 0 .. R - 1
  BY <1>1, <1>2 DEF SharedTurn
<1>5. QED
  BY <1>3, <1>4 DEF InboxSize, Ranks

LEMMA WordOfShared ==
  ASSUME expertIds \in [Ranks -> Assignments], NEW d \in Ranks, NEW t \in Tokens,
         NEW r \in Ranks, r < Shared, SharedFor(d, t) = r,
         NEW n \in 0 .. InboxSize(r) - 1, SharedTurn(d, t) = n
  PROVE  /\ WordSender(r, n) = n /\ BackRank(r, n) = d
         /\ \E k \in 0 .. Counts(r)[n] - 1 : SharedBack(d, t) = Back(r, n, k)
<1>1. /\ Shared \in Nat /\ Shared # 0 /\ d \in Nat /\ r \in Nat /\ n \in Nat
      /\ WordSender(r, n) = n
  BY Sizes, Inboxes DEF WordSender
<1>2. SharedExpertOf(d, t) \in 0 .. Shared - 1
  BY <1>1, SharedExpertThere
<1>3. CASE d < Shared
  <2>1. r = d /\ n = SharedExpertOf(d, t) /\ Own(r, n)
    BY <1>1, <1>2, <1>3 DEF SharedFor, SharedTurn, Own
  <2>2. First(r, n) \in Nat /\ t - First(r, n) \in 0 .. Counts(r)[n] - 1
    BY <1>1, <2>1, OwnWord
  <2>3. PICK k \in 0 .. Counts(r)[n] - 1 : k = t - First(r, n)
    BY <2>2
  <2>4. t = First(r, n) + k
    BY <1>1, <2>2, <2>3, Sizes DEF Tokens
  <2>5. BackRank(r, n) = d
    BY <2>1 DEF BackRank
  <2>6. Back(r, n, k) = SharedBack(d, t)
    BY <1>1, <1>3, <2>4, <2>5, SharedIsBack
  <2>7. QED
    BY <1>1, <2>5, <2>6
<1>4. CASE ~(d < Shared)
  <2>1. r = SharedExpertOf(d, t) /\ n = d
    BY <1>4 DEF SharedFor, SharedTurn
  <2>2. PICK k : k = t - SharedBefore(n, r)
    OBVIOUS
  <2>3. k \in 0 .. Counts(r)[n] - 1 /\ TokenAt(r, n, k) = <<d, t>>
    BY <1>1, <1>4, <2>1, <2>2, SharedGoes
  <2>4. BackRank(r, n) = d
    BY <1>1, <1>4, <2>1 DEF BackRank, Own
  <2>5. Back(r, n, k) = SharedBack(d, t)
    BY <1>4, <2>2, <2>3, <2>4, SharedIsBack
  <2>6. QED
    BY <1>1, <2>3, <2>4, <2>5
<1>5. QED
  BY <1>3, <1>4


\* What a core sends back is what the routing says.
LEMMA SentBackComes ==
  ASSUME IInv, NEW r \in Ranks, Done(r), NEW c \in Cores, NEW d \in Ranks
  PROVE  SentBack(r, c, d) = BackFrom(r, c, d)
<1>1. expertIds \in [Ranks -> Assignments] /\ Shared \in Nat
  BY Sizes DEF IInv, TypeOK
<1>2. ASSUME NEW v \in SentBack(r, c, d) PROVE v \in BackFrom(r, c, d)
  <2>1. PICK n \in 0 .. InboxSize(r) - 1 : \E k \in 0 .. Counts(r)[n] - 1 :
          /\ WordSender(r, n) \in Slice(R, C, c) /\ BackRank(r, n) = d
          /\ v = Back(r, n, k)
    BY <1>2, SentBackIs
  <2>2. PICK k \in 0 .. Counts(r)[n] - 1 :
          /\ WordSender(r, n) \in Slice(R, C, c) /\ BackRank(r, n) = d
          /\ v = Back(r, n, k)
    BY <2>1
  <2>3. CASE r < Shared
    <3>1. PICK t \in Tokens : /\ SharedFor(d, t) = r /\ SharedTurn(d, t) = n
                              /\ v = SharedBack(d, t)
      BY <1>1, <2>2, <2>3, SharedOfWord
    <3>2. SharedTurn(d, t) \in Slice(R, C, c)
      BY <1>1, <2>2, <2>3, <3>1, SharedOfWord
    <3>3. Shared > 0
      BY <1>1, <2>3, Inboxes
    <3>4. QED
      BY <3>1, <3>2, <3>3 DEF BackFrom, SharedFrom
  <2>4. CASE ~(r < Shared)
    <3>1. d = WordSender(r, n)
      BY <1>1, <2>2, <2>4, ChoiceOfWord
    <3>2. PICK i \in Picks : RankOf(expertIds[d][i]) = r /\ v = ChoiceBack(d, i)
      BY <1>1, <2>2, <2>4, <3>1, ChoiceOfWord
    <3>3. QED
      BY <2>2, <3>1, <3>2 DEF BackFrom, ChoicesFrom
  <2>5. QED
    BY <2>3, <2>4
<1>3. ASSUME NEW i \in Picks, RankOf(expertIds[d][i]) = r, d \in Slice(R, C, c)
      PROVE  ChoiceBack(d, i) \in SentBack(r, c, d)
  <2>1. PICK n \in 0 .. InboxSize(r) - 1 : \E k \in 0 .. Counts(r)[n] - 1 :
          /\ WordSender(r, n) = d /\ BackRank(r, n) = d
          /\ ChoiceBack(d, i) = Back(r, n, k)
    BY <1>1, <1>3, WordOfChoice
  <2>2. QED
    BY <1>3, <2>1, SentBackIs
<1>4. ASSUME NEW t \in Tokens, Shared > 0, SharedFor(d, t) = r,
             SharedTurn(d, t) \in Slice(R, C, c)
      PROVE  SharedBack(d, t) \in SentBack(r, c, d)
  <2>1. Shared # 0
    BY <1>4
  <2>2. PICK n \in 0 .. InboxSize(r) - 1 : SharedTurn(d, t) = n
    BY <1>4, <2>1, SharedTurnIs
  <2>3. r < Shared
    BY <1>4, <2>1, SharedTurnIs
  <2>4. /\ WordSender(r, n) = n /\ BackRank(r, n) = d
        /\ \E k \in 0 .. Counts(r)[n] - 1 : SharedBack(d, t) = Back(r, n, k)
    BY <1>1, <1>4, <2>2, <2>3, WordOfShared
  <2>5. QED
    BY <1>4, <2>2, <2>4, SentBackIs
<1>5. QED
  BY <1>2, <1>3, <1>4 DEF BackFrom, ChoicesFrom, SharedFrom

-------------------------------------------------------------------------------
(* What comes back to a rank.                                                  *)

\* A slot tells its region and the place in it.
LEMMA SlotParts ==
  ASSUME NEW x \in Nat, NEW y \in Nat, NEW a \in 0 .. BS - 1, NEW b \in 0 .. BS - 1,
         x * BS + a = y * BS + b
  PROVE  x = y /\ a = b
<1>1. BS \in Nat \ {0} /\ a \in Int /\ b \in Int
  BY Sizes
<1>2. PICK s : s = x * BS + a
  OBVIOUS
<1>3. BS * x = x * BS /\ BS * y = y * BS /\ x * BS \in Nat /\ y * BS \in Nat
  BY <1>1
<1>4. s \in Int /\ BS * x <= s /\ s < BS * x + BS /\ BS * y <= s /\ s < BS * y + BS
  BY <1>1, <1>2, <1>3
<1>5. s \div BS = x /\ s \div BS = y
  BY <1>1, <1>4, DivIs
<1>6. QED
  BY <1>1, <1>3, <1>5

\* The regions of the choices follow those of the shared experts.
LEMMA ChoiceAt ==
  ASSUME expertIds \in [Ranks -> Assignments], NEW d \in Ranks, NEW i \in Picks,
         NEW e, e = expertIds[d][i]
  PROVE  /\ e \in Nat /\ e + Shared \in Experts
         /\ Shared * M + e \in 0 .. R * M - 1 /\ Shared * M \in Nat
         /\ PicksBefore(d, e, i) \in 0 .. BS - 1
         /\ ChoiceBack(d, i) =
              <<(Shared * M + e) * BS + PicksBefore(d, e, i), <<<<d, i \div K>>, e + Shared>>>>
<1>1. /\ R \in Nat /\ M \in Nat \ {0} /\ Shared \in Nat /\ Shared < R /\ BS \in Nat \ {0}
      /\ K \in Nat \ {0} /\ Shared * M \in Nat
  BY Sizes
<1>2. expertIds[d] \in Assignments
  OBVIOUS
<1>3. e \in 0 .. (R - Shared) * M - 1
  BY <1>2 DEF Assignments, MoeExperts
<1>4. e \in Nat /\ e + Shared \in Experts
  BY PickWord
<1>5. (R - Shared) * M = R * M - Shared * M /\ R * M \in Nat
  BY <1>1
<1>6. Shared * M + e \in 0 .. R * M - 1
  BY <1>1, <1>3, <1>4, <1>5
<1>7. PicksBefore(d, e, i) \in 0 .. BS - 1
  <2>1. PicksBefore(d, e, i) \in Nat /\ PicksBefore(d, e, i) < PicksBefore(d, e, BS * K)
    BY PlaceIs
  <2>2. BS * K \in 0 .. BS * K /\ BS * K \in Nat
    BY <1>1
  <2>3. PicksBefore(d, e, BS * K) <= BS /\ PicksBefore(d, e, BS * K) \in Nat
    BY <1>2, <2>2, PicksFew, PicksMore
  <2>4. QED
    BY <1>1, <2>1, <2>3
<1>8. QED
  BY <1>1, <1>4, <1>6, <1>7 DEF ChoiceBack

LEMMA SharedAt ==
  ASSUME Shared # 0, NEW x \in 0 .. Shared - 1
  PROVE  x * M \in Nat /\ x * M < Shared * M /\ x * M \in 0 .. R * M - 1
<1>1. Shared \in Nat /\ M \in Nat \ {0} /\ R \in Nat /\ Shared < R
  BY Sizes
<1>2. x * M \in Nat /\ (Shared - x) * M \in Nat /\ (R - Shared) * M \in Nat
  BY <1>1
<1>3. (Shared - x) * M > 0
  <2>1. PICK z \in Nat \ {0} : z = Shared - x
    BY <1>1
  <2>2. z * M > 0
    BY <1>1
  <2>3. QED
    BY <2>1, <2>2
<1>4. Shared * M = x * M + (Shared - x) * M /\ R * M = Shared * M + (R - Shared) * M
  BY <1>1
<1>5. QED
  BY <1>2, <1>3, <1>4

\* All that comes back has slots of its own, by whatever core it is sent.
LEMMA BackApart ==
  ASSUME expertIds \in [Ranks -> Assignments], NEW d \in Ranks
  PROVE  /\ AllBack(d) \in SUBSET (Slots \X Results) /\ OneValue(AllBack(d))
         /\ \A r \in Ranks, c \in Cores : BackFrom(r, c, d) \subseteq AllBack(d)
<1>1. /\ Shared \in Nat /\ BS \in Nat \ {0} /\ R * M \in Nat /\ Shared * M \in Nat
      /\ M \in Nat \ {0} /\ R \in Nat \ {0}
  BY Sizes
<1> DEFINE choices == {ChoiceBack(d, i) : i \in Picks}
           shareds == {SharedBack(d, t) : t \in {u \in Tokens : Shared > 0}}
<1>2. AllBack(d) = choices \cup shareds
  BY DEF AllBack
<1>3. ASSUME NEW x \in 0 .. R * M - 1, NEW a \in 0 .. BS - 1
      PROVE  x * BS + a \in Slots
  <2>1. a + x * BS \in 0 .. R * M * BS - 1 /\ x * BS \in Nat
    BY <1>1, Within
  <2>2. x * BS + a = a + x * BS
    BY <1>1, <2>1
  <2>3. QED
    BY <2>1, <2>2 DEF Slots
<1>4. ASSUME NEW v \in choices
      PROVE  \E i \in Picks : \E e, x, a :
               /\ e = expertIds[d][i] /\ x = Shared * M + e /\ a = PicksBefore(d, e, i)
               /\ e \in Nat /\ e + Shared \in Experts
               /\ x \in 0 .. R * M - 1 /\ a \in 0 .. BS - 1
               /\ v = <<x * BS + a, <<<<d, i \div K>>, e + Shared>>>>
  <2>1. PICK i \in Picks : v = ChoiceBack(d, i)
    BY <1>4
  <2>2. PICK e, x, a : /\ e = expertIds[d][i] /\ x = Shared * M + e
                       /\ a = PicksBefore(d, e, i)
    OBVIOUS
  <2>3. /\ e \in Nat /\ e + Shared \in Experts
        /\ x \in 0 .. R * M - 1 /\ a \in 0 .. BS - 1
        /\ ChoiceBack(d, i) = <<x * BS + a, <<<<d, i \div K>>, e + Shared>>>>
    BY <2>2, ChoiceAt
  <2>4. QED
    BY <2>1, <2>2, <2>3
<1>5. ASSUME NEW v \in shareds
      PROVE  \E t \in Tokens : \E y, x, a :
               /\ y = SharedExpertOf(d, t) /\ x = y * M /\ a = t - SharedBefore(d, y)
               /\ y \in 0 .. Shared - 1
               /\ x \in 0 .. R * M - 1 /\ x < Shared * M /\ a \in 0 .. BS - 1
               /\ v = <<x * BS + a, <<<<d, t>>, SharedFor(d, t)>>>>
               /\ SharedFor(d, t) \in Experts
  <2>1. PICK t \in Tokens : v = SharedBack(d, t) /\ Shared > 0
    BY <1>5
  <2>2. Shared # 0
    BY <2>1
  <2>3. PICK y, x, a : /\ y = SharedExpertOf(d, t) /\ x = y * M
                       /\ a = t - SharedBefore(d, y)
    OBVIOUS
  <2>4. /\ y \in 0 .. Shared - 1 /\ a \in 0 .. BS - 1
        /\ SharedBack(d, t) = <<x * BS + a, <<<<d, t>>, IF d < Shared THEN d ELSE y>>>>
    BY <2>2, <2>3, SharedBackIs
  <2>5. x \in 0 .. R * M - 1 /\ x < Shared * M
    BY <2>2, <2>3, <2>4, SharedAt
  <2>6. SharedFor(d, t) = IF d < Shared THEN d ELSE y
    BY <2>3 DEF SharedFor
  <2>7. SharedFor(d, t) \in Experts
    <3>1. SharedFor(d, t) \in Ranks /\ SharedFor(d, t) < Shared
      BY <2>2, SharedTurnIs
    <3>2. (R - Shared) * M \in Nat /\ R \in Nat
      <4>1. R - Shared \in Nat
        BY Sizes
      <4>2. QED
        BY <1>1, <4>1
    <3>3. QED
      BY <1>1, <3>1, <3>2 DEF Experts, ExpertNum, Ranks
  <2>8. QED
    BY <2>1, <2>3, <2>4, <2>5, <2>6, <2>7
<1> HIDE DEF choices, shareds
<1>6. ASSUME NEW v \in AllBack(d) PROVE v \in Slots \X Results
  <2>1. CASE v \in choices
    <3>1. PICK i \in Picks : \E e, x, a :
            /\ e + Shared \in Experts /\ x \in 0 .. R * M - 1 /\ a \in 0 .. BS - 1
            /\ v = <<x * BS + a, <<<<d, i \div K>>, e + Shared>>>>
      BY <1>4, <2>1
    <3>2. PICK e, x, a :
            /\ e + Shared \in Experts /\ x \in 0 .. R * M - 1 /\ a \in 0 .. BS - 1
            /\ v = <<x * BS + a, <<<<d, i \div K>>, e + Shared>>>>
      BY <3>1
    <3>3. i \div K \in Tokens
      BY TokenOfPick
    <3>4. QED
      BY <1>3, <3>2, <3>3 DEF Results, AllTokens
  <2>2. CASE v \in shareds
    <3>1. PICK t \in Tokens : \E x, a :
            /\ x \in 0 .. R * M - 1 /\ a \in 0 .. BS - 1
            /\ v = <<x * BS + a, <<<<d, t>>, SharedFor(d, t)>>>>
            /\ SharedFor(d, t) \in Experts
      BY <1>5, <2>2
    <3>2. QED
      BY <1>3, <3>1 DEF Results, AllTokens
  <2>3. QED
    BY <1>2, <2>1, <2>2
<1>7. ASSUME NEW v \in choices, NEW w \in choices, v[1] = w[1] PROVE v = w
  <2>1. PICK i \in Picks : \E e, x, a :
          /\ e = expertIds[d][i] /\ x = Shared * M + e /\ a = PicksBefore(d, e, i)
          /\ e \in Nat /\ x \in 0 .. R * M - 1 /\ a \in 0 .. BS - 1
          /\ v = <<x * BS + a, <<<<d, i \div K>>, e + Shared>>>>
    BY <1>4
  <2>2. PICK e, x, a :
          /\ e = expertIds[d][i] /\ x = Shared * M + e /\ a = PicksBefore(d, e, i)
          /\ e \in Nat /\ x \in 0 .. R * M - 1 /\ a \in 0 .. BS - 1
          /\ v = <<x * BS + a, <<<<d, i \div K>>, e + Shared>>>>
    BY <2>1
  <2>3. PICK j \in Picks : \E f, y, b :
          /\ f = expertIds[d][j] /\ y = Shared * M + f /\ b = PicksBefore(d, f, j)
          /\ f \in Nat /\ y \in 0 .. R * M - 1 /\ b \in 0 .. BS - 1
          /\ w = <<y * BS + b, <<<<d, j \div K>>, f + Shared>>>>
    BY <1>4
  <2>4. PICK f, y, b :
          /\ f = expertIds[d][j] /\ y = Shared * M + f /\ b = PicksBefore(d, f, j)
          /\ f \in Nat /\ y \in 0 .. R * M - 1 /\ b \in 0 .. BS - 1
          /\ w = <<y * BS + b, <<<<d, j \div K>>, f + Shared>>>>
    BY <2>3
  <2>5. x * BS + a = y * BS + b
    BY <1>7, <2>2, <2>4
  <2>6. x = y /\ a = b
    BY <2>2, <2>4, <2>5, SlotParts
  <2>7. e = f
    <3>1. PICK s \in Nat : s = Shared * M
      BY <1>1
    <3>2. x = s + e /\ x = s + f
      BY <2>2, <2>4, <2>6, <3>1
    <3>3. QED
      BY <2>2, <2>4, <3>2
  <2>8. i = j
    <3>1. i \in Nat /\ j \in Nat
      BY TokenOfPick
    <3>2. QED
      BY <2>2, <2>4, <2>6, <2>7, <3>1, PicksOnce
  <2>9. QED
    BY <2>2, <2>4, <2>6, <2>7, <2>8
<1>8. ASSUME NEW v \in shareds, NEW w \in shareds, v[1] = w[1] PROVE v = w
  <2>1. PICK t \in Tokens : \E y, x, a :
          /\ y = SharedExpertOf(d, t) /\ x = y * M /\ a = t - SharedBefore(d, y)
          /\ y \in 0 .. Shared - 1 /\ x \in 0 .. R * M - 1 /\ a \in 0 .. BS - 1
          /\ v = <<x * BS + a, <<<<d, t>>, SharedFor(d, t)>>>>
    BY <1>5
  <2>2. PICK y, x, a :
          /\ y = SharedExpertOf(d, t) /\ x = y * M /\ a = t - SharedBefore(d, y)
          /\ y \in 0 .. Shared - 1 /\ x \in 0 .. R * M - 1 /\ a \in 0 .. BS - 1
          /\ v = <<x * BS + a, <<<<d, t>>, SharedFor(d, t)>>>>
    BY <2>1
  <2>3. PICK u \in Tokens : \E z, h, b :
          /\ z = SharedExpertOf(d, u) /\ h = z * M /\ b = u - SharedBefore(d, z)
          /\ z \in 0 .. Shared - 1 /\ h \in 0 .. R * M - 1 /\ b \in 0 .. BS - 1
          /\ w = <<h * BS + b, <<<<d, u>>, SharedFor(d, u)>>>>
    BY <1>5
  <2>4. PICK z, h, b :
          /\ z = SharedExpertOf(d, u) /\ h = z * M /\ b = u - SharedBefore(d, z)
          /\ z \in 0 .. Shared - 1 /\ h \in 0 .. R * M - 1 /\ b \in 0 .. BS - 1
          /\ w = <<h * BS + b, <<<<d, u>>, SharedFor(d, u)>>>>
    BY <2>3
  <2>5. x = h /\ a = b
    <3>1. x * BS + a = h * BS + b
      BY <1>8, <2>2, <2>4
    <3>2. QED
      BY <2>2, <2>4, <3>1, SlotParts
  <2>6. y = z
    <3>1. M * y = x /\ M * z = x
      BY <1>1, <2>2, <2>4, <2>5
    <3>2. y \in Int /\ z \in Int /\ x \in Int /\ x < M * y + M /\ x < M * z + M
      BY <1>1, <2>2, <2>4, <3>1
    <3>3. x \div M = y /\ x \div M = z
      BY <1>1, <3>1, <3>2, DivIs
    <3>4. QED
      BY <3>3
  <2>7. t = u
    <3>1. SharedBefore(d, y) \in Nat /\ t \in Int /\ u \in Int
      BY <1>1, <2>2, Inboxes, SharedRun DEF Tokens
    <3>2. QED
      BY <2>2, <2>4, <2>5, <2>6, <3>1
  <2>8. QED
    BY <2>2, <2>4, <2>5, <2>7
<1>9. ASSUME NEW v \in choices, NEW w \in shareds PROVE v[1] # w[1]
  <2>1. PICK e, x, a, z :
          /\ x = Shared * M + e /\ e \in Nat /\ x \in 0 .. R * M - 1 /\ a \in 0 .. BS - 1
          /\ v = <<x * BS + a, z>>
    BY <1>4
  <2>2. PICK y, b, q :
          /\ y \in 0 .. R * M - 1 /\ y < Shared * M /\ b \in 0 .. BS - 1
          /\ w = <<y * BS + b, q>>
    BY <1>5
  <2>3. x # y
    BY <1>1, <2>1, <2>2
  <2>4. QED
    BY <2>1, <2>2, <2>3, SlotParts
<1>10. OneValue(AllBack(d))
  BY <1>2, <1>7, <1>8, <1>9 DEF OneValue
<1>11. \A r \in Ranks, c \in Cores : BackFrom(r, c, d) \subseteq AllBack(d)
  BY DEF BackFrom, ChoicesFrom, SharedFrom, AllBack
<1>12. QED
  BY <1>6, <1>10, <1>11

-------------------------------------------------------------------------------
(* What is added up.                                                           *)

\* The choices of a token.
LEMMA PicksOfToken ==
  ASSUME NEW t \in Tokens
  PROVE  /\ \A k \in 0 .. K - 1 : t * K + k \in Picks /\ (t * K + k) \div K = t
         /\ \A i \in Picks : i \div K = t => \E k \in 0 .. K - 1 : i = t * K + k
<1>1. K \in Nat \ {0} /\ BS \in Nat /\ t \in 0 .. BS - 1
  BY Sizes DEF Tokens
<1>2. ASSUME NEW k \in 0 .. K - 1
      PROVE  t * K + k \in Picks /\ (t * K + k) \div K = t
  <2>1. k + t * K \in 0 .. BS * K - 1 /\ t * K \in Nat
    BY <1>1, Within
  <2>2. PICK z : z = t * K
    OBVIOUS
  <2>3. z + k = k + z /\ z \in Nat /\ z + k \in 0 .. BS * K - 1
    BY <1>1, <2>1, <2>2
  <2>4. (z + k) \div K = t
    <3>1. K * t = z
      BY <1>1, <2>2
    <3>2. K * t <= z + k /\ z + k < K * t + K /\ z + k \in Int /\ t \in Int
      BY <1>1, <2>3, <3>1
    <3>3. QED
      BY <1>1, <3>2, DivIs
  <2>5. QED
    BY <2>2, <2>3, <2>4 DEF Picks
<1>3. ASSUME NEW i \in Picks, i \div K = t PROVE \E k \in 0 .. K - 1 : i = t * K + k
  <2>1. i \in 0 .. BS * K - 1
    BY DEF Picks
  <2>2. i % K \in 0 .. K - 1 /\ i = (i % K) + (i \div K) * K
    BY <1>1, <2>1, Parts
  <2>3. PICK z, k : z = t * K /\ k = i % K
    OBVIOUS
  <2>4. z \in Int
    BY <1>1, <2>3
  <2>5. i = z + k /\ k \in 0 .. K - 1
    BY <1>1, <1>3, <2>2, <2>3, <2>4
  <2>6. QED
    BY <2>3, <2>5
<1>4. QED
  BY <1>2, <1>3

LEMMA BackToIs ==
  ASSUME NEW d, NEW v
  PROVE  v \in BackTo(d) <=>
           \E r \in Ranks, c \in Cores : stage[r][c] # "send" /\ v \in BackFrom(r, c, d)
<1>1. ASSUME v \in BackTo(d)
      PROVE  \E r \in Ranks, c \in Cores : stage[r][c] # "send" /\ v \in BackFrom(r, c, d)
  <2>1. PICK p \in Ranks \X Cores : stage[p[1]][p[2]] # "send" /\ v \in BackFrom(p[1], p[2], d)
    BY <1>1 DEF BackTo
  <2>2. p[1] \in Ranks /\ p[2] \in Cores
    OBVIOUS
  <2>3. QED
    BY <2>1, <2>2
<1>2. ASSUME NEW r \in Ranks, NEW c \in Cores, stage[r][c] # "send", v \in BackFrom(r, c, d)
      PROVE  v \in BackTo(d)
  <2>1. PICK p \in Ranks \X Cores : p[1] = r /\ p[2] = c
    <3>1. <<r, c>> \in Ranks \X Cores
      OBVIOUS
    <3>2. QED
      BY <3>1
  <2>2. QED
    BY <1>2, <2>1 DEF BackTo
<1>3. QED
  BY <1>1, <1>2

\* When a core gathers, all has come back to its rank: flags tell of the cores
\* of other ranks, the barrier of those of its own.
LEMMA AllComeBack ==
  ASSUME expertIds \in [Ranks -> Assignments], FlagsHold, NEW r \in Ranks, raised[r] = Ranks,
         \A c \in Cores : stage[r][c] # "send"
  PROVE  AllBack(r) \subseteq BackTo(r)
<1>1. ASSUME NEW i \in Picks PROVE ChoiceBack(r, i) \in BackTo(r)
  <2>1. PICK s \in Ranks : s = RankOf(expertIds[r][i])
    BY WordOfChoice
  <2>2. PICK c \in Cores : r \in Slice(R, C, c) /\ stage[s][c] # "send"
    BY DEF FlagsHold
  <2>3. ChoiceBack(r, i) \in BackFrom(s, c, r)
    BY <2>1, <2>2 DEF BackFrom, ChoicesFrom
  <2>4. QED
    BY <2>2, <2>3, BackToIs
<1>2. ASSUME NEW t \in Tokens, Shared > 0 PROVE SharedBack(r, t) \in BackTo(r)
  <2>1. /\ SharedFor(r, t) \in Ranks /\ SharedTurn(r, t) \in Ranks /\ Shared # 0
    BY <1>2, SharedTurnIs
  <2>2. PICK s \in Ranks : s = SharedFor(r, t)
    BY <2>1
  <2>3. PICK c \in Cores : SharedTurn(r, t) \in Slice(R, C, c) /\ stage[s][c] # "send"
    <3>1. CASE r < Shared
      <4>1. s = r
        BY <2>2, <3>1 DEF SharedFor
      <4>2. \E c \in Cores : SharedTurn(r, t) \in Slice(R, C, c)
        <5>1. SharedTurn(r, t) \in 0 .. R - 1
          BY <2>1 DEF Ranks
        <5>2. QED
          BY <5>1, SliceCover, Sizes DEF Cores
      <4>3. QED
        BY <4>1, <4>2
    <3>2. CASE ~(r < Shared)
      <4>1. SharedTurn(r, t) = r
        BY <3>2 DEF SharedTurn
      <4>2. \E c \in Cores : r \in Slice(R, C, c) /\ stage[s][c] # "send"
        BY DEF FlagsHold
      <4>3. QED
        BY <4>1, <4>2
    <3>3. QED
      BY <3>1, <3>2
  <2>4. SharedBack(r, t) \in BackFrom(s, c, r)
    BY <1>2, <2>2, <2>3 DEF BackFrom, SharedFrom
  <2>5. QED
    BY <2>3, <2>4, BackToIs
<1>3. QED
  BY <1>1, <1>2 DEF AllBack

\* Then the slots a token's results are looked for in hold them.
LEMMA SumIs ==
  ASSUME IInv, ReturnTypeOK, FlagsHold, BackHolds, NEW r \in Ranks, Done(r),
         raised[r] = Ranks, \A c \in Cores : stage[r][c] # "send", NEW t \in Tokens
  PROVE  Sum(r, t) = FinalSum(r, t)
<1>1. /\ expertIds \in [Ranks -> Assignments] /\ Shared \in Nat
      /\ returned[r] \in [Slots -> Results \cup {Nothing}] /\ Holds(returned[r], BackTo(r))
  BY Sizes DEF IInv, TypeOK, ReturnTypeOK, BackHolds
<1>2. ASSUME NEW v \in AllBack(r) PROVE returned[r][v[1]] = v[2]
  <2>1. v \in BackTo(r)
    BY <1>1, AllComeBack
  <2>2. v[1] \in Slots
    BY <1>1, BackApart
  <2>3. QED
    BY <1>1, <2>1, <2>2 DEF Holds
<1>3. ASSUME NEW k \in 0 .. K - 1
      PROVE  returned[r][ChoiceSlot(r, t * K + k)] = <<<<r, t>>, expertIds[r][t * K + k] + Shared>>
  <2>1. PICK i \in Picks : i = t * K + k /\ i \div K = t
    BY PicksOfToken
  <2>2. AllPast(r, {"send"})
    BY NumsAll DEF AllPast
  <2>3. ChoiceSlot(r, i) = ChoiceBack(r, i)[1]
    BY <2>2, PlacesAll DEF ChoiceSlot, ChoiceBack
  <2>4. ChoiceBack(r, i)[2] = <<<<r, t>>, expertIds[r][i] + Shared>>
    BY <2>1 DEF ChoiceBack
  <2>5. returned[r][ChoiceBack(r, i)[1]] = ChoiceBack(r, i)[2]
    BY <1>2 DEF AllBack
  <2>6. QED
    BY <2>1, <2>3, <2>4, <2>5
<1>4. ASSUME Shared > 0 PROVE returned[r][SharedSlot(r, t)] = <<<<r, t>>, SharedFor(r, t)>>
  <2>1. SharedBack(r, t) \in AllBack(r)
    BY <1>4 DEF AllBack
  <2>2. QED
    BY <1>2, <2>1 DEF SharedBack
<1>5. QED
  BY <1>3, <1>4 DEF Sum, FinalSum

-------------------------------------------------------------------------------
(* Steps of the round trip.                                                    *)

\* What comes back and what is added up are fixed by the routing.
LEMMA ReturnStays ==
  ASSUME expertIds' = expertIds
  PROVE  /\ \A r, c, d : BackFrom(r, c, d)' = BackFrom(r, c, d)
         /\ \A r, t : FinalSum(r, t)' = FinalSum(r, t)
<1>1. \A r, i : ChoiceBack(r, i)' = ChoiceBack(r, i)
  BY DEF ChoiceBack, PicksBefore
<1>2. \A r, c, d : ChoicesFrom(r, c, d)' = ChoicesFrom(r, c, d)
  BY <1>1 DEF ChoicesFrom
<1>3. \A r, c, d : SharedFrom(r, c, d)' = SharedFrom(r, c, d)
  OBVIOUS
<1>4. \A r, t : FinalSum(r, t)' = FinalSum(r, t)
  BY DEF FinalSum
<1>5. QED
  BY <1>2, <1>3, <1>4 DEF BackFrom

\* A sum names results, and is never empty.
LEMMA FinalSumType ==
  ASSUME expertIds \in [Ranks -> Assignments], NEW r \in Ranks, NEW t \in Tokens
  PROVE  FinalSum(r, t) \in SUBSET Results /\ FinalSum(r, t) # {}
<1>1. ASSUME NEW k \in 0 .. K - 1
      PROVE  <<<<r, t>>, expertIds[r][t * K + k] + Shared>> \in Results
  <2>1. PICK i \in Picks : i = t * K + k
    BY PicksOfToken
  <2>2. expertIds[r][i] + Shared \in Experts
    BY ChoiceAt
  <2>3. QED
    BY <2>1, <2>2 DEF Results, AllTokens
<1>2. ASSUME Shared > 0 PROVE <<<<r, t>>, SharedFor(r, t)>> \in Results
  <2>1. SharedBack(r, t) \in Slots \X Results
    BY <1>2, BackApart DEF AllBack
  <2>2. QED
    BY <2>1 DEF SharedBack
<1>3. 0 \in 0 .. K - 1
  BY Sizes
<1>4. QED
  BY <1>1, <1>2, <1>3 DEF FinalSum

\* No slot is written again, and no unit.
ReturnAdded ==
  \A r \in Ranks :
    /\ Adds(returned[r], returned'[r], Slots)
    /\ \A t \in Tokens, u \in Units :
         xOut[r][t][u] # {} => xOut'[r][t][u] = xOut[r][t][u]

LEMMA StageMoves ==
  ASSUME ReturnTypeOK, NEW r \in Ranks, NEW c \in Cores,
         NEW label \in {"send", "gather", "done"}, Enter(r, c, label)
  PROVE  /\ stage' \in [Ranks -> [Cores -> {"send", "gather", "done"}]]
         /\ stage'[r][c] = label
         /\ \A s \in Ranks, d \in Cores : s # r \/ d # c => stage'[s][d] = stage[s][d]
BY DEF Enter, ReturnTypeOK

LEMMA InitReturnInv == ReturnInit => ReturnInv
<1> SUFFICES ASSUME ReturnInit PROVE ReturnInv
  OBVIOUS
<1>1. IInv
  BY InitIInv DEF ReturnInit
<1>2. \A r \in Ranks, c \in Cores : stage[r][c] = "send"
  BY DEF ReturnInit
<1>3. ReturnTypeOK
  BY DEF ReturnInit, ReturnTypeOK
<1>4. Begun /\ FlagsHold
  BY <1>2 DEF ReturnInit, Begun, FlagsHold
<1>5. BackHolds
  <2>1. ASSUME NEW d \in Ranks PROVE Holds(returned[d], BackTo(d))
    <3>1. returned[d] = [a \in Slots |-> Nothing]
      BY DEF ReturnInit
    <3>2. \A v : v \notin BackTo(d)
      BY <1>2, BackToIs
    <3>3. QED
      BY <3>1, <3>2 DEF Holds
  <2>2. QED
    BY <2>1 DEF BackHolds
<1>6. OutHolds
  <2>1. \A r \in Ranks : \A t \in Tokens, u \in Units : xOut[r][t][u] = {}
    BY DEF ReturnInit
  <2>2. QED
    BY <1>2, <2>1 DEF OutHolds
<1>7. QED
  BY <1>1, <1>3, <1>4, <1>5, <1>6 DEF ReturnInv

\* While a core is in dispatch, its rank has not begun combine.
LEMMA StepKeepsDone ==
  ASSUME IInv, NEW r \in Ranks, NEW c \in Cores, Step(r, c)
  PROVE  expertIds' = expertIds /\ \A s \in Ranks : Done(s) => Done(s)'
<1>1. pc \in [Ranks -> [Cores -> Labels]]
  BY DEF IInv, TypeOK
<1>2. /\ expertIds' = expertIds /\ pc[r][c] # "done"
      /\ \E label \in Labels : Goto(r, c, label)
  BY DEF Step, Send, SetStatus, LocalWindowCopy, UpdateTokenNumsOut, inputs, Labels
<1>3. ~Done(r)
  BY <1>1, <1>2 DEF Done, AllPast, Labels
<1>4. \A s \in Ranks, d \in Cores : s # r => pc'[s][d] = pc[s][d]
  BY <1>1, <1>2, CoreMoves
<1>5. QED
  BY <1>2, <1>3, <1>4 DEF Done, AllPast

\* Dispatch and waiting leave the round trip as it is.
LEMMA OtherKeeps ==
  ASSUME ReturnInv, IInv', expertIds' = expertIds, UNCHANGED returnVars,
         \A s \in Ranks : Done(s) => Done(s)'
  PROVE  ReturnInv' /\ ReturnAdded
<1>1. stage' = stage /\ returned' = returned /\ raised' = raised /\ xOut' = xOut
  BY DEF returnVars
<1>2. /\ \A r, c, d : BackFrom(r, c, d)' = BackFrom(r, c, d)
      /\ \A r, t : FinalSum(r, t)' = FinalSum(r, t)
  BY ReturnStays
<1>3. ReturnAdded
  BY <1>1 DEF ReturnAdded, Adds
<1>4. ReturnTypeOK'
  BY <1>1 DEF ReturnInv, ReturnTypeOK
<1>5. Begun'
  BY <1>1 DEF ReturnInv, Begun
<1>6. FlagsHold'
  BY <1>1 DEF ReturnInv, FlagsHold
<1>7. BackHolds'
  <2>1. \A d : BackTo(d)' = BackTo(d)
    BY <1>1, <1>2 DEF BackTo
  <2>2. QED
    BY <1>1, <2>1 DEF ReturnInv, BackHolds
<1>8. OutHolds'
  <2>1. OutHolds
    BY DEF ReturnInv
  <2>2. QED
    BY <1>1, <1>2, <2>1 DEF OutHolds
<1>9. QED
  BY <1>3, <1>4, <1>5, <1>6, <1>7, <1>8 DEF ReturnInv

\* SendBack.
LEMMA SendBackKeeps ==
  ASSUME ReturnInv, NEW r \in Ranks, NEW c \in Cores, SendBack(r, c), UNCHANGED vars
  PROVE  ReturnInv' /\ ReturnAdded
<1>1. /\ IInv /\ ReturnTypeOK /\ expertIds \in [Ranks -> Assignments]
      /\ stage[r][c] = "send" /\ Done(r) /\ Enter(r, c, "gather") /\ xOut' = xOut
  BY DEF ReturnInv, IInv, TypeOK, SendBack, Done
<1>2. IInv' /\ expertIds' = expertIds /\ pc' = pc
  BY <1>1, Idle DEF vars, inputs
<1>3. /\ stage' \in [Ranks -> [Cores -> {"send", "gather", "done"}]]
      /\ stage'[r][c] = "gather"
      /\ \A s \in Ranks, d \in Cores : s # r \/ d # c => stage'[s][d] = stage[s][d]
  BY <1>1, StageMoves
<1>4. /\ \A s, d, e : BackFrom(s, d, e)' = BackFrom(s, d, e)
      /\ \A s, t : FinalSum(s, t)' = FinalSum(s, t)
      /\ \A s : Done(s)' <=> Done(s)
  BY <1>2, ReturnStays DEF Done, AllPast
<1>5. ASSUME NEW d \in Ranks PROVE BackTo(d)' = BackTo(d) \cup BackFrom(r, c, d)
  <2>1. ASSUME NEW v \in BackTo(d)' PROVE v \in BackTo(d) \cup BackFrom(r, c, d)
    <3>1. PICK p \in Ranks \X Cores :
            stage'[p[1]][p[2]] # "send" /\ v \in BackFrom(p[1], p[2], d)
      BY <1>4, <2>1 DEF BackTo
    <3>2. PICK s \in Ranks, e \in Cores : stage'[s][e] # "send" /\ v \in BackFrom(s, e, d)
      BY <3>1
    <3>3. CASE s = r /\ e = c
      BY <3>2, <3>3
    <3>4. CASE s # r \/ e # c
      BY <1>3, <3>2, <3>4, BackToIs
    <3>5. QED
      BY <3>3, <3>4
  <2>2. ASSUME NEW s \in Ranks, NEW e \in Cores, stage'[s][e] # "send"
        PROVE  BackFrom(s, e, d) \subseteq BackTo(d)'
    <3>1. PICK p \in Ranks \X Cores : p[1] = s /\ p[2] = e
      <4>1. <<s, e>> \in Ranks \X Cores
        OBVIOUS
      <4>2. QED
        BY <4>1
    <3>2. QED
      BY <1>4, <2>2, <3>1 DEF BackTo
  <2>3. BackFrom(r, c, d) \subseteq BackTo(d)'
    BY <1>3, <2>2
  <2>4. ASSUME NEW v \in BackTo(d) PROVE v \in BackTo(d)'
    <3>1. PICK s \in Ranks, e \in Cores : stage[s][e] # "send" /\ v \in BackFrom(s, e, d)
      BY <2>4, BackToIs
    <3>2. stage'[s][e] # "send"
      BY <1>1, <1>3, <3>1
    <3>3. QED
      BY <2>2, <3>1, <3>2
  <2>5. QED
    BY <2>1, <2>3, <2>4
<1>6. ASSUME NEW d \in Ranks
      PROVE  /\ returned'[d] \in [Slots -> Results \cup {Nothing}]
             /\ Holds(returned'[d], BackTo(d)') /\ Adds(returned[d], returned'[d], Slots)
  <2>1. returned'[d] = After(returned[d], BackFrom(r, c, d))
    <3>1. returned'[d] = After(returned[d], SentBack(r, c, d))
      BY DEF SendBack
    <3>2. QED
      BY <1>1, <3>1, SentBackComes
  <2>2. /\ AllBack(d) \in SUBSET (Slots \X Results) /\ OneValue(AllBack(d))
        /\ BackTo(d) \subseteq AllBack(d) /\ BackFrom(r, c, d) \subseteq AllBack(d)
    <3>1. /\ AllBack(d) \in SUBSET (Slots \X Results) /\ OneValue(AllBack(d))
          /\ \A s \in Ranks, e \in Cores : BackFrom(s, e, d) \subseteq AllBack(d)
      BY <1>1, BackApart
    <3>2. BackTo(d) \subseteq AllBack(d)
      BY <3>1, BackToIs
    <3>3. QED
      BY <3>1, <3>2
  <2>3. returned[d] \in [Slots -> Results \cup {Nothing}] /\ Holds(returned[d], BackTo(d))
    BY <1>1 DEF ReturnInv, ReturnTypeOK, BackHolds
  <2>4. /\ After(returned[d], BackFrom(r, c, d)) \in [Slots -> Results \cup {Nothing}]
        /\ Holds(After(returned[d], BackFrom(r, c, d)), BackTo(d) \cup BackFrom(r, c, d))
        /\ Adds(returned[d], After(returned[d], BackFrom(r, c, d)), Slots)
    BY <2>2, <2>3, MemoryNext
  <2>5. QED
    BY <1>5, <2>1, <2>4
<1>7. ReturnTypeOK'
  <2>1. returned' \in [Ranks -> [Slots -> Results \cup {Nothing}]]
    <3>1. returned' = [d \in Ranks |-> returned'[d]]
      BY DEF SendBack
    <3>2. QED
      BY <1>6, <3>1
  <2>2. raised' \in [Ranks -> SUBSET Ranks]
    BY <1>1 DEF SendBack, ReturnTypeOK
  <2>3. QED
    BY <1>1, <1>3, <2>1, <2>2 DEF ReturnTypeOK
<1>8. Begun'
  <2>1. ASSUME NEW s \in Ranks, NEW d \in Cores, stage'[s][d] # "send" PROVE Done(s)
    <3>1. CASE s = r
      BY <1>1, <3>1
    <3>2. CASE s # r
      BY <1>3, <2>1, <3>2 DEF ReturnInv, Begun
    <3>3. QED
      BY <3>1, <3>2
  <2>2. QED
    BY <1>4, <2>1 DEF Begun
<1>9. FlagsHold'
  <2>1. ASSUME NEW d \in Ranks, NEW s \in raised'[d]
        PROVE  \E e \in Cores : d \in Slice(R, C, e) /\ stage'[s][e] # "send"
    <3>1. \/ s \in raised[d]
          \/ s = r /\ d \in Slice(R, C, c)
      BY <2>1 DEF SendBack
    <3>2. CASE s \in raised[d]
      <4>1. PICK e \in Cores : d \in Slice(R, C, e) /\ stage[s][e] # "send"
        BY <3>2 DEF ReturnInv, FlagsHold
      <4>2. s \in Ranks
        BY <1>1, <3>2 DEF ReturnTypeOK
      <4>3. stage'[s][e] # "send"
        BY <1>1, <1>3, <4>1, <4>2
      <4>4. QED
        BY <4>1, <4>3
    <3>3. CASE s = r /\ d \in Slice(R, C, c)
      BY <1>3, <3>3
    <3>4. QED
      BY <3>1, <3>2, <3>3
  <2>2. QED
    BY <2>1 DEF FlagsHold
<1>10. BackHolds'
  BY <1>6 DEF BackHolds
<1>11. OutHolds'
  <2>1. \A s \in Ranks, d \in Cores : stage'[s][d] = "done" <=> stage[s][d] = "done"
    BY <1>1, <1>3
  <2>2. OutHolds
    BY DEF ReturnInv
  <2>3. QED
    BY <1>1, <1>4, <2>1, <2>2 DEF OutHolds
<1>12. ReturnAdded
  BY <1>1, <1>6 DEF ReturnAdded
<1>13. QED
  BY <1>2, <1>7, <1>8, <1>9, <1>10, <1>11, <1>12 DEF ReturnInv

\* Gather.
LEMMA GatherKeeps ==
  ASSUME ReturnInv, NEW r \in Ranks, NEW c \in Cores, Gather(r, c), UNCHANGED vars
  PROVE  ReturnInv' /\ ReturnAdded
<1>1. /\ IInv /\ ReturnTypeOK /\ FlagsHold /\ BackHolds /\ Begun /\ OutHolds
      /\ expertIds \in [Ranks -> Assignments]
      /\ stage[r][c] = "gather" /\ raised[r] = Ranks
      /\ \A d \in Cores : stage[r][d] # "send"
      /\ Enter(r, c, "done") /\ returned' = returned /\ raised' = raised
  BY DEF ReturnInv, IInv, TypeOK, Gather
<1>2. IInv' /\ expertIds' = expertIds /\ pc' = pc
  BY <1>1, Idle DEF vars, inputs
<1>3. /\ stage' \in [Ranks -> [Cores -> {"send", "gather", "done"}]]
      /\ stage'[r][c] = "done"
      /\ \A s \in Ranks, d \in Cores : s # r \/ d # c => stage'[s][d] = stage[s][d]
  BY <1>1, StageMoves
<1>4. /\ \A s, d, e : BackFrom(s, d, e)' = BackFrom(s, d, e)
      /\ \A s, t : FinalSum(s, t)' = FinalSum(s, t)
      /\ \A s : Done(s)' <=> Done(s)
  BY <1>2, ReturnStays DEF Done, AllPast
<1>5. Done(r) /\ \A t \in Tokens : Sum(r, t) = FinalSum(r, t)
  <2>1. Done(r)
    BY <1>1 DEF Begun
  <2>2. QED
    BY <1>1, <2>1, SumIs
<1>6. \A s \in Ranks, d \in Cores : stage'[s][d] # "send" <=> stage[s][d] # "send"
  BY <1>1, <1>3
<1>7. ASSUME NEW t \in Tokens, NEW u \in Units
      PROVE  xOut'[r][t][u] = IF <<t, u>> \in OutShare(c) THEN FinalSum(r, t)
                              ELSE xOut[r][t][u]
  <2> DEFINE writes == {<<p[2], Sum(r, t)>> : p \in {q \in OutShare(c) : q[1] = t}}
  <2>1. xOut'[r][t] = After(xOut[r][t], writes)
    BY <1>1 DEF Gather, ReturnTypeOK
  <2>2. DOMAIN xOut[r][t] = Units
    BY <1>1 DEF ReturnTypeOK
  <2>3. \A w \in writes : w[2] = FinalSum(r, t)
    BY <1>5
  <2>4. (\E w \in writes : w[1] = u) <=> <<t, u>> \in OutShare(c)
    <3>1. \A q \in OutShare(c) : q = <<q[1], q[2]>>
      BY DEF OutShare, RowShare
    <3>2. ASSUME <<t, u>> \in OutShare(c) PROVE \E w \in writes : w[1] = u
      <4>1. PICK p \in OutShare(c) : p[1] = t /\ p[2] = u
        BY <3>2
      <4>2. <<p[2], Sum(r, t)>> \in writes
        BY <4>1
      <4>3. QED
        BY <4>1, <4>2
    <3>3. ASSUME NEW w \in writes, w[1] = u PROVE <<t, u>> \in OutShare(c)
      <4>1. PICK p \in OutShare(c) : p[1] = t /\ w = <<p[2], Sum(r, t)>>
        BY <3>3
      <4>2. p = <<t, u>>
        BY <3>1, <3>3, <4>1
      <4>3. QED
        BY <4>1, <4>2
    <3>4. QED
      BY <3>2, <3>3
  <2> HIDE DEF writes
  <2>5. QED
    BY <2>1, <2>2, <2>3, <2>4 DEF After
<1>8. ASSUME NEW s \in Ranks, s # r PROVE xOut'[s] = xOut[s]
  BY <1>1, <1>8 DEF Gather, ReturnTypeOK
<1>9. OutHolds'
  <2>1. ASSUME NEW s \in Ranks, NEW t \in Tokens, NEW u \in Units
        PROVE  xOut'[s][t][u] =
                 IF \E d \in Cores : stage'[s][d] = "done" /\ <<t, u>> \in OutShare(d)
                 THEN FinalSum(s, t) ELSE {}
    <3>1. xOut[s][t][u] =
            IF \E d \in Cores : stage[s][d] = "done" /\ <<t, u>> \in OutShare(d)
            THEN FinalSum(s, t) ELSE {}
      BY <1>1 DEF OutHolds
    <3>2. CASE s = r
      <4>1. (\E d \in Cores : stage'[s][d] = "done" /\ <<t, u>> \in OutShare(d)) <=>
              \/ <<t, u>> \in OutShare(c)
              \/ \E d \in Cores : stage[s][d] = "done" /\ <<t, u>> \in OutShare(d)
        BY <1>1, <1>3, <3>2
      <4>2. QED
        BY <1>7, <3>1, <3>2, <4>1
    <3>3. CASE s # r
      <4>1. \A d \in Cores : stage'[s][d] = stage[s][d]
        BY <1>3, <3>3
      <4>2. QED
        BY <1>8, <3>1, <3>3, <4>1
    <3>4. QED
      BY <3>2, <3>3
  <2>2. QED
    BY <1>4, <2>1 DEF OutHolds
<1>10. ReturnTypeOK'
  <2>1. xOut' \in [Ranks -> [Tokens -> [Units -> SUBSET Results]]]
    <3>1. xOut \in [Ranks -> [Tokens -> [Units -> SUBSET Results]]]
      BY <1>1 DEF ReturnTypeOK
    <3>2. ASSUME NEW t \in Tokens
          PROVE  xOut'[r][t] \in [Units -> SUBSET Results]
      <4>1. PICK writes : xOut'[r][t] = After(xOut[r][t], writes)
        BY <3>1 DEF Gather
      <4>2. xOut'[r][t] = [u \in Units |-> xOut'[r][t][u]]
        BY <3>1, <4>1 DEF After
      <4>3. \A u \in Units : xOut'[r][t][u] \in SUBSET Results
        <5>1. FinalSum(r, t) \in SUBSET Results
          BY <1>1, FinalSumType
        <5>2. \A u \in Units : xOut[r][t][u] \in SUBSET Results
          BY <3>1
        <5>3. QED
          BY <1>7, <5>1, <5>2
      <4>4. QED
        BY <4>2, <4>3
    <3>3. xOut' = [xOut EXCEPT ![r] = [t \in Tokens |-> xOut'[r][t]]]
      BY <3>1 DEF Gather
    <3>4. QED
      BY <3>1, <3>2, <3>3
  <2>2. QED
    BY <1>1, <1>3, <2>1 DEF ReturnTypeOK
<1>11. Begun'
  BY <1>1, <1>4, <1>6 DEF Begun
<1>12. FlagsHold'
  BY <1>1, <1>6 DEF FlagsHold, ReturnTypeOK
<1>13. BackHolds'
  <2>1. ASSUME NEW d \in Ranks PROVE BackTo(d)' = BackTo(d)
    <3>1. BackTo(d)' = UNION {BackFrom(p[1], p[2], d) :
                                p \in {q \in Ranks \X Cores : stage'[q[1]][q[2]] # "send"}}
      BY <1>4 DEF BackTo
    <3>2. {q \in Ranks \X Cores : stage'[q[1]][q[2]] # "send"}
            = {q \in Ranks \X Cores : stage[q[1]][q[2]] # "send"}
      BY <1>6
    <3>3. QED
      BY <3>1, <3>2 DEF BackTo
  <2>2. QED
    BY <1>1, <2>1 DEF BackHolds
<1>14. ReturnAdded
  <2>1. ASSUME NEW s \in Ranks, NEW t \in Tokens, NEW u \in Units, xOut[s][t][u] # {}
        PROVE  xOut'[s][t][u] = xOut[s][t][u]
    <3>1. xOut[s][t][u] = FinalSum(s, t)
      BY <1>1, <2>1 DEF OutHolds
    <3>2. CASE s = r
      BY <1>7, <3>1, <3>2
    <3>3. CASE s # r
      BY <1>8, <3>3
    <3>4. QED
      BY <3>2, <3>3
  <2>2. QED
    BY <1>1, <2>1 DEF ReturnAdded, Adds
<1>15. QED
  BY <1>1, <1>2, <1>9, <1>10, <1>11, <1>12, <1>13, <1>14 DEF ReturnInv

LEMMA NextReturnInv ==
  ASSUME ReturnInv, [ReturnNext]_<<vars, returnVars>>
  PROVE  ReturnInv' /\ ReturnAdded /\ [Next]_vars
<1>1. IInv
  BY DEF ReturnInv
<1>2. ASSUME NEW r \in Ranks, NEW c \in Cores, Step(r, c), UNCHANGED returnVars
      PROVE  ReturnInv' /\ ReturnAdded /\ [Next]_vars
  <2>1. Next
    BY <1>2 DEF Next
  <2>2. IInv'
    BY <1>1, <2>1, NextIInv
  <2>3. expertIds' = expertIds /\ \A s \in Ranks : Done(s) => Done(s)'
    BY <1>1, <1>2, StepKeepsDone
  <2>4. QED
    BY <1>2, <2>1, <2>2, <2>3, OtherKeeps
<1>3. ASSUME NEW r \in Ranks, NEW c \in Cores, SendBack(r, c), UNCHANGED vars
      PROVE  ReturnInv' /\ ReturnAdded /\ [Next]_vars
  BY <1>3, SendBackKeeps
<1>4. ASSUME NEW r \in Ranks, NEW c \in Cores, Gather(r, c), UNCHANGED vars
      PROVE  ReturnInv' /\ ReturnAdded /\ [Next]_vars
  BY <1>4, GatherKeeps
<1>5. ASSUME UNCHANGED <<vars, returnVars>>
      PROVE  ReturnInv' /\ ReturnAdded /\ [Next]_vars
  <2>1. UNCHANGED vars /\ UNCHANGED returnVars
    BY <1>5
  <2>2. IInv'
    BY <1>1, <2>1, Idle
  <2>3. expertIds' = expertIds /\ \A s \in Ranks : Done(s) => Done(s)'
    BY <2>1 DEF vars, inputs, Done, AllPast
  <2>4. QED
    BY <2>1, <2>2, <2>3, OtherKeeps
<1>6. QED
  BY <1>2, <1>3, <1>4, <1>5 DEF ReturnNext, AllReturned

\* A result is back in the slot of its token and expert if and only if the core
\* that sends it has, and a unit of a token has been added up, from all of that
\* token's results, if and only if its core is done.
THEOREM ReturnInvariant == ReturnSpec => []ReturnInv
<1>1. ReturnInit => ReturnInv
  BY InitReturnInv
<1>2. ReturnInv /\ [ReturnNext]_<<vars, returnVars>> => ReturnInv'
  BY NextReturnInv
<1>3. QED
  BY <1>1, <1>2, PTL DEF ReturnSpec

\* The round trip is dispatch with what follows: what is proved of MoeLayout
\* holds of it.
THEOREM ReturnIsLayout == ReturnSpec => Spec
<1>1. ReturnInit => Init
  BY DEF ReturnInit
<1>2. ReturnInv /\ [ReturnNext]_<<vars, returnVars>> => [Next]_vars
  BY NextReturnInv
<1>3. QED
  BY <1>1, <1>2, ReturnInvariant, PTL DEF ReturnSpec, Spec

-------------------------------------------------------------------------------
(* What the two kernels are for.                                               *)

\* A sum has one result for each choice, and one of a shared expert.
LEMMA FinalSumSize ==
  ASSUME expertIds \in [Ranks -> Assignments], NEW r \in Ranks, NEW t \in Tokens
  PROVE  Cardinality(FinalSum(r, t)) = K + (IF Shared > 0 THEN 1 ELSE 0)
<1>1. K \in Nat \ {0} /\ Shared \in Nat
  BY Sizes
<1> DEFINE chosen == {<<<<r, t>>, expertIds[r][t * K + k] + Shared>> : k \in 0 .. K - 1}
           f == [k \in 0 .. K - 1 |-> <<<<r, t>>, expertIds[r][t * K + k] + Shared>>]
<1>2. ASSUME NEW k \in 0 .. K - 1, NEW j \in 0 .. K - 1, f[k] = f[j] PROVE k = j
  <2>1. PICK x \in Picks, y \in Picks : /\ x = t * K + k /\ y = t * K + j
                                        /\ x \div K = t /\ y \div K = t
    BY PicksOfToken
  <2>2. expertIds[r][x] = expertIds[r][y]
    <3>1. expertIds[r][x] + Shared = expertIds[r][y] + Shared
      BY <1>2, <2>1
    <3>2. expertIds[r][x] \in Nat /\ expertIds[r][y] \in Nat
      BY ChoiceAt
    <3>3. QED
      BY <1>1, <3>1, <3>2
  <2>3. x = y
    <3>1. expertIds[r] \in Assignments
      OBVIOUS
    <3>2. QED
      BY <2>1, <2>2, <3>1 DEF Assignments
  <2>4. t * K \in Int
    BY <1>1, Sizes DEF Tokens
  <2>5. QED
    BY <2>1, <2>3, <2>4
<1>3. IsFiniteSet(0 .. K - 1) /\ Cardinality(0 .. K - 1) = K
  BY <1>1, Below
<1>4. Cardinality(chosen) = K /\ IsFiniteSet(chosen)
  <2>1. \A k \in 0 .. K - 1 : f[k] \in chosen
    OBVIOUS
  <2>2. \A v \in chosen : \E k \in 0 .. K - 1 : f[k] = v
    OBVIOUS
  <2> HIDE DEF f, chosen
  <2>3. QED
    BY <1>2, <1>3, <2>1, <2>2, AsMany
<1>5. CASE Shared > 0
  <2>1. SharedFor(r, t) < Shared /\ SharedFor(r, t) \in Nat
    BY <1>5, SharedTurnIs, Inboxes
  <2>2. <<<<r, t>>, SharedFor(r, t)>> \notin chosen
    <3>1. SUFFICES ASSUME NEW k \in 0 .. K - 1
                   PROVE  SharedFor(r, t) # expertIds[r][t * K + k] + Shared
      OBVIOUS
    <3>2. PICK x \in Picks : x = t * K + k
      BY PicksOfToken
    <3>3. expertIds[r][x] \in Nat
      BY ChoiceAt
    <3>4. QED
      BY <1>1, <2>1, <3>2, <3>3
  <2>3. FinalSum(r, t) = chosen \cup {<<<<r, t>>, SharedFor(r, t)>>}
    BY <1>5 DEF FinalSum
  <2> HIDE DEF chosen
  <2>4. Cardinality(chosen \cup {<<<<r, t>>, SharedFor(r, t)>>}) = K + 1
    BY <1>4, <2>2, FS_AddElement
  <2>5. QED
    BY <1>5, <2>3, <2>4
<1>6. CASE ~(Shared > 0)
  <2>1. FinalSum(r, t) = chosen
    BY <1>6 DEF FinalSum
  <2>2. QED
    BY <1>1, <1>4, <1>6, <2>1
<1>7. QED
  BY <1>5, <1>6

\* What dispatch and combine are for: a core that is done has added up, in every
\* unit it has a share of, the results of that very token by each expert it was
\* routed to and by one shared expert, each once and nothing else.
THEOREM ResultsAllReturn == ReturnSpec => []ResultsReturn
<1>1. ASSUME ReturnInv PROVE ResultsReturn
  <2>1. expertIds \in [Ranks -> Assignments] /\ OutHolds /\ Shared \in Nat
    BY <1>1, Sizes DEF ReturnInv, IInv, TypeOK
  <2>2. SUFFICES ASSUME NEW r \in Ranks, NEW c \in Cores, stage[r][c] = "done",
                        NEW p \in OutShare(c)
                 PROVE  LET sum == xOut[r][p[1]][p[2]]
                            chosen == {Shared + expertIds[r][i] :
                                         i \in {j \in Picks : j \div K = p[1]}}
                            by == {q[2] : q \in sum}
                        IN /\ sum \subseteq {<<r, p[1]>>} \X Experts
                           /\ chosen = by \ (0 .. Shared - 1)
                           /\ Cardinality(sum) = K + (IF Shared > 0 THEN 1 ELSE 0)
    BY DEF ResultsReturn
  <2>3. PICK t \in Tokens, u \in Units : p[1] = t /\ p[2] = u /\ <<t, u>> \in OutShare(c)
    <3>1. p[1] \in Tokens /\ p[2] \in Units /\ p = <<p[1], p[2]>>
      BY DEF OutShare, RowShare, Slice, PartOf, Tokens, Units
    <3>2. QED
      BY <3>1
  <2>4. xOut[r][p[1]][p[2]] = FinalSum(r, t)
    BY <2>1, <2>2, <2>3 DEF OutHolds
  <2>5. ASSUME NEW v \in FinalSum(r, t)
        PROVE  /\ v[1] = <<r, t>> /\ v[2] \in Experts
               /\ \/ \E k \in 0 .. K - 1 : v[2] = expertIds[r][t * K + k] + Shared
                  \/ v[2] < Shared /\ v[2] \in Nat
               /\ v = <<v[1], v[2]>>
    <3>1. v \in Results
      BY <2>1, <2>5, FinalSumType
    <3>2. v[2] \in Experts /\ v = <<v[1], v[2]>>
      BY <3>1 DEF Results
    <3>3. CASE \E k \in 0 .. K - 1 : v = <<<<r, t>>, expertIds[r][t * K + k] + Shared>>
      BY <3>2, <3>3
    <3>4. CASE Shared > 0 /\ v = <<<<r, t>>, SharedFor(r, t)>>
      <4>1. SharedFor(r, t) < Shared /\ SharedFor(r, t) \in Nat
        BY <3>4, SharedTurnIs, Inboxes
      <4>2. QED
        BY <3>2, <3>4, <4>1
    <3>5. QED
      BY <2>5, <3>3, <3>4 DEF FinalSum
  <2>6. FinalSum(r, t) \subseteq {<<r, t>>} \X Experts
    BY <2>5
  <2> DEFINE chosen == {Shared + expertIds[r][i] : i \in {j \in Picks : j \div K = t}}
             by == {q[2] : q \in FinalSum(r, t)}
  <2>7. ASSUME NEW k \in 0 .. K - 1, NEW e, e = expertIds[r][t * K + k] + Shared
        PROVE  e \in chosen /\ e \notin 0 .. Shared - 1
    <3>1. PICK i \in Picks : i = t * K + k /\ i \div K = t
      BY PicksOfToken
    <3>2. expertIds[r][i] \in Nat
      BY <2>1, ChoiceAt
    <3>3. e = Shared + expertIds[r][i]
      BY <2>1, <2>7, <3>1, <3>2
    <3>4. e \in chosen
      BY <3>1, <3>3
    <3>5. QED
      BY <2>1, <3>2, <3>3, <3>4
  <2>8. ASSUME NEW e \in chosen PROVE e \in by \ (0 .. Shared - 1)
    <3>1. PICK i \in Picks : i \div K = t /\ e = Shared + expertIds[r][i]
      OBVIOUS
    <3>2. PICK k \in 0 .. K - 1 : i = t * K + k
      BY <3>1, PicksOfToken
    <3>3. expertIds[r][i] \in Nat
      BY <2>1, ChoiceAt
    <3>4. e = expertIds[r][t * K + k] + Shared
      BY <2>1, <3>1, <3>2, <3>3
    <3>5. <<<<r, t>>, e>> \in FinalSum(r, t)
      BY <3>4 DEF FinalSum
    <3>6. e \in by
      BY <3>5
    <3>7. QED
      BY <2>7, <3>4, <3>6
  <2>9. ASSUME NEW e \in by, e \notin 0 .. Shared - 1 PROVE e \in chosen
    <3>1. PICK v \in FinalSum(r, t) : e = v[2]
      OBVIOUS
    <3>2. \E k \in 0 .. K - 1 : e = expertIds[r][t * K + k] + Shared
      BY <2>1, <2>5, <2>9, <3>1
    <3>3. QED
      BY <2>7, <3>2
  <2>10. chosen = by \ (0 .. Shared - 1)
    BY <2>8, <2>9
  <2>11. Cardinality(FinalSum(r, t)) = K + (IF Shared > 0 THEN 1 ELSE 0)
    BY <2>1, FinalSumSize
  <2>12. QED
    BY <2>3, <2>4, <2>6, <2>10, <2>11
<1>2. QED
  BY <1>1, ReturnInvariant, PTL

\* A rank whose cores are done has left no unit of its output out.
OutWhole ==
  \A r \in Ranks : (\A c \in Cores : stage[r][c] = "done") =>
    \A t \in Tokens, u \in Units : xOut[r][t][u] # {}

\* Results that have come are not written over, nor units that have been added
\* up, whatever core of whatever rank writes; and when the cores of a rank are
\* done no unit of its output is left, also if a token's row was divided.
THEOREM ResultsReturnOnce == ReturnSpec => ReturnedOnce
<1>1. ReturnInv => OutWhole
  <2>1. SUFFICES ASSUME ReturnInv, NEW r \in Ranks, \A c \in Cores : stage[r][c] = "done",
                        NEW t \in Tokens, NEW u \in Units
                 PROVE  xOut[r][t][u] # {}
    BY DEF OutWhole
  <2>2. expertIds \in [Ranks -> Assignments] /\ OutHolds
    BY <2>1 DEF ReturnInv, IInv, TypeOK
  <2>3. \E c \in Cores : <<t, u>> \in OutShare(c)
    <3>1. /\ BS \in Nat \ {0} /\ C \in Nat \ {0} /\ H \in Nat
          /\ t \in 0 .. BS - 1 /\ u \in 0 .. H - 1
      BY Sizes, ReturnAssumption DEF Tokens, Units
    <3>2. \E c \in 0 .. C - 1 : <<t, u>> \in RowShare(BS, C, H, c)
      BY <3>1, RowSharesTile
    <3>3. QED
      BY <3>2 DEF OutShare, Cores
  <2>4. xOut[r][t][u] = FinalSum(r, t)
    BY <2>1, <2>2, <2>3 DEF OutHolds
  <2>5. QED
    BY <2>2, <2>4, FinalSumType
<1>2. ReturnInv /\ OutWhole' /\ [ReturnNext]_<<vars, returnVars>> =>
        [\A r \in Ranks :
           /\ \A a \in Slots :
                returned[r][a] # Nothing => returned'[r][a] = returned[r][a]
           /\ \A t \in Tokens, u \in Units :
                xOut[r][t][u] # {} => xOut'[r][t][u] = xOut[r][t][u]
           /\ (\A c \in Cores : stage'[r][c] = "done") =>
                \A t \in Tokens, u \in Units : xOut'[r][t][u] # {}]_<<vars, returnVars>>
  BY NextReturnInv DEF ReturnAdded, Adds, OutWhole
<1>3. QED
  BY <1>1, <1>2, ReturnInvariant, PTL DEF ReturnSpec, ReturnedOnce

=============================================================================
