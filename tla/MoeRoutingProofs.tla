---------------------------- MODULE MoeRoutingProofs ----------------------------
(***************************************************************************)
(* SplitToCore divides the items among the cores: every item belongs to    *)
(* exactly one core.  And the addresses of moe_distribute_dispatch.h keep  *)
(* senders apart: every pair of a sender and an expert has a status word   *)
(* and a region of the expert's rank to itself, and the receiver finds the *)
(* region of a word where the sender put it.                               *)
(***************************************************************************)
EXTENDS MoeRouting, TLAPS

\* Integer division, for the provers.
LEMMA DivMod ==
  ASSUME NEW a \in Int, NEW n \in Nat \ {0}
  PROVE  /\ a \div n \in Int /\ a % n \in 0 .. n - 1
         /\ a = n * (a \div n) + (a % n)
BY SMT

LEMMA MulMono ==
  ASSUME NEW a \in Int, NEW b \in Int, NEW n \in Nat, a <= b
  PROVE  n * a <= n * b
BY SMT

LEMMA MulSucc ==
  ASSUME NEW a \in Int, NEW n \in Int
  PROVE  n * (a + 1) = n * a + n /\ (n + 1) * a = n * a + a
BY SMT

LEMMA DivNat ==
  ASSUME NEW a \in Nat, NEW n \in Nat \ {0}
  PROVE  a \div n \in Nat
<1>1. a \div n \in Int /\ a % n \in 0 .. n - 1 /\ a = n * (a \div n) + (a % n)
  BY DivMod
<1>2. CASE a \div n < 0
  <2>1. a \div n <= -1
    BY <1>1, <1>2
  <2>2. n * (a \div n) <= n * (-1)
    BY <1>1, <2>1, MulMono
  <2>3. QED
    BY <1>1, <2>2
<1>3. QED
  BY <1>1, <1>2

\* A slice begins where the one before it ends.
LEMMA SliceChain ==
  ASSUME NEW total \in Nat, NEW cores \in Nat \ {0}, NEW i \in Nat
  PROVE  /\ SliceStart(total, cores, i) \in Nat
         /\ SliceSize(total, cores, i) \in Nat
         /\ SliceStart(total, cores, i + 1)
              = SliceStart(total, cores, i) + SliceSize(total, cores, i)
<1> DEFINE q == total \div cores
           x == total % cores
<1>1. q \in Nat /\ x \in Nat
  BY DivNat, DivMod
<1>2. q * (i + 1) = q * i + q /\ q * i \in Nat
  BY <1>1, MulSucc
<1>3. QED
  BY <1>1, <1>2 DEF SliceStart, SliceSize

\* Slices of later cores start later.
LEMMA SliceOrder ==
  ASSUME NEW total \in Nat, NEW cores \in Nat \ {0},
         NEW i \in Nat, NEW j \in Nat, i <= j
  PROVE  SliceStart(total, cores, i) <= SliceStart(total, cores, j)
<1> DEFINE q == total \div cores
           x == total % cores
<1>1. q \in Nat /\ x \in Nat
  BY DivNat, DivMod
<1>2. q * i <= q * j /\ q * i \in Nat /\ q * j \in Nat
  BY <1>1, MulMono
<1>3. QED
  BY <1>1, <1>2 DEF SliceStart

\* No item belongs to two cores.
LEMMA SliceDisjoint ==
  ASSUME NEW total \in Nat, NEW cores \in Nat \ {0},
         NEW i \in 0 .. cores - 1, NEW j \in 0 .. cores - 1,
         NEW k \in Slice(total, cores, i), k \in Slice(total, cores, j)
  PROVE  i = j
<1>1. ASSUME NEW a \in Nat, NEW b \in Nat, a < b,
             k \in Slice(total, cores, a), k \in Slice(total, cores, b)
      PROVE  FALSE
  <2>1. SliceStart(total, cores, a + 1) <= SliceStart(total, cores, b)
    BY <1>1, SliceOrder
  <2>2. k < SliceStart(total, cores, a + 1)
    BY <1>1, SliceChain DEF Slice
  <2>3. SliceStart(total, cores, b) <= k /\ k \in Int
    BY <1>1 DEF Slice
  <2>4. /\ SliceStart(total, cores, a + 1) \in Nat
        /\ SliceStart(total, cores, b) \in Nat
    BY <1>1, SliceChain
  <2>5. QED
    BY <2>1, <2>2, <2>3, <2>4
<1>2. i \in Nat /\ j \in Nat
  OBVIOUS
<1>3. QED
  BY <1>1, <1>2

\* Quotient and remainder, without the operators the provers find hard.
LEMMA Divide ==
  ASSUME NEW a \in Nat, NEW n \in Nat \ {0}
  PROVE  \E q \in Nat, x \in Nat : x < n /\ a = n * q + x
<1>1. a \div n \in Nat
  BY DivNat
<1>2. a % n \in 0 .. n - 1 /\ a = n * (a \div n) + (a % n)
  BY DivMod
<1>3. a % n \in Nat /\ a % n < n
  BY <1>2
<1>4. WITNESS a \div n \in Nat, a % n \in Nat
<1>5. QED
  BY <1>2, <1>3

\* The item k, found from the front among the longer slices and from their end
\* among the others.
LEMMA Locate ==
  ASSUME NEW q \in Nat, NEW x \in Nat, NEW cores \in Nat \ {0}, x < cores,
         NEW k \in Nat, k < cores * q + x
  PROVE  \E i \in 0 .. cores - 1 :
           /\ q * i + (IF i < x THEN i ELSE x) <= k
           /\ k < q * i + (IF i < x THEN i ELSE x) + q + (IF i < x THEN 1 ELSE 0)
<1>1. (q + 1) * x = q * x + x /\ q * x \in Nat
  BY MulSucc
<1>2. CASE k < q * x + x
  <2>1. PICK j \in Nat, m \in Nat : m < q + 1 /\ k = (q + 1) * j + m
    <3>1. q + 1 \in Nat \ {0}
      OBVIOUS
    <3>2. QED
      BY <3>1, Divide, Zenon
  <2>2. (q + 1) * j = q * j + j /\ q * j \in Nat
    BY MulSucc
  <2>3. ASSUME x <= j PROVE FALSE
    <3>1. (q + 1) * x <= (q + 1) * j
      BY <2>3, MulMono
    <3>2. QED
      BY <1>1, <1>2, <2>1, <2>2, <3>1
  <2>4. j < x
    BY <2>3
  <2>5. q * j + j <= k /\ k < q * j + j + q + 1
    BY <2>1, <2>2
  <2>6. QED
    BY <2>4, <2>5
<1>3. CASE q * x + x <= k
  <2>1. PICK o \in Nat : k = q * x + x + o
    <3>1. k - (q * x + x) \in Nat
      BY <1>1, <1>3
    <3>2. k = q * x + x + (k - (q * x + x))
      BY <1>1
    <3>3. QED
      BY <3>1, <3>2
  <2>2. q # 0
    <3>1. ASSUME q = 0 PROVE FALSE
      BY <1>3, <3>1
    <3>2. QED
      BY <3>1
  <2>3. PICK p \in Nat, m \in Nat : m < q /\ o = q * p + m
    <3>1. q \in Nat \ {0}
      BY <2>2
    <3>2. QED
      BY <3>1, Divide, Zenon
  <2>4. q * (x + p) = q * x + q * p /\ q * p \in Nat
    OBVIOUS
  <2>5. ASSUME cores <= x + p PROVE FALSE
    <3>1. q * cores <= q * (x + p)
      BY <2>5, MulMono
    <3>2. q * cores = cores * q /\ q * cores \in Nat
      OBVIOUS
    <3>3. QED
      BY <1>1, <2>1, <2>3, <2>4, <3>1, <3>2
  <2>6. x + p \in 0 .. cores - 1
    BY <2>5
  <2>7. q * (x + p) + x <= k /\ k < q * (x + p) + x + q
    BY <1>1, <2>1, <2>3, <2>4
  <2>8. QED
    BY <2>6, <2>7
<1>4. QED
  BY <1>1, <1>2, <1>3

\* Every item belongs to a core.
LEMMA SliceCover ==
  ASSUME NEW total \in Nat, NEW cores \in Nat \ {0}, NEW k \in 0 .. total - 1
  PROVE  \E i \in 0 .. cores - 1 : k \in Slice(total, cores, i)
<1>1. /\ total \div cores \in Nat
      /\ total % cores \in 0 .. cores - 1
      /\ total = cores * (total \div cores) + (total % cores)
  <2>1. total \in Int
    OBVIOUS
  <2>2. QED
    BY <2>1, DivNat, DivMod, Zenon
<1>2. ASSUME NEW q \in Nat, NEW x \in 0 .. cores - 1,
             q = total \div cores, x = total % cores
      PROVE  \E i \in 0 .. cores - 1 : k \in Slice(total, cores, i)
  <2>1. k \in Nat /\ k < cores * q + x
    BY <1>1, <1>2
  <2>2. PICK i \in 0 .. cores - 1 :
           /\ q * i + (IF i < x THEN i ELSE x) <= k
           /\ k < q * i + (IF i < x THEN i ELSE x) + q + (IF i < x THEN 1 ELSE 0)
    <3>1. x \in Nat /\ x < cores
      OBVIOUS
    <3>2. QED
      BY <2>1, <3>1, Locate, Zenon
  <2>3. SliceStart(total, cores, i) = q * i + (IF i < x THEN i ELSE x)
    BY <1>2 DEF SliceStart
  <2>4. SliceSize(total, cores, i) = q + (IF i < x THEN 1 ELSE 0)
    BY <1>2 DEF SliceSize
  <2>5. q * i \in Nat
    OBVIOUS
  <2>6. QED
    BY <2>2, <2>3, <2>4, <2>5 DEF Slice
<1>3. QED
  BY <1>1, <1>2

-------------------------------------------------------------------------------
(* The rows of combine.                                                        *)

\* A quotient and a remainder in range are those of the division.
LEMMA DivUnique ==
  ASSUME NEW n \in Nat \ {0}, NEW q \in Nat, NEW x \in 0 .. n - 1
  PROVE  (n * q + x) \div n = q /\ (n * q + x) % n = x
<1> DEFINE a == n * q + x
<1>1. a \in Int
  OBVIOUS
<1>2. a \div n \in Int /\ a % n \in 0 .. n - 1 /\ a = n * (a \div n) + (a % n)
  BY <1>1, DivMod
<1>3. ASSUME NEW d \in Int, NEW m \in 0 .. n - 1, n * q + x = n * d + m
      PROVE  d = q /\ m = x
  <2>1. ASSUME d >= q + 1 PROVE FALSE
    <3>1. n * (q + 1) <= n * d /\ n * (q + 1) = n * q + n
      BY <2>1, MulMono, MulSucc
    <3>2. n * q \in Int /\ n * d \in Int
      OBVIOUS
    <3>3. QED
      BY <1>3, <3>1, <3>2
  <2>2. ASSUME q >= d + 1 PROVE FALSE
    <3>1. n * (d + 1) <= n * q /\ n * (d + 1) = n * d + n
      BY <2>2, MulMono, MulSucc
    <3>2. n * q \in Int /\ n * d \in Int
      OBVIOUS
    <3>3. QED
      BY <1>3, <3>1, <3>2
  <2>3. d = q
    BY <2>1, <2>2
  <2>4. QED
    BY <1>3, <2>3
<1> HIDE DEF a
<1>4. a = n * q + x
  BY DEF a
<1>5. QED
  BY <1>2, <1>3, <1>4

\* Two parts of a row have no unit in common.
LEMMA PartDisjoint ==
  ASSUME NEW units \in Nat, NEW parts \in Nat \ {0},
         NEW p \in 0 .. parts - 1, NEW q \in 0 .. parts - 1,
         NEW u \in PartOf(units, parts, p), u \in PartOf(units, parts, q)
  PROVE  p = q
<1> DEFINE len == units \div parts
<1>1. len \in Nat
  BY DivNat
<1>2. ASSUME NEW a \in 0 .. parts - 1, NEW b \in 0 .. parts - 1, a < b,
             u \in PartOf(units, parts, a), u \in PartOf(units, parts, b)
      PROVE  FALSE
  <2>1. u \in Int /\ u < (a + 1) * len /\ b * len <= u
    BY <1>2 DEF PartOf
  <2>2. len * (a + 1) <= len * b
    BY <1>1, <1>2, MulMono
  <2>3. (a + 1) * len = len * (a + 1) /\ b * len = len * b
        /\ len * (a + 1) \in Int /\ len * b \in Int
    BY <1>1, SMT
  <2>4. QED
    BY <2>1, <2>2, <2>3
<1>3. QED
  BY <1>2

\* Every unit is in a part: in one of full length, or in the last.
LEMMA PartCover ==
  ASSUME NEW units \in Nat, NEW parts \in Nat \ {0}, NEW u \in 0 .. units - 1
  PROVE  \E p \in 0 .. parts - 1 : u \in PartOf(units, parts, p)
<1> DEFINE len == units \div parts
<1>1. len \in Nat
  BY DivNat
<1>2. CASE (parts - 1) * len <= u
  BY <1>2 DEF PartOf
<1>3. CASE u < (parts - 1) * len
  <2>1. len # 0
    BY <1>3
  <2>2. PICK a \in Nat, m \in 0 .. len - 1 : u = len * a + m
    <3>1. len \in Nat \ {0} /\ u \in Nat
      BY <1>1, <2>1
    <3> HIDE DEF len
    <3>2. PICK q \in Nat, x \in Nat : x < len /\ u = len * q + x
      BY <3>1, Divide, ZenonT(30)
    <3>3. x \in 0 .. len - 1
      BY <3>1, <3>2
    <3>4. QED
      BY <3>2, <3>3
  <2>3. ASSUME parts - 1 <= a PROVE FALSE
    <3>1. len * (parts - 1) <= len * a
      BY <1>1, <2>3, MulMono
    <3>2. (parts - 1) * len = len * (parts - 1)
          /\ len * (parts - 1) \in Int /\ len * a \in Int
      BY <1>1, SMT
    <3>3. QED
      BY <1>3, <2>2, <3>1, <3>2
  <2>4. a * len <= u /\ u < (a + 1) * len
    <3>1. a * len = len * a /\ (a + 1) * len = a * len + len /\ len * a \in Int
      BY <1>1, MulSucc, SMT
    <3>2. QED
      BY <1>1, <2>2, <3>1
  <2>5. a \in 0 .. parts - 1 /\ a < parts - 1
    BY <2>3
  <2>6. QED
    BY <2>4, <2>5 DEF PartOf
<1>4. QED
  <2>1. (parts - 1) * len \in Int /\ u \in Int
    BY <1>1
  <2>2. QED
    BY <1>2, <1>3, <2>1

\* The cores of combine add up every unit of every token, and no two of them the same,
\* for any number of tokens and cores, more cores than tokens included.
THEOREM RowSharesTile ==
  ASSUME NEW total \in Nat \ {0}, NEW cores \in Nat \ {0}, NEW units \in Nat,
         NEW t \in 0 .. total - 1, NEW u \in 0 .. units - 1
  PROVE  /\ \E i \in 0 .. cores - 1 : <<t, u>> \in RowShare(total, cores, units, i)
         /\ \A i, j \in 0 .. cores - 1 :
              /\ <<t, u>> \in RowShare(total, cores, units, i)
              /\ <<t, u>> \in RowShare(total, cores, units, j)
              => i = j
<1>1. CASE total < cores
  <2> DEFINE parts == cores \div total
  <2>1. parts \in Nat \ {0} /\ parts * total <= cores
    <3>1. cores \in Int /\ parts \in Nat
      BY DivNat
    <3>2. cores % total \in 0 .. total - 1 /\ cores = total * parts + (cores % total)
      BY <3>1, DivMod
    <3>3. parts # 0
      BY <1>1, <3>1, <3>2
    <3>4. total * parts = parts * total /\ total * parts \in Int
      BY <3>1
    <3>5. QED
      BY <3>1, <3>2, <3>3, <3>4
  <2>2. \A i : <<t, u>> \in RowShare(total, cores, units, i)
              <=> t = i \div parts /\ u \in PartOf(units, parts, i % parts)
    BY <1>1 DEF RowShare
  <2> HIDE DEF parts
  <2>3. \E i \in 0 .. cores - 1 : <<t, u>> \in RowShare(total, cores, units, i)
    <3>1. PICK p \in 0 .. parts - 1 : u \in PartOf(units, parts, p)
      BY <2>1, PartCover
    <3>2. (parts * t + p) \div parts = t /\ (parts * t + p) % parts = p
      BY <2>1, DivUnique
    <3>3. parts * t + p \in 0 .. cores - 1
      <4>1. parts * (t + 1) <= parts * total /\ parts * (t + 1) = parts * t + parts
        BY <2>1, MulMono, MulSucc
      <4>2. parts * t \in Nat /\ parts * total \in Nat
        BY <2>1
      <4>3. QED
        BY <2>1, <4>1, <4>2
    <3>4. QED
      BY <2>2, <3>1, <3>2, <3>3
  <2>4. ASSUME NEW i \in 0 .. cores - 1, NEW j \in 0 .. cores - 1,
               <<t, u>> \in RowShare(total, cores, units, i),
               <<t, u>> \in RowShare(total, cores, units, j)
        PROVE  i = j
    <3>1. i \div parts = j \div parts
      BY <2>2, <2>4
    <3>2. /\ i % parts \in 0 .. parts - 1 /\ i = parts * (i \div parts) + (i % parts)
          /\ j % parts \in 0 .. parts - 1 /\ j = parts * (j \div parts) + (j % parts)
      BY <2>1, DivMod
    <3>3. i % parts = j % parts
      BY <2>1, <2>2, <2>4, <3>2, PartDisjoint
    <3>4. QED
      BY <3>1, <3>2, <3>3
  <2>5. QED
    BY <2>3, <2>4
<1>2. CASE ~ (total < cores)
  <2>1. \A i : <<t, u>> \in RowShare(total, cores, units, i) <=> t \in Slice(total, cores, i)
    BY <1>2 DEF RowShare
  <2>2. \E i \in 0 .. cores - 1 : t \in Slice(total, cores, i)
    BY SliceCover
  <2>3. \A i, j \in 0 .. cores - 1 :
          t \in Slice(total, cores, i) /\ t \in Slice(total, cores, j) => i = j
    BY SliceDisjoint
  <2>4. QED
    BY <2>1, <2>2, <2>3
<1>3. QED
  BY <1>1, <1>2

-------------------------------------------------------------------------------
(* The addresses.                                                              *)

\* What the attributes of the operator are.
Routable == /\ R \in Nat \ {0} /\ M \in Nat \ {0}
            /\ Shared \in Nat /\ Shared < R

\* A number below n and a multiple of n are told apart by division.
LEMMA Digits ==
  ASSUME NEW n \in Nat \ {0}, NEW low \in 0 .. n - 1, NEW high \in Nat
  PROVE  (low + high * n) \div n = high /\ (low + high * n) % n = low
<1> DEFINE a == low + high * n
<1>1. a \in Int /\ high * n = n * high /\ n * high \in Int
  BY SMT
<1>2. /\ a \div n \in Int /\ a % n \in 0 .. n - 1
      /\ a = n * (a \div n) + (a % n)
  BY <1>1, DivMod
<1>3. ASSUME a \div n < high PROVE FALSE
  <2>1. n * (a \div n + 1) <= n * high
    BY <1>2, <1>3, MulMono
  <2>2. n * (a \div n + 1) = n * (a \div n) + n
    BY <1>2, MulSucc
  <2>3. QED
    BY <1>1, <1>2, <2>1, <2>2
<1>4. ASSUME a \div n > high PROVE FALSE
  <2>1. n * (high + 1) <= n * (a \div n)
    BY <1>2, <1>4, MulMono
  <2>2. n * (high + 1) = n * high + n
    BY MulSucc
  <2>3. QED
    BY <1>1, <1>2, <2>1, <2>2
<1>5. a \div n = high
  BY <1>2, <1>3, <1>4
<1>6. QED
  BY <1>1, <1>2, <1>5

\* The region of a word is the one the sender computes for the expert: the
\* receiver's index % R * M + index / R undoes the order of the words.
THEOREM RegionOfWord ==
  ASSUME Routable, NEW s \in Ranks, NEW e \in Experts
  PROVE  Region(Home(e), StatusIndex(<<s, e>>))
           = IF e < Shared THEN s ELSE s * M + ((e - Shared) % M)
<1>1. CASE e < Shared
  BY <1>1 DEF Region, Home, StatusIndex, Routable, Experts
<1>2. CASE ~(e < Shared)
  <2> DEFINE x == e - Shared
             m == (x % M)
  <2>1. x \in Nat /\ M \in Nat \ {0} /\ R \in Nat \ {0} /\ e \in Int
    BY <1>2 DEF Routable, Experts
  <2>2. m \in 0 .. M - 1 /\ m \in Nat /\ x \div M \in Nat
    BY <2>1, DivMod, DivNat
  <2>3. ~(Home(e) < Shared)
    BY <1>2, <2>1, <2>2 DEF Home, Routable
  <2>4. StatusIndex(<<s, e>>) = s + m * R
    BY <1>2 DEF StatusIndex
  <2>5. (s + m * R) \div R = m /\ (s + m * R) % R = s
    BY <2>1, <2>2, Digits DEF Ranks
  <2>6. QED
    BY <1>2, <2>3, <2>4, <2>5 DEF Region
<1>3. QED
  BY <1>1, <1>2

\* Two pairs that meet on a rank have different words and different regions:
\* no sender overwrites another's count or tokens.
THEOREM WordsApart ==
  ASSUME Routable, NEW s \in Ranks, NEW t \in Ranks,
         NEW e \in Experts, NEW f \in Experts,
         Home(e) = Home(f), <<s, e>> # <<t, f>>
  PROVE  /\ StatusIndex(<<s, e>>) # StatusIndex(<<t, f>>)
         /\ Region(Home(e), StatusIndex(<<s, e>>))
              # Region(Home(f), StatusIndex(<<t, f>>))
<1> DEFINE region(r, x) == Region(Home(x), StatusIndex(<<r, x>>))
<1>1. R \in Nat \ {0} /\ M \in Nat \ {0} /\ Shared \in Nat /\ e \in Int /\ f \in Int
      /\ s \in Int /\ t \in Int /\ e >= 0 /\ f >= 0
  BY DEF Routable, Experts, Ranks
<1>2. SUFFICES region(s, e) # region(t, f)
  BY Zenon
<1>3. CASE e < Shared
  <2>1. f < Shared
    <3>1. SUFFICES ASSUME ~(f < Shared) PROVE FALSE
      OBVIOUS
    <3>2. (f - Shared) \div M \in Nat
      BY <1>1, <3>1, DivNat
    <3>3. QED
      BY <1>1, <1>3, <3>1, <3>2 DEF Home
  <2>2. e = f
    BY <1>3, <2>1 DEF Home
  <2>3. region(s, e) = s /\ region(t, f) = t
    BY <1>3, <2>1, RegionOfWord
  <2>4. QED
    BY <2>2, <2>3
<1>4. CASE ~(e < Shared)
  <2>1. PICK x \in Nat : x = e - Shared
    BY <1>1, <1>4
  <2>2. x \div M \in Nat /\ Home(e) = x \div M + Shared
    BY <1>1, <1>4, <2>1, DivNat DEF Home
  <2>3. ~(f < Shared)
    BY <1>1, <2>2 DEF Home
  <2>4. PICK y \in Nat : y = f - Shared
    BY <1>1, <2>3
  <2>5. y \div M \in Nat /\ Home(f) = y \div M + Shared
    BY <1>1, <2>3, <2>4, DivNat DEF Home
  <2>6. x \div M = y \div M
    <3>1. PICK a \in Nat, b \in Nat : a = x \div M /\ b = y \div M
      BY <2>2, <2>5
    <3>2. a + Shared = b + Shared
      BY <2>2, <2>5, <3>1, Zenon
    <3>3. QED
      BY <1>1, <3>1, <3>2
  <2>7. /\ (x % M) \in 0 .. M - 1 /\ x = M * (x \div M) + (x % M)
        /\ (y % M) \in 0 .. M - 1 /\ y = M * (y \div M) + (y % M)
    <3>1. x \in Int /\ y \in Int /\ M \in Nat \ {0}
      BY <1>1
    <3>2. QED
      BY <3>1, DivMod, Zenon
  <2>8. PICK m \in 0 .. M - 1, n \in 0 .. M - 1 : m = x % M /\ n = y % M
    BY <2>7
  <2>9. region(s, e) = s * M + m /\ region(t, f) = t * M + n
    BY <1>4, <2>1, <2>3, <2>4, <2>8, RegionOfWord
  <2>10. ASSUME s * M + m = t * M + n PROVE FALSE
    <3>1. s \in Nat /\ t \in Nat /\ M \in Nat \ {0}
      BY <1>1 DEF Ranks
    <3>2. (m + s * M) \div M = s /\ (m + s * M) % M = m
      BY <3>1, Digits, Zenon
    <3>3. (n + t * M) \div M = t /\ (n + t * M) % M = n
      BY <3>1, Digits, Zenon
    <3>4. m + s * M = n + t * M
      BY <1>1, <2>10
    <3>5. s = t /\ m = n
      BY <3>2, <3>3, <3>4
    <3>6. x = y
      BY <2>6, <2>7, <2>8, <3>5
    <3>7. QED
      BY <1>1, <2>1, <2>4, <3>5, <3>6
  <2>11. QED
    BY <2>9, <2>10
<1>5. QED
  BY <1>3, <1>4
===============================================================================
