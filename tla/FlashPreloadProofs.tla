------------------------- MODULE FlashPreloadProofs -------------------------
(* The preload kernel, for every number of groups, of loops in flight and of  *)
(* loops, and for every input: its flags and rings, and then its results.     *)
(*                                                                            *)
(* What a stage has done is counted by V0, V1, V2 and C1, C2.  The place of a *)
(* core bounds its own counts (lemmas VectorCounts and CubeCounts), a step    *)
(* adds one to one count (the lemmas Counts...), and the flags, which are the *)
(* differences of counts of different cores, cannot be negative.  From the    *)
(* three follows that no count is more than Preload ahead of the next, which  *)
(* is what keeps the slots of a ring apart.                                   *)
(*                                                                            *)
(* What is in the slots does not depend on how the cores interleave: a loop   *)
(* of a group is a loop of one task (TaskOfLoop), at a place of its walk      *)
(* (WalkIn), and what is noted of it and computed in it is a function of the  *)
(* input (InfoOf, AccountOf).  That every core finds these in the slots of    *)
(* the loops it has before it is the invariant DataInv.  The sums of a task   *)
(* at its last loop (Sums) then have each of its rows once.                   *)
EXTENDS FlashPreload, FiniteSetTheorems, SequenceTheorems, WellFoundedInduction, TLAPS

VectorParts == {"setup", "issue", "softmax", "retire", "flush", "sync", "combine", "done"}
CubeParts == {"setup", "mm1", "mm2", "done"}

\* Where a core may stand, given the loops of its group.
VectorPlace(p, last) ==
  /\ p \in [part : VectorParts, i : Nat, j : Slots]
  /\ p.part \in {"issue", "softmax"} => p.i + p.j < last /\ (p.i = 0 \/ p.i >= Preload)
  /\ p.part = "retire" => p.i < last /\ p.i >= Preload
  /\ p.part = "flush" => p.i + p.j < last /\ last <= p.i + Preload
CubePlace(p, last) ==
  /\ p \in [part : CubeParts, i : Nat, j : Slots]
  /\ p.part \in {"mm1", "mm2"} => p.i + p.j < last

IsRing(ring, cores) ==
  /\ DOMAIN ring = cores
  /\ \A c \in cores : DOMAIN ring[c] = Slots

PipeType ==
  /\ antiquant \in BOOLEAN
  /\ loops \in [Cubes -> Nat]
  /\ DOMAIN vec = Vectors /\ \A w \in Vectors : VectorPlace(vec[w], loops[GroupOf(w)])
  /\ DOMAIN cube = Cubes /\ \A g \in Cubes : CubePlace(cube[g], loops[g])
  /\ v0c1 \in [Vectors -> Int] /\ c1v1 \in [Vectors -> Int]
  /\ v1c2 \in [Vectors -> Int] /\ c2v2 \in [Vectors -> Int]
  /\ IsRing(vecInfo, Vectors) /\ IsRing(vec1, Vectors)
  /\ IsRing(cubeInfo, Cubes) /\ IsRing(mm1, Cubes) /\ IsRing(mm2, Cubes)

\* What the flags count, at one vector core.
FlagsAt(w) ==
  /\ v0c1[w] = IF antiquant THEN V0(w) - C1(GroupOf(w)) ELSE 0
  /\ c1v1[w] = C1(GroupOf(w)) - V1(w)
  /\ v1c2[w] = V1(w) - C2(GroupOf(w))
  /\ c2v2[w] = C2(GroupOf(w)) - V2(w)
  /\ v0c1[w] >= 0 /\ c1v1[w] >= 0 /\ v1c2[w] >= 0 /\ c2v2[w] >= 0

PipeInv == PipeType /\ (\A w \in Vectors : FlagsAt(w)) /\ OwnSlots

-----------------------------------------------------------------------------
(* Groups and slots. *)

\* Quotient and remainder, for the slots of a ring.
LEMMA Division ==
  ASSUME NEW a \in Int, NEW n \in Nat \ {0}
  PROVE  /\ a \div n \in Int /\ a % n \in 0 .. n - 1
         /\ a = n * (a \div n) + (a % n)
BY SMT

\* Every vector core belongs to the group that has it as one of its halves.
LEMMA Groups2 ==
  /\ \A w \in Vectors : GroupOf(w) \in Cubes
  /\ \A g \in Cubes, w \in Vectors : w \in Halves(g) <=> GroupOf(w) = g
  /\ \A g \in Cubes : Halves(g) \subseteq Vectors
<1>1. ASSUME NEW w \in Vectors
      PROVE  /\ w \in Int /\ 0 <= w /\ w <= 2 * Groups - 1
             /\ GroupOf(w) \in Int /\ (w = 2 * GroupOf(w) \/ w = 2 * GroupOf(w) + 1)
  BY PipeAssumption, SMT DEF Vectors, GroupOf
<1>2. ASSUME NEW w \in Vectors PROVE GroupOf(w) \in Cubes
  BY <1>1, PipeAssumption DEF Cubes
<1>3. ASSUME NEW g \in Cubes, NEW w \in Vectors
      PROVE  w \in Halves(g) <=> GroupOf(w) = g
  <2>1. w \in Halves(g) <=> w = 2 * g \/ w = 2 * g + 1
    BY DEF Halves
  <2>2. g \in Int
    BY DEF Cubes
  <2>3. QED
    BY <1>1, <2>1, <2>2
<1>4. ASSUME NEW g \in Cubes PROVE Halves(g) \subseteq Vectors
  BY PipeAssumption DEF Halves, Vectors, Cubes
<1>5. QED
  BY <1>2, <1>3, <1>4

\* Every loop has a slot.
LEMMA SlotIn == \A k \in Int : Slot(k) \in Slots
BY Division, PipeAssumption DEF Slot, Slots

\* Loops less than Preload apart have different slots.
LEMMA SlotsApart ==
  ASSUME NEW k \in Int, NEW m \in Int, k < m, m - k < Preload
  PROVE  Slot(k) # Slot(m)
<1> DEFINE x == k \div Preload
           y == m \div Preload
<1>1. Preload \in Nat \ {0}
  BY PipeAssumption
<1>2. /\ x \in Int /\ Slot(k) \in 0 .. Preload - 1 /\ k = Preload * x + Slot(k)
      /\ y \in Int /\ Slot(m) \in 0 .. Preload - 1 /\ m = Preload * y + Slot(m)
  BY <1>1, Division DEF Slot
<1>3. SUFFICES ASSUME Slot(k) = Slot(m) PROVE FALSE
  OBVIOUS
<1>4. m - k = Preload * y - Preload * x
  BY <1>1, <1>2, <1>3
<1> HIDE DEF x, y
<1>5. Preload * y - Preload * x = Preload * (y - x)
  BY <1>1, <1>2, SMT
<1>6. CASE y <= x
  <2>1. Preload * y <= Preload * x
    BY <1>1, <1>2, <1>6, SMT
  <2>2. QED
    BY <1>1, <1>2, <1>4, <2>1
<1>7. CASE y >= x + 1
  <2>1. Preload * y >= Preload * (x + 1)
    BY <1>1, <1>2, <1>7, SMT
  <2>2. Preload * (x + 1) = Preload * x + Preload
    BY <1>1, <1>2, SMT
  <2>3. QED
    BY <1>1, <1>2, <1>4, <2>1, <2>2
<1>8. QED
  BY <1>2, <1>6, <1>7

\* A ring keeps the loops it holds, and holds the next one, if there is room.
LEMMA RingWrite ==
  ASSUME NEW ring, DOMAIN ring = Slots, NEW from \in Int, NEW to \in Int, NEW x,
         Holds(ring, from, to), to + 1 - from <= Preload
  PROVE  Holds([ring EXCEPT ![Slot(to)] = Entry(to, x)], from, to + 1)
<1> DEFINE next == [ring EXCEPT ![Slot(to)] = Entry(to, x)]
<1> SUFFICES ASSUME NEW k \in from .. to PROVE next[Slot(k)].loop = k
  BY DEF Holds
<1>1. Slot(k) \in Slots /\ Slot(to) \in Slots
  BY SlotIn
<1>2. CASE k = to
  BY <1>1, <1>2 DEF Entry
<1>3. CASE k < to
  <2>1. Slot(k) # Slot(to)
    BY <1>3, SlotsApart, PipeAssumption
  <2>2. ring[Slot(k)].loop = k
    BY <1>3 DEF Holds
  <2>3. QED
    BY <1>1, <2>1, <2>2
<1>4. QED
  BY <1>2, <1>3

\* A ring that holds the loops from one on holds those after it.
LEMMA RingShrink ==
  ASSUME NEW ring, NEW from \in Int, NEW to \in Int, NEW later \in Int, from <= later,
         Holds(ring, from, to)
  PROVE  Holds(ring, later, to)
BY DEF Holds

-----------------------------------------------------------------------------
(* The counts of one core. *)

\* What the place of a vector core bounds its own counts by: V2 <= V1 <= V0, and
\* no more than Preload loops are issued and not retired.
LEMMA VectorCounts ==
  ASSUME NEW last \in Nat, NEW p, VectorPlace(p, last)
  PROVE  /\ Issued(p, last) \in 0 .. last
         /\ Softened(p, last) \in 0 .. Issued(p, last)
         /\ RetiredUpTo(p, last) \in 0 .. Softened(p, last)
         /\ Issued(p, last) <= RetiredUpTo(p, last) + Preload
BY PipeAssumption DEF VectorPlace, VectorParts, Slots, Issued, Softened, RetiredUpTo, UpTo, LoopAt

\* The same for a cube core: C2 <= C1 <= C2 + Preload.
LEMMA CubeCounts ==
  ASSUME NEW last \in Nat, NEW p, CubePlace(p, last)
  PROVE  /\ Multiplied1(p, last) \in 0 .. last
         /\ Multiplied2(p, last) \in 0 .. Multiplied1(p, last)
         /\ Multiplied1(p, last) <= Multiplied2(p, last) + Preload
BY PipeAssumption DEF CubePlace, CubeParts, Slots, Multiplied1, Multiplied2, UpTo, LoopAt

SameCounts(p, q, last) ==
  /\ VectorPlace(q, last)
  /\ Issued(q, last) = Issued(p, last)
  /\ Softened(q, last) = Softened(p, last)
  /\ RetiredUpTo(q, last) = RetiredUpTo(p, last)

\* A vector core that enters Process has done nothing.
LEMMA CountsStart ==
  ASSUME NEW last \in Nat, NEW p, VectorPlace(p, last), p.part = "setup"
  PROVE  SameCounts(p, AfterStart(last), last)
BY PipeAssumption
   DEF SameCounts, VectorPlace, VectorParts, Slots, Issued, Softened, RetiredUpTo, UpTo, LoopAt, AfterStart, At

\* CalcParams and QueryPreProcessL add one to V0 alone.
LEMMA CountsIssue ==
  ASSUME NEW last \in Nat, NEW p, VectorPlace(p, last), p.part = "issue"
  PROVE  /\ LoopAt(p) = Issued(p, last)
         /\ VectorPlace(NextLoad(p, last), last)
         /\ Issued(NextLoad(p, last), last) = Issued(p, last) + 1
         /\ Softened(NextLoad(p, last), last) = Softened(p, last)
         /\ RetiredUpTo(NextLoad(p, last), last) = RetiredUpTo(p, last)
BY PipeAssumption
   DEF VectorPlace, VectorParts, Slots, Issued, Softened, RetiredUpTo, UpTo, LoopAt, NextLoad, At

\* ProcessVec1L adds one to V1 alone.
LEMMA CountsSoftmax ==
  ASSUME NEW last \in Nat, NEW p, VectorPlace(p, last), p.part = "softmax"
  PROVE  /\ LoopAt(p) = Softened(p, last)
         /\ VectorPlace(AfterSoftmax(p, last), last)
         /\ Issued(AfterSoftmax(p, last), last) = Issued(p, last)
         /\ Softened(AfterSoftmax(p, last), last) = Softened(p, last) + 1
         /\ RetiredUpTo(AfterSoftmax(p, last), last) = RetiredUpTo(p, last)
BY PipeAssumption
   DEF VectorPlace, VectorParts, Slots, Issued, Softened, RetiredUpTo, UpTo, LoopAt, AfterSoftmax, At

\* ProcessVec2L for a loop of Preload ago adds one to V2 alone.
LEMMA CountsRetire ==
  ASSUME NEW last \in Nat, NEW p, VectorPlace(p, last), p.part = "retire"
  PROVE  /\ VectorPlace(AfterRetire(p, last), last)
         /\ Issued(AfterRetire(p, last), last) = Issued(p, last)
         /\ Softened(AfterRetire(p, last), last) = Softened(p, last)
         /\ RetiredUpTo(AfterRetire(p, last), last) = RetiredUpTo(p, last) + 1
BY PipeAssumption
   DEF VectorPlace, VectorParts, Slots, Issued, Softened, RetiredUpTo, UpTo, LoopAt, NextLoad, AfterRetire, At

\* ProcessVec2L after the last iteration adds one to V2 alone.
LEMMA CountsFlush ==
  ASSUME NEW last \in Nat, NEW p, VectorPlace(p, last), p.part = "flush"
  PROVE  /\ VectorPlace(AfterFlush(p, last), last)
         /\ Issued(AfterFlush(p, last), last) = Issued(p, last)
         /\ Softened(AfterFlush(p, last), last) = Softened(p, last)
         /\ RetiredUpTo(AfterFlush(p, last), last) = RetiredUpTo(p, last) + 1
BY PipeAssumption
   DEF VectorPlace, VectorParts, Slots, Issued, Softened, RetiredUpTo, UpTo, LoopAt, AfterFlush, At

\* A cube core that enters Process has done nothing.
LEMMA CountsCubeStart ==
  ASSUME NEW last \in Nat, NEW p, CubePlace(p, last), p.part = "setup"
  PROVE  /\ CubePlace(CubeStart(last), last)
         /\ Multiplied1(CubeStart(last), last) = Multiplied1(p, last)
         /\ Multiplied2(CubeStart(last), last) = Multiplied2(p, last)
BY PipeAssumption
   DEF CubePlace, CubeParts, Slots, Multiplied1, Multiplied2, UpTo, LoopAt, CubeStart, At

\* ComputeMm1 adds one to C1 alone.
LEMMA CountsMm1 ==
  ASSUME NEW last \in Nat, NEW p, CubePlace(p, last), p.part = "mm1"
  PROVE  /\ LoopAt(p) = Multiplied1(p, last)
         /\ CubePlace(AfterMm1(p, last), last)
         /\ Multiplied1(AfterMm1(p, last), last) = Multiplied1(p, last) + 1
         /\ Multiplied2(AfterMm1(p, last), last) = Multiplied2(p, last)
BY PipeAssumption
   DEF CubePlace, CubeParts, Slots, Multiplied1, Multiplied2, UpTo, LoopAt, AfterMm1, At

\* ComputeMm2 adds one to C2 alone.
LEMMA CountsMm2 ==
  ASSUME NEW last \in Nat, NEW p, CubePlace(p, last), p.part = "mm2"
  PROVE  /\ LoopAt(p) = Multiplied2(p, last)
         /\ CubePlace(AfterMm2(p, last), last)
         /\ Multiplied1(AfterMm2(p, last), last) = Multiplied1(p, last)
         /\ Multiplied2(AfterMm2(p, last), last) = Multiplied2(p, last) + 1
BY PipeAssumption
   DEF CubePlace, CubeParts, Slots, Multiplied1, Multiplied2, UpTo, LoopAt, AfterMm2, At

\* Counts that are in order are no more than Preload apart.
LEMMA Bounds ==
  ASSUME NEW last \in Nat, NEW p, VectorPlace(p, last), NEW q, CubePlace(q, last),
         RetiredUpTo(p, last) <= Multiplied2(q, last),
         Multiplied2(q, last) <= Softened(p, last),
         Softened(p, last) <= Multiplied1(q, last)
  PROVE  /\ Issued(p, last) - Multiplied1(q, last) <= Preload
         /\ Multiplied1(q, last) - Softened(p, last) <= Preload
         /\ Softened(p, last) - Multiplied2(q, last) <= Preload
         /\ Multiplied2(q, last) - RetiredUpTo(p, last) <= Preload
<1>1. Preload \in Nat
  BY PipeAssumption
<1>2. QED
  BY <1>1, VectorCounts, CubeCounts

-----------------------------------------------------------------------------
(* One step. *)

\* What the invariant says of one vector core and its group.
LEMMA Facts ==
  ASSUME PipeInv, NEW w \in Vectors
  PROVE  /\ GroupOf(w) \in Cubes /\ loops[GroupOf(w)] \in Nat
         /\ VectorPlace(vec[w], loops[GroupOf(w)])
         /\ CubePlace(cube[GroupOf(w)], loops[GroupOf(w)])
         /\ V0(w) \in Nat /\ V1(w) \in Nat /\ V2(w) \in Nat
         /\ C1(GroupOf(w)) \in Nat /\ C2(GroupOf(w)) \in Nat
         /\ V2(w) <= C2(GroupOf(w)) /\ C2(GroupOf(w)) <= V1(w) /\ V1(w) <= C1(GroupOf(w))
         /\ FlagsAt(w)
<1>1. /\ GroupOf(w) \in Cubes /\ loops[GroupOf(w)] \in Nat
      /\ VectorPlace(vec[w], loops[GroupOf(w)])
      /\ CubePlace(cube[GroupOf(w)], loops[GroupOf(w)])
      /\ FlagsAt(w)
  BY Groups2 DEF PipeInv, PipeType
<1>2. /\ V0(w) \in Nat /\ V1(w) \in Nat /\ V2(w) \in Nat
      /\ C1(GroupOf(w)) \in Nat /\ C2(GroupOf(w)) \in Nat
  BY <1>1, VectorCounts, CubeCounts DEF V0, V1, V2, C1, C2
<1>3. QED
  BY <1>1, <1>2 DEF FlagsAt

\* What the invariant says of one cube core.
LEMMA CubeFacts ==
  ASSUME PipeInv, NEW g \in Cubes
  PROVE  /\ loops[g] \in Nat /\ CubePlace(cube[g], loops[g])
         /\ C1(g) \in Nat /\ C2(g) \in Nat
<1>1. loops[g] \in Nat /\ CubePlace(cube[g], loops[g])
  BY DEF PipeInv, PipeType
<1>2. QED
  BY <1>1, CubeCounts DEF C1, C2

\* A step of vector core w to place q, as far as the counts go.
LEMMA VectorMoves ==
  ASSUME PipeInv, NEW w \in Vectors, NEW q,
         VectorPlace(q, loops[GroupOf(w)]),
         vec' = [vec EXCEPT ![w] = q], loops' = loops, cube' = cube
  PROVE  /\ DOMAIN vec' = Vectors
         /\ \A u \in Vectors : VectorPlace(vec'[u], loops'[GroupOf(u)])
         /\ V0(w)' = Issued(q, loops[GroupOf(w)])
         /\ V1(w)' = Softened(q, loops[GroupOf(w)])
         /\ V2(w)' = RetiredUpTo(q, loops[GroupOf(w)])
         /\ \A u \in Vectors \ {w} : V0(u)' = V0(u) /\ V1(u)' = V1(u) /\ V2(u)' = V2(u)
         /\ \A g \in Cubes : C1(g)' = C1(g) /\ C2(g)' = C2(g)
<1>1. DOMAIN vec = Vectors /\ \A u \in Vectors : VectorPlace(vec[u], loops[GroupOf(u)])
  BY DEF PipeInv, PipeType
<1>2. vec'[w] = q /\ \A u \in Vectors \ {w} : vec'[u] = vec[u]
  BY <1>1
<1>3. QED
  BY <1>1, <1>2 DEF V0, V1, V2, C1, C2

\* A step of cube core g to place q, as far as the counts go.
LEMMA CubeMoves ==
  ASSUME PipeInv, NEW g \in Cubes, NEW q,
         CubePlace(q, loops[g]),
         cube' = [cube EXCEPT ![g] = q], loops' = loops, vec' = vec
  PROVE  /\ DOMAIN cube' = Cubes
         /\ \A h \in Cubes : CubePlace(cube'[h], loops'[h])
         /\ C1(g)' = Multiplied1(q, loops[g])
         /\ C2(g)' = Multiplied2(q, loops[g])
         /\ \A h \in Cubes \ {g} : C1(h)' = C1(h) /\ C2(h)' = C2(h)
         /\ \A w \in Vectors : V0(w)' = V0(w) /\ V1(w)' = V1(w) /\ V2(w)' = V2(w)
<1>1. DOMAIN cube = Cubes /\ \A h \in Cubes : CubePlace(cube[h], loops[h])
  BY DEF PipeInv, PipeType
<1>2. cube'[g] = q /\ \A h \in Cubes \ {g} : cube'[h] = cube[h]
  BY <1>1
<1>3. QED
  BY <1>1, <1>2 DEF V0, V1, V2, C1, C2

\* A vector core that enters Process keeps the invariant.
LEMMA StartStep ==
  ASSUME PipeInv, NEW w \in Vectors, Start(w)
  PROVE  PipeInv'
<1> DEFINE last == loops[GroupOf(w)]
<1>1. /\ last \in Nat /\ VectorPlace(vec[w], last) /\ vec[w].part = "setup"
      /\ vec' = [vec EXCEPT ![w] = AfterStart(last)]
      /\ UNCHANGED <<antiquant, loops, cube, flags, vecInfo, cubeInfo, mm1, vec1, mm2>>
  BY Facts DEF Start
<1>2. SameCounts(vec[w], AfterStart(last), last)
  BY <1>1, CountsStart
<1>3. /\ DOMAIN vec' = Vectors
      /\ \A u \in Vectors : VectorPlace(vec'[u], loops'[GroupOf(u)])
      /\ \A u \in Vectors : V0(u)' = V0(u) /\ V1(u)' = V1(u) /\ V2(u)' = V2(u)
      /\ \A g \in Cubes : C1(g)' = C1(g) /\ C2(g)' = C2(g)
  BY <1>1, <1>2, VectorMoves DEF SameCounts, V0, V1, V2
<1>4. PipeType'
  BY <1>1, <1>3 DEF PipeInv, PipeType, flags
<1>5. \A u \in Vectors : FlagsAt(u)'
  BY <1>1, <1>3, Groups2 DEF PipeInv, FlagsAt, flags
<1>6. OwnSlots'
  BY <1>1, <1>3, Groups2 DEF PipeInv, OwnSlots, Holds
<1>7. QED
  BY <1>4, <1>5, <1>6 DEF PipeInv

\* A cube core that enters Process keeps it.
LEMMA StartCubeStep ==
  ASSUME PipeInv, NEW g \in Cubes, StartCube(g)
  PROVE  PipeInv'
<1> DEFINE last == loops[g]
<1>1. /\ last \in Nat /\ CubePlace(cube[g], last) /\ cube[g].part = "setup"
      /\ cube' = [cube EXCEPT ![g] = CubeStart(last)]
      /\ UNCHANGED <<antiquant, loops, vec, flags, vecInfo, cubeInfo, mm1, vec1, mm2>>
  BY CubeFacts DEF StartCube
<1>2. /\ CubePlace(CubeStart(last), last)
      /\ Multiplied1(CubeStart(last), last) = C1(g)
      /\ Multiplied2(CubeStart(last), last) = C2(g)
  BY <1>1, CountsCubeStart DEF C1, C2
<1>3. /\ DOMAIN cube' = Cubes
      /\ \A h \in Cubes : CubePlace(cube'[h], loops'[h])
      /\ \A w \in Vectors : V0(w)' = V0(w) /\ V1(w)' = V1(w) /\ V2(w)' = V2(w)
      /\ \A h \in Cubes : C1(h)' = C1(h) /\ C2(h)' = C2(h)
  BY <1>1, <1>2, CubeMoves
<1>4. PipeType'
  BY <1>1, <1>3 DEF PipeInv, PipeType, flags
<1>5. \A u \in Vectors : FlagsAt(u)'
  BY <1>1, <1>3, Groups2 DEF PipeInv, FlagsAt, flags
<1>6. OwnSlots'
  BY <1>1, <1>3, Groups2 DEF PipeInv, OwnSlots, Holds
<1>7. QED
  BY <1>4, <1>5, <1>6 DEF PipeInv

\* Issuing a loop writes one slot of extraInfo and raises v0c1.
LEMMA IssueStep ==
  ASSUME PipeInv, NEW w \in Vectors, NEW info, Issue(w, info)
  PROVE  PipeInv'
<1> DEFINE last == loops[GroupOf(w)]
           k == V0(w)
           q == NextLoad(vec[w], last)
<1>1. /\ last \in Nat /\ VectorPlace(vec[w], last) /\ vec[w].part = "issue"
      /\ LoopAt(vec[w]) = k
  BY Facts, CountsIssue DEF Issue, V0
<1>2. /\ vec' = [vec EXCEPT ![w] = q]
      /\ vecInfo' = [vecInfo EXCEPT ![w][Slot(k)] = Entry(k, info)]
      /\ v0c1' = IF antiquant THEN SetOne(v0c1, w) ELSE v0c1
      /\ UNCHANGED <<antiquant, loops, cube, c1v1, v1c2, c2v2, cubeInfo, mm1, vec1, mm2>>
  BY <1>1 DEF Issue
<1>3. /\ VectorPlace(q, last) /\ Issued(q, last) = V0(w) + 1
      /\ Softened(q, last) = V1(w) /\ RetiredUpTo(q, last) = V2(w)
  BY <1>1, CountsIssue DEF V0, V1, V2
<1> HIDE DEF q, k
<1>4. /\ DOMAIN vec' = Vectors
      /\ \A u \in Vectors : VectorPlace(vec'[u], loops'[GroupOf(u)])
      /\ V0(w)' = V0(w) + 1 /\ \A u \in Vectors \ {w} : V0(u)' = V0(u)
      /\ \A u \in Vectors : V1(u)' = V1(u) /\ V2(u)' = V2(u)
      /\ \A g \in Cubes : C1(g)' = C1(g) /\ C2(g)' = C2(g)
  BY <1>2, <1>3, VectorMoves
<1>5. PipeType'
  BY <1>2, <1>4 DEF PipeInv, PipeType, SetOne, IsRing
<1>6. \A u \in Vectors : FlagsAt(u)'
  <2> SUFFICES ASSUME NEW u \in Vectors PROVE FlagsAt(u)'
    OBVIOUS
  <2>1. v0c1 \in [Vectors -> Int]
    BY DEF PipeInv, PipeType
  <2>2. v0c1'[u] = IF antiquant /\ u = w THEN v0c1[u] + 1 ELSE v0c1[u]
    BY <1>2, <2>1 DEF SetOne
  <2>3. /\ V0(u) \in Nat /\ C1(GroupOf(u)) \in Nat /\ GroupOf(u) \in Cubes /\ FlagsAt(u)
    BY Facts
  <2>4. v0c1[u] \in Int
    BY <2>1
  <2>5. QED
    BY <1>2, <1>4, <2>2, <2>3, <2>4 DEF FlagsAt
<1>7. OwnSlots'
  <2>1. Holds(vecInfo'[w], V2(w)', V0(w)')
    <3>1. DOMAIN vecInfo = Vectors /\ DOMAIN vecInfo[w] = Slots
      BY DEF PipeInv, PipeType, IsRing
    <3>2. vecInfo'[w] = [vecInfo[w] EXCEPT ![Slot(k)] = Entry(k, info)]
      BY <1>2, <3>1
    <3>3. Holds(vecInfo[w], V2(w), k)
      BY DEF PipeInv, OwnSlots, k
    <3>4. V0(w) + 1 - V2(w) <= Preload
      BY <1>1, <1>3, Facts, VectorCounts, PipeAssumption
    <3>5. V2(w) \in Int /\ k \in Int
      BY Facts DEF k
    <3>6. Holds([vecInfo[w] EXCEPT ![Slot(k)] = Entry(k, info)], V2(w), k + 1)
      BY <3>1, <3>3, <3>4, <3>5, RingWrite DEF k
    <3>7. QED
      BY <1>4, <3>2, <3>6 DEF k
  <2>2. \A u \in Vectors \ {w} : vecInfo'[u] = vecInfo[u]
    BY <1>2 DEF PipeInv, PipeType, IsRing
  <2>3. QED
    BY <1>2, <1>4, <2>1, <2>2, Groups2 DEF PipeInv, OwnSlots, Holds
<1>8. QED
  BY <1>5, <1>6, <1>7 DEF PipeInv

\* The softmax of a loop lowers c1v1, writes a slot of vec1 and raises v1c2.
LEMMA SoftmaxStep ==
  ASSUME PipeInv, NEW w \in Vectors, NEW result, Softmax(w, result)
  PROVE  PipeInv'
<1> DEFINE g == GroupOf(w)
           last == loops[g]
           k == V1(w)
           q == AfterSoftmax(vec[w], last)
<1>1. /\ g \in Cubes /\ last \in Nat
      /\ VectorPlace(vec[w], last) /\ vec[w].part = "softmax"
      /\ LoopAt(vec[w]) = k /\ c1v1[w] > 0
  BY Facts, CountsSoftmax DEF Softmax, V1
<1>2. /\ vec' = [vec EXCEPT ![w] = q]
      /\ vec1' = [vec1 EXCEPT ![w][Slot(k)] = Entry(k, result)]
      /\ c1v1' = WaitOne(c1v1, w) /\ v1c2' = SetOne(v1c2, w)
      /\ UNCHANGED <<antiquant, loops, cube, v0c1, c2v2, vecInfo, cubeInfo, mm1, mm2>>
  BY <1>1 DEF Softmax
<1>3. /\ VectorPlace(q, last) /\ Issued(q, last) = V0(w)
      /\ Softened(q, last) = V1(w) + 1 /\ RetiredUpTo(q, last) = V2(w)
  BY <1>1, CountsSoftmax DEF V0, V1, V2
<1> HIDE DEF q, k
<1>4. /\ DOMAIN vec' = Vectors
      /\ \A u \in Vectors : VectorPlace(vec'[u], loops'[GroupOf(u)])
      /\ V1(w)' = V1(w) + 1 /\ \A u \in Vectors \ {w} : V1(u)' = V1(u)
      /\ \A u \in Vectors : V0(u)' = V0(u) /\ V2(u)' = V2(u)
      /\ \A h \in Cubes : C1(h)' = C1(h) /\ C2(h)' = C2(h)
  BY <1>2, <1>3, VectorMoves
<1>5. PipeType'
  BY <1>2, <1>4 DEF PipeInv, PipeType, SetOne, WaitOne, IsRing
<1>6. \A u \in Vectors : FlagsAt(u)'
  <2> SUFFICES ASSUME NEW u \in Vectors PROVE FlagsAt(u)'
    OBVIOUS
  <2>1. c1v1 \in [Vectors -> Int] /\ v1c2 \in [Vectors -> Int]
    BY DEF PipeInv, PipeType
  <2>2. /\ c1v1'[u] = IF u = w THEN c1v1[u] - 1 ELSE c1v1[u]
        /\ v1c2'[u] = IF u = w THEN v1c2[u] + 1 ELSE v1c2[u]
        /\ c1v1[u] \in Int /\ v1c2[u] \in Int
    BY <1>2, <2>1 DEF SetOne, WaitOne
  <2>3. /\ V1(u) \in Nat /\ C1(GroupOf(u)) \in Nat /\ C2(GroupOf(u)) \in Nat
        /\ GroupOf(u) \in Cubes /\ FlagsAt(u)
    BY Facts
  <2>4. QED
    BY <1>1, <1>2, <1>4, <2>2, <2>3 DEF FlagsAt
<1>7. OwnSlots'
  <2>1. Holds(vec1'[w], C2(g)', V1(w)')
    <3>1. DOMAIN vec1 = Vectors /\ DOMAIN vec1[w] = Slots
      BY DEF PipeInv, PipeType, IsRing
    <3>2. vec1'[w] = [vec1[w] EXCEPT ![Slot(k)] = Entry(k, result)]
      BY <1>2, <3>1
    <3>3. Holds(vec1[w], C2(g), k)
      BY DEF PipeInv, OwnSlots, k
    <3>4. /\ V1(w) \in Nat /\ C1(g) \in Nat /\ C2(g) \in Nat /\ V2(w) \in Nat
          /\ V2(w) <= C2(g) /\ C2(g) <= V1(w) /\ V1(w) + 1 <= C1(g)
          /\ CubePlace(cube[g], last)
      BY <1>1, Facts DEF FlagsAt
    <3>5. V1(w) + 1 - C2(g) <= Preload
      BY <1>1, <1>3, <3>4, Bounds DEF C1, C2
    <3>6. k \in Int /\ C2(g) \in Int /\ k + 1 - C2(g) <= Preload
      BY <3>4, <3>5 DEF k
    <3>7. Holds([vec1[w] EXCEPT ![Slot(k)] = Entry(k, result)], C2(g), k + 1)
      BY <3>1, <3>3, <3>6, RingWrite
    <3>8. QED
      BY <1>1, <1>4, <3>2, <3>7 DEF k
  <2>2. \A u \in Vectors \ {w} : vec1'[u] = vec1[u]
    BY <1>2 DEF PipeInv, PipeType, IsRing
  <2>3. Holds(mm1'[g], V1(w)', C1(g)')
    <3>1. Holds(mm1[g], V1(w), C1(g)) /\ V1(w) \in Int /\ C1(g) \in Int
      BY Facts DEF PipeInv, OwnSlots
    <3>2. QED
      BY <1>1, <1>2, <1>4, <3>1, RingShrink
  <2>4. QED
    BY <1>2, <1>4, <2>1, <2>2, <2>3, Groups2 DEF PipeInv, OwnSlots
<1>8. QED
  BY <1>5, <1>6, <1>7 DEF PipeInv

\* Retiring a loop lowers c2v2 and frees its slots.
LEMMA RetireStep ==
  ASSUME PipeInv, NEW w \in Vectors, Retire(w)
  PROVE  PipeInv'
<1> DEFINE g == GroupOf(w)
           last == loops[g]
           q == vec'[w]
<1>1. /\ g \in Cubes /\ last \in Nat
      /\ VectorPlace(vec[w], last) /\ vec[w].part \in {"retire", "flush"} /\ c2v2[w] > 0
  BY Facts DEF Retire
<1>2. /\ DOMAIN vec = Vectors
      /\ vec' = [vec EXCEPT ![w] = IF vec[w].part = "retire" THEN AfterRetire(vec[w], last)
                                                            ELSE AfterFlush(vec[w], last)]
      /\ c2v2' = WaitOne(c2v2, w)
      /\ UNCHANGED <<antiquant, loops, cube, v0c1, c1v1, v1c2, vecInfo, cubeInfo, mm1, vec1, mm2>>
  BY DEF Retire, PipeInv, PipeType
<1>3. /\ VectorPlace(q, last) /\ Issued(q, last) = V0(w)
      /\ Softened(q, last) = V1(w) /\ RetiredUpTo(q, last) = V2(w) + 1
  <2>1. CASE vec[w].part = "retire"
    BY <1>1, <1>2, <2>1, CountsRetire DEF V0, V1, V2
  <2>2. CASE vec[w].part = "flush"
    BY <1>1, <1>2, <2>2, CountsFlush DEF V0, V1, V2
  <2>3. QED
    BY <1>1, <2>1, <2>2
<1>4. vec' = [vec EXCEPT ![w] = q]
  BY <1>2
<1> HIDE DEF q
<1>5. /\ DOMAIN vec' = Vectors
      /\ \A u \in Vectors : VectorPlace(vec'[u], loops'[GroupOf(u)])
      /\ V2(w)' = V2(w) + 1 /\ \A u \in Vectors \ {w} : V2(u)' = V2(u)
      /\ \A u \in Vectors : V0(u)' = V0(u) /\ V1(u)' = V1(u)
      /\ \A h \in Cubes : C1(h)' = C1(h) /\ C2(h)' = C2(h)
  BY <1>2, <1>3, <1>4, VectorMoves
<1>6. PipeType'
  BY <1>2, <1>5 DEF PipeInv, PipeType, WaitOne
<1>7. \A u \in Vectors : FlagsAt(u)'
  <2> SUFFICES ASSUME NEW u \in Vectors PROVE FlagsAt(u)'
    OBVIOUS
  <2>1. c2v2 \in [Vectors -> Int]
    BY DEF PipeInv, PipeType
  <2>2. /\ c2v2'[u] = IF u = w THEN c2v2[u] - 1 ELSE c2v2[u]
        /\ c2v2[u] \in Int
    BY <1>2, <2>1 DEF WaitOne
  <2>3. /\ V2(u) \in Nat /\ C2(GroupOf(u)) \in Nat
        /\ GroupOf(u) \in Cubes /\ FlagsAt(u)
    BY Facts
  <2>4. QED
    BY <1>1, <1>2, <1>5, <2>2, <2>3 DEF FlagsAt
<1>8. OwnSlots'
  <2>1. /\ V0(w) \in Int /\ V2(w) \in Int /\ C2(g) \in Int
    BY Facts
  <2>2. Holds(vecInfo[w], V2(w), V0(w)) /\ Holds(mm2[g], V2(w), C2(g))
    BY DEF PipeInv, OwnSlots
  <2>3. Holds(vecInfo[w], V2(w) + 1, V0(w)) /\ Holds(mm2[g], V2(w) + 1, C2(g))
    BY <2>1, <2>2, RingShrink
  <2>4. QED
    BY <1>1, <1>2, <1>5, <2>3, Groups2 DEF PipeInv, OwnSlots
<1>9. QED
  BY <1>6, <1>7, <1>8 DEF PipeInv

\* The first product of a loop lowers v0c1, writes a slot of mm1 and raises c1v1.
LEMMA Matmul1Step ==
  ASSUME PipeInv, NEW g \in Cubes, NEW info, NEW result, Matmul1(g, info, result)
  PROVE  PipeInv'
<1> DEFINE last == loops[g]
           k == C1(g)
           q == AfterMm1(cube[g], last)
<1>1. /\ last \in Nat /\ CubePlace(cube[g], last) /\ cube[g].part = "mm1"
      /\ LoopAt(cube[g]) = k
  BY CubeFacts, CountsMm1 DEF Matmul1, C1
<1>2. /\ cube' = [cube EXCEPT ![g] = q]
      /\ cubeInfo' = [cubeInfo EXCEPT ![g][Slot(k)] = Entry(k, info)]
      /\ mm1' = [mm1 EXCEPT ![g][Slot(k)] = Entry(k, result)]
      /\ v0c1' = IF antiquant THEN WaitBoth(v0c1, g) ELSE v0c1
      /\ c1v1' = SetBoth(c1v1, g)
      /\ UNCHANGED <<antiquant, loops, vec, v1c2, c2v2, vecInfo, vec1, mm2>>
      /\ antiquant => \A w \in Halves(g) : v0c1[w] > 0
  BY <1>1 DEF Matmul1
<1>3. /\ CubePlace(q, last) /\ Multiplied1(q, last) = C1(g) + 1
      /\ Multiplied2(q, last) = C2(g)
  BY <1>1, CountsMm1 DEF C1, C2
<1> HIDE DEF q, k
<1>4. /\ DOMAIN cube' = Cubes
      /\ \A h \in Cubes : CubePlace(cube'[h], loops'[h])
      /\ C1(g)' = C1(g) + 1 /\ \A h \in Cubes \ {g} : C1(h)' = C1(h)
      /\ \A h \in Cubes : C2(h)' = C2(h)
      /\ \A w \in Vectors : V0(w)' = V0(w) /\ V1(w)' = V1(w) /\ V2(w)' = V2(w)
  BY <1>2, <1>3, CubeMoves
<1>5. PipeType'
  BY <1>2, <1>4 DEF PipeInv, PipeType, SetBoth, WaitBoth, IsRing
<1>6. \A u \in Vectors : FlagsAt(u)'
  <2> SUFFICES ASSUME NEW u \in Vectors PROVE FlagsAt(u)'
    OBVIOUS
  <2>1. v0c1 \in [Vectors -> Int] /\ c1v1 \in [Vectors -> Int]
    BY DEF PipeInv, PipeType
  <2>2. /\ v0c1'[u] = IF antiquant /\ GroupOf(u) = g THEN v0c1[u] - 1 ELSE v0c1[u]
        /\ c1v1'[u] = IF GroupOf(u) = g THEN c1v1[u] + 1 ELSE c1v1[u]
        /\ v0c1[u] \in Int /\ c1v1[u] \in Int
    BY <1>2, <2>1 DEF SetBoth, WaitBoth
  <2>3. antiquant /\ GroupOf(u) = g => v0c1[u] > 0
    BY <1>2, Groups2
  <2>4. /\ V0(u) \in Nat /\ V1(u) \in Nat /\ C1(GroupOf(u)) \in Nat
        /\ GroupOf(u) \in Cubes /\ FlagsAt(u)
    BY Facts
  <2>5. QED
    BY <1>2, <1>4, <2>2, <2>3, <2>4 DEF FlagsAt
<1>7. OwnSlots'
  <2>1. /\ DOMAIN mm1 = Cubes /\ DOMAIN mm1[g] = Slots
        /\ DOMAIN cubeInfo = Cubes /\ DOMAIN cubeInfo[g] = Slots
    BY DEF PipeInv, PipeType, IsRing
  <2>2. /\ mm1'[g] = [mm1[g] EXCEPT ![Slot(k)] = Entry(k, result)]
        /\ cubeInfo'[g] = [cubeInfo[g] EXCEPT ![Slot(k)] = Entry(k, info)]
        /\ \A h \in Cubes \ {g} : mm1'[h] = mm1[h] /\ cubeInfo'[h] = cubeInfo[h]
    BY <1>2, <2>1
  <2>3. k \in Int /\ C2(g) \in Int /\ k + 1 - C2(g) <= Preload
    BY <1>1, <1>3, CubeFacts, CubeCounts, PipeAssumption DEF k
  <2>4. Holds(cubeInfo'[g], C2(g)', C1(g)')
    <3>1. Holds(cubeInfo[g], C2(g), k)
      BY DEF PipeInv, OwnSlots, k
    <3>2. Holds([cubeInfo[g] EXCEPT ![Slot(k)] = Entry(k, info)], C2(g), k + 1)
      BY <2>1, <2>3, <3>1, RingWrite
    <3>3. QED
      BY <1>4, <2>2, <3>2 DEF k
  <2>5. ASSUME NEW w \in Vectors, GroupOf(w) = g PROVE Holds(mm1'[g], V1(w)', C1(g)')
    <3>1. Holds(mm1[g], V1(w), k)
      BY <2>5 DEF PipeInv, OwnSlots, k
    <3>2. /\ VectorPlace(vec[w], last) /\ V1(w) \in Nat /\ C1(g) \in Nat /\ C2(g) \in Nat
          /\ V2(w) \in Nat /\ V2(w) <= C2(g) /\ C2(g) <= V1(w) /\ V1(w) <= C1(g) + 1
      BY <2>5, Facts
    <3>3. C1(g) + 1 - V1(w) <= Preload
      BY <1>1, <1>3, <2>5, <3>2, Bounds DEF V1, V2
    <3>4. Holds([mm1[g] EXCEPT ![Slot(k)] = Entry(k, result)], V1(w), k + 1)
      <4>1. V1(w) \in Int /\ k + 1 - V1(w) <= Preload
        BY <3>2, <3>3 DEF k
      <4>2. QED
        BY <2>1, <2>3, <3>1, <4>1, RingWrite
    <3>5. QED
      BY <1>4, <2>2, <3>4 DEF k
  <2>6. ASSUME NEW w \in Vectors
        PROVE  /\ Holds(vecInfo'[w], V2(w)', V0(w)')
               /\ Holds(mm1'[GroupOf(w)], V1(w)', C1(GroupOf(w))')
               /\ Holds(vec1'[w], C2(GroupOf(w))', V1(w)')
               /\ Holds(mm2'[GroupOf(w)], V2(w)', C2(GroupOf(w))')
    <3>1. /\ GroupOf(w) \in Cubes
          /\ V0(w)' = V0(w) /\ V1(w)' = V1(w) /\ V2(w)' = V2(w)
          /\ C2(GroupOf(w))' = C2(GroupOf(w))
          /\ vecInfo' = vecInfo /\ vec1' = vec1 /\ mm2' = mm2
      BY <1>2, <1>4, Groups2
    <3>2. /\ Holds(vecInfo[w], V2(w), V0(w))
          /\ Holds(mm1[GroupOf(w)], V1(w), C1(GroupOf(w)))
          /\ Holds(vec1[w], C2(GroupOf(w)), V1(w))
          /\ Holds(mm2[GroupOf(w)], V2(w), C2(GroupOf(w)))
      BY DEF PipeInv, OwnSlots
    <3>3. Holds(mm1'[GroupOf(w)], V1(w)', C1(GroupOf(w))')
      <4>1. CASE GroupOf(w) = g
        BY <2>5, <4>1
      <4>2. CASE GroupOf(w) # g
        <5>1. C1(GroupOf(w))' = C1(GroupOf(w)) /\ mm1'[GroupOf(w)] = mm1[GroupOf(w)]
          BY <1>4, <2>2, <3>1, <4>2
        <5>2. QED
          BY <3>1, <3>2, <5>1
      <4>3. QED
        BY <4>1, <4>2
    <3>4. QED
      BY <3>1, <3>2, <3>3
  <2>7. ASSUME NEW h \in Cubes PROVE Holds(cubeInfo'[h], C2(h)', C1(h)')
    <3>1. Holds(cubeInfo[h], C2(h), C1(h))
      BY DEF PipeInv, OwnSlots
    <3>2. QED
      BY <1>4, <2>2, <2>4, <3>1
  <2>8. QED
    BY <2>6, <2>7 DEF OwnSlots
<1>8. QED
  BY <1>5, <1>6, <1>7 DEF PipeInv

\* The second product lowers v1c2, writes a slot of mm2 and raises c2v2.
LEMMA Matmul2Step ==
  ASSUME PipeInv, NEW g \in Cubes, NEW result, Matmul2(g, result)
  PROVE  PipeInv'
<1> DEFINE last == loops[g]
           k == C2(g)
           q == AfterMm2(cube[g], last)
<1>1. /\ last \in Nat /\ CubePlace(cube[g], last) /\ cube[g].part = "mm2"
      /\ LoopAt(cube[g]) = k
  BY CubeFacts, CountsMm2 DEF Matmul2, C2
<1>2. /\ cube' = [cube EXCEPT ![g] = q]
      /\ mm2' = [mm2 EXCEPT ![g][Slot(k)] = Entry(k, result)]
      /\ v1c2' = WaitBoth(v1c2, g) /\ c2v2' = SetBoth(c2v2, g)
      /\ UNCHANGED <<antiquant, loops, vec, v0c1, c1v1, vecInfo, cubeInfo, mm1, vec1>>
      /\ \A w \in Halves(g) : v1c2[w] > 0
  BY <1>1 DEF Matmul2
<1>3. /\ CubePlace(q, last) /\ Multiplied1(q, last) = C1(g)
      /\ Multiplied2(q, last) = C2(g) + 1
  BY <1>1, CountsMm2 DEF C1, C2
<1> HIDE DEF q, k
<1>4. /\ DOMAIN cube' = Cubes
      /\ \A h \in Cubes : CubePlace(cube'[h], loops'[h])
      /\ C2(g)' = C2(g) + 1 /\ \A h \in Cubes \ {g} : C2(h)' = C2(h)
      /\ \A h \in Cubes : C1(h)' = C1(h)
      /\ \A w \in Vectors : V0(w)' = V0(w) /\ V1(w)' = V1(w) /\ V2(w)' = V2(w)
  BY <1>2, <1>3, CubeMoves
<1>5. PipeType'
  BY <1>2, <1>4 DEF PipeInv, PipeType, SetBoth, WaitBoth, IsRing
<1>6. \A w \in Vectors : GroupOf(w) = g => v1c2[w] > 0
  BY <1>2, Groups2
<1>7. \A u \in Vectors : FlagsAt(u)'
  <2> SUFFICES ASSUME NEW u \in Vectors PROVE FlagsAt(u)'
    OBVIOUS
  <2>1. v1c2 \in [Vectors -> Int] /\ c2v2 \in [Vectors -> Int]
    BY DEF PipeInv, PipeType
  <2>2. /\ v1c2'[u] = IF GroupOf(u) = g THEN v1c2[u] - 1 ELSE v1c2[u]
        /\ c2v2'[u] = IF GroupOf(u) = g THEN c2v2[u] + 1 ELSE c2v2[u]
        /\ v1c2[u] \in Int /\ c2v2[u] \in Int
    BY <1>2, <2>1 DEF SetBoth, WaitBoth
  <2>3. /\ V1(u) \in Nat /\ V2(u) \in Nat /\ C2(GroupOf(u)) \in Nat
        /\ GroupOf(u) \in Cubes /\ FlagsAt(u)
    BY Facts
  <2>4. QED
    BY <1>2, <1>4, <1>6, <2>2, <2>3 DEF FlagsAt
<1>8. OwnSlots'
  <2>1. DOMAIN mm2 = Cubes /\ DOMAIN mm2[g] = Slots
    BY DEF PipeInv, PipeType, IsRing
  <2>2. /\ mm2'[g] = [mm2[g] EXCEPT ![Slot(k)] = Entry(k, result)]
        /\ \A h \in Cubes \ {g} : mm2'[h] = mm2[h]
    BY <1>2, <2>1
  <2>3. k \in Int /\ C1(g) \in Int
    BY CubeFacts DEF k
  <2>4. Holds(cubeInfo'[g], C2(g)', C1(g)')
    <3>1. Holds(cubeInfo[g], k, C1(g))
      BY DEF PipeInv, OwnSlots, k
    <3>2. Holds(cubeInfo[g], k + 1, C1(g))
      BY <2>3, <3>1, RingShrink
    <3>3. QED
      BY <1>2, <1>4, <3>2 DEF k
  <2>5. ASSUME NEW w \in Vectors, GroupOf(w) = g
        PROVE  Holds(mm2'[g], V2(w)', C2(g)') /\ Holds(vec1'[w], C2(g)', V1(w)')
    <3>1. Holds(mm2[g], V2(w), k) /\ Holds(vec1[w], k, V1(w))
      BY <2>5 DEF PipeInv, OwnSlots, k
    <3>2. /\ VectorPlace(vec[w], last) /\ V1(w) \in Nat /\ C1(g) \in Nat /\ C2(g) \in Nat
          /\ V2(w) \in Nat /\ V2(w) <= C2(g) + 1 /\ C2(g) + 1 <= V1(w) /\ V1(w) <= C1(g)
      BY <1>6, <2>5, Facts DEF FlagsAt
    <3>3. C2(g) + 1 - V2(w) <= Preload
      BY <1>1, <1>3, <2>5, <3>2, Bounds DEF V1, V2
    <3>4. V2(w) \in Int /\ V1(w) \in Int /\ k + 1 - V2(w) <= Preload
      BY <3>2, <3>3 DEF k
    <3>5. Holds([mm2[g] EXCEPT ![Slot(k)] = Entry(k, result)], V2(w), k + 1)
      BY <2>1, <2>3, <3>1, <3>4, RingWrite
    <3>6. Holds(vec1[w], k + 1, V1(w))
      BY <2>3, <3>1, <3>4, RingShrink
    <3>7. QED
      BY <1>2, <1>4, <2>2, <3>5, <3>6 DEF k
  <2>6. QED
    BY <1>2, <1>4, <2>2, <2>4, <2>5, Groups2 DEF PipeInv, OwnSlots
<1>9. QED
  BY <1>5, <1>7, <1>8 DEF PipeInv

\* The barrier and what follows it move cores that are through with all loops.
LEMMA EndStep ==
  ASSUME PipeInv,
         UNCHANGED <<antiquant, loops, cube, flags, vecInfo, cubeInfo, mm1, vec1, mm2>>,
         DOMAIN vec' = Vectors,
         \A w \in Vectors : \/ vec'[w] = vec[w]
                            \/ /\ vec[w].part \in {"sync", "combine"}
                               /\ vec'[w] \in {At("combine", 0, 0), At("done", 0, 0)}
  PROVE  PipeInv'
<1>1. \A w \in Vectors : SameCounts(vec[w], vec'[w], loops[GroupOf(w)])
  <2> SUFFICES ASSUME NEW w \in Vectors
               PROVE  SameCounts(vec[w], vec'[w], loops[GroupOf(w)])
    OBVIOUS
  <2>1. VectorPlace(vec[w], loops[GroupOf(w)])
    BY DEF PipeInv, PipeType
  <2>2. CASE vec'[w] = vec[w]
    BY <2>1, <2>2 DEF SameCounts
  <2>3. CASE /\ vec[w].part \in {"sync", "combine"}
             /\ vec'[w] \in {At("combine", 0, 0), At("done", 0, 0)}
    BY <2>1, <2>3, PipeAssumption
       DEF SameCounts, VectorPlace, VectorParts, Slots, At, Issued, Softened, RetiredUpTo
  <2>4. QED
    BY <2>2, <2>3
<1>2. /\ \A u \in Vectors : VectorPlace(vec'[u], loops'[GroupOf(u)])
      /\ \A u \in Vectors : V0(u)' = V0(u) /\ V1(u)' = V1(u) /\ V2(u)' = V2(u)
      /\ \A g \in Cubes : C1(g)' = C1(g) /\ C2(g)' = C2(g)
  BY <1>1 DEF SameCounts, V0, V1, V2, C1, C2
<1>3. PipeType'
  BY <1>2 DEF PipeInv, PipeType, flags
<1>4. \A u \in Vectors : FlagsAt(u)'
  BY <1>2, Groups2 DEF PipeInv, FlagsAt, flags
<1>5. OwnSlots'
  BY <1>2, Groups2 DEF PipeInv, OwnSlots, Holds
<1>6. QED
  BY <1>3, <1>4, <1>5 DEF PipeInv

-----------------------------------------------------------------------------
(* The theorems. *)

\* The invariant holds when the kernel starts.
LEMMA PipeInit == FlashInit => PipeInv
<1> SUFFICES ASSUME FlashInit PROVE PipeInv
  OBVIOUS
<1>1. 0 \in Slots
  BY PipeAssumption DEF Slots
<1>2. loops \in [Cubes -> Nat]
  BY InputAssumption DEF FlashInit
<1>3. /\ vec = [w \in Vectors |-> At("setup", 0, 0)]
      /\ cube = [g \in Cubes |-> At("setup", 0, 0)]
      /\ v0c1 = [w \in Vectors |-> 0] /\ c1v1 = v0c1 /\ v1c2 = v0c1 /\ c2v2 = v0c1
      /\ antiquant \in BOOLEAN
  BY DEF FlashInit
<1>4. IsRing(vecInfo, Vectors) /\ IsRing(vec1, Vectors)
  BY DEF FlashInit, IsRing, Ring
<1>5. IsRing(cubeInfo, Cubes) /\ IsRing(mm1, Cubes) /\ IsRing(mm2, Cubes)
  BY DEF FlashInit, IsRing, Ring
<1>6. PipeType
  BY <1>1, <1>2, <1>3, <1>4, <1>5, Groups2
     DEF PipeType, VectorPlace, VectorParts, CubePlace, CubeParts, At
<1>7. /\ \A w \in Vectors : V0(w) = 0 /\ V1(w) = 0 /\ V2(w) = 0
      /\ \A g \in Cubes : C1(g) = 0 /\ C2(g) = 0
  BY <1>3 DEF V0, V1, V2, C1, C2, At, Issued, Softened, RetiredUpTo, Multiplied1, Multiplied2
<1>8. \A w \in Vectors : FlagsAt(w)
  BY <1>3, <1>7, Groups2 DEF FlagsAt
<1>9. OwnSlots
  BY <1>7, Groups2 DEF OwnSlots, Holds
<1>10. QED
  BY <1>6, <1>8, <1>9 DEF PipeInv

\* Every step of the kernel keeps it.
LEMMA PipeStep == PipeInv /\ [FlashNext]_vars => PipeInv'
<1> SUFFICES ASSUME PipeInv, [FlashNext]_vars PROVE PipeInv'
  OBVIOUS
<1>1. ASSUME NEW w \in Vectors, SetLoopTimes(w) PROVE PipeInv'
  BY <1>1, StartStep DEF SetLoopTimes
<1>2. ASSUME NEW w \in Vectors, NEW k, NEW to, VectorLoad(w, k, to) PROVE PipeInv'
  BY <1>2, IssueStep DEF VectorLoad, QueryPreProcessL
<1>3. ASSUME NEW w \in Vectors, NEW k, ProcessVec1L(w, k) PROVE PipeInv'
  BY <1>3, SoftmaxStep DEF ProcessVec1L
<1>4. ASSUME NEW w \in Vectors, NEW k, ProcessVec2L(w, k) PROVE PipeInv'
  BY <1>4, RetireStep DEF ProcessVec2L
<1>5. ASSUME NEW w \in Vectors, FlashDecodeCompute(w) PROVE PipeInv'
  <2>1. DOMAIN vec = Vectors
    BY DEF PipeInv, PipeType
  <2>2. /\ vec[w].part = "combine" /\ vec' = [vec EXCEPT ![w] = At("done", 0, 0)]
        /\ UNCHANGED <<antiquant, loops, cube, flags, vecInfo, cubeInfo, mm1, vec1, mm2>>
    BY <1>5 DEF FlashDecodeCompute
  <2>3. QED
    BY <2>1, <2>2, EndStep
<1>6. ASSUME NEW g \in Cubes, SetLoopTimesCube(g) PROVE PipeInv'
  BY <1>6, StartCubeStep DEF SetLoopTimesCube
<1>7. ASSUME NEW g \in Cubes, NEW k, NEW to, CubeLoad(g, k, to) PROVE PipeInv'
  BY <1>7, Matmul1Step DEF CubeLoad, ComputeMm1
<1>8. ASSUME NEW g \in Cubes, NEW k, ComputeMm2(g, k) PROVE PipeInv'
  BY <1>8, Matmul2Step DEF ComputeMm2
<1>9. ASSUME SyncAll PROVE PipeInv'
  <2>1. /\ \A w \in Vectors : vec[w].part = "sync"
        /\ vec' = [w \in Vectors |-> At("combine", 0, 0)]
        /\ UNCHANGED <<antiquant, loops, cube, flags, vecInfo, cubeInfo, mm1, vec1, mm2>>
    BY <1>9 DEF SyncAll
  <2>2. QED
    BY <2>1, EndStep
<1>10. ASSUME UNCHANGED vars PROVE PipeInv'
  <2>1. UNCHANGED <<antiquant, loops, cube, flags, vecInfo, cubeInfo, mm1, vec1, mm2>> /\ vec' = vec
    BY <1>10 DEF vars, pipeVars
  <2>2. DOMAIN vec = Vectors
    BY DEF PipeInv, PipeType
  <2>3. QED
    BY <2>1, <2>2, EndStep
<1>11. QED
  BY <1>1, <1>2, <1>3, <1>4, <1>5, <1>6, <1>7, <1>8, <1>9, <1>10
     DEF FlashNext, VectorStep, CubeStep

\* What the flags count follows from the invariant and the bounds of the counts.
LEMMA InvImpliesFlags == PipeInv => FlagsCount
<1> SUFFICES ASSUME PipeInv, NEW w \in Vectors
             PROVE  LET g == GroupOf(w) IN
                      /\ v0c1[w] = IF antiquant THEN V0(w) - C1(g) ELSE 0
                      /\ c1v1[w] = C1(g) - V1(w)
                      /\ v1c2[w] = V1(w) - C2(g)
                      /\ c2v2[w] = C2(g) - V2(w)
                      /\ \A flag \in {v0c1[w], c1v1[w], v1c2[w], c2v2[w]} : flag \in 0 .. Preload
  BY DEF FlagsCount
<1> DEFINE g == GroupOf(w)
<1>1. /\ V0(w) \in Nat /\ V1(w) \in Nat /\ V2(w) \in Nat /\ C1(g) \in Nat /\ C2(g) \in Nat
      /\ FlagsAt(w)
  BY Facts
<1>2. /\ V0(w) - C1(g) <= Preload /\ C1(g) - V1(w) <= Preload
      /\ V1(w) - C2(g) <= Preload /\ C2(g) - V2(w) <= Preload
  BY Facts, Bounds DEF V0, V1, V2, C1, C2
<1>3. QED
  BY <1>1, <1>2, PipeAssumption DEF FlagsAt

\* The inductive invariant of the pipeline.
THEOREM PipeInvariant == FlashSpec => []PipeInv
BY PipeInit, PipeStep, PTL DEF FlashSpec

\* Every flag counts how far its setter is ahead of its waiter, and never more than the
\* rings have slots, for every number of groups, loops and loops in flight.
THEOREM FlagsAreCounts == FlashSpec => []FlagsCount
BY PipeInvariant, InvImpliesFlags, PTL

\* No core writes a slot that another has yet to read, and each reads the slot of its loop.
THEOREM SlotsAreOwn == FlashSpec => []OwnSlots
<1>1. PipeInv => OwnSlots
  BY DEF PipeInv
<1>2. QED
  BY <1>1, PipeInvariant, PTL

-----------------------------------------------------------------------------
(* The data.  What a core does in loop k of its group is fixed by the input:  *)
(* a loop belongs to one task, and what is computed in it is of that task.    *)

Times(g, n) == InnerLoopTimes(g, TaskAt(n)[1])

\* The loops of the tasks before task n, and the task of loop k.
Before(g, n) == Cardinality(InnerLoops(g, FirstTask(g) .. n - 1))
TaskOfLoop(g, k) == CHOOSE n \in TaskNumbers(g) : Before(g, n) <= k /\ k < Before(g, n + 1)

\* How many tasks up to task n are not empty.
Fulls(g, n) == Cardinality({m \in FirstTask(g) .. n : Times(g, m) > 0})

\* Where the walk of a core is at loop k, and before it.
WalkIn(g, k) ==
  LET n == TaskOfLoop(g, k)
  IN WalkAt(g, TaskAt(n)[1], TaskAt(n)[2], k - Before(g, n), Fulls(g, n))
WalkBefore(g, k) == IF k = 0 THEN NoWalk ELSE WalkIn(g, k - 1)

\* What is noted of loop k, and computed in it.
InfoOf(g, k) == ExtraInfo(g, WalkBefore(g, k), WalkIn(g, k), k)
AccountOf(g, k) == Account({TaskOf(InfoOf(g, k))}, RowsIn(InfoOf(g, k)))

Accounts(g) == [k \in Nat |-> Entry(k, AccountOf(g, k))]

\* The accounts of the loops of a task up to loop k.
Sums(g, k) ==
  [x \in 1 .. WalkIn(g, k).s2 + 1 |-> Accounts(g)[k - WalkIn(g, k).s2 + x - 1].data]

Infos(g) == [k \in Nat |-> Entry(k, InfoOf(g, k))]
Products(g) == [k \in Nat |-> Entry(k, [h \in {0, 1} |-> AccountOf(g, k)])]
AllSums(g) == [k \in Nat |-> Sums(g, k)]
Walks(g) == [k \in Nat |-> WalkBefore(g, k)]
Loops == [g \in Cubes |-> LoopTimes(g)]

\* The last loop of its task, and all of these.
Ends(g, k) == WalkIn(g, k).s2 + 1 = WalkIn(g, k).times
Lasts(g) == {k \in Nat : Ends(g, k)}

\* The task a group has a part of.
OwnTask(g) == TaskAt(FirstTask(g))

\* A ring keeps what is due to loops from one to another.
Keeps(ring, due, from, to) == \A k \in from .. to - 1 : ring[Slot(k)] = due[k]

\* A ring of queries has those of the tasks of these loops.
Queried(ring, due, from, to) ==
  \A k \in from .. to - 1 : ring[Slot(due[k].data.bn2)] = TaskOf(due[k].data)

\* The last Preload of n loops begin here.
Since(n) == IF n <= Preload THEN 0 ELSE n - Preload

\* A table of parts of tasks, for both halves of the rows.
IsParts(x, tasks, parts) ==
  /\ DOMAIN x = {0, 1} /\ \A h \in {0, 1} : DOMAIN x[h] = tasks
  /\ \A h \in {0, 1}, t \in tasks : DOMAIN x[h][t] = parts

DataType ==
  /\ input \in Inputs /\ loops = Loops /\ loops \in [Cubes -> 0 .. MaxLoops]
  /\ DOMAIN vecWalk = Vectors /\ DOMAIN cubeWalk = Cubes
  /\ DOMAIN keyGm = Cubes /\ DOMAIN valueGm = Cubes
  /\ IsRing(query, Vectors) /\ IsRing(soft, Vectors) /\ IsRing(acc, Vectors)
  /\ \A x \in {lse, accum} : IsParts(x, Tasks, 0 .. input.split - 1)
  /\ DOMAIN out = {0, 1} /\ \A h \in {0, 1} : DOMAIN out[h] = Tasks

\* What a vector core finds: its own rings, and those of its cube core.
VectorData(w) ==
  LET g == GroupOf(w)
  IN /\ vecWalk[w] = Walks(g)[V0(w)]
     /\ Keeps(vecInfo[w], Infos(g), V2(w), V0(w))
     /\ Keeps(mm1[g], Accounts(g), V1(w), C1(g))
     /\ Keeps(vec1[w], Accounts(g), C2(g), V1(w))
     /\ Keeps(mm2[g], Products(g), V2(w), C2(g))
     /\ Keeps(soft[w], AllSums(g), Since(V1(w)), V1(w))

\* The result so far, and the query of the tasks in the last Preload loops.
AccHolds(w) ==
  LET g == GroupOf(w)
  IN V2(w) > 0 /\ V2(w) - 1 \notin Lasts(g) =>
       acc[w][Slot(V2(w) - 1)] = AllSums(g)[V2(w) - 1]
QueryHolds(w) ==
  LET g == GroupOf(w)
  IN antiquant => Queried(query[w], Infos(g), Since(V0(w)), V0(w))

\* What a group has left of its part of a task.
PartsHold(w) ==
  LET g == GroupOf(w)
  IN FlashDecode /\ loops[g] > 0 =>
       /\ V1(w) = loops[g] => lse[Half(w)][OwnTask(g)][SplitOf(g)] = AllSums(g)[loops[g] - 1]
       /\ V2(w) = loops[g] => accum[Half(w)][OwnTask(g)][SplitOf(g)] = AllSums(g)[loops[g] - 1]

VectorHolds(w) == VectorData(w) /\ AccHolds(w) /\ QueryHolds(w) /\ PartsHold(w)

CubeHolds(g) ==
  /\ cubeWalk[g] = Walks(g)[C1(g)]
  /\ Keeps(cubeInfo[g], Infos(g), C2(g), C1(g))
  /\ ~input.continuous =>
       /\ C1(g) > 0 => keyGm[g] = Walks(g)[C1(g)].b
       /\ C2(g) > 0 => valueGm[g] = Walks(g)[C2(g)].b

\* Whose result may have been written.
Retiring(h, t) ==
  \E k \in 0 .. V2(Core(0, h)) - 1 : TaskOf(Infos(0)[k].data) = t /\ k \in Lasts(0)
Combined(t) == \E w \in Vectors : TaskAt(w) = t /\ vec[w].part = "done"
OutHolds ==
  \A h \in {0, 1}, t \in Tasks :
    \/ out[h][t] = <<>>
    \/ input.lens[t[1]] = 0 /\ out[h][t] = <<Nothing>>
    \/ input.lens[t[1]] # 0 /\ IF FlashDecode THEN Combined(t) ELSE Retiring(h, t)

\* Combining begins when all vector cores are through.
Barrier ==
  \A w \in Vectors : vec[w].part \in {"combine", "done"} =>
    FlashDecode /\ \A u \in Vectors : vec[u].part \in {"combine", "done"}

\* Blocks of loops start at multiples of Preload.
Grid ==
  /\ vec = [w \in Vectors |-> vec[w]] /\ cube = [g \in Cubes |-> cube[g]]
  /\ \A w \in Vectors : vec[w].i % Preload = 0 /\ vec[w].i <= loops[GroupOf(w)]
  /\ \A g \in Cubes : cube[g].i % Preload = 0 /\ cube[g].i <= loops[g]

DataInv ==
  /\ DataType
  /\ \A w \in Vectors : VectorHolds(w)
  /\ \A g \in Cubes : CubeHolds(g)
  /\ OutHolds /\ Barrier /\ Grid

-----------------------------------------------------------------------------
(* Numbers. *)

\* Of a set of naturals that is not empty some number is the least: induction
\* without a predicate for a parameter.
LEMMA Least ==
  ASSUME NEW T \in SUBSET Nat, T # {}
  PROVE  \E n \in T : \A m \in T : n <= m
<1> DEFINE L == {ss \in Nat \X Nat : ss[1] < ss[2]}
<1>1. IsWellFoundedOn(L, Nat)
  BY NatLessThanWellFounded DEF OpToRel
<1>2. PICK n \in T : \A m \in T : <<m, n>> \notin L
  BY <1>1, WFMin
<1>3. ASSUME NEW m \in T PROVE n <= m
  <2>1. m \in Nat /\ n \in Nat /\ <<m, n>> \notin L
    BY <1>2
  <2>2. QED
    BY <2>1
<1>4. QED
  BY <1>3

\* A multiple of n and a remainder below n are a quotient and its remainder.
LEMMA DivisionOnly ==
  ASSUME NEW n \in Nat \ {0}, NEW q \in Int, NEW r \in 0 .. n - 1, NEW a \in Int,
         a = n * q + r
  PROVE  a \div n = q /\ a % n = r
<1>1. PICK x \in Int : x = a \div n
  BY Division
<1>2. PICK y \in 0 .. n - 1 : y = a % n
  BY Division
<1>3. a = n * x + y
  BY <1>1, <1>2, Division
<1>4. n * q + r = n * x + y
  BY <1>3
<1>5. ~(q < x)
  <2>1. SUFFICES ASSUME q + 1 <= x PROVE FALSE
    OBVIOUS
  <2>2. n * (q + 1) <= n * x
    BY <2>1
  <2>3. n * (q + 1) = n * q + n
    OBVIOUS
  <2>4. n * q \in Int /\ n * x \in Int
    OBVIOUS
  <2>5. QED
    BY <1>4, <2>2, <2>3, <2>4
<1>6. ~(x < q)
  <2>1. SUFFICES ASSUME x + 1 <= q PROVE FALSE
    OBVIOUS
  <2>2. n * (x + 1) <= n * q
    BY <2>1
  <2>3. n * (x + 1) = n * x + n
    OBVIOUS
  <2>4. n * q \in Int /\ n * x \in Int
    OBVIOUS
  <2>5. QED
    BY <1>4, <2>2, <2>3, <2>4
<1>7. q = x
  BY <1>5, <1>6
<1>8. n * q \in Int /\ n * q = n * x
  BY <1>7
<1>9. r = y
  BY <1>4, <1>8
<1>10. QED
  BY <1>1, <1>2, <1>7, <1>9

\* The quotient of a number below n * m is below m.
LEMMA DivisionBelow ==
  ASSUME NEW n \in Nat \ {0}, NEW m \in Nat, NEW a \in Nat, a < n * m
  PROVE  a \div n \in 0 .. m - 1
<1>1. PICK x \in Int : x = a \div n
  BY Division
<1>2. PICK y \in 0 .. n - 1 : y = a % n
  BY Division
<1>3. a = n * x + y
  BY <1>1, <1>2, Division
<1>4. n * x \in Int /\ n * m \in Int
  OBVIOUS
<1>5. ~(m <= x)
  <2>1. SUFFICES ASSUME m <= x PROVE FALSE
    OBVIOUS
  <2>2. n * m <= n * x
    BY <2>1
  <2>3. QED
    BY <1>3, <1>4, <2>2
<1>6. ~(x < 0)
  <2>1. SUFFICES ASSUME x <= -1 PROVE FALSE
    OBVIOUS
  <2>2. n * x <= n * (-1)
    BY <2>1
  <2>3. n * (-1) = -n
    OBVIOUS
  <2>4. QED
    BY <1>3, <1>4, <2>2, <2>3
<1>7. QED
  BY <1>1, <1>5, <1>6

\* There are n numbers below n.
LEMMA Below ==
  ASSUME NEW n \in Nat
  PROVE  IsFiniteSet(0 .. n - 1) /\ Cardinality(0 .. n - 1) = n
<1>1. 0 \in Int /\ n - 1 \in Int
  OBVIOUS
<1>2. /\ IsFiniteSet(0 .. n - 1)
      /\ Cardinality(0 .. n - 1) = IF 0 > n - 1 THEN 0 ELSE n - 1 - 0 + 1
  BY <1>1, FS_Interval, Zenon
<1>3. QED
  BY <1>2

\* What appending does to a sequence, whatever its elements.
LEMMA AppendIs ==
  ASSUME NEW n \in Nat, NEW f, f = [x \in 1 .. n |-> f[x]], NEW e
  PROVE  Append(f, e) = [x \in 1 .. n + 1 |-> IF x = n + 1 THEN e ELSE f[x]]
<1> DEFINE S == {f[x] : x \in 1 .. n} \cup {e}
<1>1. f \in [1 .. n -> S]
  BY Zenon
<1>2. f \in Seq(S) /\ Len(f) = n
  <2> HIDE DEF S
  <2>1. f \in Seq(S)
    BY <1>1, SeqDef
  <2>2. Len(f) \in Nat /\ DOMAIN f = 1 .. Len(f) /\ DOMAIN f = 1 .. n
    BY <1>1, <2>1, LenProperties
  <2>3. QED
    BY <2>1, <2>2
<1>3. e \in S
  OBVIOUS
<1> HIDE DEF S
<1>4. QED
  BY <1>2, <1>3

\* The smaller and the larger of two numbers.
LEMMA MinMax ==
  ASSUME NEW a \in Int, NEW b \in Int
  PROVE  /\ Min({a, b}) = IF a <= b THEN a ELSE b
         /\ Max({a, b}) = IF a <= b THEN b ELSE a
<1>1. Min({a, b}) = IF a <= b THEN a ELSE b
  <2> DEFINE P(x) == x \in {a, b} /\ \A y \in {a, b} : x =< y
             m == IF a <= b THEN a ELSE b
  <2>1. P(m) /\ \A x \in {a, b} : P(x) => x = m
    OBVIOUS
  <2>2. QED
    BY <2>1 DEF Min
<1>2. Max({a, b}) = IF a <= b THEN b ELSE a
  <2> DEFINE P(x) == x \in {a, b} /\ \A y \in {a, b} : x >= y
             m == IF a <= b THEN b ELSE a
  <2>1. P(m) /\ \A x \in {a, b} : P(x) => x = m
    OBVIOUS
  <2>2. QED
    BY <2>1 DEF Max
<1>3. QED
  BY <1>1, <1>2

-----------------------------------------------------------------------------
(* Tasks and their loops. *)

\* What is assumed of the input of a run.
LEMMA InputIs ==
  ASSUME input \in Inputs
  PROVE  /\ input.batch \in Nat /\ input.heads \in Nat \ {0} /\ input.split \in Nat
         /\ input.before \in Nat /\ input.range \in Nat /\ input.continuous \in BOOLEAN
         /\ input.lens \in [0 .. input.batch - 1 -> Nat]
         /\ input.before + input.range <= input.batch * input.heads
         /\ FlashDecode => /\ input.split > 0
                           /\ input.batch * input.heads * input.split = Groups
                           /\ \A b \in 0 .. input.batch - 1 :
                                input.lens[b] <= input.split * SplitSize
         /\ SInner \in Nat \ {0} /\ SplitSize \in Nat \ {0}
         /\ input.batch * input.heads \in Nat
<1>1. /\ input.batch \in Nat /\ input.heads \in Nat \ {0} /\ input.split \in Nat
      /\ input.before \in Nat /\ input.range \in Nat /\ input.continuous \in BOOLEAN
      /\ input.lens \in [0 .. input.batch - 1 -> Nat]
      /\ input.before + input.range <= input.batch * input.heads
      /\ input.split > 0 => /\ input.batch * input.heads * input.split = Groups
                            /\ \A b \in DOMAIN input.lens :
                                 input.lens[b] <= input.split * SplitSize
      /\ SInner \in Nat \ {0} /\ SplitSize \in Nat \ {0}
  BY InputAssumption
<1>2. input.batch * input.heads \in Nat
  BY <1>1
<1>3. QED
  BY <1>1, <1>2 DEF FlashDecode

\* The tasks of a group are numbers of tasks there are.
LEMMA NumbersBelow ==
  ASSUME input \in Inputs, NEW g \in Cubes
  PROVE  /\ FirstTask(g) \in Nat /\ TaskCount(g) \in Nat
         /\ \A n \in TaskNumbers(g) : n \in Nat /\ n < input.heads * input.batch
         /\ FlashDecode => TaskCount(g) = 1
         /\ FirstTask(g) + TaskCount(g) <= input.heads * input.batch
<1>1. input.heads * input.batch = input.batch * input.heads /\ input.batch * input.heads \in Nat
  BY InputIs
<1>2. PICK all \in Nat : all = input.batch * input.heads
  BY <1>1
<1>3. CASE FlashDecode
  <2>1. input.split \in Nat \ {0} /\ input.batch * input.heads * input.split = Groups
    BY <1>3, InputIs
  <2>2. input.split * all = Groups
    BY <1>2, <2>1
  <2>3. g \in Nat /\ g < input.split * all
    BY <2>2, PipeAssumption DEF Cubes
  <2>4. g \div input.split \in 0 .. all - 1
    BY <2>1, <2>3, DivisionBelow
  <2>5. FirstTask(g) = g \div input.split /\ TaskCount(g) = 1
    BY <1>3 DEF FirstTask, TaskCount
  <2>6. QED
    BY <1>1, <1>2, <2>4, <2>5 DEF TaskNumbers
<1>4. CASE ~FlashDecode
  <2>1. /\ FirstTask(g) = input.before /\ TaskCount(g) \in {0, input.range}
    BY <1>4 DEF FirstTask, TaskCount
  <2>2. /\ input.before \in Nat /\ input.range \in Nat /\ input.before + input.range <= all
    BY <1>2, InputIs
  <2>3. QED
    BY <1>1, <1>2, <1>4, <2>1, <2>2 DEF TaskNumbers
<1>5. QED
  BY <1>3, <1>4

\* A number below the number of tasks is that of one task.
LEMMA TaskIn ==
  ASSUME input \in Inputs, NEW n \in Nat, n < input.heads * input.batch
  PROVE  /\ TaskAt(n) \in Tasks
         /\ TaskAt(n)[1] \in 0 .. input.batch - 1 /\ TaskAt(n)[2] \in 0 .. input.heads - 1
         /\ n = input.heads * TaskAt(n)[1] + TaskAt(n)[2]
         /\ input.lens[TaskAt(n)[1]] \in Nat
<1>1. /\ input.heads \in Nat \ {0} /\ input.batch \in Nat
      /\ input.lens \in [0 .. input.batch - 1 -> Nat]
  BY InputIs
<1>2. n \div input.heads \in 0 .. input.batch - 1
  BY <1>1, DivisionBelow
<1>3. PICK h \in Nat \ {0} : h = input.heads
  BY <1>1
<1>4. /\ n % h \in 0 .. h - 1
      /\ n = h * (n \div h) + (n % h)
  <2>1. n \in Int
    OBVIOUS
  <2>2. QED
    BY <2>1, Division, Zenon
<1>5. QED
  BY <1>1, <1>2, <1>3, <1>4 DEF TaskAt, Tasks

\* Tasks with different numbers are different.
LEMMA TasksApart ==
  ASSUME input \in Inputs, NEW n \in Nat, n < input.heads * input.batch,
         NEW m \in Nat, m < input.heads * input.batch, TaskAt(n) = TaskAt(m)
  PROVE  n = m
BY TaskIn

\* How many loops so many rows take, of a size each, and how many are left for the last.
LEMMA LoopsOfRows ==
  ASSUME NEW rows \in Nat, NEW size \in Nat \ {0}
  PROVE  LET n == CeilDiv(rows, size)
         IN /\ n \in Nat /\ (n = 0 <=> rows = 0)
            /\ rows > 0 => rows - (n - 1) * size \in 1 .. size
<1>1. size \in Nat \ {0}
  OBVIOUS
<1>2. PICK x \in Int : x = (rows + size - 1) \div size
  BY <1>1, Division
<1>3. PICK y \in 0 .. size - 1 : y = (rows + size - 1) % size
  BY <1>1, Division
<1>4. rows + size - 1 = size * x + y
  BY <1>1, <1>2, <1>3, Division
<1>5. PICK z \in Int : z = size * x
  BY <1>1
<1>6. (x - 1) * size = z - size
  BY <1>1, <1>5
<1>7. rows - (z - size) = y + 1
  BY <1>1, <1>4, <1>5
<1>8. ~(x < 0)
  <2>1. SUFFICES ASSUME x <= -1 PROVE FALSE
    OBVIOUS
  <2>2. size * x <= size * (-1) /\ size * (-1) = -size
    BY <1>1, <2>1
  <2>3. QED
    BY <1>1, <1>4, <1>5, <2>2
<1>9. x = 0 <=> rows = 0
  <2>1. ASSUME x = 0 PROVE rows = 0
    <3>1. z = 0
      BY <1>1, <1>5, <2>1
    <3>2. QED
      BY <1>1, <1>7, <3>1
  <2>2. ASSUME rows = 0 PROVE x = 0
    <3>1. ~(x >= 1)
      <4>1. SUFFICES ASSUME x >= 1 PROVE FALSE
        OBVIOUS
      <4>2. size * x >= size * 1
        BY <1>1, <4>1
      <4>3. QED
        BY <1>1, <1>4, <2>2, <4>2
    <3>2. QED
      BY <1>8, <3>1
  <2>3. QED
    BY <2>1, <2>2
<1>10. CeilDiv(rows, size) = x
  BY <1>2 DEF CeilDiv
<1>11. QED
  BY <1>1, <1>6, <1>7, <1>8, <1>9, <1>10

\* The rows of a task that a group computes, and in how many loops.
LEMMA TimesType ==
  ASSUME input \in Inputs, NEW g \in Cubes, NEW n \in Nat, n < input.heads * input.batch
  PROVE  LET b == TaskAt(n)[1]
         IN /\ RowsOf(g, b) \in Nat /\ Times(g, n) \in Nat
            /\ (Times(g, n) = 0 <=> RowsOf(g, b) = 0)
            /\ Times(g, n) > 0 => /\ TailRows(g, b) \in 1 .. SInner /\ input.lens[b] > 0
                                  /\ RowsOf(g, b) = (Times(g, n) - 1) * SInner + TailRows(g, b)
            /\ ~FlashDecode => RowsOf(g, b) = input.lens[b]
<1> DEFINE b == TaskAt(n)[1]
           rows == RowsOf(g, b)
<1>1. input.lens[b] \in Nat /\ SplitSize \in Nat \ {0} /\ SInner \in Nat \ {0}
  BY InputIs, TaskIn
<1>2. rows \in Nat /\ (rows > 0 => input.lens[b] > 0) /\ (~FlashDecode => rows = input.lens[b])
  <2>1. CASE FlashDecode
    <3>1. SplitOf(g) \in Nat
      <4>1. PICK m \in Nat \ {0} : m = input.split
        BY <2>1, InputIs
      <4>2. g \in Int
        BY DEF Cubes
      <4>3. g % m \in 0 .. m - 1
        BY <4>2, Division
      <4>4. QED
        BY <2>1, <4>1, <4>3 DEF SplitOf
    <3>2. PICK s \in Nat : s = SplitSize * SplitOf(g)
      BY <1>1, <3>1
    <3>3. PICK m \in Nat : /\ m = Max({0, input.lens[b] - SplitSize * SplitOf(g)})
                           /\ m > 0 => input.lens[b] > 0
      <4>1. PICK x \in Int : x = input.lens[b] - s
        BY <1>1
      <4>2. Max({0, x}) = IF 0 <= x THEN x ELSE 0
        <5>1. 0 \in Int
          OBVIOUS
        <5>2. QED
          BY <5>1, MinMax, Zenon
      <4>3. QED
        BY <1>1, <3>2, <4>1, <4>2
    <3>4. rows = IF SplitSize <= m THEN SplitSize ELSE m
      <4>1. SplitSize \in Int /\ m \in Int
        BY <1>1
      <4>2. Min({SplitSize, m}) = IF SplitSize <= m THEN SplitSize ELSE m
        BY <4>1, MinMax, Zenon
      <4>3. QED
        BY <2>1, <3>3, <4>2 DEF RowsOf
    <3>5. QED
      BY <1>1, <2>1, <3>3, <3>4
  <2>2. CASE ~FlashDecode
    BY <1>1, <2>2 DEF RowsOf
  <2>3. QED
    BY <2>1, <2>2
<1> HIDE DEF rows
<1>3. Times(g, n) = CeilDiv(rows, SInner)
  BY DEF Times, InnerLoopTimes, rows
<1>4. /\ Times(g, n) \in Nat /\ (Times(g, n) = 0 <=> rows = 0)
      /\ rows > 0 => rows - (Times(g, n) - 1) * SInner \in 1 .. SInner
  BY <1>1, <1>2, <1>3, LoopsOfRows
<1>5. TailRows(g, b) = rows - (Times(g, n) - 1) * SInner
  BY DEF TailRows, Times, rows
<1>6. PICK x \in Int : x = (Times(g, n) - 1) * SInner
  BY <1>1, <1>4
<1>7. Times(g, n) > 0 => /\ TailRows(g, b) \in 1 .. SInner /\ input.lens[b] > 0
                         /\ rows = (Times(g, n) - 1) * SInner + TailRows(g, b)
  BY <1>2, <1>4, <1>5, <1>6
<1>8. QED
  BY <1>2, <1>4, <1>7 DEF rows

\* The inner loops of so many tasks are so many.
LEMMA LoopsFinite ==
  ASSUME input \in Inputs, NEW g \in Cubes, NEW numbers \in SUBSET Nat, IsFiniteSet(numbers),
         \A n \in numbers : n < input.heads * input.batch
  PROVE  IsFiniteSet(InnerLoops(g, numbers))
<1> DEFINE Own(n) == {n} \X (0 .. Times(g, n) - 1)
           all == {Own(n) : n \in numbers}
           f == [n \in numbers |-> Own(n)]
<1>1. f \in Surjection(numbers, all)
  BY DEF Surjection
<1>2. IsFiniteSet(all)
  <2> HIDE DEF all, f
  <2>1. QED
    BY <1>1, FS_Surjection
<1>3. \A T \in all : IsFiniteSet(T)
  <2> SUFFICES ASSUME NEW n \in numbers PROVE IsFiniteSet(Own(n))
    OBVIOUS
  <2>1. Times(g, n) \in Nat
    BY TimesType
  <2>2. IsFiniteSet(0 .. Times(g, n) - 1) /\ IsFiniteSet({n})
    BY <2>1, Below, FS_Singleton
  <2>3. QED
    BY <2>2, FS_Product
<1>4. InnerLoops(g, numbers) = UNION all
  BY DEF InnerLoops, Times
<1>5. QED
  BY <1>2, <1>3, <1>4, FS_UNION

\* A task of a group is one of all tasks.
LEMMA NumberIn ==
  ASSUME input \in Inputs, NEW g \in Cubes, NEW n \in TaskNumbers(g)
  PROVE  /\ n \in Nat /\ n < input.heads * input.batch /\ Times(g, n) \in Nat
         /\ FirstTask(g) \in Nat /\ FirstTask(g) <= n /\ n < FirstTask(g) + TaskCount(g)
         /\ TaskCount(g) \in Nat
<1>1. /\ n \in Nat /\ n < input.heads * input.batch
      /\ FirstTask(g) \in Nat /\ TaskCount(g) \in Nat
  BY NumbersBelow
<1>2. Times(g, n) \in Nat
  BY <1>1, TimesType
<1>3. QED
  BY <1>1, <1>2 DEF TaskNumbers

\* The loops of the tasks before one task are some of those before a later one.
LEMMA BeforeUp ==
  ASSUME input \in Inputs, NEW g \in Cubes,
         NEW n \in FirstTask(g) .. FirstTask(g) + TaskCount(g),
         NEW m \in FirstTask(g) .. FirstTask(g) + TaskCount(g), n <= m
  PROVE  Before(g, n) \in Nat /\ Before(g, m) \in Nat /\ Before(g, n) <= Before(g, m)
<1>1. FirstTask(g) \in Nat /\ TaskCount(g) \in Nat
      /\ FirstTask(g) + TaskCount(g) <= input.heads * input.batch
      /\ input.heads * input.batch \in Nat
  BY NumbersBelow, InputIs
<1>2. IsFiniteSet(InnerLoops(g, FirstTask(g) .. m - 1))
  <2>1. FirstTask(g) .. m - 1 \in SUBSET Nat
    BY <1>1
  <2>2. \A x \in FirstTask(g) .. m - 1 : x < input.heads * input.batch
    BY <1>1
  <2>3. IsFiniteSet(FirstTask(g) .. m - 1)
    BY <1>1, FS_Interval
  <2>4. QED
    BY <2>1, <2>2, <2>3, LoopsFinite
<1>3. InnerLoops(g, FirstTask(g) .. n - 1) \subseteq InnerLoops(g, FirstTask(g) .. m - 1)
  BY <1>1 DEF InnerLoops
<1>4. QED
  BY <1>2, <1>3, FS_Subset, FS_CardinalityType DEF Before

\* No loops come before the first task of a group.
LEMMA BeforeFirst ==
  ASSUME input \in Inputs, NEW g \in Cubes
  PROVE  Before(g, FirstTask(g)) = 0
<1>1. FirstTask(g) .. FirstTask(g) - 1 = {}
  BY NumbersBelow
<1>2. InnerLoops(g, {}) = {}
  BY DEF InnerLoops
<1>3. QED
  BY <1>1, <1>2, FS_EmptySet DEF Before

\* A task adds its own loops.
LEMMA BeforeNext ==
  ASSUME input \in Inputs, NEW g \in Cubes, NEW n \in TaskNumbers(g)
  PROVE  Before(g, n + 1) = Before(g, n) + Times(g, n)
<1> DEFINE old == InnerLoops(g, FirstTask(g) .. n - 1)
           new == InnerLoops(g, FirstTask(g) .. n)
           own == {n} \X (0 .. Times(g, n) - 1)
<1>1. /\ n \in Nat /\ n < input.heads * input.batch /\ Times(g, n) \in Nat
      /\ FirstTask(g) \in Nat /\ FirstTask(g) <= n /\ input.heads * input.batch \in Nat
  BY NumberIn, InputIs
<1>2. new = old \cup own
  <2>1. FirstTask(g) .. n = (FirstTask(g) .. n - 1) \cup {n}
    BY <1>1
  <2>2. QED
    BY <2>1 DEF InnerLoops, Times
<1>3. old \cap own = {}
  BY <1>1 DEF InnerLoops
<1>4. IsFiniteSet(old)
  <2>1. FirstTask(g) .. n - 1 \in SUBSET Nat
    BY <1>1
  <2>2. \A x \in FirstTask(g) .. n - 1 : x < input.heads * input.batch
    BY <1>1
  <2>3. IsFiniteSet(FirstTask(g) .. n - 1)
    BY <1>1, FS_Interval
  <2>4. QED
    BY <2>1, <2>2, <2>3, LoopsFinite
<1>5. IsFiniteSet(own) /\ Cardinality(own) = Times(g, n)
  <2>1. /\ IsFiniteSet(0 .. Times(g, n) - 1) /\ Cardinality(0 .. Times(g, n) - 1) = Times(g, n)
        /\ IsFiniteSet({n}) /\ Cardinality({n}) = 1
    BY <1>1, Below, FS_Singleton
  <2>2. Cardinality(own) = 1 * Times(g, n) /\ IsFiniteSet(own)
    BY <2>1, FS_Product
  <2>3. QED
    BY <1>1, <2>2
<1>6. /\ Cardinality(new) = Cardinality(old) + Cardinality(own) - Cardinality({})
      /\ Cardinality(old) \in Nat /\ Cardinality({}) = 0
  <2> HIDE DEF old, own, new
  <2>1. Cardinality(old \cup own) = Cardinality(old) + Cardinality(own) - Cardinality(old \cap own)
    BY <1>4, <1>5, FS_Union
  <2>2. Cardinality(old) \in Nat /\ Cardinality({}) = 0
    BY <1>4, FS_EmptySet, FS_CardinalityType
  <2>3. QED
    BY <1>2, <1>3, <2>1, <2>2
<1>7. Before(g, n) = Cardinality(old) /\ Before(g, n + 1) = Cardinality(new)
  BY <1>1 DEF Before
<1>8. QED
  BY <1>1, <1>5, <1>6, <1>7

\* All loops of a group are those before the end of its tasks.
LEMMA AllLoops ==
  ASSUME input \in Inputs, NEW g \in Cubes
  PROVE  /\ LoopTimes(g) = Before(g, FirstTask(g) + TaskCount(g))
         /\ LoopTimes(g) \in Nat
<1>1. FirstTask(g) \in Nat /\ TaskCount(g) \in Nat
  BY NumbersBelow
<1>2. LoopTimes(g) = Before(g, FirstTask(g) + TaskCount(g))
  BY <1>1 DEF LoopTimes, Before, TaskNumbers
<1>3. QED
  BY <1>1, <1>2, BeforeUp

\* Every loop is one of a task.
LEMMA TaskOfLoopIs ==
  ASSUME input \in Inputs, NEW g \in Cubes, NEW k \in 0 .. LoopTimes(g) - 1
  PROVE  LET n == TaskOfLoop(g, k)
         IN /\ n \in TaskNumbers(g) /\ Before(g, n) \in Nat
            /\ Before(g, n) <= k /\ k < Before(g, n + 1)
            /\ Before(g, n + 1) = Before(g, n) + Times(g, n)
            /\ k - Before(g, n) \in 0 .. Times(g, n) - 1
            /\ n \in Nat /\ n < input.heads * input.batch /\ Times(g, n) \in Nat \ {0}
<1> DEFINE F == FirstTask(g)
           last == F + TaskCount(g)
           T == {n \in F .. last : k < Before(g, n)}
<1>1. F \in Nat /\ TaskCount(g) \in Nat /\ k \in Nat
  BY NumbersBelow, AllLoops
<1>2. last \in T
  BY <1>1, AllLoops
<1>3. PICK m \in T : \A x \in T : m <= x
  <2>1. T \in SUBSET Nat /\ T # {}
    BY <1>1, <1>2
  <2> HIDE DEF T
  <2>2. QED
    BY <2>1, Least
<1>4. m # F
  BY <1>1, BeforeFirst
<1>5. m - 1 \in TaskNumbers(g) /\ m - 1 \in F .. last
  BY <1>1, <1>3, <1>4 DEF TaskNumbers
<1>6. Before(g, m - 1) \in Nat /\ ~(k < Before(g, m - 1))
  BY <1>1, <1>3, <1>5, BeforeUp
<1>7. \E n \in TaskNumbers(g) : Before(g, n) <= k /\ k < Before(g, n + 1)
  <2>1. (m - 1) + 1 = m
    BY <1>1, <1>3
  <2>2. QED
    BY <1>1, <1>3, <1>5, <1>6, <2>1
<1>8. PICK n : n = TaskOfLoop(g, k)
  OBVIOUS
<1>9. n \in TaskNumbers(g) /\ Before(g, n) <= k /\ k < Before(g, n + 1)
  BY <1>7, <1>8 DEF TaskOfLoop
<1>10. /\ n \in Nat /\ n < input.heads * input.batch /\ Times(g, n) \in Nat
       /\ Before(g, n + 1) = Before(g, n) + Times(g, n)
       /\ n \in F .. last
  BY <1>9, NumberIn, BeforeNext
<1>11. Before(g, n) \in Nat
  BY <1>10, BeforeUp
<1>12. k - Before(g, n) \in 0 .. Times(g, n) - 1 /\ Times(g, n) # 0
  BY <1>1, <1>9, <1>10, <1>11
<1>13. QED
  BY <1>8, <1>9, <1>10, <1>11, <1>12

\* ... and of one task only.
LEMMA OnlyTask ==
  ASSUME input \in Inputs, NEW g \in Cubes, NEW k \in 0 .. LoopTimes(g) - 1,
         NEW n \in TaskNumbers(g), Before(g, n) <= k, k < Before(g, n + 1)
  PROVE  TaskOfLoop(g, k) = n
<1> DEFINE m == TaskOfLoop(g, k)
           F == FirstTask(g)
           last == F + TaskCount(g)
<1>1. /\ m \in TaskNumbers(g) /\ Before(g, m) <= k /\ k < Before(g, m + 1)
  BY TaskOfLoopIs
<1>2. F \in Nat /\ TaskCount(g) \in Nat /\ k \in Nat
  BY NumbersBelow, AllLoops
<1>3. ASSUME NEW x \in TaskNumbers(g), NEW y \in TaskNumbers(g), x < y,
             k < Before(g, x + 1), Before(g, y) <= k
      PROVE  FALSE
  <2>1. x + 1 \in F .. last /\ y \in F .. last /\ x + 1 <= y
    BY <1>2, <1>3 DEF TaskNumbers
  <2>2. /\ Before(g, x + 1) \in Nat /\ Before(g, y) \in Nat
        /\ Before(g, x + 1) <= Before(g, y)
    BY <2>1, BeforeUp
  <2>3. QED
    BY <1>2, <1>3, <2>2
<1>4. m \in Int /\ n \in Int
  BY <1>1, <1>2 DEF TaskNumbers
<1>5. ~(m < n) /\ ~(n < m)
  BY <1>1, <1>3
<1>6. QED
  BY <1>4, <1>5

\* How many tasks are not empty: one more than before, if those between are empty.
LEMMA FullsNext ==
  ASSUME input \in Inputs, NEW g \in Cubes, NEW m \in TaskNumbers(g), Times(g, m) > 0,
         NEW n \in FirstTask(g) - 1 .. m - 1,
         \A x \in n + 1 .. m - 1 : Times(g, x) = 0
  PROVE  /\ Fulls(g, n) \in Nat /\ Fulls(g, m) = Fulls(g, n) + 1
         /\ n < FirstTask(g) => Fulls(g, n) = 0
<1> DEFINE F == FirstTask(g)
           old == {x \in F .. n : Times(g, x) > 0}
<1>1. F \in Nat /\ m \in Nat /\ F <= m /\ n \in Int
  BY NumberIn
<1>2. IsFiniteSet(old) /\ (n < F => old = {})
  <2>1. IsFiniteSet(F .. n)
    BY <1>1, FS_Interval
  <2>2. old \in SUBSET (F .. n)
    OBVIOUS
  <2>3. n < F => F .. n = {}
    BY <1>1
  <2> HIDE DEF old
  <2>4. QED
    BY <2>1, <2>2, <2>3, FS_Subset
<1>3. {x \in F .. m : Times(g, x) > 0} = old \cup {m}
  <2>1. ASSUME NEW x \in F .. m, Times(g, x) > 0, x \notin F .. n, x # m PROVE FALSE
    <3>1. x \in n + 1 .. m - 1
      BY <1>1, <2>1
    <3>2. QED
      BY <2>1, <3>1
  <2>2. m \in F .. m /\ F .. n \subseteq F .. m
    BY <1>1
  <2>3. QED
    BY <2>1, <2>2
<1>4. m \notin old
  BY <1>1
<1>5. Fulls(g, n) = Cardinality(old) /\ Fulls(g, m) = Cardinality(old \cup {m})
  BY <1>3 DEF Fulls
<1> HIDE DEF old
<1>6. QED
  BY <1>2, <1>4, <1>5, FS_AddElement, FS_CardinalityType, FS_EmptySet

\* The first task that has a loop.
LEMMA FirstOfLoops ==
  ASSUME input \in Inputs, NEW g \in Cubes, LoopTimes(g) > 0
  PROVE  LET m == TaskOfLoop(g, 0)
         IN /\ m \in TaskNumbers(g) /\ Times(g, m) > 0 /\ Before(g, m) = 0
            /\ \A x \in FirstTask(g) .. m - 1 : Times(g, x) = 0
            /\ Fulls(g, m) = 1
<1> DEFINE m == TaskOfLoop(g, 0)
           F == FirstTask(g)
<1>1. 0 \in 0 .. LoopTimes(g) - 1
  BY AllLoops
<1>2. /\ m \in TaskNumbers(g) /\ Before(g, m) \in Nat /\ Before(g, m) <= 0
      /\ Times(g, m) \in Nat \ {0} /\ m \in Nat /\ F \in Nat /\ F <= m
      /\ TaskCount(g) \in Nat /\ m < F + TaskCount(g)
  BY <1>1, TaskOfLoopIs, NumberIn
<1>3. ASSUME NEW x \in F .. m - 1 PROVE Times(g, x) = 0
  <2>1. x \in TaskNumbers(g) /\ x + 1 \in F .. F + TaskCount(g) /\ x \in F .. F + TaskCount(g)
        /\ m \in F .. F + TaskCount(g) /\ x + 1 <= m
    BY <1>2, <1>3 DEF TaskNumbers
  <2>2. /\ Before(g, x + 1) \in Nat /\ Before(g, x + 1) <= Before(g, m)
        /\ Before(g, x) \in Nat
    BY <2>1, BeforeUp
  <2>3. Before(g, x + 1) = Before(g, x) + Times(g, x) /\ Times(g, x) \in Nat
    BY <2>1, BeforeNext, NumberIn
  <2>4. QED
    BY <1>2, <2>2, <2>3
<1>4. Fulls(g, m) = 1
  <2>1. F - 1 \in F - 1 .. m - 1 /\ F - 1 < F /\ (F - 1) + 1 = F
    BY <1>2
  <2>2. \A x \in (F - 1) + 1 .. m - 1 : Times(g, x) = 0
    BY <1>3, <2>1
  <2>3. Fulls(g, F - 1) = 0 /\ Fulls(g, m) = Fulls(g, F - 1) + 1
    BY <1>2, <2>1, <2>2, FullsNext
  <2>4. QED
    BY <2>3
<1>5. QED
  BY <1>2, <1>3, <1>4

\* The task of the loop after the last of a task: empty ones are between them.
LEMMA NextOfLoops ==
  ASSUME input \in Inputs, NEW g \in Cubes, NEW k \in Nat, k + 1 < LoopTimes(g),
         Before(g, TaskOfLoop(g, k) + 1) <= k + 1
  PROVE  LET n == TaskOfLoop(g, k)
             m == TaskOfLoop(g, k + 1)
         IN /\ m \in TaskNumbers(g) /\ n < m /\ Times(g, m) > 0 /\ Before(g, m) = k + 1
            /\ \A x \in n + 1 .. m - 1 : Times(g, x) = 0
            /\ Fulls(g, m) = Fulls(g, n) + 1
<1> DEFINE n == TaskOfLoop(g, k)
           m == TaskOfLoop(g, k + 1)
           F == FirstTask(g)
           last == F + TaskCount(g)
<1>1. k \in 0 .. LoopTimes(g) - 1 /\ k + 1 \in 0 .. LoopTimes(g) - 1
  BY AllLoops
<1>2. /\ n \in TaskNumbers(g) /\ k < Before(g, n + 1)
      /\ m \in TaskNumbers(g) /\ Before(g, m) <= k + 1 /\ k + 1 < Before(g, m + 1)
      /\ Times(g, m) \in Nat \ {0} /\ m \in Nat /\ n \in Nat
  BY <1>1, TaskOfLoopIs
<1>3. F \in Nat /\ F <= m /\ m < last /\ F <= n /\ n < last /\ TaskCount(g) \in Nat
  BY <1>2, NumberIn
<1>4. /\ n + 1 \in F .. last /\ m + 1 \in F .. last /\ m \in F .. last
  BY <1>2, <1>3
<1>5. Before(g, n + 1) \in Nat /\ Before(g, m + 1) \in Nat /\ Before(g, m) \in Nat
  BY <1>4, BeforeUp
<1>6. n < m
  <2>1. SUFFICES ASSUME m + 1 <= n + 1 PROVE FALSE
    BY <1>2
  <2>2. Before(g, m + 1) <= Before(g, n + 1)
    BY <1>4, <2>1, BeforeUp
  <2>3. QED
    BY <1>2, <1>5, <2>2
<1>7. Before(g, m) = k + 1
  <2>1. Before(g, n + 1) <= Before(g, m)
    BY <1>2, <1>4, <1>6, BeforeUp
  <2>2. QED
    BY <1>2, <1>5, <2>1
<1>8. ASSUME NEW x \in n + 1 .. m - 1 PROVE Times(g, x) = 0
  <2>1. /\ x \in TaskNumbers(g) /\ x + 1 \in F .. last /\ x \in F .. last
        /\ x + 1 <= m /\ n + 1 <= x
    BY <1>2, <1>3, <1>8 DEF TaskNumbers
  <2>2. /\ Before(g, x + 1) \in Nat /\ Before(g, x + 1) <= Before(g, m)
        /\ Before(g, x) \in Nat /\ Before(g, n + 1) <= Before(g, x)
    BY <1>4, <2>1, BeforeUp
  <2>3. Before(g, x + 1) = Before(g, x) + Times(g, x) /\ Times(g, x) \in Nat
    BY <2>1, BeforeNext, NumberIn
  <2>4. QED
    BY <1>2, <1>5, <1>7, <2>2, <2>3
<1>9. Fulls(g, m) = Fulls(g, n) + 1
  <2>1. n \in F - 1 .. m - 1
    BY <1>2, <1>3, <1>6
  <2>2. QED
    BY <1>2, <1>8, <2>1, FullsNext
<1>10. QED
  BY <1>2, <1>6, <1>7, <1>8, <1>9

-----------------------------------------------------------------------------
(* The walk. *)

\* A task that is not split has no loops if its batch is empty, and only then.
LEMMA EmptyTimes ==
  ASSUME input \in Inputs, NEW g \in Cubes, NEW n \in Nat, n < input.heads * input.batch
  PROVE  /\ input.lens[TaskAt(n)[1]] \in Nat /\ Times(g, n) \in Nat
         /\ Times(g, n) > 0 => input.lens[TaskAt(n)[1]] > 0
         /\ ~FlashDecode => (Times(g, n) = 0 <=> input.lens[TaskAt(n)[1]] = 0)
BY TaskIn, TimesType

\* The walk begins at the task of the first loop.
LEMMA FirstFullIs ==
  ASSUME input \in Inputs, NEW g \in Cubes, LoopTimes(g) > 0
  PROVE  FirstFull(g) = TaskOfLoop(g, 0)
<1> DEFINE m == TaskOfLoop(g, 0)
           F == FirstTask(g)
           Full(n) == /\ input.lens[TaskAt(n)[1]] > 0
                      /\ \A x \in F .. n - 1 : input.lens[TaskAt(x)[1]] = 0
<1>1. /\ m \in TaskNumbers(g) /\ Times(g, m) > 0
      /\ \A x \in F .. m - 1 : Times(g, x) = 0
  BY FirstOfLoops
<1>2. ASSUME NEW n \in TaskNumbers(g)
      PROVE  /\ n \in Nat /\ n < input.heads * input.batch /\ F \in Nat /\ F <= n
             /\ \A x \in F .. n - 1 : x \in TaskNumbers(g)
             /\ FlashDecode => n = F
  <2>1. /\ n \in Nat /\ n < input.heads * input.batch /\ F \in Nat /\ F <= n
        /\ TaskCount(g) \in Nat /\ n < F + TaskCount(g)
    BY NumberIn
  <2>2. FlashDecode => TaskCount(g) = 1
    BY NumbersBelow
  <2>3. QED
    BY <2>1, <2>2 DEF TaskNumbers
<1>3. Full(m)
  <2>1. input.lens[TaskAt(m)[1]] > 0
    BY <1>1, <1>2, EmptyTimes
  <2>2. ASSUME NEW x \in F .. m - 1 PROVE input.lens[TaskAt(x)[1]] = 0
    <3>1. x \in TaskNumbers(g) /\ ~FlashDecode
      BY <1>1, <1>2, <2>2
    <3>2. x \in Nat /\ x < input.heads * input.batch
      BY <1>2, <3>1
    <3>3. QED
      BY <1>1, <2>2, <3>1, <3>2, EmptyTimes
  <2>3. QED
    BY <2>1, <2>2
<1>4. ASSUME NEW n \in TaskNumbers(g), Full(n) PROVE n = m
  <2>1. n \in Nat /\ m \in Nat /\ F <= n /\ F <= m /\ F \in Nat
    BY <1>1, <1>2
  <2>2. ~(n < m)
    BY <1>3, <1>4, <2>1
  <2>3. ~(m < n)
    BY <1>3, <1>4, <2>1
  <2>4. QED
    BY <2>1, <2>2, <2>3
<1>5. FirstFull(g) = CHOOSE n \in TaskNumbers(g) : Full(n)
  BY DEF FirstFull
<1> HIDE DEF Full, m
<1>6. FirstFull(g) = m
  BY <1>1, <1>3, <1>4, <1>5
<1>7. QED
  BY <1>6 DEF m

\* The walk at a loop, by the number of its task.
LEMMA WalkInAt ==
  ASSUME NEW g, NEW k, NEW n, n = TaskOfLoop(g, k)
  PROVE  WalkIn(g, k) =
           WalkAt(g, TaskAt(n)[1], TaskAt(n)[2], k - Before(g, n), Fulls(g, n))
BY DEF WalkIn

\* What the walk is at loop k, spelt out.
LEMMA WalkInIs ==
  ASSUME input \in Inputs, NEW g \in Cubes, NEW k \in 0 .. LoopTimes(g) - 1
  PROVE  LET n == TaskOfLoop(g, k)
             walk == WalkIn(g, k)
         IN /\ walk.b = TaskAt(n)[1] /\ walk.n2 = TaskAt(n)[2]
            /\ walk.s2 = k - Before(g, n) /\ walk.count = Fulls(g, n)
            /\ walk.times = Times(g, n) /\ walk.tail = TailRows(g, TaskAt(n)[1])
BY DEF WalkIn, WalkAt, Times

\* At its first loop a core begins at the first task that is not empty.
LEMMA WalkFirst ==
  ASSUME input \in Inputs, NEW g \in Cubes, LoopTimes(g) > 0, NEW walk
  PROVE  Walked(g, walk, 0) = WalkIn(g, 0)
<1> DEFINE m == TaskOfLoop(g, 0)
<1>1. FirstFull(g) = m /\ Before(g, m) = 0 /\ Fulls(g, m) = 1
  BY FirstFullIs, FirstOfLoops
<1>2. WalkIn(g, 0) = WalkAt(g, TaskAt(m)[1], TaskAt(m)[2], 0, 1)
  BY <1>1 DEF WalkIn
<1>3. Begin(g) = WalkAt(g, TaskAt(m)[1], TaskAt(m)[2], 0, 0)
  BY <1>1 DEF Begin, BeginAt
<1>4. QED
  BY <1>2, <1>3 DEF Walked, Counted, WalkAt

\* Where the walk goes from a task that is not split to the next one that is not
\* empty: over the batches that are.
LEMMA SeekIs ==
  ASSUME input \in Inputs, ~FlashDecode, NEW g \in Cubes,
         NEW n \in Nat, NEW m \in Nat, n < m, m < input.heads * input.batch,
         Times(g, m) > 0, \A x \in n + 1 .. m - 1 : Times(g, x) = 0,
         NEW count
  PROVE  Seek(g, TaskAt(n + 1)[1], TaskAt(n + 1)[2], count) =
           WalkAt(g, TaskAt(m)[1], TaskAt(m)[2], 0, count)
<1> DEFINE b0 == TaskAt(n + 1)[1]
           h0 == TaskAt(n + 1)[2]
           bm == TaskAt(m)[1]
           hm == TaskAt(m)[2]
           Full(x) == input.lens[x] > 0 /\ \A y \in b0 .. x - 1 : input.lens[y] = 0
<1>1. PICK heads \in Nat \ {0} : heads = input.heads
  BY InputIs
<1>2. /\ n + 1 \in Nat /\ n + 1 < input.heads * input.batch
      /\ input.heads * input.batch \in Nat /\ input.batch \in Nat
  BY InputIs
<1>3. /\ b0 \in 0 .. input.batch - 1 /\ h0 \in 0 .. heads - 1 /\ n + 1 = heads * b0 + h0
  BY <1>1, <1>2, TaskIn
<1>4. /\ bm \in 0 .. input.batch - 1 /\ hm \in 0 .. heads - 1 /\ m = heads * bm + hm
  BY <1>1, <1>2, TaskIn
<1> HIDE DEF b0, h0, bm, hm
<1>5. ASSUME NEW y \in b0 .. input.batch - 1
      PROVE  /\ heads * y \in Nat /\ TaskAt(heads * y)[1] = y
             /\ heads * y < input.heads * input.batch
             /\ y > b0 => n + 1 <= heads * y
             /\ y < bm => heads * y + heads <= heads * bm
             /\ y > bm => heads * bm + heads <= heads * y
  <2>1. y \in Nat
    BY <1>3
  <2>2. heads * y \in Nat
    BY <2>1
  <2>3. (heads * y) \div heads = y
    <3>1. heads * y = heads * y + 0 /\ 0 \in 0 .. heads - 1
      BY <2>2
    <3>2. QED
      BY <2>1, <2>2, <3>1, DivisionOnly
  <2>4. ASSUME NEW u \in Nat, NEW v \in Nat, u < v PROVE heads * u + heads <= heads * v
    <3>1. heads * (u + 1) <= heads * v
      BY <2>4
    <3>2. heads * (u + 1) = heads * u + heads
      OBVIOUS
    <3>3. QED
      BY <3>1, <3>2
  <2>5. b0 \in Nat /\ bm \in Nat /\ heads * b0 \in Nat /\ heads * bm \in Nat
    BY <1>3, <1>4
  <2>6. y > b0 => n + 1 <= heads * y
    <3>1. SUFFICES ASSUME y > b0 PROVE n + 1 <= heads * y
      OBVIOUS
    <3>2. heads * b0 + heads <= heads * y
      BY <2>1, <2>4, <2>5, <3>1
    <3>3. QED
      BY <1>3, <2>2, <2>5, <3>2
  <2>7. heads * y < heads * input.batch
    <3>1. heads * y + heads <= heads * input.batch /\ heads * input.batch \in Nat
      BY <1>2, <2>1, <2>4
    <3>2. QED
      BY <2>2, <3>1
  <2>8. QED
    BY <1>1, <2>1, <2>2, <2>3, <2>4, <2>5, <2>6, <2>7 DEF TaskAt
<1>6. heads * b0 \in Nat /\ heads * bm \in Nat
  BY <1>3, <1>4
<1>7. b0 <= bm
  <2>1. SUFFICES ASSUME bm < b0 PROVE FALSE
    BY <1>3, <1>4
  <2>2. b0 \in b0 .. input.batch - 1
    BY <1>3
  <2>3. heads * bm + heads <= heads * b0
    BY <1>5, <2>1, <2>2
  <2>4. QED
    BY <1>3, <1>4, <1>6, <2>3
<1>8. input.lens[bm] > 0
  BY EmptyTimes DEF bm
<1>9. ASSUME NEW y \in b0 .. bm - 1 PROVE input.lens[y] = 0
  <2>1. y \in b0 .. input.batch - 1 /\ y < bm
    BY <1>2, <1>3, <1>4, <1>9
  <2>2. CASE y = b0
    <3>1. n + 1 \in n + 1 .. m - 1
      BY <1>3, <1>4, <1>5, <1>6, <2>1, <2>2
    <3>2. Times(g, n + 1) = 0
      BY <3>1
    <3>3. QED
      BY <1>2, <2>2, <3>2, EmptyTimes DEF b0
  <2>3. CASE y > b0
    <3>1. heads * y \in n + 1 .. m - 1
      BY <1>4, <1>5, <1>6, <2>1, <2>3
    <3>2. Times(g, heads * y) = 0
      BY <3>1
    <3>3. /\ heads * y \in Nat /\ heads * y < input.heads * input.batch
          /\ TaskAt(heads * y)[1] = y
      BY <1>5, <2>1
    <3>4. QED
      BY <3>2, <3>3, EmptyTimes
  <2>4. QED
    BY <1>3, <1>9, <2>2, <2>3
<1>10. bm \in b0 .. input.batch - 1 /\ Full(bm)
  BY <1>4, <1>7, <1>8, <1>9, <1>3
<1>11. ASSUME NEW x \in b0 .. input.batch - 1, Full(x) PROVE x = bm
  <2>1. x \in Nat /\ bm \in Nat /\ b0 \in Nat
    BY <1>3, <1>4
  <2>2. ~(x < bm) /\ ~(bm < x)
    BY <1>7, <1>10, <1>11, <2>1
  <2>3. QED
    BY <2>1, <2>2
<1>12. FullFrom(b0) = bm
  <2>1. FullFrom(b0) = CHOOSE x \in b0 .. input.batch - 1 : Full(x)
    BY DEF FullFrom
  <2> HIDE DEF Full
  <2>2. QED
    BY <1>10, <1>11, <2>1
<1>13. hm = IF bm = b0 THEN h0 ELSE 0
  <2>1. CASE bm = b0
    <3>1. m = n + 1
      <4>1. SUFFICES ASSUME n + 1 <= m - 1 PROVE FALSE
        OBVIOUS
      <4>2. n + 1 \in n + 1 .. m - 1
        BY <4>1
      <4>3. Times(g, n + 1) = 0
        BY <4>2
      <4>4. input.lens[b0] = 0
        BY <1>2, <4>3, EmptyTimes DEF b0
      <4>5. QED
        BY <1>8, <2>1, <4>4
    <3>2. QED
      BY <2>1, <3>1 DEF hm, h0
  <2>2. CASE bm # b0
    <3>1. SUFFICES ASSUME hm > 0 PROVE FALSE
      BY <1>4, <2>2
    <3>2. bm > b0
      BY <1>3, <1>4, <1>7, <2>2
    <3>3. heads * bm \in n + 1 .. m - 1
      BY <1>4, <1>5, <1>10, <3>1, <3>2
    <3>4. Times(g, heads * bm) = 0
      BY <3>3
    <3>5. input.lens[bm] = 0
      BY <1>5, <1>10, <3>4, EmptyTimes
    <3>6. QED
      BY <1>8, <3>5
  <2>3. QED
    BY <2>1, <2>2
<1>14. Seek(g, b0, h0, count) = WalkAt(g, bm, hm, 0, count)
  BY <1>12, <1>13 DEF Seek
<1>15. QED
  BY <1>14 DEF b0, h0, bm, hm

\* Which walks are at the last loop of their task.
LEMMA TaskEndsIs ==
  ASSUME input \in Inputs, NEW g \in Cubes, NEW k \in Nat, k + 1 < LoopTimes(g)
  PROVE  LET n == TaskOfLoop(g, k)
         IN TaskEnds(WalkIn(g, k)) <=> Before(g, n + 1) <= k + 1
<1> DEFINE n == TaskOfLoop(g, k)
<1>1. k \in 0 .. LoopTimes(g) - 1 /\ LoopTimes(g) \in Nat
  BY AllLoops
<1>2. /\ n \in TaskNumbers(g) /\ Before(g, n) \in Nat
      /\ Before(g, n + 1) = Before(g, n) + Times(g, n) /\ Times(g, n) \in Nat
  BY <1>1, TaskOfLoopIs
<1>3. WalkIn(g, k).s2 = k - Before(g, n) /\ WalkIn(g, k).times = Times(g, n)
  BY <1>1, WalkInIs
<1>4. CASE FlashDecode
  <2>1. n = FirstTask(g) /\ TaskCount(g) = 1
    BY <1>2, <1>4, NumbersBelow DEF TaskNumbers
  <2>2. LoopTimes(g) = Before(g, n + 1)
    BY <2>1, AllLoops
  <2>3. QED
    BY <1>1, <1>4, <2>2 DEF TaskEnds
<1>5. CASE ~FlashDecode
  BY <1>2, <1>3, <1>5 DEF TaskEnds
<1>6. QED
  BY <1>4, <1>5

\* From one loop to the next of the same task.
LEMMA SameTask ==
  ASSUME input \in Inputs, NEW g \in Cubes, NEW k \in Nat, k + 1 < LoopTimes(g),
         ~TaskEnds(WalkIn(g, k))
  PROVE  /\ TaskOfLoop(g, k + 1) = TaskOfLoop(g, k)
         /\ WalkIn(g, k + 1) = [WalkIn(g, k) EXCEPT !.s2 = @ + 1]
         /\ WalkIn(g, k + 1).s2 = WalkIn(g, k).s2 + 1
         /\ WalkIn(g, k).s2 \in Nat
<1> DEFINE n == TaskOfLoop(g, k)
<1>1. /\ k \in 0 .. LoopTimes(g) - 1 /\ k + 1 \in 0 .. LoopTimes(g) - 1
  BY AllLoops
<1>2. /\ n \in TaskNumbers(g) /\ Before(g, n) \in Nat /\ Before(g, n) <= k
      /\ Before(g, n + 1) = Before(g, n) + Times(g, n) /\ Times(g, n) \in Nat
  BY <1>1, TaskOfLoopIs
<1>3. k + 1 < Before(g, n + 1)
  BY <1>2, TaskEndsIs
<1>4. TaskOfLoop(g, k + 1) = n
  BY <1>1, <1>2, <1>3, OnlyTask
<1>5. (k + 1) - Before(g, n) = (k - Before(g, n)) + 1 /\ k - Before(g, n) \in Nat
  BY <1>2
<1> DEFINE at(s2) == WalkAt(g, TaskAt(n)[1], TaskAt(n)[2], s2, Fulls(g, n))
<1>6. WalkIn(g, k) = at(k - Before(g, n)) /\ WalkIn(g, k + 1) = at((k + 1) - Before(g, n))
  <2>1. n = TaskOfLoop(g, k) /\ n = TaskOfLoop(g, k + 1)
    BY <1>4
  <2> HIDE DEF n
  <2>2. QED
    BY <2>1, WalkInAt
<1>7. \A x : at(x).s2 = x /\ \A y : at(y) = [at(x) EXCEPT !.s2 = y]
  BY DEF WalkAt
<1> HIDE DEF at, n
<1>8. /\ WalkIn(g, k).s2 = k - Before(g, n) /\ WalkIn(g, k + 1).s2 = k - Before(g, n) + 1
      /\ WalkIn(g, k + 1) = [WalkIn(g, k) EXCEPT !.s2 = k - Before(g, n) + 1]
  BY <1>5, <1>6, <1>7
<1>9. QED
  BY <1>4, <1>5, <1>8 DEF n

\* From the last loop of a task to the first of the next.
LEMMA NextTask ==
  ASSUME input \in Inputs, NEW g \in Cubes, NEW k \in Nat, k + 1 < LoopTimes(g),
         TaskEnds(WalkIn(g, k))
  PROVE  /\ WalkIn(g, k + 1) =
              Counted(Seek(g, WalkIn(g, k).b + (WalkIn(g, k).n2 + 1) \div input.heads,
                           (WalkIn(g, k).n2 + 1) % input.heads, WalkIn(g, k).count))
         /\ WalkIn(g, k + 1).s2 = 0 /\ WalkIn(g, k + 1).count = WalkIn(g, k).count + 1
         /\ TaskOfLoop(g, k) < TaskOfLoop(g, k + 1)
<1> DEFINE n == TaskOfLoop(g, k)
           m == TaskOfLoop(g, k + 1)
           b == TaskAt(n)[1]
           h == TaskAt(n)[2]
<1>1. /\ k \in 0 .. LoopTimes(g) - 1 /\ k + 1 \in 0 .. LoopTimes(g) - 1
  BY AllLoops
<1>2. Before(g, n + 1) <= k + 1
  BY TaskEndsIs
<1>3. /\ m \in TaskNumbers(g) /\ n < m /\ Times(g, m) > 0 /\ Before(g, m) = k + 1
      /\ \A x \in n + 1 .. m - 1 : Times(g, x) = 0
      /\ Fulls(g, m) = Fulls(g, n) + 1
  BY <1>2, NextOfLoops
<1>4. /\ n \in Nat /\ m \in Nat /\ m < input.heads * input.batch /\ n < input.heads * input.batch
  BY <1>1, TaskOfLoopIs
<1>5. ~FlashDecode
  BY DEF TaskEnds
<1>6. TaskAt(n + 1) = <<b + (h + 1) \div input.heads, (h + 1) % input.heads>>
  <2>1. PICK heads \in Nat \ {0} : heads = input.heads
    BY InputIs
  <2>2. b \in Nat /\ h \in Nat /\ n = heads * b + h
    BY <1>4, <2>1, TaskIn
  <2> HIDE DEF b, h
  <2>3. h + 1 \in Int /\ n + 1 \in Int
    BY <1>4, <2>2
  <2>4. PICK q \in Int : q = (h + 1) \div heads
    BY <2>3, Division
  <2>5. PICK r \in 0 .. heads - 1 : r = (h + 1) % heads
    BY <2>3, Division
  <2>6. h + 1 = heads * q + r
    BY <2>3, <2>4, <2>5, Division
  <2>7. n + 1 = heads * (b + q) + r
    <3>1. heads * (b + q) = heads * b + heads * q
      BY <2>2
    <3>2. heads * b \in Int /\ heads * q \in Int
      BY <2>2
    <3>3. QED
      BY <2>2, <2>6, <3>1, <3>2
  <2>8. (n + 1) \div heads = b + q /\ (n + 1) % heads = r
    <3>1. b + q \in Int /\ n + 1 \in Int
      BY <2>2, <2>3
    <3>2. QED
      BY <2>7, <3>1, DivisionOnly, ZenonT(60)
  <2>9. QED
    BY <2>1, <2>4, <2>5, <2>8 DEF TaskAt
<1>7. /\ WalkIn(g, k).b = b /\ WalkIn(g, k).n2 = h /\ WalkIn(g, k).count = Fulls(g, n)
  BY <1>1, WalkInIs
<1>8. Seek(g, TaskAt(n + 1)[1], TaskAt(n + 1)[2], Fulls(g, n)) =
        WalkAt(g, TaskAt(m)[1], TaskAt(m)[2], 0, Fulls(g, n))
  BY <1>3, <1>4, <1>5, SeekIs
<1>9. WalkIn(g, k + 1) = WalkAt(g, TaskAt(m)[1], TaskAt(m)[2], 0, Fulls(g, n) + 1)
  BY <1>3 DEF WalkIn
<1>10. Counted(WalkAt(g, TaskAt(m)[1], TaskAt(m)[2], 0, Fulls(g, n))) =
         WalkAt(g, TaskAt(m)[1], TaskAt(m)[2], 0, Fulls(g, n) + 1)
  BY DEF Counted, WalkAt
<1>11. WalkIn(g, k + 1).s2 = 0 /\ WalkIn(g, k + 1).count = Fulls(g, n) + 1
  BY <1>9 DEF WalkAt
<1>12. QED
  BY <1>3, <1>6, <1>7, <1>8, <1>9, <1>10, <1>11

\* A core that is where it was in loop k - 1 walks to where it is in loop k.
LEMMA WalkOn ==
  ASSUME input \in Inputs, NEW g \in Cubes, NEW k \in 0 .. LoopTimes(g) - 1
  PROVE  Walked(g, WalkBefore(g, k), k) = WalkIn(g, k)
<1>1. LoopTimes(g) \in Nat
  BY AllLoops
<1>2. CASE k = 0
  BY <1>1, <1>2, WalkFirst
<1>3. CASE k # 0
  <2>1. PICK j \in Nat : k = j + 1
    BY <1>1, <1>3
  <2>2. j + 1 < LoopTimes(g) /\ WalkBefore(g, k) = WalkIn(g, j)
    BY <1>1, <1>3, <2>1 DEF WalkBefore
  <2>3. Walked(g, WalkBefore(g, k), k) = Counted(Advance(g, WalkIn(g, j)))
    BY <1>3, <2>2 DEF Walked
  <2>4. CASE TaskEnds(WalkIn(g, j))
    BY <2>1, <2>2, <2>3, <2>4, NextTask DEF Advance
  <2>5. CASE ~TaskEnds(WalkIn(g, j))
    <3>1. /\ WalkIn(g, k) = [WalkIn(g, j) EXCEPT !.s2 = @ + 1]
          /\ WalkIn(g, k).s2 = WalkIn(g, j).s2 + 1 /\ WalkIn(g, j).s2 \in Nat
      BY <2>1, <2>2, <2>5, SameTask
    <3>2. Advance(g, WalkIn(g, j)) = WalkIn(g, k)
      BY <2>5, <3>1 DEF Advance
    <3>3. QED
      BY <2>3, <3>1, <3>2 DEF Counted
  <2>6. QED
    BY <2>4, <2>5
<1>4. QED
  BY <1>2, <1>3

-----------------------------------------------------------------------------
(* What is noted of a loop and computed in it. *)

\* A walk in a task is at one of its loops.
LEMMA WalkType ==
  ASSUME input \in Inputs, NEW g \in Cubes, NEW k \in 0 .. LoopTimes(g) - 1
  PROVE  LET walk == WalkIn(g, k)
             n == TaskOfLoop(g, k)
         IN /\ walk.times \in Nat \ {0} /\ walk.s2 \in 0 .. walk.times - 1 /\ walk.s2 <= k
            /\ walk.count \in Nat
            /\ n \in TaskNumbers(g) /\ <<walk.b, walk.n2>> = TaskAt(n)
            /\ walk.times = Times(g, n) /\ walk.s2 = k - Before(g, n)
            /\ input.lens[walk.b] \in Nat \ {0}
<1> DEFINE n == TaskOfLoop(g, k)
<1>1. /\ n \in TaskNumbers(g) /\ Before(g, n) \in Nat /\ Before(g, n) <= k
      /\ k - Before(g, n) \in 0 .. Times(g, n) - 1
      /\ n \in Nat /\ n < input.heads * input.batch /\ Times(g, n) \in Nat \ {0}
  BY TaskOfLoopIs
<1>2. input.lens[TaskAt(n)[1]] \in Nat /\ input.lens[TaskAt(n)[1]] > 0
  BY <1>1, EmptyTimes
<1>3. Fulls(g, n) \in Nat
  <2>1. FirstTask(g) \in Nat /\ {m \in FirstTask(g) .. n : Times(g, m) > 0} \in SUBSET (FirstTask(g) .. n)
    BY <1>1, NumberIn
  <2>2. IsFiniteSet(FirstTask(g) .. n)
    BY <1>1, <2>1, FS_Interval
  <2>3. QED
    BY <2>1, <2>2, FS_Subset, FS_CardinalityType DEF Fulls
<1>4. k \in Nat
  BY AllLoops
<1>5. TaskAt(n) = <<TaskAt(n)[1], TaskAt(n)[2]>>
  BY DEF TaskAt
<1>6. QED
  BY <1>1, <1>2, <1>3, <1>4, <1>5, WalkInIs

\* What is noted of a loop, by the walk there.
LEMMA InfoIs ==
  ASSUME NEW g, NEW k
  PROVE  LET info == InfoOf(g, k)
             walk == WalkIn(g, k)
         IN /\ info.b = walk.b /\ info.n2 = walk.n2 /\ info.s2 = walk.s2
            /\ info.times = walk.times /\ info.bn2 = walk.count - 1
            /\ info.changed = BatchChanges(WalkBefore(g, k), k)
            /\ info.from = SplitOf(g) * SplitSize + walk.s2 * SInner
            /\ info.size = IF walk.s2 = walk.times - 1 THEN walk.tail ELSE SInner
            /\ TaskOf(info) = <<walk.b, walk.n2>>
BY DEF InfoOf, ExtraInfo, TaskOf

\* A loop that is not the first of its task goes on from the one before.
LEMMA GoesOn ==
  ASSUME input \in Inputs, NEW g \in Cubes, NEW k \in Nat, k + 1 < LoopTimes(g)
  PROVE  /\ TaskEnds(WalkIn(g, k)) <=> WalkIn(g, k + 1).s2 = 0
         /\ WalkIn(g, k + 1).s2 = 0 <=> Ends(g, k)
         /\ WalkIn(g, k + 1).s2 # 0 =>
              /\ WalkIn(g, k + 1) = [WalkIn(g, k) EXCEPT !.s2 = @ + 1]
              /\ WalkIn(g, k + 1).s2 = WalkIn(g, k).s2 + 1
              /\ WalkIn(g, k + 1).count = WalkIn(g, k).count
              /\ WalkIn(g, k + 1).b = WalkIn(g, k).b /\ WalkIn(g, k + 1).n2 = WalkIn(g, k).n2
         /\ WalkIn(g, k + 1).s2 = 0 => WalkIn(g, k + 1).count = WalkIn(g, k).count + 1
<1>1. /\ k \in 0 .. LoopTimes(g) - 1 /\ k + 1 \in 0 .. LoopTimes(g) - 1
  BY AllLoops
<1>2. /\ WalkIn(g, k).times \in Nat /\ WalkIn(g, k).s2 \in 0 .. WalkIn(g, k).times - 1
      /\ WalkIn(g, k + 1).s2 \in 0 .. WalkIn(g, k + 1).times - 1
  BY <1>1, WalkType
<1>3. CASE TaskEnds(WalkIn(g, k))
  <2>1. /\ WalkIn(g, k + 1).s2 = 0 /\ WalkIn(g, k + 1).count = WalkIn(g, k).count + 1
    BY <1>3, NextTask
  <2>2. Ends(g, k)
    BY <1>2, <1>3 DEF TaskEnds, Ends
  <2>3. QED
    BY <1>3, <2>1, <2>2
<1>4. CASE ~TaskEnds(WalkIn(g, k))
  <2>1. /\ WalkIn(g, k + 1) = [WalkIn(g, k) EXCEPT !.s2 = @ + 1]
        /\ WalkIn(g, k + 1).s2 = WalkIn(g, k).s2 + 1
    BY <1>4, SameTask
  <2>2. /\ WalkIn(g, k + 1).times = WalkIn(g, k).times
        /\ WalkIn(g, k + 1).count = WalkIn(g, k).count
        /\ WalkIn(g, k + 1).b = WalkIn(g, k).b /\ WalkIn(g, k + 1).n2 = WalkIn(g, k).n2
    BY <2>1 DEF WalkIn, WalkAt
  <2>3. ~Ends(g, k) /\ WalkIn(g, k + 1).s2 # 0
    BY <1>2, <2>1, <2>2 DEF Ends
  <2>4. QED
    BY <1>4, <2>1, <2>2, <2>3
<1>5. QED
  BY <1>3, <1>4

\* Between two loops begin no more tasks than there are loops.
LEMMA CountsUp ==
  ASSUME input \in Inputs, NEW g \in Cubes, NEW j \in Nat, NEW k \in Nat,
         j <= k, k < LoopTimes(g)
  PROVE  WalkIn(g, k).count - WalkIn(g, j).count \in 0 .. k - j
<1> DEFINE c(x) == WalkIn(g, x).count
           T == {x \in Nat : j + x < LoopTimes(g) /\ ~(c(j + x) - c(j) \in 0 .. x)}
<1>1. LoopTimes(g) \in Nat
  BY AllLoops
<1>2. ASSUME NEW x \in Nat, x < LoopTimes(g) PROVE c(x) \in Nat
  BY <1>1, <1>2, WalkType
<1>3. SUFFICES ASSUME k - j \in T PROVE FALSE
  <2>1. k - j \in Nat /\ j + (k - j) = k
    OBVIOUS
  <2>2. QED
    BY <2>1
<1>4. PICK x \in T : \A y \in T : x <= y
  <2>1. T \in SUBSET Nat /\ T # {}
    BY <1>3
  <2> HIDE DEF T
  <2>2. QED
    BY <2>1, Least
<1>5. x # 0
  <2>1. c(j) - c(j) \in 0 .. 0
    BY <1>1, <1>2
  <2>2. QED
    BY <1>4, <2>1
<1>6. PICK y \in Nat : x = y + 1
  BY <1>4, <1>5
<1>7. y \notin T /\ j + y < LoopTimes(g)
  BY <1>1, <1>4, <1>6
<1>8. c(j + y) - c(j) \in 0 .. y
  BY <1>7
<1>9. (j + y) + 1 < LoopTimes(g) /\ j + x = (j + y) + 1 /\ j + y \in Nat
  BY <1>4, <1>6
<1>10. c((j + y) + 1) \in {c(j + y), c(j + y) + 1}
  BY <1>9, GoesOn
<1>11. c(j + y) \in Nat /\ c(j) \in Nat
  BY <1>1, <1>2, <1>7
<1>12. c(j + x) - c(j) \in 0 .. x
  <2> HIDE DEF c
  <2>1. QED
    BY <1>6, <1>8, <1>9, <1>10, <1>11
<1>13. QED
  BY <1>4, <1>12

\* Where no change of batch is noted, the batch is that of the loop before.
LEMMA SameBatch ==
  ASSUME input \in Inputs, ~input.continuous, NEW g \in Cubes,
         NEW k \in 0 .. LoopTimes(g) - 1, ~InfoOf(g, k).changed
  PROVE  k > 0 /\ WalkIn(g, k).b = WalkIn(g, k - 1).b
<1>1. LoopTimes(g) \in Nat
  BY AllLoops
<1>2. ~BatchChanges(WalkBefore(g, k), k)
  BY InfoIs
<1>3. k # 0
  BY <1>2 DEF BatchChanges
<1>4. PICK j \in Nat : k = j + 1
  BY <1>1, <1>3
<1>5. j + 1 < LoopTimes(g) /\ k - 1 = j /\ WalkBefore(g, k) = WalkIn(g, j)
  BY <1>1, <1>3, <1>4 DEF WalkBefore
<1>6. CASE ~TaskEnds(WalkIn(g, j))
  <2>1. WalkIn(g, j + 1).s2 # 0
    BY <1>5, <1>6, GoesOn
  <2>2. WalkIn(g, j + 1).b = WalkIn(g, j).b
    BY <1>5, <2>1, GoesOn
  <2>3. QED
    BY <1>3, <1>4, <1>5, <2>2
<1>7. CASE TaskEnds(WalkIn(g, j)) /\ ~(WalkIn(g, j).n2 + 1 >= input.heads)
  <2> DEFINE n == TaskOfLoop(g, j)
             m == TaskOfLoop(g, j + 1)
  <2>1. /\ n \in TaskNumbers(g) /\ <<WalkIn(g, j).b, WalkIn(g, j).n2>> = TaskAt(n)
        /\ n \in Nat /\ n < input.heads * input.batch /\ Times(g, n) \in Nat \ {0}
    <3>1. j \in 0 .. LoopTimes(g) - 1
      BY <1>1, <1>5
    <3>2. QED
      BY <3>1, WalkType, TaskOfLoopIs
  <2>2. /\ m \in TaskNumbers(g) /\ n < m
        /\ \A x \in n + 1 .. m - 1 : Times(g, x) = 0
    BY <1>5, <1>7, NextOfLoops, TaskEndsIs
  <2>3. m \in Nat /\ m < input.heads * input.batch /\ input.heads * input.batch \in Nat
    BY <2>2, NumberIn, InputIs
  <2>4. TaskAt(n + 1)[1] = TaskAt(n)[1]
    <3>1. PICK heads \in Nat \ {0} : heads = input.heads
      BY InputIs
    <3>2. /\ TaskAt(n)[1] \in Nat /\ TaskAt(n)[2] \in Nat
          /\ n = heads * TaskAt(n)[1] + TaskAt(n)[2]
      BY <2>1, <3>1, TaskIn
    <3>3. TaskAt(n)[2] = WalkIn(g, j).n2
      BY <2>1
    <3>4. TaskAt(n)[2] + 1 \in 0 .. heads - 1
      BY <1>7, <3>1, <3>2, <3>3
    <3>5. PICK b \in Nat : b = TaskAt(n)[1]
      BY <3>2
    <3>6. PICK h \in Nat : h = TaskAt(n)[2]
      BY <3>2
    <3>7. n + 1 = heads * b + (h + 1) /\ h + 1 \in 0 .. heads - 1 /\ n + 1 \in Int
      <4>1. heads * b \in Int
        BY <3>5
      <4>2. QED
        BY <2>1, <3>2, <3>4, <3>5, <3>6, <4>1
    <3>8. b \in Int
      OBVIOUS
    <3>9. (n + 1) \div heads = b
      BY <3>7, <3>8, DivisionOnly, Zenon
    <3>10. QED
      BY <3>1, <3>5, <3>9 DEF TaskAt
  <2>5. Times(g, n + 1) = Times(g, n)
    BY <2>4 DEF Times
  <2>6. m = n + 1
    <3>1. SUFFICES ASSUME n + 1 <= m - 1 PROVE FALSE
      BY <2>1, <2>2, <2>3
    <3>2. n + 1 \in n + 1 .. m - 1
      BY <2>1, <2>3, <3>1
    <3>3. QED
      BY <2>1, <2>2, <2>5, <3>2
  <2>7. WalkIn(g, j + 1).b = TaskAt(m)[1] /\ WalkIn(g, j).b = TaskAt(n)[1]
    BY DEF WalkIn, WalkAt
  <2>8. QED
    BY <1>3, <1>4, <1>5, <2>4, <2>6, <2>7
<1>8. QED
  BY <1>2, <1>5, <1>6, <1>7 DEF BatchChanges

\* What a task's loops up to one have computed, without the table.
LEMMA SumsIs ==
  ASSUME input \in Inputs, NEW g \in Cubes, NEW k \in 0 .. LoopTimes(g) - 1
  PROVE  LET s2 == WalkIn(g, k).s2
         IN Sums(g, k) = [x \in 1 .. s2 + 1 |-> AccountOf(g, k - s2 + x - 1)]
<1>1. PICK s \in Nat : s = WalkIn(g, k).s2 /\ s <= k
  BY WalkType
<1>2. LoopTimes(g) \in Nat /\ k \in Nat
  BY AllLoops
<1>3. Sums(g, k) = [x \in 1 .. s + 1 |-> Accounts(g)[k - s + x - 1].data]
  BY <1>1 DEF Sums
<1>4. \A x \in 1 .. s + 1 : k - s + x - 1 \in Nat
  BY <1>1, <1>2
<1>5. \A y \in Nat : Accounts(g)[y].data = AccountOf(g, y)
  BY DEF Accounts, Entry
<1>6. Sums(g, k) = [x \in 1 .. s + 1 |-> AccountOf(g, k - s + x - 1)]
  BY <1>3, <1>4, <1>5
<1>7. QED
  BY <1>1, <1>6

\* What has been computed of a task by a loop: the loop's own account after those
\* of the loops before it.
LEMMA SumsNext ==
  ASSUME input \in Inputs, NEW g \in Cubes, NEW k \in 0 .. LoopTimes(g) - 1
  PROVE  /\ WalkIn(g, k).s2 = 0 => Sums(g, k) = <<AccountOf(g, k)>>
         /\ WalkIn(g, k).s2 # 0 => /\ k > 0 /\ ~Ends(g, k - 1)
                                   /\ Sums(g, k) = Append(Sums(g, k - 1), AccountOf(g, k))
                                   /\ TaskOf(InfoOf(g, k)) = TaskOf(InfoOf(g, k - 1))
                                   /\ InfoOf(g, k).bn2 = InfoOf(g, k - 1).bn2
<1>1. LoopTimes(g) \in Nat /\ k \in Nat
  BY AllLoops
<1>2. WalkIn(g, k).s2 \in Nat /\ WalkIn(g, k).s2 <= k
  BY WalkType
<1>3. ASSUME WalkIn(g, k).s2 = 0 PROVE Sums(g, k) = <<AccountOf(g, k)>>
  <2>1. Sums(g, k) = [x \in 1 .. 1 |-> AccountOf(g, k - 0 + x - 1)]
    <3>1. PICK s \in Nat : s = WalkIn(g, k).s2 /\ s = 0
      BY <1>3
    <3>2. Sums(g, k) = [x \in 1 .. s + 1 |-> AccountOf(g, k - s + x - 1)]
      BY <3>1, SumsIs
    <3>3. s + 1 = 1
      BY <3>1
    <3>4. QED
      BY <3>1, <3>2, <3>3
  <2>2. \A x \in 1 .. 1 : k - 0 + x - 1 = k
    BY <1>1
  <2>3. Sums(g, k) = [x \in 1 .. 1 |-> AccountOf(g, k)]
    BY <2>1, <2>2
  <2>4. QED
    BY <2>3
<1>4. ASSUME WalkIn(g, k).s2 # 0
      PROVE  /\ k > 0 /\ ~Ends(g, k - 1)
             /\ Sums(g, k) = Append(Sums(g, k - 1), AccountOf(g, k))
             /\ TaskOf(InfoOf(g, k)) = TaskOf(InfoOf(g, k - 1))
             /\ InfoOf(g, k).bn2 = InfoOf(g, k - 1).bn2
  <2>1. PICK j \in Nat : k = j + 1
    BY <1>1, <1>2, <1>4
  <2>2. j + 1 < LoopTimes(g) /\ k - 1 = j /\ j \in 0 .. LoopTimes(g) - 1
    BY <1>1, <2>1
  <2>3. /\ WalkIn(g, k).s2 = WalkIn(g, j).s2 + 1 /\ ~Ends(g, j)
        /\ WalkIn(g, k).count = WalkIn(g, j).count
        /\ WalkIn(g, k).b = WalkIn(g, j).b /\ WalkIn(g, k).n2 = WalkIn(g, j).n2
    BY <1>4, <2>1, <2>2, GoesOn
  <2>4. PICK s \in Nat : s = WalkIn(g, j).s2
    BY <2>2, WalkType
  <2>5. Sums(g, k) = [x \in 1 .. s + 2 |-> AccountOf(g, (j + 1) - (s + 1) + x - 1)]
    <3>1. (s + 1) + 1 = s + 2
      OBVIOUS
    <3>2. Sums(g, k) = [x \in 1 .. (s + 1) + 1 |-> AccountOf(g, (j + 1) - (s + 1) + x - 1)]
      BY <2>1, <2>3, <2>4, SumsIs
    <3>3. QED
      BY <3>1, <3>2
  <2>6. Sums(g, j) = [x \in 1 .. s + 1 |-> AccountOf(g, j - s + x - 1)]
    BY <2>2, <2>4, SumsIs
  <2>7. \A x \in 1 .. s + 2 : (j + 1) - (s + 1) + x - 1 = j - s + x - 1
    OBVIOUS
  <2>8. j - s + (s + 2) - 1 = k
    BY <2>1
  <2> DEFINE A(x) == AccountOf(g, x)
             old == [x \in 1 .. s + 1 |-> A(j - s + x - 1)]
             new == [x \in 1 .. s + 2 |-> A(j - s + x - 1)]
  <2>9. Sums(g, k) = new
    BY <2>5, <2>7
  <2>11. new = Append(old, A(k))
    <3>1. Append(old, A(k)) = [x \in 1 .. (s + 1) + 1 |-> IF x = (s + 1) + 1 THEN A(k) ELSE old[x]]
      <4>1. s + 1 \in Nat /\ old = [x \in 1 .. s + 1 |-> old[x]]
        OBVIOUS
      <4> HIDE DEF old, A
      <4>2. QED
        BY <4>1, AppendIs
    <3>2. ASSUME NEW x \in 1 .. s + 2
          PROVE  new[x] = IF x = (s + 1) + 1 THEN A(k) ELSE old[x]
      <4>1. CASE x = s + 2
        BY <2>8, <4>1
      <4>2. CASE x \in 1 .. s + 1
        BY <4>2
      <4>3. QED
        BY <4>1, <4>2
    <3>3. new = [x \in 1 .. s + 2 |-> IF x = (s + 1) + 1 THEN A(k) ELSE old[x]]
      <4> HIDE DEF A, old
      <4>1. QED
        BY <3>2
    <3>4. (s + 1) + 1 = s + 2
      OBVIOUS
    <3>5. QED
      BY <3>1, <3>3, <3>4
  <2>12. TaskOf(InfoOf(g, k)) = TaskOf(InfoOf(g, j)) /\ InfoOf(g, k).bn2 = InfoOf(g, j).bn2
    BY <2>3, InfoIs
  <2>13. QED
    BY <2>1, <2>2, <2>3, <2>6, <2>9, <2>11, <2>12
<1>5. QED
  BY <1>3, <1>4

\* Where a task goes on, the next loop is not the first of another.
LEMMA NotEnded ==
  ASSUME input \in Inputs, NEW g \in Cubes, NEW k \in 0 .. LoopTimes(g) - 1, k > 0
  PROVE  WalkIn(g, k).s2 = 0 <=> Ends(g, k - 1)
<1>1. PICK j \in Nat : k = j + 1 /\ k - 1 = j /\ j + 1 < LoopTimes(g)
  <2>1. LoopTimes(g) \in Nat /\ k - 1 \in Nat /\ k = (k - 1) + 1
    BY AllLoops
  <2>2. QED
    BY <2>1
<1>2. QED
  BY <1>1, GoesOn

-----------------------------------------------------------------------------
(* The input stays what it is, and so does all that is worked out from it. *)
\* ... the tasks and how they are split,
LEMMA SameTasks ==
  ASSUME input' = input, NEW g, NEW n
  PROVE  /\ TaskAt(n)' = TaskAt(n) /\ FirstTask(g)' = FirstTask(g) /\ TaskCount(g)' = TaskCount(g)
         /\ SplitOf(g)' = SplitOf(g) /\ FlashDecode' = FlashDecode /\ Tasks' = Tasks
BY DEF TaskAt, FirstTask, TaskCount, SplitOf, FlashDecode, Tasks

\* ... the rows of a batch and the loops they take,
LEMMA SameRows ==
  ASSUME input' = input, NEW g, NEW b
  PROVE  RowsOf(g, b)' = RowsOf(g, b) /\ InnerLoopTimes(g, b)' = InnerLoopTimes(g, b)
         /\ TailRows(g, b)' = TailRows(g, b)
<1>1. RowsOf(g, b)' = RowsOf(g, b)
  BY SameTasks DEF RowsOf
<1>2. InnerLoopTimes(g, b)' = InnerLoopTimes(g, b)
  BY <1>1 DEF InnerLoopTimes
<1>3. QED
  BY <1>1, <1>2 DEF TailRows

\* ... the loops of some tasks,
LEMMA SameInnerLoops ==
  ASSUME input' = input, NEW g, NEW numbers
  PROVE  InnerLoops(g, numbers)' = InnerLoops(g, numbers) /\ TaskNumbers(g)' = TaskNumbers(g)
<1>1. TaskNumbers(g)' = TaskNumbers(g)
  BY SameTasks DEF TaskNumbers
<1>2. InnerLoops(g, numbers)' = InnerLoops(g, numbers)
  BY SameTasks, SameRows DEF InnerLoops
<1>3. QED
  BY <1>1, <1>2

\* ... how many they are,
LEMMA SameTimes ==
  ASSUME input' = input, NEW g, NEW n
  PROVE  /\ Times(g, n)' = Times(g, n) /\ Before(g, n)' = Before(g, n)
         /\ LoopTimes(g)' = LoopTimes(g)
<1>1. Times(g, n)' = Times(g, n)
  BY SameTasks, SameRows DEF Times
<1>2. Before(g, n)' = Before(g, n)
  BY SameTasks, SameInnerLoops DEF Before
<1>3. LoopTimes(g)' = LoopTimes(g)
  BY SameTasks, SameInnerLoops DEF LoopTimes
<1>4. QED
  BY <1>1, <1>2, <1>3

\* ... the task of a loop,
LEMMA SameTaskOfLoop ==
  ASSUME input' = input, NEW g, NEW k
  PROVE  TaskOfLoop(g, k)' = TaskOfLoop(g, k) /\ Fulls(g, k)' = Fulls(g, k)
<1>1. TaskOfLoop(g, k)' = TaskOfLoop(g, k)
  BY SameInnerLoops, SameTimes DEF TaskOfLoop
<1>2. Fulls(g, k)' = Fulls(g, k)
  BY SameTasks, SameTimes DEF Fulls
<1>3. QED
  BY <1>1, <1>2

\* ... the walk,
LEMMA SameWalk ==
  ASSUME input' = input, NEW g, NEW k
  PROVE  WalkIn(g, k)' = WalkIn(g, k)
BY DEF WalkIn, WalkAt, TaskOfLoop, TaskNumbers, Fulls, Times, Before, InnerLoops,
       InnerLoopTimes, TailRows, RowsOf, SplitOf, FlashDecode, TaskAt, FirstTask, TaskCount

\* ... and what is noted of a loop and computed in it.
LEMMA SameInfo ==
  ASSUME input' = input, NEW g, NEW k
  PROVE  /\ WalkBefore(g, k)' = WalkBefore(g, k) /\ InfoOf(g, k)' = InfoOf(g, k)
         /\ AccountOf(g, k)' = AccountOf(g, k) /\ (Ends(g, k) <=> Ends(g, k)')
<1>1. WalkBefore(g, k)' = WalkBefore(g, k)
  BY SameWalk DEF WalkBefore, NoWalk
<1>2. WalkIn(g, k)' = WalkIn(g, k) /\ SplitOf(g)' = SplitOf(g)
  BY SameTasks, SameWalk
<1>3. InfoOf(g, k)' = InfoOf(g, k)
  BY <1>1, <1>2 DEF InfoOf, ExtraInfo, BatchChanges, TaskEnds, FlashDecode
<1>4. AccountOf(g, k)' = AccountOf(g, k)
  BY <1>3 DEF AccountOf
<1>5. Ends(g, k) <=> Ends(g, k)'
  BY <1>2 DEF Ends
<1>6. QED
  BY <1>1, <1>3, <1>4, <1>5

\* All the tables.
LEMMA SameTables ==
  ASSUME input' = input, NEW g
  PROVE  /\ Infos(g)' = Infos(g) /\ Accounts(g)' = Accounts(g) /\ Products(g)' = Products(g)
         /\ AllSums(g)' = AllSums(g) /\ Walks(g)' = Walks(g) /\ Lasts(g)' = Lasts(g)
         /\ Loops' = Loops /\ OwnTask(g)' = OwnTask(g) /\ SplitOf(g)' = SplitOf(g)
         /\ Tasks' = Tasks /\ (FlashDecode' <=> FlashDecode)
<1>1. Infos(g)' = Infos(g) /\ Accounts(g)' = Accounts(g) /\ Products(g)' = Products(g)
  BY SameInfo DEF Infos, Accounts, Products
<1>2. AllSums(g)' = AllSums(g)
  <2>1. \A k : Sums(g, k)' = Sums(g, k)
    BY <1>1, SameWalk DEF Sums
  <2>2. QED
    BY <2>1 DEF AllSums
<1>3. Walks(g)' = Walks(g) /\ Lasts(g)' = Lasts(g)
  BY SameInfo DEF Walks, Lasts
<1>4. Loops' = Loops
  BY SameTimes DEF Loops
<1>5. OwnTask(g)' = OwnTask(g)
  BY DEF OwnTask, FirstTask, TaskAt, FlashDecode
<1>6. QED
  BY <1>1, <1>2, <1>3, <1>4, <1>5, SameTasks

\* What is in the tables.
LEMMA TablesAre ==
  ASSUME NEW g, NEW k \in Nat
  PROVE  /\ Infos(g)[k] = Entry(k, InfoOf(g, k)) /\ Infos(g)[k].data = InfoOf(g, k)
         /\ Accounts(g)[k] = Entry(k, AccountOf(g, k))
         /\ Products(g)[k] = Entry(k, [h \in {0, 1} |-> AccountOf(g, k)])
         /\ AllSums(g)[k] = Sums(g, k) /\ Walks(g)[k] = WalkBefore(g, k)
         /\ Walks(g)[k + 1] = WalkIn(g, k)
         /\ k \in Lasts(g) <=> Ends(g, k)
<1>1. Walks(g)[k + 1] = WalkIn(g, k)
  <2>1. k + 1 \in Nat /\ k + 1 # 0 /\ (k + 1) - 1 = k
    OBVIOUS
  <2>2. Walks(g)[k + 1] = WalkIn(g, (k + 1) - 1)
    BY <2>1 DEF Walks, WalkBefore
  <2>3. QED
    BY <2>1, <2>2
<1>2. QED
  BY <1>1 DEF Infos, Accounts, Products, AllSums, Walks, Lasts, Entry

\* A core whose counts stay, and whose slots and those of its group, finds the same.
LEMMA VectorSame ==
  ASSUME input' = input, antiquant' = antiquant, loops' = loops,
         NEW w \in Vectors, VectorHolds(w),
         vecWalk'[w] = vecWalk[w], vecInfo'[w] = vecInfo[w], vec1'[w] = vec1[w],
         mm1'[GroupOf(w)] = mm1[GroupOf(w)], mm2'[GroupOf(w)] = mm2[GroupOf(w)],
         soft'[w] = soft[w], acc'[w] = acc[w], query'[w] = query[w],
         LET g == GroupOf(w)
         IN /\ lse'[Half(w)][OwnTask(g)][SplitOf(g)] = lse[Half(w)][OwnTask(g)][SplitOf(g)]
            /\ accum'[Half(w)][OwnTask(g)][SplitOf(g)] = accum[Half(w)][OwnTask(g)][SplitOf(g)]
            /\ C1(g)' = C1(g) /\ C2(g)' = C2(g),
         V0(w)' = V0(w), V1(w)' = V1(w), V2(w)' = V2(w)
  PROVE  VectorHolds(w)'
<1> DEFINE g == GroupOf(w)
<1>1. /\ Infos(g)' = Infos(g) /\ Accounts(g)' = Accounts(g) /\ Products(g)' = Products(g)
      /\ AllSums(g)' = AllSums(g) /\ Walks(g)' = Walks(g) /\ Lasts(g)' = Lasts(g)
      /\ OwnTask(g)' = OwnTask(g) /\ SplitOf(g)' = SplitOf(g) /\ (FlashDecode' <=> FlashDecode)
  BY SameTables
<1>2. VectorData(w)'
  BY <1>1 DEF VectorHolds, VectorData
<1>3. AccHolds(w)'
  BY <1>1 DEF VectorHolds, AccHolds
<1>4. QueryHolds(w)'
  BY <1>1 DEF VectorHolds, QueryHolds
<1>5. PartsHold(w)'
  BY <1>1 DEF VectorHolds, PartsHold
<1>6. QED
  BY <1>2, <1>3, <1>4, <1>5 DEF VectorHolds

\* The same of a cube core.
LEMMA CubeSame ==
  ASSUME input' = input, NEW g \in Cubes, CubeHolds(g),
         cubeWalk'[g] = cubeWalk[g], cubeInfo'[g] = cubeInfo[g],
         keyGm'[g] = keyGm[g], valueGm'[g] = valueGm[g],
         C1(g)' = C1(g), C2(g)' = C2(g)
  PROVE  CubeHolds(g)'
<1>1. Infos(g)' = Infos(g) /\ Walks(g)' = Walks(g)
  BY SameTables
<1>2. QED
  BY <1>1 DEF CubeHolds

-----------------------------------------------------------------------------
(* Rings. *)

\* A ring keeps what is due and gets the next, if there is room.
LEMMA KeepsWrite ==
  ASSUME NEW ring, DOMAIN ring = Slots, NEW due, NEW from \in Int, NEW to \in Int, NEW x,
         x = due[to], Keeps(ring, due, from, to), to + 1 - from <= Preload
  PROVE  Keeps([ring EXCEPT ![Slot(to)] = x], due, from, to + 1)
<1> DEFINE next == [ring EXCEPT ![Slot(to)] = x]
<1> SUFFICES ASSUME NEW k \in from .. to PROVE next[Slot(k)] = due[k]
  BY DEF Keeps
<1>1. Slot(k) \in Slots /\ Slot(to) \in Slots
  BY SlotIn
<1>2. CASE k = to
  BY <1>1, <1>2
<1>3. CASE k < to
  <2>1. Slot(k) # Slot(to)
    BY <1>3, SlotsApart, PipeAssumption
  <2>2. ring[Slot(k)] = due[k]
    BY <1>3 DEF Keeps
  <2>3. QED
    BY <1>1, <2>1, <2>2
<1>4. QED
  BY <1>2, <1>3

\* What is due later is part of what is due.
LEMMA KeepsShrink ==
  ASSUME NEW ring, NEW due, NEW from \in Int, NEW to \in Int, NEW later \in Int, from <= later,
         Keeps(ring, due, from, to)
  PROVE  Keeps(ring, due, later, to)
BY DEF Keeps

\* The last Preload loops move on with the loops.
LEMMA SinceIs ==
  ASSUME NEW n \in Nat
  PROVE  /\ Since(n) \in Nat /\ Since(n) <= n /\ Since(n) <= Since(n + 1)
         /\ n + 1 - Since(n + 1) <= Preload
         /\ n > 0 => n - 1 \in Since(n) .. n - 1
         /\ \A k \in Nat : k < n /\ n <= k + Preload => k \in Since(n) .. n - 1
BY PipeAssumption DEF Since

-----------------------------------------------------------------------------
(* The counts, as far as the data need them. *)

\* Every count of a group, in order.
LEMMA AllBounds ==
  ASSUME PipeInv, NEW w \in Vectors
  PROVE  LET g == GroupOf(w)
         IN /\ g \in Cubes /\ loops[g] \in Nat
            /\ VectorPlace(vec[w], loops[g]) /\ CubePlace(cube[g], loops[g])
            /\ V0(w) \in Nat /\ V1(w) \in Nat /\ V2(w) \in Nat /\ C1(g) \in Nat /\ C2(g) \in Nat
            /\ V2(w) <= C2(g) /\ C2(g) <= V1(w) /\ V1(w) <= C1(g) /\ C1(g) <= loops[g]
            /\ V1(w) <= V0(w) /\ V0(w) <= loops[g] /\ V0(w) <= V2(w) + Preload
            /\ C1(g) <= C2(g) + Preload /\ C2(g) <= C1(g)
            /\ antiquant => C1(g) <= V0(w)
<1> DEFINE g == GroupOf(w)
<1>1. /\ g \in Cubes /\ loops[g] \in Nat
      /\ VectorPlace(vec[w], loops[g]) /\ CubePlace(cube[g], loops[g])
      /\ V0(w) \in Nat /\ V1(w) \in Nat /\ V2(w) \in Nat /\ C1(g) \in Nat /\ C2(g) \in Nat
      /\ V2(w) <= C2(g) /\ C2(g) <= V1(w) /\ V1(w) <= C1(g) /\ FlagsAt(w)
  BY Facts
<1>2. /\ V1(w) <= V0(w) /\ V0(w) <= loops[g] /\ V0(w) <= V2(w) + Preload
  BY <1>1, VectorCounts DEF V0, V1, V2
<1>3. /\ C1(g) <= C2(g) + Preload /\ C2(g) <= C1(g) /\ C1(g) <= loops[g]
  BY <1>1, CubeCounts DEF C1, C2
<1>4. antiquant => C1(g) <= V0(w)
  BY <1>1 DEF FlagsAt
<1>5. QED
  BY <1>1, <1>2, <1>3, <1>4

\* Loading a loop: V0 is its number.
LEMMA IssueCounts ==
  ASSUME PipeInv, NEW w \in Vectors, NEW info, Issue(w, info)
  PROVE  /\ LoopAt(vec[w]) = V0(w) /\ V0(w) < loops[GroupOf(w)]
         /\ V0(w) + 1 - V2(w) <= Preload
         /\ vec[w].part = "issue" /\ vec' = [vec EXCEPT ![w] = NextLoad(vec[w], loops[GroupOf(w)])]
         /\ vecInfo' = [vecInfo EXCEPT ![w][Slot(V0(w))] = Entry(V0(w), info)]
         /\ UNCHANGED <<antiquant, loops, cube, cubeInfo, mm1, vec1, mm2>>
         /\ V0(w)' = V0(w) + 1 /\ \A u \in Vectors \ {w} : V0(u)' = V0(u)
         /\ \A u \in Vectors : V1(u)' = V1(u) /\ V2(u)' = V2(u)
         /\ \A h \in Cubes : C1(h)' = C1(h) /\ C2(h)' = C2(h)
<1> DEFINE last == loops[GroupOf(w)]
           q == NextLoad(vec[w], last)
<1>1. /\ last \in Nat /\ VectorPlace(vec[w], last) /\ vec[w].part = "issue"
      /\ LoopAt(vec[w]) = V0(w) /\ V0(w) \in Nat /\ V2(w) \in Nat
  BY Facts, CountsIssue DEF Issue, V0
<1>2. /\ vec' = [vec EXCEPT ![w] = q]
      /\ vecInfo' = [vecInfo EXCEPT ![w][Slot(V0(w))] = Entry(V0(w), info)]
      /\ UNCHANGED <<antiquant, loops, cube, cubeInfo, mm1, vec1, mm2>>
  BY <1>1 DEF Issue
<1>3. /\ VectorPlace(q, last) /\ Issued(q, last) = V0(w) + 1
      /\ Softened(q, last) = V1(w) /\ RetiredUpTo(q, last) = V2(w)
  BY <1>1, CountsIssue DEF V0, V1, V2
<1>4. Issued(q, last) \in 0 .. last /\ Issued(q, last) <= RetiredUpTo(q, last) + Preload
  BY <1>1, <1>3, VectorCounts
<1>5. V0(w) < last /\ V0(w) + 1 - V2(w) <= Preload
  BY <1>1, <1>3, <1>4, PipeAssumption
<1> HIDE DEF q
<1>6. /\ V0(w)' = V0(w) + 1 /\ \A u \in Vectors \ {w} : V0(u)' = V0(u)
      /\ \A u \in Vectors : V1(u)' = V1(u) /\ V2(u)' = V2(u)
      /\ \A h \in Cubes : C1(h)' = C1(h) /\ C2(h)' = C2(h)
  BY <1>2, <1>3, VectorMoves
<1>7. QED
  BY <1>1, <1>2, <1>5, <1>6 DEF q

\* The softmax of a loop: V1 is its number.
LEMMA SoftmaxCounts ==
  ASSUME PipeInv, NEW w \in Vectors, NEW result, Softmax(w, result)
  PROVE  LET g == GroupOf(w)
         IN /\ LoopAt(vec[w]) = V1(w) /\ V1(w) < C1(g) /\ V1(w) < V0(w)
            /\ V1(w) + 1 - C2(g) <= Preload
            /\ vec[w].part = "softmax" /\ vec' = [vec EXCEPT ![w] = AfterSoftmax(vec[w], loops[g])]
            /\ vec1' = [vec1 EXCEPT ![w][Slot(V1(w))] = Entry(V1(w), result)]
            /\ UNCHANGED <<antiquant, loops, cube, vecInfo, cubeInfo, mm1, mm2>>
            /\ V1(w)' = V1(w) + 1 /\ \A u \in Vectors \ {w} : V1(u)' = V1(u)
            /\ \A u \in Vectors : V0(u)' = V0(u) /\ V2(u)' = V2(u)
            /\ \A h \in Cubes : C1(h)' = C1(h) /\ C2(h)' = C2(h)
<1> DEFINE g == GroupOf(w)
           last == loops[g]
           q == AfterSoftmax(vec[w], last)
<1>1. /\ g \in Cubes /\ last \in Nat
      /\ VectorPlace(vec[w], last) /\ vec[w].part = "softmax"
      /\ LoopAt(vec[w]) = V1(w) /\ c1v1[w] > 0
  BY Facts, CountsSoftmax DEF Softmax, V1
<1>2. /\ vec' = [vec EXCEPT ![w] = q]
      /\ vec1' = [vec1 EXCEPT ![w][Slot(V1(w))] = Entry(V1(w), result)]
      /\ UNCHANGED <<antiquant, loops, cube, vecInfo, cubeInfo, mm1, mm2>>
  BY <1>1 DEF Softmax
<1>3. /\ VectorPlace(q, last) /\ Issued(q, last) = V0(w)
      /\ Softened(q, last) = V1(w) + 1 /\ RetiredUpTo(q, last) = V2(w)
  BY <1>1, CountsSoftmax DEF V0, V1, V2
<1>4. /\ V0(w) \in Nat /\ V1(w) \in Nat /\ C1(g) \in Nat /\ C2(g) \in Nat /\ V2(w) \in Nat
      /\ V2(w) <= C2(g) /\ C2(g) <= V1(w) /\ V1(w) + 1 <= C1(g)
      /\ CubePlace(cube[g], last)
  BY <1>1, Facts DEF FlagsAt
<1>5. V1(w) + 1 - C2(g) <= Preload
  BY <1>1, <1>3, <1>4, Bounds DEF C1, C2
<1>6. V1(w) < V0(w)
  BY <1>1, <1>3, <1>4, VectorCounts
<1> HIDE DEF q
<1>7. /\ V1(w)' = V1(w) + 1 /\ \A u \in Vectors \ {w} : V1(u)' = V1(u)
      /\ \A u \in Vectors : V0(u)' = V0(u) /\ V2(u)' = V2(u)
      /\ \A h \in Cubes : C1(h)' = C1(h) /\ C2(h)' = C2(h)
  BY <1>2, <1>3, VectorMoves
<1>8. QED
  BY <1>1, <1>2, <1>4, <1>5, <1>6, <1>7 DEF q

\* Retiring a loop: V2 is its number.
LEMMA RetireCounts ==
  ASSUME PipeInv, NEW w \in Vectors, Retire(w)
  PROVE  LET g == GroupOf(w)
         IN /\ Retired(vec[w]) = V2(w) /\ V2(w) < C2(g) /\ V2(w) < V1(w)
            /\ vec[w].part \in {"retire", "flush"}
            /\ vec' = [vec EXCEPT ![w] = IF vec[w].part = "retire" THEN AfterRetire(vec[w], loops[g])
                                                               ELSE AfterFlush(vec[w], loops[g])]
            /\ UNCHANGED <<antiquant, loops, cube, vecInfo, cubeInfo, mm1, vec1, mm2>>
            /\ V2(w)' = V2(w) + 1 /\ \A u \in Vectors \ {w} : V2(u)' = V2(u)
            /\ \A u \in Vectors : V0(u)' = V0(u) /\ V1(u)' = V1(u)
            /\ \A h \in Cubes : C1(h)' = C1(h) /\ C2(h)' = C2(h)
<1> DEFINE g == GroupOf(w)
           last == loops[g]
           q == vec'[w]
<1>1. /\ g \in Cubes /\ last \in Nat
      /\ VectorPlace(vec[w], last) /\ vec[w].part \in {"retire", "flush"} /\ c2v2[w] > 0
  BY Facts DEF Retire
<1>2. /\ DOMAIN vec = Vectors
      /\ vec' = [vec EXCEPT ![w] = IF vec[w].part = "retire" THEN AfterRetire(vec[w], last)
                                                            ELSE AfterFlush(vec[w], last)]
      /\ UNCHANGED <<antiquant, loops, cube, vecInfo, cubeInfo, mm1, vec1, mm2>>
  BY DEF Retire, PipeInv, PipeType
<1>3. /\ VectorPlace(q, last) /\ Issued(q, last) = V0(w)
      /\ Softened(q, last) = V1(w) /\ RetiredUpTo(q, last) = V2(w) + 1
  <2>1. CASE vec[w].part = "retire"
    BY <1>1, <1>2, <2>1, CountsRetire DEF V0, V1, V2
  <2>2. CASE vec[w].part = "flush"
    BY <1>1, <1>2, <2>2, CountsFlush DEF V0, V1, V2
  <2>3. QED
    BY <1>1, <2>1, <2>2
<1>4. vec' = [vec EXCEPT ![w] = q]
  BY <1>2
<1>5. Retired(vec[w]) = V2(w)
  BY <1>1 DEF Retired, V2, RetiredUpTo
<1>6. V2(w) \in Nat /\ C2(g) \in Nat /\ V1(w) \in Nat /\ C2(g) <= V1(w) /\ V2(w) < C2(g)
  BY <1>1, Facts DEF FlagsAt
<1> HIDE DEF q
<1>7. /\ V2(w)' = V2(w) + 1 /\ \A u \in Vectors \ {w} : V2(u)' = V2(u)
      /\ \A u \in Vectors : V0(u)' = V0(u) /\ V1(u)' = V1(u)
      /\ \A h \in Cubes : C1(h)' = C1(h) /\ C2(h)' = C2(h)
  BY <1>2, <1>3, <1>4, VectorMoves
<1>8. QED
  BY <1>1, <1>2, <1>5, <1>6, <1>7

\* The first product of a loop: C1 is its number.
LEMMA Matmul1Counts ==
  ASSUME PipeInv, NEW g \in Cubes, NEW info, NEW result, Matmul1(g, info, result)
  PROVE  /\ LoopAt(cube[g]) = C1(g) /\ C1(g) < loops[g] /\ C1(g) + 1 - C2(g) <= Preload
         /\ \A w \in Vectors : GroupOf(w) = g => /\ C1(g) + 1 - V1(w) <= Preload
                                                 /\ antiquant => C1(g) < V0(w)
         /\ cube[g].part = "mm1" /\ cube' = [cube EXCEPT ![g] = AfterMm1(cube[g], loops[g])]
         /\ cubeInfo' = [cubeInfo EXCEPT ![g][Slot(C1(g))] = Entry(C1(g), info)]
         /\ mm1' = [mm1 EXCEPT ![g][Slot(C1(g))] = Entry(C1(g), result)]
         /\ UNCHANGED <<antiquant, loops, vec, vecInfo, vec1, mm2>>
         /\ C1(g)' = C1(g) + 1 /\ \A h \in Cubes \ {g} : C1(h)' = C1(h)
         /\ \A h \in Cubes : C2(h)' = C2(h)
         /\ \A w \in Vectors : V0(w)' = V0(w) /\ V1(w)' = V1(w) /\ V2(w)' = V2(w)
<1> DEFINE last == loops[g]
           q == AfterMm1(cube[g], last)
<1>1. /\ last \in Nat /\ CubePlace(cube[g], last) /\ cube[g].part = "mm1"
      /\ LoopAt(cube[g]) = C1(g) /\ C1(g) \in Nat /\ C2(g) \in Nat
  BY CubeFacts, CountsMm1 DEF Matmul1, C1
<1>2. /\ cube' = [cube EXCEPT ![g] = q]
      /\ cubeInfo' = [cubeInfo EXCEPT ![g][Slot(C1(g))] = Entry(C1(g), info)]
      /\ mm1' = [mm1 EXCEPT ![g][Slot(C1(g))] = Entry(C1(g), result)]
      /\ UNCHANGED <<antiquant, loops, vec, vecInfo, vec1, mm2>>
      /\ antiquant => \A w \in Halves(g) : v0c1[w] > 0
  BY <1>1 DEF Matmul1
<1>3. /\ CubePlace(q, last) /\ Multiplied1(q, last) = C1(g) + 1
      /\ Multiplied2(q, last) = C2(g)
  BY <1>1, CountsMm1 DEF C1, C2
<1>4. C1(g) < last /\ C1(g) + 1 - C2(g) <= Preload
  BY <1>1, <1>3, CubeCounts, PipeAssumption
<1>5. ASSUME NEW w \in Vectors, GroupOf(w) = g
      PROVE  C1(g) + 1 - V1(w) <= Preload /\ (antiquant => C1(g) < V0(w))
  <2>1. /\ VectorPlace(vec[w], last) /\ V1(w) \in Nat /\ V0(w) \in Nat
        /\ V2(w) \in Nat /\ V2(w) <= C2(g) /\ C2(g) <= V1(w) /\ V1(w) <= C1(g) + 1
        /\ FlagsAt(w)
    BY <1>1, <1>5, Facts
  <2>2. C1(g) + 1 - V1(w) <= Preload
    BY <1>1, <1>3, <1>5, <2>1, Bounds DEF V1, V2
  <2>3. antiquant => v0c1[w] > 0
    BY <1>2, <1>5, Groups2
  <2>4. QED
    BY <1>1, <1>5, <2>1, <2>2, <2>3 DEF FlagsAt
<1> HIDE DEF q
<1>6. /\ C1(g)' = C1(g) + 1 /\ \A h \in Cubes \ {g} : C1(h)' = C1(h)
      /\ \A h \in Cubes : C2(h)' = C2(h)
      /\ \A w \in Vectors : V0(w)' = V0(w) /\ V1(w)' = V1(w) /\ V2(w)' = V2(w)
  BY <1>2, <1>3, CubeMoves
<1>7. QED
  BY <1>1, <1>2, <1>4, <1>5, <1>6 DEF q

\* The second product of a loop: C2 is its number.
LEMMA Matmul2Counts ==
  ASSUME PipeInv, NEW g \in Cubes, NEW result, Matmul2(g, result)
  PROVE  /\ LoopAt(cube[g]) = C2(g) /\ C2(g) < C1(g)
         /\ \A w \in Vectors : GroupOf(w) = g => C2(g) + 1 - V2(w) <= Preload /\ C2(g) < V1(w)
         /\ cube[g].part = "mm2" /\ cube' = [cube EXCEPT ![g] = AfterMm2(cube[g], loops[g])]
         /\ mm2' = [mm2 EXCEPT ![g][Slot(C2(g))] = Entry(C2(g), result)]
         /\ UNCHANGED <<antiquant, loops, vec, vecInfo, cubeInfo, mm1, vec1>>
         /\ C2(g)' = C2(g) + 1 /\ \A h \in Cubes \ {g} : C2(h)' = C2(h)
         /\ \A h \in Cubes : C1(h)' = C1(h)
         /\ \A w \in Vectors : V0(w)' = V0(w) /\ V1(w)' = V1(w) /\ V2(w)' = V2(w)
<1> DEFINE last == loops[g]
           q == AfterMm2(cube[g], last)
<1>1. /\ last \in Nat /\ CubePlace(cube[g], last) /\ cube[g].part = "mm2"
      /\ LoopAt(cube[g]) = C2(g) /\ C1(g) \in Nat /\ C2(g) \in Nat
  BY CubeFacts, CountsMm2 DEF Matmul2, C2
<1>2. /\ cube' = [cube EXCEPT ![g] = q]
      /\ mm2' = [mm2 EXCEPT ![g][Slot(C2(g))] = Entry(C2(g), result)]
      /\ UNCHANGED <<antiquant, loops, vec, vecInfo, cubeInfo, mm1, vec1>>
      /\ \A w \in Halves(g) : v1c2[w] > 0
  BY <1>1 DEF Matmul2
<1>3. /\ CubePlace(q, last) /\ Multiplied1(q, last) = C1(g)
      /\ Multiplied2(q, last) = C2(g) + 1
  BY <1>1, CountsMm2 DEF C1, C2
<1>4. C2(g) < C1(g)
  BY <1>1, <1>3, CubeCounts
<1>5. ASSUME NEW w \in Vectors, GroupOf(w) = g
      PROVE  C2(g) + 1 - V2(w) <= Preload /\ C2(g) < V1(w)
  <2>1. v1c2[w] > 0
    BY <1>2, <1>5, Groups2
  <2>2. /\ VectorPlace(vec[w], last) /\ V1(w) \in Nat
        /\ V2(w) \in Nat /\ V2(w) <= C2(g) + 1 /\ C2(g) + 1 <= V1(w) /\ V1(w) <= C1(g)
    BY <1>1, <1>5, <2>1, Facts DEF FlagsAt
  <2>3. C2(g) + 1 - V2(w) <= Preload
    BY <1>1, <1>3, <1>5, <2>2, Bounds DEF V1, V2
  <2>4. QED
    BY <1>1, <2>2, <2>3
<1> HIDE DEF q
<1>6. /\ C2(g)' = C2(g) + 1 /\ \A h \in Cubes \ {g} : C2(h)' = C2(h)
      /\ \A h \in Cubes : C1(h)' = C1(h)
      /\ \A w \in Vectors : V0(w)' = V0(w) /\ V1(w)' = V1(w) /\ V2(w)' = V2(w)
  BY <1>2, <1>3, CubeMoves
<1>7. QED
  BY <1>1, <1>2, <1>4, <1>5, <1>6 DEF q

-----------------------------------------------------------------------------
(* Loading. *)

\* The input and the loops of a group, as the invariant has them.
LEMMA DataFacts ==
  ASSUME DataInv, NEW g \in Cubes
  PROVE  input \in Inputs /\ loops[g] = LoopTimes(g) /\ loops[g] \in Nat
<1>1. input \in Inputs /\ loops = Loops
  BY DEF DataInv, DataType
<1>2. loops[g] = LoopTimes(g)
  BY <1>1 DEF Loops
<1>3. QED
  BY <1>1, <1>2, AllLoops

\* A core that loads a loop notes of it what there is to note.
LEMMA NotesLoop ==
  ASSUME input \in Inputs, NEW g \in Cubes, NEW k \in 0 .. LoopTimes(g) - 1,
         NEW walk, walk = Walks(g)[k]
  PROVE  /\ Walked(g, walk, k) = WalkIn(g, k)
         /\ ExtraInfo(g, walk, Walked(g, walk, k), k) = InfoOf(g, k)
<1>1. k \in Nat
  BY AllLoops
<1>2. walk = WalkBefore(g, k)
  BY <1>1, TablesAre
<1>3. Walked(g, walk, k) = WalkIn(g, k)
  BY <1>2, WalkOn
<1>4. QED
  BY <1>2, <1>3 DEF InfoOf

\* The slots of the queries of the tasks in the last Preload loops are apart: the
\* query of a new task overwrites none of them.
LEMMA QueryKept ==
  ASSUME input \in Inputs, NEW g \in Cubes, NEW k \in 0 .. LoopTimes(g) - 1,
         NEW ring, DOMAIN ring = Slots, Queried(ring, Infos(g), Since(k), k)
  PROVE  Queried(IF InfoOf(g, k).s2 = 0
                 THEN [ring EXCEPT ![Slot(InfoOf(g, k).bn2)] = TaskOf(InfoOf(g, k))]
                 ELSE ring, Infos(g), Since(k + 1), k + 1)
<1> DEFINE next == IF InfoOf(g, k).s2 = 0
                   THEN [ring EXCEPT ![Slot(InfoOf(g, k).bn2)] = TaskOf(InfoOf(g, k))]
                   ELSE ring
<1> SUFFICES ASSUME NEW j \in Since(k + 1) .. k
             PROVE  next[Slot(Infos(g)[j].data.bn2)] = TaskOf(Infos(g)[j].data)
  <2>1. (k + 1) - 1 = k
    BY AllLoops
  <2>2. QED
    BY <2>1 DEF Queried
<1>1. k \in Nat /\ LoopTimes(g) \in Nat /\ Preload \in Nat \ {0}
  BY AllLoops, PipeAssumption
<1>2. /\ Since(k) \in Nat /\ Since(k) <= Since(k + 1) /\ Since(k + 1) \in Nat
      /\ k + 1 - Since(k + 1) <= Preload /\ (k > 0 => k - 1 \in Since(k) .. k - 1)
  <2>1. k + 1 \in Nat
    BY <1>1
  <2>2. QED
    BY <1>1, <2>1, SinceIs
<1>3. j \in Nat /\ j \in 0 .. LoopTimes(g) - 1 /\ j <= k /\ k - j < Preload
  BY <1>1, <1>2
<1>4. Infos(g)[j].data = InfoOf(g, j)
  BY <1>3, TablesAre
<1>5. ASSUME NEW x \in 0 .. LoopTimes(g) - 1
      PROVE  /\ WalkIn(g, x).count \in Nat /\ InfoOf(g, x).bn2 = WalkIn(g, x).count - 1
             /\ InfoOf(g, x).s2 = WalkIn(g, x).s2
  BY WalkType, InfoIs
<1>6. CASE j = k /\ InfoOf(g, k).s2 = 0
  <2>1. Slot(InfoOf(g, k).bn2) \in Slots
    BY <1>5, SlotIn
  <2>2. QED
    BY <1>4, <1>6, <2>1
<1>7. CASE j = k /\ InfoOf(g, k).s2 # 0
  <2>1. /\ k > 0 /\ TaskOf(InfoOf(g, k)) = TaskOf(InfoOf(g, k - 1))
        /\ InfoOf(g, k).bn2 = InfoOf(g, k - 1).bn2
    BY <1>5, <1>7, SumsNext
  <2>2. k - 1 \in Since(k) .. k - 1 /\ k - 1 \in Nat
    BY <1>1, <1>2, <2>1
  <2>3. Infos(g)[k - 1].data = InfoOf(g, k - 1)
    BY <2>2, TablesAre
  <2>4. QED
    BY <1>4, <1>7, <2>1, <2>2, <2>3 DEF Queried
<1>8. CASE j < k
  <2>1. j \in Since(k) .. k - 1
    BY <1>1, <1>2, <1>3, <1>8
  <2>2. ring[Slot(InfoOf(g, j).bn2)] = TaskOf(InfoOf(g, j))
    BY <1>4, <2>1 DEF Queried
  <2>3. CASE InfoOf(g, k).s2 = 0
    <3>1. PICK i \in Nat : k = i + 1
      BY <1>1, <1>3, <1>8
    <3>2. i \in 0 .. LoopTimes(g) - 1 /\ i + 1 < LoopTimes(g) /\ j <= i /\ i < LoopTimes(g)
      BY <1>1, <1>3, <1>8, <3>1
    <3>3. WalkIn(g, k).count = WalkIn(g, i).count + 1
      <4>1. WalkIn(g, i + 1).s2 = 0
        BY <1>5, <2>3, <3>1
      <4>2. WalkIn(g, i + 1).count = WalkIn(g, i).count + 1
        BY <3>2, <4>1, GoesOn
      <4>3. QED
        BY <3>1, <4>2
    <3>4. WalkIn(g, i).count - WalkIn(g, j).count \in 0 .. i - j
      BY <1>3, <3>2, CountsUp
    <3>5. PICK a \in Int : a = InfoOf(g, j).bn2
      BY <1>3, <1>5
    <3>6. PICK b \in Int : b = InfoOf(g, k).bn2
      BY <1>5
    <3>7. a < b /\ b - a < Preload
      <4>1. a = WalkIn(g, j).count - 1 /\ b = WalkIn(g, k).count - 1
        BY <1>3, <1>5, <3>5, <3>6
      <4>2. WalkIn(g, j).count \in Nat /\ WalkIn(g, i).count \in Nat
        BY <1>3, <1>5, <3>2
      <4>3. QED
        BY <1>1, <1>3, <3>1, <3>3, <3>4, <4>1, <4>2
    <3>8. Slot(a) # Slot(b) /\ Slot(a) \in Slots /\ Slot(b) \in Slots
      BY <3>7, SlotsApart, SlotIn
    <3>9. QED
      BY <1>4, <2>2, <2>3, <3>5, <3>6, <3>8
  <2>4. CASE InfoOf(g, k).s2 # 0
    BY <1>4, <2>2, <2>4
  <2>5. QED
    BY <2>3, <2>4
<1>9. QED
  BY <1>3, <1>6, <1>7, <1>8

\* Loading a loop leaves every core with what is due to it.
LEMMA VectorLoadData ==
  ASSUME PipeInv, DataInv, NEW w \in Vectors,
         VectorLoad(w, LoopAt(vec[w]), Walked(GroupOf(w), vecWalk[w], LoopAt(vec[w])))
  PROVE  (\A u \in Vectors : VectorHolds(u)') /\ (\A h \in Cubes : CubeHolds(h)')
<1> DEFINE g == GroupOf(w)
           k == V0(w)
           info == InfoOf(g, k)
<1>1. Issue(w, ExtraInfo(g, vecWalk[w], Walked(g, vecWalk[w], LoopAt(vec[w])), LoopAt(vec[w])))
  BY DEF VectorLoad, QueryPreProcessL
<1>2. /\ LoopAt(vec[w]) = k /\ k < loops[g] /\ k + 1 - V2(w) <= Preload
  BY <1>1, IssueCounts
<1>3. g \in Cubes /\ k \in Nat /\ V2(w) \in Nat /\ input \in Inputs /\ loops[g] = LoopTimes(g)
      /\ loops[g] \in Nat
  BY Facts, DataFacts
<1>4. k \in 0 .. LoopTimes(g) - 1
  BY <1>2, <1>3
<1>5. VectorHolds(w) /\ vecWalk[w] = Walks(g)[k]
  BY DEF DataInv, VectorHolds, VectorData
<1>6. /\ Walked(g, vecWalk[w], k) = WalkIn(g, k)
      /\ ExtraInfo(g, vecWalk[w], Walked(g, vecWalk[w], k), k) = info
  BY <1>3, <1>4, <1>5, NotesLoop
<1>7. /\ vecWalk' = [vecWalk EXCEPT ![w] = WalkIn(g, k)]
      /\ query' = IF antiquant /\ info.s2 = 0
                  THEN [query EXCEPT ![w][Slot(info.bn2)] = TaskOf(info)] ELSE query
      /\ UNCHANGED <<input, cubeWalk, keyGm, valueGm, soft, acc, lse, accum, out>>
  BY <1>2, <1>6 DEF VectorLoad, QueryPreProcessL
<1>8. /\ vecInfo' = [vecInfo EXCEPT ![w][Slot(k)] = Entry(k, info)]
      /\ UNCHANGED <<antiquant, loops, cube, cubeInfo, mm1, vec1, mm2>>
      /\ V0(w)' = V0(w) + 1 /\ \A u \in Vectors \ {w} : V0(u)' = V0(u)
      /\ \A u \in Vectors : V1(u)' = V1(u) /\ V2(u)' = V2(u)
      /\ \A h \in Cubes : C1(h)' = C1(h) /\ C2(h)' = C2(h)
  BY <1>1, <1>2, <1>6, IssueCounts
<1>9. /\ DOMAIN vecWalk = Vectors /\ DOMAIN query = Vectors /\ DOMAIN query[w] = Slots
      /\ DOMAIN vecInfo = Vectors /\ DOMAIN vecInfo[w] = Slots
  BY DEF DataInv, DataType, PipeInv, PipeType, IsRing
<1>10. /\ Infos(g)' = Infos(g) /\ Accounts(g)' = Accounts(g) /\ Products(g)' = Products(g)
       /\ AllSums(g)' = AllSums(g) /\ Walks(g)' = Walks(g) /\ Lasts(g)' = Lasts(g)
       /\ OwnTask(g)' = OwnTask(g) /\ SplitOf(g)' = SplitOf(g) /\ (FlashDecode' <=> FlashDecode)
  BY <1>7, SameTables
<1>11. ASSUME NEW u \in Vectors \ {w} PROVE VectorHolds(u)'
  <2>1. VectorHolds(u) /\ GroupOf(u) \in Cubes
    BY Groups2 DEF DataInv
  <2>2. vecWalk'[u] = vecWalk[u] /\ query'[u] = query[u] /\ vecInfo'[u] = vecInfo[u]
    BY <1>7, <1>8, <1>9
  <2>3. QED
    BY <1>7, <1>8, <2>1, <2>2, VectorSame
<1>12. \A h \in Cubes : CubeHolds(h)'
  BY <1>7, <1>8, CubeSame DEF DataInv
<1> HIDE DEF k, info
<1>13. VectorData(w)'
  <2>1. VectorData(w)
    BY <1>5 DEF VectorHolds
  <2>2. vecWalk'[w] = Walks(g)[k + 1]
    BY <1>3, <1>7, <1>9, TablesAre
  <2>3. Keeps(vecInfo'[w], Infos(g), V2(w), k + 1)
    <3>1. Keeps(vecInfo[w], Infos(g), V2(w), k)
      BY <2>1 DEF VectorData, k
    <3>2. vecInfo'[w] = [vecInfo[w] EXCEPT ![Slot(k)] = Entry(k, info)]
      BY <1>8, <1>9
    <3>3. Entry(k, info) = Infos(g)[k]
      BY <1>3, TablesAre DEF info
    <3>4. k \in Int /\ V2(w) \in Int
      BY <1>3
    <3>5. Keeps([vecInfo[w] EXCEPT ![Slot(k)] = Entry(k, info)], Infos(g), V2(w), k + 1)
      BY <1>2, <1>9, <3>1, <3>3, <3>4, KeepsWrite
    <3>6. QED
      BY <3>2, <3>5
  <2>4. V0(w)' = k + 1
    BY <1>8 DEF k
  <2>5. QED
    BY <1>3, <1>7, <1>8, <1>10, <2>1, <2>2, <2>3, <2>4 DEF VectorData
<1>14. AccHolds(w)' /\ PartsHold(w)'
  BY <1>3, <1>5, <1>7, <1>8, <1>10 DEF VectorHolds, AccHolds, PartsHold
<1>15. QueryHolds(w)'
  <2>1. SUFFICES ASSUME antiquant PROVE Queried(query'[w], Infos(g), Since(k + 1), k + 1)
    <3>1. V0(w)' = k + 1
      BY <1>8 DEF k
    <3>2. QED
      BY <1>8, <1>10, <2>1, <3>1 DEF QueryHolds
  <2>2. Queried(query[w], Infos(g), Since(k), k)
    BY <1>5, <2>1 DEF VectorHolds, QueryHolds, k
  <2>3. query'[w] = IF InfoOf(g, k).s2 = 0
                    THEN [query[w] EXCEPT ![Slot(InfoOf(g, k).bn2)] = TaskOf(InfoOf(g, k))]
                    ELSE query[w]
    BY <1>7, <1>9, <2>1 DEF info
  <2>4. Queried(IF InfoOf(g, k).s2 = 0
                THEN [query[w] EXCEPT ![Slot(InfoOf(g, k).bn2)] = TaskOf(InfoOf(g, k))]
                ELSE query[w], Infos(g), Since(k + 1), k + 1)
    BY <1>3, <1>4, <1>9, <2>2, QueryKept
  <2>5. QED
    BY <2>3, <2>4
<1>16. VectorHolds(w)'
  BY <1>13, <1>14, <1>15 DEF VectorHolds
<1>17. QED
  BY <1>11, <1>12, <1>16

-----------------------------------------------------------------------------
(* Parts of tasks. *)

\* The two vector cores of a group.
LEMMA CoresOf ==
  /\ \A w \in Vectors : Half(w) \in {0, 1} /\ w = Core(GroupOf(w), Half(w))
  /\ \A g \in Cubes, h \in {0, 1} : /\ Core(g, h) \in Vectors
                                    /\ GroupOf(Core(g, h)) = g /\ Half(Core(g, h)) = h
<1>1. ASSUME NEW w \in Vectors PROVE Half(w) \in {0, 1} /\ w = Core(GroupOf(w), Half(w))
  <2>1. w \in Int
    BY DEF Vectors
  <2>2. w % 2 \in {0, 1} /\ w = 2 * (w \div 2) + (w % 2)
    BY <2>1, SMT
  <2>3. QED
    BY <2>2 DEF Half, Core, GroupOf
<1>2. ASSUME NEW g \in Cubes, NEW h \in {0, 1}
      PROVE  Core(g, h) \in Vectors /\ GroupOf(Core(g, h)) = g /\ Half(Core(g, h)) = h
  <2>1. g \in Nat /\ g <= Groups - 1 /\ Groups \in Nat
    BY PipeAssumption DEF Cubes
  <2>2. (2 * g + h) \div 2 = g /\ (2 * g + h) % 2 = h
    BY <2>1, SMT
  <2>3. QED
    BY <2>1, <2>2 DEF Core, Vectors, GroupOf, Half
<1>3. QED
  BY <1>1, <1>2

\* A group that has a part of a task has only this one.
LEMMA OwnTaskIs ==
  ASSUME input \in Inputs, FlashDecode, NEW g \in Cubes
  PROVE  /\ OwnTask(g) \in Tasks /\ SplitOf(g) \in 0 .. input.split - 1
         /\ TaskNumbers(g) = {FirstTask(g)}
         /\ FirstTask(g) \in Nat /\ FirstTask(g) < input.heads * input.batch
         /\ LoopTimes(g) = Times(g, FirstTask(g))
<1>1. FirstTask(g) \in Nat /\ TaskCount(g) = 1 /\ TaskNumbers(g) = {FirstTask(g)}
  BY NumbersBelow DEF TaskNumbers
<1>2. FirstTask(g) < input.heads * input.batch
  BY <1>1, NumberIn
<1>3. OwnTask(g) \in Tasks
  BY <1>1, <1>2, TaskIn DEF OwnTask
<1>4. SplitOf(g) \in 0 .. input.split - 1
  <2>1. PICK m \in Nat \ {0} : m = input.split
    BY InputIs
  <2>2. g \in Int
    BY DEF Cubes
  <2>3. g % m \in 0 .. m - 1
    BY <2>2, Division
  <2>4. QED
    BY <2>1, <2>3 DEF SplitOf
<1>5. LoopTimes(g) = Times(g, FirstTask(g))
  <2>1. Before(g, FirstTask(g) + 1) = Before(g, FirstTask(g)) + Times(g, FirstTask(g))
    BY <1>1, BeforeNext
  <2>2. Before(g, FirstTask(g)) = 0 /\ LoopTimes(g) = Before(g, FirstTask(g) + 1)
    BY <1>1, BeforeFirst, AllLoops
  <2>3. Times(g, FirstTask(g)) \in Nat
    BY <1>1, <1>2, TimesType
  <2>4. QED
    BY <2>1, <2>2, <2>3
<1>6. QED
  BY <1>1, <1>2, <1>3, <1>4, <1>5

\* The loops of such a group are those of its part.
LEMMA OwnLoops ==
  ASSUME input \in Inputs, FlashDecode, NEW g \in Cubes, NEW k \in 0 .. LoopTimes(g) - 1
  PROVE  /\ WalkIn(g, k).s2 = k /\ WalkIn(g, k).times = LoopTimes(g)
         /\ TaskOf(InfoOf(g, k)) = OwnTask(g)
         /\ TaskOfLoop(g, k) = FirstTask(g)
<1>1. TaskOfLoop(g, k) = FirstTask(g)
  BY OwnTaskIs, TaskOfLoopIs
<1>2. Before(g, FirstTask(g)) = 0 /\ k \in Int
  BY BeforeFirst, AllLoops
<1>3. /\ WalkIn(g, k).s2 = k - 0 /\ WalkIn(g, k).times = Times(g, FirstTask(g))
      /\ <<WalkIn(g, k).b, WalkIn(g, k).n2>> = OwnTask(g)
  BY <1>1, <1>2, WalkType DEF OwnTask
<1>4. QED
  BY <1>1, <1>2, <1>3, InfoIs, OwnTaskIs

\* Different groups have different parts.
LEMMA PartsApart ==
  ASSUME input \in Inputs, FlashDecode, NEW g \in Cubes, NEW h \in Cubes,
         OwnTask(g) = OwnTask(h), SplitOf(g) = SplitOf(h)
  PROVE  g = h
<1>1. FirstTask(g) = FirstTask(h)
  BY OwnTaskIs, TasksApart DEF OwnTask
<1>2. PICK m \in Nat \ {0} : m = input.split
  BY InputIs
<1>3. g \div m = h \div m /\ g % m = h % m
  BY <1>1, <1>2 DEF FirstTask, SplitOf
<1>4. g \in Int /\ h \in Int
  BY DEF Cubes
<1>5. g = m * (g \div m) + (g % m) /\ h = m * (h \div m) + (h % m)
  BY <1>4, Division, Zenon
<1>6. QED
  BY <1>3, <1>5

\* A table of parts with one of them new.
Leaving(x, h, t, s, part) == [x EXCEPT ![h][t][s] = part]

\* What a vector core leaves of its part, others do not touch.
LEMMA PartWrite ==
  ASSUME DataInv, FlashDecode, NEW w \in Vectors, NEW x, x \in {lse, accum}, NEW sum,
         NEW next, next = Leaving(x, Half(w), OwnTask(GroupOf(w)), SplitOf(GroupOf(w)), sum)
  PROVE  /\ next[Half(w)][OwnTask(GroupOf(w))][SplitOf(GroupOf(w))] = sum
         /\ \A u \in Vectors \ {w} : LET g == GroupOf(u)
              IN next[Half(u)][OwnTask(g)][SplitOf(g)] = x[Half(u)][OwnTask(g)][SplitOf(g)]
         /\ DOMAIN next = {0, 1}
         /\ \A h \in {0, 1} : DOMAIN next[h] = Tasks
         /\ \A h \in {0, 1}, t \in Tasks : DOMAIN next[h][t] = 0 .. input.split - 1
<1>1. input \in Inputs
  BY DEF DataInv, DataType
<1>2. /\ DOMAIN x = {0, 1} /\ \A h \in {0, 1} : DOMAIN x[h] = Tasks
      /\ \A h \in {0, 1}, t \in Tasks : DOMAIN x[h][t] = 0 .. input.split - 1
  BY DEF DataInv, DataType, IsParts
<1>3. \A u \in Vectors : /\ Half(u) \in {0, 1} /\ OwnTask(GroupOf(u)) \in Tasks
                         /\ SplitOf(GroupOf(u)) \in 0 .. input.split - 1 /\ GroupOf(u) \in Cubes
  BY <1>1, CoresOf, Groups2, OwnTaskIs
<1>4. PICK h \in {0, 1} : h = Half(w)
  BY <1>3
<1>5. PICK t \in Tasks : t = OwnTask(GroupOf(w))
  BY <1>3
<1>6. PICK s \in 0 .. input.split - 1 : s = SplitOf(GroupOf(w))
  BY <1>3
<1>7. next = [x EXCEPT ![h][t][s] = sum]
  BY <1>4, <1>5, <1>6 DEF Leaving
<1>8. /\ next[h][t][s] = sum
      /\ \A a \in {0, 1}, b \in Tasks, c \in 0 .. input.split - 1 :
           <<a, b, c>> # <<h, t, s>> => next[a][b][c] = x[a][b][c]
      /\ DOMAIN next = {0, 1} /\ \A a \in {0, 1} : DOMAIN next[a] = Tasks
      /\ \A a \in {0, 1}, b \in Tasks : DOMAIN next[a][b] = 0 .. input.split - 1
  <2>1. /\ DOMAIN next = {0, 1} /\ next[h] = [x[h] EXCEPT ![t][s] = sum]
        /\ \A a \in {0, 1} : a # h => next[a] = x[a]
    BY <1>2, <1>7
  <2>2. /\ DOMAIN next[h] = Tasks /\ next[h][t] = [x[h][t] EXCEPT ![s] = sum]
        /\ \A b \in Tasks : b # t => next[h][b] = x[h][b]
    BY <1>2, <2>1
  <2>3. /\ DOMAIN next[h][t] = 0 .. input.split - 1 /\ next[h][t][s] = sum
        /\ \A c \in 0 .. input.split - 1 : c # s => next[h][t][c] = x[h][t][c]
    BY <1>2, <2>2
  <2>4. \A a \in {0, 1} : DOMAIN next[a] = Tasks
    BY <1>2, <2>1, <2>2
  <2>5. \A a \in {0, 1}, b \in Tasks : DOMAIN next[a][b] = 0 .. input.split - 1
    BY <1>2, <2>1, <2>2, <2>3
  <2>6. ASSUME NEW a \in {0, 1}, NEW b \in Tasks, NEW c \in 0 .. input.split - 1,
               <<a, b, c>> # <<h, t, s>>
        PROVE  next[a][b][c] = x[a][b][c]
    BY <2>1, <2>2, <2>3, <2>6
  <2>7. QED
    BY <2>1, <2>3, <2>4, <2>5, <2>6
<1>9. ASSUME NEW u \in Vectors \ {w}
      PROVE  next[Half(u)][OwnTask(GroupOf(u))][SplitOf(GroupOf(u))] =
               x[Half(u)][OwnTask(GroupOf(u))][SplitOf(GroupOf(u))]
  <2>1. <<Half(u), OwnTask(GroupOf(u)), SplitOf(GroupOf(u))>> # <<h, t, s>>
    <3>1. SUFFICES ASSUME Half(u) = h, OwnTask(GroupOf(u)) = t, SplitOf(GroupOf(u)) = s
                   PROVE  FALSE
      OBVIOUS
    <3>2. GroupOf(u) = GroupOf(w)
      BY <1>1, <1>3, <1>5, <1>6, <3>1, PartsApart
    <3>3. u = w
      BY <1>4, <3>1, <3>2, CoresOf
    <3>4. QED
      BY <3>3
  <2>2. QED
    BY <1>3, <1>8, <2>1
<1>10. QED
  BY <1>4, <1>5, <1>6, <1>8, <1>9

-----------------------------------------------------------------------------
(* The softmax of a loop. *)

\* What a vector core finds in its rings of a loop on its way.
LEMMA VectorFinds ==
  ASSUME PipeInv, DataInv, NEW w \in Vectors, NEW k \in Nat
  PROVE  LET g == GroupOf(w)
         IN /\ V2(w) <= k /\ k < V0(w) => vecInfo[w][Slot(k)].data = InfoOf(g, k)
            /\ V1(w) <= k /\ k < C1(g) => mm1[g][Slot(k)].data = AccountOf(g, k)
            /\ C2(g) <= k /\ k < V1(w) => vec1[w][Slot(k)].data = AccountOf(g, k)
            /\ V2(w) <= k /\ k < C2(g) => mm2[g][Slot(k)].data = [h \in {0, 1} |-> AccountOf(g, k)]
            /\ k \in Since(V1(w)) .. V1(w) - 1 => soft[w][Slot(k)] = Sums(g, k)
            /\ antiquant /\ k \in Since(V0(w)) .. V0(w) - 1 =>
                 query[w][Slot(InfoOf(g, k).bn2)] = TaskOf(InfoOf(g, k))
            /\ k < LoopTimes(g)  => k \in 0 .. LoopTimes(g) - 1
<1> DEFINE g == GroupOf(w)
<1>1. VectorData(w) /\ QueryHolds(w)
  BY DEF DataInv, VectorHolds
<1>2. /\ Infos(g)[k].data = InfoOf(g, k) /\ Accounts(g)[k].data = AccountOf(g, k)
      /\ Products(g)[k].data = [h \in {0, 1} |-> AccountOf(g, k)] /\ AllSums(g)[k] = Sums(g, k)
  <2>1. /\ Infos(g)[k].data = InfoOf(g, k) /\ Accounts(g)[k] = Entry(k, AccountOf(g, k))
        /\ Products(g)[k] = Entry(k, [h \in {0, 1} |-> AccountOf(g, k)])
        /\ AllSums(g)[k] = Sums(g, k)
    BY TablesAre
  <2>2. \A x : Entry(k, x).data = x
    BY DEF Entry
  <2>3. QED
    BY <2>1, <2>2
<1>3. /\ g \in Cubes /\ V0(w) \in Nat /\ V1(w) \in Nat /\ V2(w) \in Nat /\ C1(g) \in Nat /\ C2(g) \in Nat
      /\ LoopTimes(g) \in Nat
  BY AllBounds, DataFacts
<1>4. V2(w) <= k /\ k < V0(w) => vecInfo[w][Slot(k)].data = InfoOf(g, k)
  BY <1>1, <1>2, <1>3 DEF VectorData, Keeps
<1>5. V1(w) <= k /\ k < C1(g) => mm1[g][Slot(k)].data = AccountOf(g, k)
  BY <1>1, <1>2, <1>3 DEF VectorData, Keeps
<1>6. C2(g) <= k /\ k < V1(w) => vec1[w][Slot(k)].data = AccountOf(g, k)
  BY <1>1, <1>2, <1>3 DEF VectorData, Keeps
<1>7. V2(w) <= k /\ k < C2(g) => mm2[g][Slot(k)].data = [h \in {0, 1} |-> AccountOf(g, k)]
  BY <1>1, <1>2, <1>3 DEF VectorData, Keeps
<1>8. k \in Since(V1(w)) .. V1(w) - 1 => soft[w][Slot(k)] = Sums(g, k)
  BY <1>1, <1>2, <1>3 DEF VectorData, Keeps
<1>9. antiquant /\ k \in Since(V0(w)) .. V0(w) - 1 =>
        query[w][Slot(InfoOf(g, k).bn2)] = TaskOf(InfoOf(g, k))
  BY <1>1, <1>2, <1>3 DEF QueryHolds, Queried
<1>10. QED
  BY <1>3, <1>4, <1>5, <1>6, <1>7, <1>8, <1>9

\* What the softmax of a loop computes, and what it goes on from.
LEMMA SoftmaxComputes ==
  ASSUME PipeInv, DataInv, NEW w \in Vectors, NEW k, k = V1(w), k < C1(GroupOf(w)), k < V0(w)
  PROVE  LET g == GroupOf(w)
             info == vecInfo[w][Slot(k)].data
             p == Scored(w, info, mm1[g][Slot(k)].data)
         IN /\ info = InfoOf(g, k) /\ p = AccountOf(g, k)
            /\ Summed(w, k, info, p) = Sums(g, k)
<1> DEFINE g == GroupOf(w)
           info == InfoOf(g, k)
<1>1. /\ g \in Cubes /\ k \in Nat /\ V0(w) \in Nat /\ V2(w) \in Nat /\ C1(g) \in Nat
      /\ V2(w) <= k /\ V0(w) <= V2(w) + Preload /\ C1(g) <= loops[g]
      /\ input \in Inputs /\ loops[g] = LoopTimes(g) /\ loops[g] \in Nat
      /\ Preload \in Nat
  BY AllBounds, DataFacts, PipeAssumption
<1>2. k \in 0 .. LoopTimes(g) - 1
  BY <1>1
<1>3. vecInfo[w][Slot(k)].data = info /\ mm1[g][Slot(k)].data = AccountOf(g, k)
  <2>1. V2(w) <= k /\ k < V0(w) /\ V1(w) <= k /\ k < C1(g)
    BY <1>1
  <2>2. QED
    BY <1>1, <2>1, VectorFinds
<1>4. antiquant => query[w][Slot(info.bn2)] = TaskOf(info)
  <2>1. k \in Since(V0(w)) .. V0(w) - 1
    <3>1. V0(w) <= k + Preload
      BY <1>1
    <3>2. QED
      BY <1>1, <3>1, SinceIs
  <2>2. QED
    BY <1>1, <2>1, VectorFinds
<1>5. Scored(w, info, AccountOf(g, k)) = AccountOf(g, k)
  <2>1. AccountOf(g, k).of = {TaskOf(info)} /\ AccountOf(g, k).rows = RowsIn(info)
    BY DEF AccountOf, Account
  <2>2. AccountOf(g, k).of \cup (IF antiquant THEN {query[w][Slot(info.bn2)]} ELSE {}) =
          {TaskOf(info)}
    <3> HIDE DEF info
    <3>1. QED
      BY <1>4, <2>1
  <2>3. QED
    BY <2>1, <2>2 DEF Scored, AccountOf
<1>6. Summed(w, k, info, AccountOf(g, k)) = Sums(g, k)
  <2>1. info.s2 = WalkIn(g, k).s2
    BY InfoIs
  <2>2. CASE WalkIn(g, k).s2 = 0
    BY <1>1, <1>2, <2>1, <2>2, SumsNext DEF Summed
  <2>3. CASE WalkIn(g, k).s2 # 0
    <3>1. k > 0 /\ Sums(g, k) = Append(Sums(g, k - 1), AccountOf(g, k))
      BY <1>1, <1>2, <2>3, SumsNext
    <3>2. k - 1 \in Nat /\ k - 1 \in Since(V1(w)) .. V1(w) - 1
      <4>1. k \in Nat /\ k > 0
        BY <1>1, <3>1
      <4>2. k - 1 \in Since(k) .. k - 1
        BY <4>1, SinceIs
      <4>3. QED
        BY <4>1, <4>2
    <3>3. soft[w][Slot(k - 1)] = Sums(g, k - 1)
      BY <3>2, VectorFinds
    <3>4. QED
      BY <2>1, <2>3, <3>1, <3>3 DEF Summed
  <2>4. QED
    BY <2>2, <2>3
<1>7. QED
  BY <1>3, <1>5, <1>6

\* When the sums of a part of a task are left for the others to combine.
LEMMA LeavesSums ==
  ASSUME PipeInv, DataInv, NEW w \in Vectors, NEW k, k = V1(w), k < C1(GroupOf(w)), k < V0(w),
         FlashDecode
  PROVE  LET g == GroupOf(w)
         IN /\ InfoOf(g, k).s2 = vecWalk[w].times - 1 <=> k + 1 = loops[g]
            /\ TaskOf(InfoOf(g, k)) = OwnTask(g)
<1> DEFINE g == GroupOf(w)
<1>1. /\ g \in Cubes /\ k \in Nat /\ V0(w) \in Nat /\ V0(w) <= loops[g]
      /\ input \in Inputs /\ loops[g] = LoopTimes(g) /\ loops[g] \in Nat
  BY AllBounds, DataFacts
<1>2. PICK j \in Nat : V0(w) = j + 1
  BY <1>1
<1>3. k \in 0 .. LoopTimes(g) - 1 /\ j \in 0 .. LoopTimes(g) - 1
  BY <1>1, <1>2
<1>4. vecWalk[w] = WalkIn(g, j)
  BY <1>2, TablesAre DEF DataInv, VectorHolds, VectorData
<1>5. vecWalk[w].times = LoopTimes(g) /\ InfoOf(g, k).s2 = k /\ TaskOf(InfoOf(g, k)) = OwnTask(g)
  BY <1>1, <1>3, <1>4, OwnLoops, InfoIs
<1>6. QED
  BY <1>1, <1>5

\* The softmax of a loop leaves every core with what is due to it.
LEMMA SoftmaxData ==
  ASSUME PipeInv, DataInv, NEW w \in Vectors, ProcessVec1L(w, LoopAt(vec[w]))
  PROVE  (\A u \in Vectors : VectorHolds(u)') /\ (\A h \in Cubes : CubeHolds(h)')
<1> DEFINE g == GroupOf(w)
           k == V1(w)
           info == InfoOf(g, k)
<1>1. Softmax(w, Scored(w, vecInfo[w][Slot(LoopAt(vec[w]))].data, mm1[g][Slot(LoopAt(vec[w]))].data))
  BY DEF ProcessVec1L
<1>2. LoopAt(vec[w]) = k /\ k < C1(g) /\ k < V0(w) /\ k + 1 - C2(g) <= Preload
  BY <1>1, SoftmaxCounts
<1>3. /\ g \in Cubes /\ k \in Nat /\ input \in Inputs /\ loops[g] = LoopTimes(g)
      /\ loops[g] \in Nat /\ C1(g) \in Nat /\ C1(g) <= loops[g] /\ C2(g) \in Nat /\ V2(w) \in Nat
      /\ V2(w) <= k
  BY AllBounds, DataFacts
<1>4. k \in 0 .. LoopTimes(g) - 1
  BY <1>2, <1>3
<1>5. /\ vecInfo[w][Slot(k)].data = info
      /\ Scored(w, info, mm1[g][Slot(k)].data) = AccountOf(g, k)
      /\ Summed(w, k, info, AccountOf(g, k)) = Sums(g, k)
  BY <1>2, SoftmaxComputes
<1>6. /\ Softmax(w, AccountOf(g, k))
      /\ soft' = [soft EXCEPT ![w][Slot(k)] = Sums(g, k)]
      /\ lse' = IF FlashDecode /\ info.s2 = vecWalk[w].times - 1
                THEN [lse EXCEPT ![Half(w)][TaskOf(info)][SplitOf(g)] = Sums(g, k)] ELSE lse
      /\ UNCHANGED <<input, walks, query, keyGm, valueGm, acc, accum, out>>
  BY <1>2, <1>5 DEF ProcessVec1L
<1>7. /\ vec1' = [vec1 EXCEPT ![w][Slot(k)] = Entry(k, AccountOf(g, k))]
      /\ UNCHANGED <<antiquant, loops, cube, vecInfo, cubeInfo, mm1, mm2>>
      /\ V1(w)' = V1(w) + 1 /\ \A u \in Vectors \ {w} : V1(u)' = V1(u)
      /\ \A u \in Vectors : V0(u)' = V0(u) /\ V2(u)' = V2(u)
      /\ \A h \in Cubes : C1(h)' = C1(h) /\ C2(h)' = C2(h)
  BY <1>6, SoftmaxCounts
<1>8. /\ DOMAIN vec1 = Vectors /\ DOMAIN vec1[w] = Slots
      /\ DOMAIN soft = Vectors /\ DOMAIN soft[w] = Slots
  BY DEF DataInv, DataType, PipeInv, PipeType, IsRing
<1>9. /\ Infos(g)' = Infos(g) /\ Accounts(g)' = Accounts(g) /\ Products(g)' = Products(g)
      /\ AllSums(g)' = AllSums(g) /\ Walks(g)' = Walks(g) /\ Lasts(g)' = Lasts(g)
      /\ OwnTask(g)' = OwnTask(g) /\ SplitOf(g)' = SplitOf(g) /\ (FlashDecode' <=> FlashDecode)
  BY <1>6, SameTables
<1>10. /\ FlashDecode /\ k + 1 = loops[g] =>
            lse'[Half(w)][OwnTask(g)][SplitOf(g)] = Sums(g, k)
       /\ \A u \in Vectors \ {w} : LET h == GroupOf(u)
            IN lse'[Half(u)][OwnTask(h)][SplitOf(h)] = lse[Half(u)][OwnTask(h)][SplitOf(h)]
  <2>1. CASE FlashDecode /\ k + 1 = loops[g]
    <3>1. info.s2 = vecWalk[w].times - 1 /\ TaskOf(info) = OwnTask(g)
      BY <1>2, <2>1, LeavesSums
    <3>2. lse' = [lse EXCEPT ![Half(w)][OwnTask(g)][SplitOf(g)] = Sums(g, k)]
      BY <1>6, <2>1, <3>1
    <3>3. PICK next : next = lse'
      OBVIOUS
    <3>4. PICK x : x = lse
      OBVIOUS
    <3>5. PICK sum : sum = Sums(g, k)
      OBVIOUS
    <3>6. next = Leaving(x, Half(w), OwnTask(g), SplitOf(g), sum) /\ x \in {lse, accum}
      BY <3>2, <3>3, <3>4, <3>5 DEF Leaving
    <3>7. /\ next[Half(w)][OwnTask(g)][SplitOf(g)] = sum
          /\ \A u \in Vectors \ {w} : LET h == GroupOf(u)
               IN next[Half(u)][OwnTask(h)][SplitOf(h)] = x[Half(u)][OwnTask(h)][SplitOf(h)]
      BY <2>1, <3>6, PartWrite
    <3>8. QED
      BY <3>3, <3>4, <3>5, <3>7
  <2>2. CASE ~(FlashDecode /\ k + 1 = loops[g])
    <3>1. ~(FlashDecode /\ info.s2 = vecWalk[w].times - 1)
      BY <1>2, <2>2, LeavesSums
    <3>2. QED
      BY <1>6, <2>2, <3>1
  <2>3. QED
    BY <2>1, <2>2
<1>11. ASSUME NEW u \in Vectors \ {w} PROVE VectorHolds(u)'
  <2>1. VectorHolds(u) /\ GroupOf(u) \in Cubes
    BY Groups2 DEF DataInv
  <2>2. vec1'[u] = vec1[u] /\ soft'[u] = soft[u]
    BY <1>6, <1>7, <1>8
  <2>3. QED
    BY <1>6, <1>7, <1>10, <2>1, <2>2, VectorSame DEF walks
<1>12. \A h \in Cubes : CubeHolds(h)'
  BY <1>6, <1>7, CubeSame DEF DataInv, walks
<1>13. VectorHolds(w)
  BY DEF DataInv
<1> HIDE DEF k, info
<1>14. VectorData(w)'
  <2>1. VectorData(w)
    BY <1>13 DEF VectorHolds
  <2>2. V1(w)' = k + 1 /\ k \in Int /\ C2(g) \in Int /\ V0(w)' = V0(w) /\ V2(w)' = V2(w)
        /\ C1(g)' = C1(g) /\ C2(g)' = C2(g)
    BY <1>3, <1>7 DEF k
  <2>3. Keeps(mm1[g], Accounts(g), k + 1, C1(g))
    <3>1. Keeps(mm1[g], Accounts(g), k, C1(g))
      BY <2>1 DEF VectorData, k
    <3>2. k + 1 \in Int /\ C1(g) \in Int /\ k <= k + 1
      BY <1>3
    <3>3. QED
      BY <2>2, <3>1, <3>2, KeepsShrink
  <2>4. Keeps(vec1'[w], Accounts(g), C2(g), k + 1)
    <3>1. Keeps(vec1[w], Accounts(g), C2(g), k)
      BY <2>1 DEF VectorData, k
    <3>2. vec1'[w] = [vec1[w] EXCEPT ![Slot(k)] = Entry(k, AccountOf(g, k))]
      BY <1>7, <1>8
    <3>3. Entry(k, AccountOf(g, k)) = Accounts(g)[k]
      BY <1>3, TablesAre
    <3>4. Keeps([vec1[w] EXCEPT ![Slot(k)] = Entry(k, AccountOf(g, k))], Accounts(g), C2(g), k + 1)
      BY <1>2, <1>8, <2>2, <3>1, <3>3, KeepsWrite
    <3>5. QED
      BY <3>2, <3>4
  <2>5. Keeps(soft'[w], AllSums(g), Since(k + 1), k + 1)
    <3>1. Keeps(soft[w], AllSums(g), Since(k), k)
      BY <2>1 DEF VectorData, k
    <3>2. soft'[w] = [soft[w] EXCEPT ![Slot(k)] = Sums(g, k)]
      BY <1>6, <1>8
    <3>3. Sums(g, k) = AllSums(g)[k]
      BY <1>3, TablesAre
    <3>4. /\ Since(k) \in Int /\ Since(k + 1) \in Int /\ Since(k) <= Since(k + 1)
          /\ k + 1 - Since(k + 1) <= Preload
      BY <1>3, SinceIs
    <3>5. Keeps(soft[w], AllSums(g), Since(k + 1), k)
      BY <2>2, <3>1, <3>4, KeepsShrink
    <3>6. Keeps([soft[w] EXCEPT ![Slot(k)] = Sums(g, k)], AllSums(g), Since(k + 1), k + 1)
      BY <1>8, <2>2, <3>3, <3>4, <3>5, KeepsWrite
    <3>7. QED
      BY <3>2, <3>6
  <2>6. vecWalk' = vecWalk
    BY <1>6 DEF walks
  <2>7. QED
    BY <1>7, <1>9, <2>1, <2>2, <2>3, <2>4, <2>5, <2>6 DEF VectorData
<1>15. AccHolds(w)' /\ QueryHolds(w)'
  BY <1>3, <1>6, <1>7, <1>9, <1>13 DEF VectorHolds, AccHolds, QueryHolds
<1>16. PartsHold(w)'
  <2>1. AllSums(g)[(k + 1) - 1] = Sums(g, k)
    <3>1. k \in Nat /\ (k + 1) - 1 = k
      BY <1>3 DEF k
    <3>2. AllSums(g)[k] = Sums(g, k)
      BY <3>1, TablesAre
    <3>3. QED
      BY <3>1, <3>2
  <2>2. /\ V1(w)' = k + 1 /\ V2(w)' = V2(w) /\ loops' = loops /\ accum' = accum
        /\ PartsHold(w)
    BY <1>6, <1>7, <1>13 DEF VectorHolds, k
  <2>3. QED
    BY <1>9, <1>10, <2>1, <2>2 DEF PartsHold
<1>17. VectorHolds(w)'
  BY <1>14, <1>15, <1>16 DEF VectorHolds
<1>18. QED
  BY <1>11, <1>12, <1>17

-----------------------------------------------------------------------------
(* Retiring a loop. *)

\* What retiring a loop adds to, and what comes of it.
LEMMA RetireComputes ==
  ASSUME PipeInv, DataInv, NEW w \in Vectors, NEW k, k = V2(w), k < C2(GroupOf(w)), k < V1(w)
  PROVE  LET g == GroupOf(w)
             info == vecInfo[w][Slot(k)].data
         IN /\ info = InfoOf(g, k) /\ Accumulated(w, k, info) = Sums(g, k)
            /\ info.s2 + 1 = info.times <=> Ends(g, k)
            /\ FlashDecode => /\ TaskOf(info) = OwnTask(g)
                              /\ Ends(g, k) <=> k + 1 = loops[g]
<1> DEFINE g == GroupOf(w)
           info == InfoOf(g, k)
<1>1. /\ g \in Cubes /\ k \in Nat /\ V0(w) \in Nat /\ V1(w) \in Nat /\ C2(g) \in Nat
      /\ V1(w) <= V0(w) /\ C2(g) <= V1(w) /\ V1(w) <= loops[g]
      /\ input \in Inputs /\ loops[g] = LoopTimes(g) /\ loops[g] \in Nat
  BY AllBounds, DataFacts
<1>2. k \in 0 .. LoopTimes(g) - 1
  BY <1>1
<1>3. vecInfo[w][Slot(k)].data = info /\ mm2[g][Slot(k)].data = [h \in {0, 1} |-> AccountOf(g, k)]
  <2>1. V2(w) <= k /\ k < V0(w) /\ k < C2(g)
    BY <1>1
  <2>2. QED
    BY <1>1, <2>1, VectorFinds
<1>4. mm2[g][Slot(k)].data[Half(w)] = AccountOf(g, k)
  BY <1>3, CoresOf
<1>5. info.s2 = WalkIn(g, k).s2 /\ info.times = WalkIn(g, k).times
  BY InfoIs
<1>6. Accumulated(w, k, info) = Sums(g, k)
  <2>1. WalkIn(g, k).s2 \in Nat
    BY <1>1, <1>2, WalkType
  <2>2. CASE WalkIn(g, k).s2 = 0
    <3>1. Sums(g, k) = <<AccountOf(g, k)>>
      BY <1>1, <1>2, <2>2, SumsNext
    <3>2. ~(info.s2 > 0)
      BY <1>5, <2>2
    <3>3. QED
      BY <1>4, <3>1, <3>2 DEF Accumulated
  <2>3. CASE WalkIn(g, k).s2 # 0
    <3>1. k > 0 /\ Sums(g, k) = Append(Sums(g, k - 1), AccountOf(g, k)) /\ ~Ends(g, k - 1)
      BY <1>1, <1>2, <2>3, SumsNext
    <3>2. k - 1 \in Nat
      BY <1>1, <3>1
    <3>3. k - 1 \notin Lasts(g) /\ AllSums(g)[k - 1] = Sums(g, k - 1)
      BY <3>1, <3>2, TablesAre
    <3>4. acc[w][Slot(k - 1)] = Sums(g, k - 1)
      BY <3>1, <3>3 DEF DataInv, VectorHolds, AccHolds
    <3>5. info.s2 > 0
      BY <1>5, <2>1, <2>3
    <3>6. QED
      BY <1>4, <3>1, <3>4, <3>5 DEF Accumulated
  <2>4. QED
    BY <2>2, <2>3
<1>7. info.s2 + 1 = info.times <=> Ends(g, k)
  BY <1>5 DEF Ends
<1>8. ASSUME FlashDecode PROVE TaskOf(info) = OwnTask(g) /\ (Ends(g, k) <=> k + 1 = loops[g])
  <2>1. /\ WalkIn(g, k).s2 = k /\ WalkIn(g, k).times = LoopTimes(g)
        /\ TaskOf(info) = OwnTask(g)
    BY <1>1, <1>2, <1>8, OwnLoops
  <2>2. QED
    BY <1>1, <2>1 DEF Ends
<1>9. QED
  BY <1>3, <1>6, <1>7, <1>8

\* Retiring a loop leaves every core with what is due to it.
LEMMA RetireData ==
  ASSUME PipeInv, DataInv, NEW w \in Vectors, ProcessVec2L(w, Retired(vec[w]))
  PROVE  (\A u \in Vectors : VectorHolds(u)') /\ (\A h \in Cubes : CubeHolds(h)')
<1> DEFINE g == GroupOf(w)
           k == V2(w)
           info == InfoOf(g, k)
<1>1. Retire(w)
  BY DEF ProcessVec2L
<1>2. Retired(vec[w]) = k /\ k < C2(g) /\ k < V1(w)
  BY <1>1, RetireCounts
<1>3. /\ g \in Cubes /\ k \in Nat /\ input \in Inputs /\ loops[g] = LoopTimes(g)
      /\ loops[g] \in Nat /\ C2(g) \in Nat /\ V0(w) \in Nat
  BY AllBounds, DataFacts
<1>4. /\ vecInfo[w][Slot(k)].data = info /\ Accumulated(w, k, info) = Sums(g, k)
      /\ info.s2 + 1 = info.times <=> Ends(g, k)
      /\ FlashDecode => TaskOf(info) = OwnTask(g) /\ (Ends(g, k) <=> k + 1 = loops[g])
  BY <1>2, RetireComputes
<1>5. /\ IF Ends(g, k) THEN CopyOut(w, k, TaskOf(info), Sums(g, k)) /\ UNCHANGED acc
         ELSE acc' = [acc EXCEPT ![w][Slot(k)] = Sums(g, k)] /\ UNCHANGED <<out, accum>>
      /\ UNCHANGED <<input, walks, query, keyGm, valueGm, soft, lse>>
  BY <1>2, <1>4 DEF ProcessVec2L
<1>6. /\ UNCHANGED <<antiquant, loops, cube, vecInfo, cubeInfo, mm1, vec1, mm2>>
      /\ V2(w)' = V2(w) + 1 /\ \A u \in Vectors \ {w} : V2(u)' = V2(u)
      /\ \A u \in Vectors : V0(u)' = V0(u) /\ V1(u)' = V1(u)
      /\ \A h \in Cubes : C1(h)' = C1(h) /\ C2(h)' = C2(h)
  BY <1>1, RetireCounts
<1>7. DOMAIN acc = Vectors /\ DOMAIN acc[w] = Slots /\ Slot(k) \in Slots
  BY <1>3, SlotIn DEF DataInv, DataType, IsRing
<1>8. /\ Infos(g)' = Infos(g) /\ Accounts(g)' = Accounts(g) /\ Products(g)' = Products(g)
      /\ AllSums(g)' = AllSums(g) /\ Walks(g)' = Walks(g) /\ Lasts(g)' = Lasts(g)
      /\ OwnTask(g)' = OwnTask(g) /\ SplitOf(g)' = SplitOf(g) /\ (FlashDecode' <=> FlashDecode)
  BY <1>5, SameTables
<1>9. /\ FlashDecode /\ k + 1 = loops[g] =>
           accum'[Half(w)][OwnTask(g)][SplitOf(g)] = Sums(g, k)
      /\ \A u \in Vectors \ {w} : LET h == GroupOf(u)
           IN accum'[Half(u)][OwnTask(h)][SplitOf(h)] = accum[Half(u)][OwnTask(h)][SplitOf(h)]
  <2>1. CASE FlashDecode /\ k + 1 = loops[g]
    <3>1. accum' = [accum EXCEPT ![Half(w)][OwnTask(g)][SplitOf(g)] = Sums(g, k)]
      BY <1>4, <1>5, <2>1 DEF CopyOut
    <3>2. PICK next : next = accum'
      OBVIOUS
    <3>3. PICK x : x = accum
      OBVIOUS
    <3>4. PICK sum : sum = Sums(g, k)
      OBVIOUS
    <3>5. next = Leaving(x, Half(w), OwnTask(g), SplitOf(g), sum) /\ x \in {lse, accum}
      BY <3>1, <3>2, <3>3, <3>4 DEF Leaving
    <3>6. /\ next[Half(w)][OwnTask(g)][SplitOf(g)] = sum
          /\ \A u \in Vectors \ {w} : LET h == GroupOf(u)
               IN next[Half(u)][OwnTask(h)][SplitOf(h)] = x[Half(u)][OwnTask(h)][SplitOf(h)]
      BY <2>1, <3>5, PartWrite
    <3>7. QED
      BY <3>2, <3>3, <3>4, <3>6
  <2>2. CASE ~(FlashDecode /\ k + 1 = loops[g])
    <3>1. accum' = accum
      BY <1>4, <1>5, <2>2 DEF CopyOut
    <3>2. QED
      BY <2>2, <3>1
  <2>3. QED
    BY <2>1, <2>2
<1>10. ASSUME NEW u \in Vectors \ {w} PROVE VectorHolds(u)'
  <2>1. VectorHolds(u) /\ GroupOf(u) \in Cubes
    BY Groups2 DEF DataInv
  <2>2. acc'[u] = acc[u]
    BY <1>5, <1>7
  <2>3. QED
    BY <1>5, <1>6, <1>9, <2>1, <2>2, VectorSame DEF walks
<1>11. \A h \in Cubes : CubeHolds(h)'
  BY <1>5, <1>6, CubeSame DEF DataInv, walks
<1>12. VectorHolds(w)
  BY DEF DataInv
<1> HIDE DEF k, info
<1>13. V2(w)' = k + 1 /\ k \in Int /\ V0(w) \in Int /\ C2(g) \in Int /\ k <= k + 1 /\ k + 1 \in Int
  BY <1>3, <1>6 DEF k
<1>14. VectorData(w)'
  <2>1. VectorData(w)
    BY <1>12 DEF VectorHolds
  <2>2. Keeps(vecInfo[w], Infos(g), k + 1, V0(w))
    <3>1. Keeps(vecInfo[w], Infos(g), k, V0(w))
      BY <2>1 DEF VectorData, k
    <3>2. QED
      BY <1>13, <3>1, KeepsShrink
  <2>3. Keeps(mm2[g], Products(g), k + 1, C2(g))
    <3>1. Keeps(mm2[g], Products(g), k, C2(g))
      BY <2>1 DEF VectorData, k
    <3>2. QED
      BY <1>13, <3>1, KeepsShrink
  <2>4. vecWalk' = vecWalk /\ soft' = soft
    BY <1>5 DEF walks
  <2>5. QED
    BY <1>3, <1>6, <1>8, <1>13, <2>1, <2>2, <2>3, <2>4 DEF VectorData
<1>15. AccHolds(w)'
  <2>1. SUFFICES ASSUME k \notin Lasts(g) PROVE acc'[w][Slot(k)] = AllSums(g)[k]
    <3>1. (k + 1) - 1 = k /\ V2(w)' = k + 1
      BY <1>13
    <3>2. QED
      BY <1>8, <2>1, <3>1 DEF AccHolds
  <2>2. k \in Nat
    BY <1>3 DEF k
  <2>3. ~Ends(g, k) /\ AllSums(g)[k] = Sums(g, k)
    BY <2>1, <2>2, TablesAre
  <2>4. acc' = [acc EXCEPT ![w][Slot(k)] = Sums(g, k)]
    BY <1>5, <2>3
  <2>5. QED
    BY <1>7, <2>3, <2>4
<1>16. QueryHolds(w)'
  BY <1>3, <1>5, <1>6, <1>8, <1>12 DEF VectorHolds, QueryHolds
<1>17. PartsHold(w)'
  <2>1. AllSums(g)[(k + 1) - 1] = Sums(g, k)
    <3>1. k \in Nat /\ (k + 1) - 1 = k
      BY <1>3 DEF k
    <3>2. AllSums(g)[k] = Sums(g, k)
      BY <3>1, TablesAre
    <3>3. QED
      BY <3>1, <3>2
  <2>2. /\ V2(w)' = k + 1 /\ V1(w)' = V1(w) /\ loops' = loops /\ lse' = lse
        /\ PartsHold(w)
    BY <1>5, <1>6, <1>12, <1>13 DEF VectorHolds
  <2>3. QED
    BY <1>8, <1>9, <2>1, <2>2 DEF PartsHold
<1>18. VectorHolds(w)'
  BY <1>14, <1>15, <1>16, <1>17 DEF VectorHolds
<1>19. QED
  BY <1>10, <1>11, <1>18

-----------------------------------------------------------------------------
(* The two products of a loop. *)

\* The counts of a group, from any of its two vector cores.
LEMMA GroupBounds ==
  ASSUME PipeInv, DataInv, NEW g \in Cubes
  PROVE  /\ C1(g) \in Nat /\ C2(g) \in Nat /\ C2(g) <= C1(g) /\ C1(g) <= loops[g]
         /\ input \in Inputs /\ loops[g] = LoopTimes(g) /\ loops[g] \in Nat
         /\ \A w \in Vectors : GroupOf(w) = g =>
              /\ V0(w) \in Nat /\ V1(w) \in Nat /\ V2(w) \in Nat
              /\ V2(w) <= C2(g) /\ C2(g) <= V1(w) /\ V1(w) <= C1(g)
              /\ V0(w) <= V2(w) + Preload
<1>1. Core(g, 0) \in Vectors /\ GroupOf(Core(g, 0)) = g
  BY CoresOf
<1>2. C1(g) \in Nat /\ C2(g) \in Nat /\ C2(g) <= C1(g) /\ C1(g) <= loops[g]
  BY <1>1, AllBounds
<1>3. ASSUME NEW w \in Vectors, GroupOf(w) = g
      PROVE  /\ V0(w) \in Nat /\ V1(w) \in Nat /\ V2(w) \in Nat
             /\ V2(w) <= C2(g) /\ C2(g) <= V1(w) /\ V1(w) <= C1(g)
             /\ V0(w) <= V2(w) + Preload
  BY <1>3, AllBounds
<1>4. QED
  BY <1>2, <1>3, DataFacts

\* The tensors at hand are of the batch of the loop.
LEMMA FetchedIs ==
  ASSUME input \in Inputs, NEW g \in Cubes, NEW k \in 0 .. LoopTimes(g) - 1, NEW at,
         ~input.continuous /\ k > 0 => at = Walks(g)[k].b
  PROVE  LET info == InfoOf(g, k)
             batch == Tensor(at, info)
         IN /\ Fetched(batch, info) = TaskOf(info)
            /\ ~input.continuous => batch = Walks(g)[k + 1].b
<1> DEFINE info == InfoOf(g, k)
           batch == Tensor(at, info)
<1>1. k \in Nat
  BY AllLoops
<1>2. info.b = WalkIn(g, k).b /\ Walks(g)[k + 1] = WalkIn(g, k)
  BY <1>1, InfoIs, TablesAre
<1>3. ASSUME ~input.continuous PROVE batch = info.b
  <2>1. CASE info.changed
    BY <2>1 DEF Tensor
  <2>2. CASE ~info.changed
    <3>1. k > 0 /\ WalkIn(g, k).b = WalkIn(g, k - 1).b
      BY <1>3, <2>2, SameBatch
    <3>2. Walks(g)[k] = WalkIn(g, k - 1)
      <4>1. Walks(g)[k] = WalkBefore(g, k)
        BY <1>1, TablesAre
      <4>2. k # 0
        BY <3>1
      <4>3. QED
        BY <4>1, <4>2 DEF WalkBefore
    <3>3. QED
      BY <1>2, <1>3, <2>2, <3>1, <3>2 DEF Tensor
  <2>3. QED
    BY <2>1, <2>2
<1> HIDE DEF info, batch
<1>4. Fetched(batch, info) = TaskOf(info)
  BY <1>3 DEF Fetched, TaskOf
<1>5. ~input.continuous => batch = Walks(g)[k + 1].b
  BY <1>2, <1>3 DEF info
<1>6. QED
  BY <1>4, <1>5 DEF info, batch

\* The queries of a loop are those of its task.
LEMMA QueriesAre ==
  ASSUME PipeInv, DataInv, NEW g \in Cubes, NEW k, k = C1(g),
         \A w \in Vectors : GroupOf(w) = g => (antiquant => k < V0(w))
  PROVE  Queries(g, InfoOf(g, k)) = {TaskOf(InfoOf(g, k))}
<1> DEFINE info == InfoOf(g, k)
<1>1. CASE ~antiquant
  BY <1>1 DEF Queries
<1>2. CASE antiquant
  <2>1. ASSUME NEW w \in Halves(g) PROVE query[w][Slot(info.bn2)] = TaskOf(info)
    <3>1. w \in Vectors /\ GroupOf(w) = g
      BY Groups2
    <3>2. /\ k \in Nat /\ V0(w) \in Nat /\ V2(w) \in Nat /\ V2(w) <= k
          /\ V0(w) <= V2(w) + Preload /\ k < V0(w)
      BY <1>2, <3>1, GroupBounds
    <3>3. V0(w) <= k + Preload
      BY <3>2, PipeAssumption
    <3>4. k \in Since(V0(w)) .. V0(w) - 1
      BY <3>2, <3>3, SinceIs
    <3>5. QED
      BY <1>2, <3>1, <3>2, <3>4, VectorFinds
  <2>2. 2 * g \in Halves(g)
    BY DEF Halves
  <2> HIDE DEF info
  <2>3. {query[w][Slot(info.bn2)] : w \in Halves(g)} = {TaskOf(info)}
    BY <2>1, <2>2
  <2>4. QED
    BY <1>2, <2>3 DEF Queries, info
<1>3. QED
  BY <1>1, <1>2

\* The first product of a loop leaves every core with what is due to it.
LEMMA CubeLoadData ==
  ASSUME PipeInv, DataInv, NEW g \in Cubes,
         CubeLoad(g, LoopAt(cube[g]), Walked(g, cubeWalk[g], LoopAt(cube[g])))
  PROVE  (\A u \in Vectors : VectorHolds(u)') /\ (\A h \in Cubes : CubeHolds(h)')
<1> DEFINE k == C1(g)
           info == InfoOf(g, k)
           batch == Tensor(keyGm[g], info)
           to == Walked(g, cubeWalk[g], LoopAt(cube[g]))
           noted == ExtraInfo(g, cubeWalk[g], to, LoopAt(cube[g]))
           result == Account(Queries(g, noted) \cup {Fetched(Tensor(keyGm[g], noted), noted)},
                             RowsIn(noted))
<1>1. Matmul1(g, noted, result)
  BY DEF CubeLoad, ComputeMm1
<1>2. /\ LoopAt(cube[g]) = k /\ k < loops[g] /\ k + 1 - C2(g) <= Preload
      /\ \A w \in Vectors : GroupOf(w) = g => /\ k + 1 - V1(w) <= Preload
                                              /\ antiquant => k < V0(w)
  BY <1>1, Matmul1Counts
<1>3. /\ k \in Nat /\ input \in Inputs /\ loops[g] = LoopTimes(g) /\ loops[g] \in Nat
      /\ C2(g) \in Nat
  BY GroupBounds
<1>4. k \in 0 .. LoopTimes(g) - 1
  BY <1>2, <1>3
<1>5. CubeHolds(g) /\ cubeWalk[g] = Walks(g)[k]
  BY DEF DataInv, CubeHolds
<1>6. to = WalkIn(g, k) /\ noted = info
  BY <1>2, <1>3, <1>4, <1>5, NotesLoop
<1>7. /\ Fetched(batch, info) = TaskOf(info)
      /\ ~input.continuous => batch = Walks(g)[k + 1].b
  <2>1. ~input.continuous /\ k > 0 => keyGm[g] = Walks(g)[k].b
    BY <1>5 DEF CubeHolds
  <2>2. QED
    BY <1>3, <1>4, <2>1, FetchedIs
<1>8. result = AccountOf(g, k)
  <2>1. Queries(g, info) = {TaskOf(info)}
    BY <1>2, QueriesAre
  <2>2. Queries(g, info) \cup {Fetched(batch, info)} = {TaskOf(info)}
    BY <1>7, <2>1
  <2>3. QED
    BY <1>6, <2>2 DEF AccountOf
<1>9. /\ cubeWalk' = [cubeWalk EXCEPT ![g] = WalkIn(g, k)]
      /\ keyGm' = [keyGm EXCEPT ![g] = batch]
      /\ UNCHANGED <<input, vecWalk, query, valueGm, soft, acc, lse, accum, out>>
  BY <1>6 DEF CubeLoad, ComputeMm1
<1>10. /\ cubeInfo' = [cubeInfo EXCEPT ![g][Slot(k)] = Entry(k, info)]
       /\ mm1' = [mm1 EXCEPT ![g][Slot(k)] = Entry(k, AccountOf(g, k))]
       /\ UNCHANGED <<antiquant, loops, vec, vecInfo, vec1, mm2>>
       /\ C1(g)' = C1(g) + 1 /\ \A h \in Cubes \ {g} : C1(h)' = C1(h)
       /\ \A h \in Cubes : C2(h)' = C2(h)
       /\ \A w \in Vectors : V0(w)' = V0(w) /\ V1(w)' = V1(w) /\ V2(w)' = V2(w)
  <2>1. Matmul1(g, info, AccountOf(g, k))
    BY <1>1, <1>6, <1>8
  <2>2. QED
    BY <2>1, Matmul1Counts
<1>11. /\ DOMAIN cubeWalk = Cubes /\ DOMAIN keyGm = Cubes
       /\ DOMAIN cubeInfo = Cubes /\ DOMAIN cubeInfo[g] = Slots
       /\ DOMAIN mm1 = Cubes /\ DOMAIN mm1[g] = Slots
  BY DEF DataInv, DataType, PipeInv, PipeType, IsRing
<1>12. /\ Infos(g)' = Infos(g) /\ Accounts(g)' = Accounts(g) /\ Products(g)' = Products(g)
       /\ AllSums(g)' = AllSums(g) /\ Walks(g)' = Walks(g) /\ Lasts(g)' = Lasts(g)
       /\ OwnTask(g)' = OwnTask(g) /\ SplitOf(g)' = SplitOf(g) /\ (FlashDecode' <=> FlashDecode)
  BY <1>9, SameTables
<1> HIDE DEF k, info, batch, to, noted, result
<1>13. C1(g)' = k + 1 /\ C2(g)' = C2(g) /\ k \in Int /\ C2(g) \in Int
  BY <1>3, <1>10 DEF k
<1>14. Entry(k, info) = Infos(g)[k] /\ Entry(k, AccountOf(g, k)) = Accounts(g)[k]
       /\ Walks(g)[k + 1] = WalkIn(g, k)
  BY <1>3, TablesAre DEF info
<1>15. ASSUME NEW u \in Vectors PROVE VectorHolds(u)'
  <2>1. VectorHolds(u) /\ GroupOf(u) \in Cubes
    BY Groups2 DEF DataInv
  <2>2. CASE GroupOf(u) # g
    <3>1. mm1'[GroupOf(u)] = mm1[GroupOf(u)]
      BY <1>10, <1>11, <2>1, <2>2
    <3>2. QED
      BY <1>9, <1>10, <2>1, <2>2, <3>1, VectorSame
  <2>3. CASE GroupOf(u) = g
    <3>1. VectorData(u)'
      <4>1. Keeps(mm1'[g], Accounts(g), V1(u), k + 1)
        <5>1. Keeps(mm1[g], Accounts(g), V1(u), k)
          BY <2>1, <2>3 DEF VectorHolds, VectorData, k
        <5>2. V1(u) \in Int /\ k + 1 - V1(u) <= Preload
          BY <1>2, <2>3, GroupBounds
        <5>3. mm1'[g] = [mm1[g] EXCEPT ![Slot(k)] = Entry(k, AccountOf(g, k))]
          BY <1>10, <1>11
        <5>4. Keeps([mm1[g] EXCEPT ![Slot(k)] = Entry(k, AccountOf(g, k))], Accounts(g), V1(u), k + 1)
          BY <1>11, <1>13, <1>14, <5>1, <5>2, KeepsWrite
        <5>5. QED
          BY <5>3, <5>4
      <4>2. VectorData(u)
        BY <2>1 DEF VectorHolds
      <4>3. QED
        BY <1>9, <1>10, <1>12, <1>13, <2>3, <4>1, <4>2 DEF VectorData
    <3>2. AccHolds(u)' /\ QueryHolds(u)' /\ PartsHold(u)'
      BY <1>9, <1>10, <1>12, <2>1, <2>3 DEF VectorHolds, AccHolds, QueryHolds, PartsHold
    <3>3. QED
      BY <3>1, <3>2 DEF VectorHolds
  <2>4. QED
    BY <2>2, <2>3
<1>16. ASSUME NEW h \in Cubes \ {g} PROVE CubeHolds(h)'
  <2>1. CubeHolds(h) /\ cubeWalk'[h] = cubeWalk[h] /\ cubeInfo'[h] = cubeInfo[h]
        /\ keyGm'[h] = keyGm[h]
    BY <1>9, <1>10, <1>11 DEF DataInv
  <2>2. QED
    BY <1>9, <1>10, <2>1, CubeSame
<1>17. CubeHolds(g)'
  <2>1. cubeWalk'[g] = Walks(g)[k + 1]
    BY <1>9, <1>11, <1>14
  <2>2. Keeps(cubeInfo'[g], Infos(g), C2(g), k + 1)
    <3>1. Keeps(cubeInfo[g], Infos(g), C2(g), k)
      BY <1>5 DEF CubeHolds, k
    <3>2. cubeInfo'[g] = [cubeInfo[g] EXCEPT ![Slot(k)] = Entry(k, info)]
      BY <1>10, <1>11
    <3>3. Keeps([cubeInfo[g] EXCEPT ![Slot(k)] = Entry(k, info)], Infos(g), C2(g), k + 1)
      BY <1>2, <1>11, <1>13, <1>14, <3>1, KeepsWrite
    <3>4. QED
      BY <3>2, <3>3
  <2>3. ~input.continuous => keyGm'[g] = Walks(g)[k + 1].b
    BY <1>7, <1>9, <1>11
  <2>4. valueGm' = valueGm /\ input' = input
    BY <1>9
  <2>5. QED
    BY <1>5, <1>12, <1>13, <2>1, <2>2, <2>3, <2>4 DEF CubeHolds
<1>18. QED
  BY <1>15, <1>16, <1>17

\* What the second product of a loop computes.
LEMMA Matmul2Computes ==
  ASSUME PipeInv, DataInv, NEW g \in Cubes, NEW k, k = C2(g), k < C1(g),
         \A w \in Vectors : GroupOf(w) = g => k < V1(w)
  PROVE  LET info == cubeInfo[g][Slot(k)].data
             batch == Tensor(valueGm[g], info)
         IN /\ info = InfoOf(g, k)
            /\ \A h \in {0, 1} : LET p == vec1[Core(g, h)][Slot(k)].data
                 IN Account(p.of \cup {Fetched(batch, info)}, p.rows \cup RowsIn(info)) =
                      AccountOf(g, k)
            /\ ~input.continuous => batch = Walks(g)[k + 1].b
<1> DEFINE info == InfoOf(g, k)
           batch == Tensor(valueGm[g], info)
<1>1. /\ k \in Nat /\ C1(g) \in Nat /\ C1(g) <= loops[g]
      /\ input \in Inputs /\ loops[g] = LoopTimes(g) /\ loops[g] \in Nat
  BY GroupBounds
<1>2. k \in 0 .. LoopTimes(g) - 1
  BY <1>1
<1>3. CubeHolds(g)
  BY DEF DataInv
<1>4. cubeInfo[g][Slot(k)].data = info
  <2>1. cubeInfo[g][Slot(k)] = Infos(g)[k]
    BY <1>1, <1>3 DEF CubeHolds, Keeps
  <2>2. QED
    BY <1>1, <2>1, TablesAre
<1>5. /\ Fetched(batch, info) = TaskOf(info)
      /\ ~input.continuous => batch = Walks(g)[k + 1].b
  <2>1. ~input.continuous /\ k > 0 => valueGm[g] = Walks(g)[k].b
    BY <1>3 DEF CubeHolds
  <2>2. QED
    BY <1>1, <1>2, <2>1, FetchedIs
<1>6. ASSUME NEW h \in {0, 1}
      PROVE  LET p == vec1[Core(g, h)][Slot(k)].data
             IN Account(p.of \cup {Fetched(batch, info)}, p.rows \cup RowsIn(info)) =
                  AccountOf(g, k)
  <2>1. Core(g, h) \in Vectors /\ GroupOf(Core(g, h)) = g
    BY CoresOf
  <2>2. vec1[Core(g, h)][Slot(k)].data = AccountOf(g, k)
    <3>1. C2(g) <= k /\ k < V1(Core(g, h))
      BY <1>1, <2>1
    <3>2. QED
      BY <1>1, <2>1, <3>1, VectorFinds
  <2>3. AccountOf(g, k).of = {TaskOf(info)} /\ AccountOf(g, k).rows = RowsIn(info)
    BY DEF AccountOf, Account
  <2> HIDE DEF info, batch
  <2>4. /\ AccountOf(g, k).of \cup {Fetched(batch, info)} = {TaskOf(info)}
        /\ AccountOf(g, k).rows \cup RowsIn(info) = RowsIn(info)
    BY <1>5, <2>3
  <2>5. QED
    BY <2>2, <2>4 DEF AccountOf, info
<1>7. QED
  BY <1>4, <1>5, <1>6

\* The second product of a loop leaves every core with what is due to it.
LEMMA Matmul2Data ==
  ASSUME PipeInv, DataInv, NEW g \in Cubes, ComputeMm2(g, LoopAt(cube[g]))
  PROVE  (\A u \in Vectors : VectorHolds(u)') /\ (\A h \in Cubes : CubeHolds(h)')
<1> DEFINE k == C2(g)
           made(n) ==
             LET info == cubeInfo[g][Slot(n)].data
                 batch == Tensor(valueGm[g], info)
                 half(h) == LET p == vec1[Core(g, h)][Slot(n)].data
                            IN Account(p.of \cup {Fetched(batch, info)}, p.rows \cup RowsIn(info))
             IN [h \in {0, 1} |-> half(h)]
           batch == Tensor(valueGm[g], cubeInfo[g][Slot(k)].data)
           product == [h \in {0, 1} |-> AccountOf(g, k)]
<1>1. Matmul2(g, made(LoopAt(cube[g])))
  BY DEF ComputeMm2
<1>2. /\ LoopAt(cube[g]) = k /\ k < C1(g)
      /\ \A w \in Vectors : GroupOf(w) = g => k + 1 - V2(w) <= Preload /\ k < V1(w)
  <2> HIDE DEF made
  <2>1. QED
    BY <1>1, Matmul2Counts
<1>3. k \in Nat /\ C1(g) \in Nat /\ input \in Inputs
  BY GroupBounds
<1>4. made(k) = product /\ (~input.continuous => batch = Walks(g)[k + 1].b)
  BY <1>2, Matmul2Computes
<1>5. Matmul2(g, product)
  BY <1>1, <1>2, <1>4
<1>6. /\ valueGm' = [valueGm EXCEPT ![g] = batch]
      /\ UNCHANGED <<input, walks, query, keyGm, soft, acc, lse, accum, out>>
  BY <1>2 DEF ComputeMm2
<1> HIDE DEF made
<1>7. /\ mm2' = [mm2 EXCEPT ![g][Slot(k)] = Entry(k, product)]
      /\ UNCHANGED <<antiquant, loops, vec, vecInfo, cubeInfo, mm1, vec1>>
      /\ C2(g)' = C2(g) + 1 /\ \A h \in Cubes \ {g} : C2(h)' = C2(h)
      /\ \A h \in Cubes : C1(h)' = C1(h)
      /\ \A w \in Vectors : V0(w)' = V0(w) /\ V1(w)' = V1(w) /\ V2(w)' = V2(w)
  BY <1>5, Matmul2Counts
<1>8. DOMAIN valueGm = Cubes /\ DOMAIN mm2 = Cubes /\ DOMAIN mm2[g] = Slots
  BY DEF DataInv, DataType, PipeInv, PipeType, IsRing
<1>9. /\ Infos(g)' = Infos(g) /\ Accounts(g)' = Accounts(g) /\ Products(g)' = Products(g)
      /\ AllSums(g)' = AllSums(g) /\ Walks(g)' = Walks(g) /\ Lasts(g)' = Lasts(g)
      /\ OwnTask(g)' = OwnTask(g) /\ SplitOf(g)' = SplitOf(g) /\ (FlashDecode' <=> FlashDecode)
  BY <1>6, SameTables
<1> HIDE DEF k, batch
<1>10. C2(g)' = k + 1 /\ C1(g)' = C1(g) /\ k \in Int /\ C1(g) \in Int /\ k + 1 \in Int /\ k <= k + 1
  BY <1>3, <1>7 DEF k
<1>11. Entry(k, product) = Products(g)[k]
  BY <1>3, TablesAre
<1> HIDE DEF product
<1>12. ASSUME NEW u \in Vectors PROVE VectorHolds(u)'
  <2>1. VectorHolds(u) /\ GroupOf(u) \in Cubes
    BY Groups2 DEF DataInv
  <2>2. CASE GroupOf(u) # g
    <3>1. mm2'[GroupOf(u)] = mm2[GroupOf(u)]
      BY <1>7, <1>8, <2>1, <2>2
    <3>2. QED
      BY <1>6, <1>7, <2>1, <2>2, <3>1, VectorSame DEF walks
  <2>3. CASE GroupOf(u) = g
    <3>1. VectorData(u)'
      <4>1. V1(u) \in Int /\ V2(u) \in Int /\ k + 1 - V2(u) <= Preload
        BY <1>2, <2>3, GroupBounds
      <4>2. Keeps(vec1[u], Accounts(g), k + 1, V1(u))
        <5>1. Keeps(vec1[u], Accounts(g), k, V1(u))
          BY <2>1, <2>3 DEF VectorHolds, VectorData, k
        <5>2. QED
          BY <1>10, <4>1, <5>1, KeepsShrink
      <4>3. Keeps(mm2'[g], Products(g), V2(u), k + 1)
        <5>1. Keeps(mm2[g], Products(g), V2(u), k)
          BY <2>1, <2>3 DEF VectorHolds, VectorData, k
        <5>2. mm2'[g] = [mm2[g] EXCEPT ![Slot(k)] = Entry(k, product)]
          BY <1>7, <1>8
        <5>3. Keeps([mm2[g] EXCEPT ![Slot(k)] = Entry(k, product)], Products(g), V2(u), k + 1)
          BY <1>8, <1>10, <1>11, <4>1, <5>1, KeepsWrite
        <5>4. QED
          BY <5>2, <5>3
      <4>4. VectorData(u)
        BY <2>1 DEF VectorHolds
      <4>5. vecWalk' = vecWalk /\ soft' = soft
        BY <1>6 DEF walks
      <4>6. QED
        BY <1>7, <1>9, <1>10, <2>3, <4>2, <4>3, <4>4, <4>5 DEF VectorData
    <3>2. AccHolds(u)' /\ QueryHolds(u)' /\ PartsHold(u)'
      BY <1>6, <1>7, <1>9, <2>1, <2>3 DEF VectorHolds, AccHolds, QueryHolds, PartsHold
    <3>3. QED
      BY <3>1, <3>2 DEF VectorHolds
  <2>4. QED
    BY <2>2, <2>3
<1>13. ASSUME NEW h \in Cubes \ {g} PROVE CubeHolds(h)'
  <2>1. CubeHolds(h) /\ valueGm'[h] = valueGm[h]
    BY <1>6, <1>8 DEF DataInv
  <2>2. QED
    BY <1>6, <1>7, <2>1, CubeSame DEF walks
<1>14. CubeHolds(g)'
  <2>1. CubeHolds(g)
    BY DEF DataInv
  <2>2. Keeps(cubeInfo[g], Infos(g), k + 1, C1(g))
    <3>1. Keeps(cubeInfo[g], Infos(g), k, C1(g))
      BY <2>1 DEF CubeHolds, k
    <3>2. QED
      BY <1>10, <3>1, KeepsShrink
  <2>3. ~input.continuous => valueGm'[g] = Walks(g)[k + 1].b
    BY <1>4, <1>6, <1>8
  <2>4. cubeWalk' = cubeWalk /\ keyGm' = keyGm /\ input' = input
    BY <1>6 DEF walks
  <2>5. QED
    BY <1>7, <1>9, <1>10, <2>1, <2>2, <2>3, <2>4 DEF CubeHolds
<1>15. QED
  BY <1>12, <1>13, <1>14

-----------------------------------------------------------------------------
(* The other steps. *)

\* A step that leaves the counts and the slots leaves every core with what is due.
LEMMA StillData ==
  ASSUME DataInv, UNCHANGED <<antiquant, loops, vecInfo, cubeInfo, mm1, vec1, mm2>>,
         UNCHANGED <<input, walks, query, keyGm, valueGm, soft, acc, lse, accum>>,
         \A u \in Vectors : V0(u)' = V0(u) /\ V1(u)' = V1(u) /\ V2(u)' = V2(u),
         \A h \in Cubes : C1(h)' = C1(h) /\ C2(h)' = C2(h)
  PROVE  (\A u \in Vectors : VectorHolds(u)') /\ (\A h \in Cubes : CubeHolds(h)')
<1>1. ASSUME NEW u \in Vectors PROVE VectorHolds(u)'
  <2>1. VectorHolds(u) /\ GroupOf(u) \in Cubes
    BY Groups2 DEF DataInv
  <2>2. QED
    BY <2>1, VectorSame DEF walks
<1>2. ASSUME NEW h \in Cubes PROVE CubeHolds(h)'
  <2>1. CubeHolds(h)
    BY DEF DataInv
  <2>2. QED
    BY <2>1, CubeSame DEF walks
<1>3. QED
  BY <1>1, <1>2

\* Entering Process leaves the counts.
LEMMA StartCounts ==
  ASSUME PipeInv, NEW w \in Vectors, Start(w)
  PROVE  /\ UNCHANGED <<antiquant, loops, cube, vecInfo, cubeInfo, mm1, vec1, mm2>>
         /\ vec[w].part = "setup" /\ vec' = [vec EXCEPT ![w] = AfterStart(loops[GroupOf(w)])]
         /\ \A u \in Vectors : V0(u)' = V0(u) /\ V1(u)' = V1(u) /\ V2(u)' = V2(u)
         /\ \A h \in Cubes : C1(h)' = C1(h) /\ C2(h)' = C2(h)
<1> DEFINE last == loops[GroupOf(w)]
<1>1. /\ last \in Nat /\ VectorPlace(vec[w], last) /\ vec[w].part = "setup"
      /\ vec' = [vec EXCEPT ![w] = AfterStart(last)]
      /\ UNCHANGED <<antiquant, loops, cube, vecInfo, cubeInfo, mm1, vec1, mm2>>
  BY Facts DEF Start
<1>2. SameCounts(vec[w], AfterStart(last), last)
  BY <1>1, CountsStart
<1>3. /\ \A u \in Vectors : V0(u)' = V0(u) /\ V1(u)' = V1(u) /\ V2(u)' = V2(u)
      /\ \A g \in Cubes : C1(g)' = C1(g) /\ C2(g)' = C2(g)
  BY <1>1, <1>2, VectorMoves DEF SameCounts, V0, V1, V2
<1>4. QED
  BY <1>1, <1>3

\* ... as does that of a cube core.
LEMMA StartCubeCounts ==
  ASSUME PipeInv, NEW g \in Cubes, StartCube(g)
  PROVE  /\ UNCHANGED <<antiquant, loops, vec, vecInfo, cubeInfo, mm1, vec1, mm2>>
         /\ cube' = [cube EXCEPT ![g] = CubeStart(loops[g])]
         /\ \A u \in Vectors : V0(u)' = V0(u) /\ V1(u)' = V1(u) /\ V2(u)' = V2(u)
         /\ \A h \in Cubes : C1(h)' = C1(h) /\ C2(h)' = C2(h)
<1> DEFINE last == loops[g]
<1>1. /\ last \in Nat /\ CubePlace(cube[g], last) /\ cube[g].part = "setup"
      /\ cube' = [cube EXCEPT ![g] = CubeStart(last)]
      /\ UNCHANGED <<antiquant, loops, vec, vecInfo, cubeInfo, mm1, vec1, mm2>>
  BY CubeFacts DEF StartCube
<1>2. /\ CubePlace(CubeStart(last), last)
      /\ Multiplied1(CubeStart(last), last) = C1(g)
      /\ Multiplied2(CubeStart(last), last) = C2(g)
  BY <1>1, CountsCubeStart DEF C1, C2
<1>3. /\ \A w \in Vectors : V0(w)' = V0(w) /\ V1(w)' = V1(w) /\ V2(w)' = V2(w)
      /\ \A h \in Cubes : C1(h)' = C1(h) /\ C2(h)' = C2(h)
  BY <1>1, <1>2, CubeMoves
<1>4. QED
  BY <1>1, <1>3

\* So do the barrier and what follows it.
LEMMA EndCounts ==
  ASSUME PipeInv, loops' = loops, cube' = cube,
         \A w \in Vectors : \/ vec'[w] = vec[w]
                            \/ /\ vec[w].part \in {"sync", "combine"}
                               /\ vec'[w] \in {At("combine", 0, 0), At("done", 0, 0)}
  PROVE  /\ \A u \in Vectors : V0(u)' = V0(u) /\ V1(u)' = V1(u) /\ V2(u)' = V2(u)
         /\ \A g \in Cubes : C1(g)' = C1(g) /\ C2(g)' = C2(g)
<1>1. ASSUME NEW w \in Vectors PROVE SameCounts(vec[w], vec'[w], loops[GroupOf(w)])
  <2>1. VectorPlace(vec[w], loops[GroupOf(w)])
    BY DEF PipeInv, PipeType
  <2>2. CASE vec'[w] = vec[w]
    BY <2>1, <2>2 DEF SameCounts
  <2>3. CASE /\ vec[w].part \in {"sync", "combine"}
             /\ vec'[w] \in {At("combine", 0, 0), At("done", 0, 0)}
    BY <2>1, <2>3, PipeAssumption
       DEF SameCounts, VectorPlace, VectorParts, Slots, At, Issued, Softened, RetiredUpTo
  <2>4. QED
    BY <2>2, <2>3
<1>2. QED
  BY <1>1 DEF SameCounts, V0, V1, V2, C1, C2

\* Every step leaves every core with what is due to it.
LEMMA HoldsStep ==
  ASSUME PipeInv, DataInv, [FlashNext]_vars
  PROVE  (\A u \in Vectors : VectorHolds(u)') /\ (\A h \in Cubes : CubeHolds(h)')
<1> DEFINE Goal == (\A u \in Vectors : VectorHolds(u)') /\ (\A h \in Cubes : CubeHolds(h)')
<1>1. ASSUME NEW w \in Vectors, SetLoopTimes(w) PROVE Goal
  <2>1. Start(w) /\ UNCHANGED <<input, walks, query, keyGm, valueGm, soft, acc, lse, accum>>
    BY <1>1 DEF SetLoopTimes
  <2>2. QED
    BY <2>1, StartCounts, StillData
<1>2. ASSUME NEW w \in Vectors,
             VectorLoad(w, LoopAt(vec[w]), Walked(GroupOf(w), vecWalk[w], LoopAt(vec[w])))
      PROVE  Goal
  BY <1>2, VectorLoadData
<1>3. ASSUME NEW w \in Vectors, ProcessVec1L(w, LoopAt(vec[w])) PROVE Goal
  BY <1>3, SoftmaxData
<1>4. ASSUME NEW w \in Vectors, ProcessVec2L(w, Retired(vec[w])) PROVE Goal
  BY <1>4, RetireData
<1>5. ASSUME NEW w \in Vectors, FlashDecodeCompute(w) PROVE Goal
  <2>1. /\ vec[w].part = "combine" /\ vec' = [vec EXCEPT ![w] = At("done", 0, 0)]
        /\ UNCHANGED <<antiquant, loops, cube, vecInfo, cubeInfo, mm1, vec1, mm2>>
        /\ UNCHANGED <<input, walks, query, keyGm, valueGm, soft, acc, lse, accum>>
    BY <1>5 DEF FlashDecodeCompute
  <2>2. DOMAIN vec = Vectors
    BY DEF PipeInv, PipeType
  <2>3. QED
    BY <2>1, <2>2, EndCounts, StillData
<1>6. ASSUME NEW g \in Cubes, SetLoopTimesCube(g) PROVE Goal
  <2>1. StartCube(g) /\ UNCHANGED <<input, walks, query, keyGm, valueGm, soft, acc, lse, accum>>
    BY <1>6 DEF SetLoopTimesCube, data
  <2>2. QED
    BY <2>1, StartCubeCounts, StillData
<1>7. ASSUME NEW g \in Cubes,
             CubeLoad(g, LoopAt(cube[g]), Walked(g, cubeWalk[g], LoopAt(cube[g])))
      PROVE  Goal
  BY <1>7, CubeLoadData
<1>8. ASSUME NEW g \in Cubes, ComputeMm2(g, LoopAt(cube[g])) PROVE Goal
  BY <1>8, Matmul2Data
<1>9. ASSUME SyncAll PROVE Goal
  <2>1. /\ \A w \in Vectors : vec[w].part = "sync"
        /\ vec' = [w \in Vectors |-> At("combine", 0, 0)]
        /\ UNCHANGED <<antiquant, loops, cube, vecInfo, cubeInfo, mm1, vec1, mm2>>
        /\ UNCHANGED <<input, walks, query, keyGm, valueGm, soft, acc, lse, accum>>
    BY <1>9 DEF SyncAll, data
  <2>2. QED
    BY <2>1, EndCounts, StillData
<1>10. ASSUME UNCHANGED vars PROVE Goal
  <2>1. /\ vec' = vec /\ UNCHANGED <<antiquant, loops, cube, vecInfo, cubeInfo, mm1, vec1, mm2>>
        /\ UNCHANGED <<input, walks, query, keyGm, valueGm, soft, acc, lse, accum>>
    BY <1>10 DEF vars, pipeVars, data
  <2>2. QED
    BY <2>1, EndCounts, StillData
<1> HIDE DEF Goal
<1>11. Goal
  BY <1>1, <1>2, <1>3, <1>4, <1>5, <1>6, <1>7, <1>8, <1>9, <1>10
     DEF FlashNext, VectorStep, CubeStep
<1>12. QED
  BY <1>11 DEF Goal

-----------------------------------------------------------------------------
(* Types, places and results. *)

\* Such a table is a table of parts.
LEMMA LeavingType ==
  ASSUME NEW x, NEW tasks, NEW parts, IsParts(x, tasks, parts),
         NEW h, NEW t, NEW s, NEW part
  PROVE  IsParts(Leaving(x, h, t, s, part), tasks, parts)
<1> DEFINE next == [x EXCEPT ![h][t][s] = part]
<1>1. DOMAIN x = {0, 1} /\ \A a \in {0, 1} : DOMAIN x[a] = tasks
  BY DEF IsParts
<1>2. \A a \in {0, 1}, b \in tasks : DOMAIN x[a][b] = parts
  BY DEF IsParts
<1>3. DOMAIN next = {0, 1}
  BY <1>1
<1>4. \A a \in {0, 1} : next[a] = IF a = h THEN [x[h] EXCEPT ![t][s] = part] ELSE x[a]
  BY <1>1
<1>5. \A a \in {0, 1} : DOMAIN next[a] = tasks
  BY <1>1, <1>4
<1>6. \A a \in {0, 1}, b \in tasks :
        next[a][b] = IF a = h /\ b = t THEN [x[h][t] EXCEPT ![s] = part] ELSE x[a][b]
  BY <1>1, <1>4
<1>7. \A a \in {0, 1}, b \in tasks : DOMAIN next[a][b] = parts
  BY <1>2, <1>6
<1>8. QED
  BY <1>3, <1>5, <1>7 DEF IsParts, Leaving

\* Every step keeps the types.
LEMMA TypesStep ==
  ASSUME PipeInv, DataInv, [FlashNext]_vars
  PROVE  DataType'
<1> DEFINE Frame ==
      /\ input' = input /\ loops' = loops
      /\ DOMAIN vecWalk' = Vectors /\ DOMAIN cubeWalk' = Cubes
      /\ DOMAIN keyGm' = Cubes /\ DOMAIN valueGm' = Cubes
      /\ IsRing(query', Vectors) /\ IsRing(soft', Vectors) /\ IsRing(acc', Vectors)
      /\ IsParts(lse', Tasks, 0 .. input.split - 1)
      /\ IsParts(accum', Tasks, 0 .. input.split - 1)
      /\ DOMAIN out' = {0, 1} /\ \A h \in {0, 1} : DOMAIN out'[h] = Tasks
<1>1. /\ DOMAIN vecWalk = Vectors /\ DOMAIN cubeWalk = Cubes
      /\ DOMAIN keyGm = Cubes /\ DOMAIN valueGm = Cubes
      /\ IsRing(query, Vectors) /\ IsRing(soft, Vectors) /\ IsRing(acc, Vectors)
      /\ IsParts(lse, Tasks, 0 .. input.split - 1)
      /\ IsParts(accum, Tasks, 0 .. input.split - 1)
      /\ DOMAIN out = {0, 1} /\ \A h \in {0, 1} : DOMAIN out[h] = Tasks
  BY DEF DataInv, DataType
<1>2. ASSUME NEW w, SetLoopTimes(w) PROVE Frame
  BY <1>1, <1>2 DEF SetLoopTimes, Start, walks
<1>3. ASSUME NEW w \in Vectors, NEW to, NEW info, QueryPreProcessL(w, to, info) PROVE Frame
  <2>1. IsRing(query', Vectors)
    BY <1>1, <1>3 DEF QueryPreProcessL, IsRing
  <2>2. QED
    BY <1>1, <1>3, <2>1 DEF QueryPreProcessL, Issue
<1>4. ASSUME NEW w \in Vectors, NEW k, ProcessVec1L(w, k) PROVE Frame
  <2>1. PICK sum, info :
          /\ soft' = [soft EXCEPT ![w][Slot(k)] = sum]
          /\ \/ lse' = lse
             \/ lse' = Leaving(lse, Half(w), TaskOf(info), SplitOf(GroupOf(w)), sum)
    BY <1>4 DEF ProcessVec1L, Leaving
  <2>2. IsRing(soft', Vectors)
    BY <1>1, <2>1 DEF IsRing
  <2>3. IsParts(lse', Tasks, 0 .. input.split - 1)
    BY <1>1, <2>1, LeavingType
  <2>4. QED
    BY <1>1, <1>4, <2>2, <2>3 DEF ProcessVec1L, Softmax, walks
<1>5. ASSUME NEW w \in Vectors, NEW k, ProcessVec2L(w, k) PROVE Frame
  <2>1. PICK res, t :
          /\ acc' = acc \/ acc' = [acc EXCEPT ![w][Slot(k)] = res]
          /\ \/ accum' = accum
             \/ accum' = Leaving(accum, Half(w), t, SplitOf(GroupOf(w)), res)
          /\ \/ out' = out
             \/ out' = [out EXCEPT ![Half(w)][t] = <<[acc |-> res, sum |-> soft[w][Slot(k)]]>>]
    BY <1>5 DEF ProcessVec2L, CopyOut, Leaving
  <2>2. IsRing(acc', Vectors)
    BY <1>1, <2>1 DEF IsRing
  <2>3. IsParts(accum', Tasks, 0 .. input.split - 1)
    BY <1>1, <2>1, LeavingType
  <2>4. DOMAIN out' = {0, 1} /\ \A h \in {0, 1} : DOMAIN out'[h] = Tasks
    BY <1>1, <2>1
  <2>5. QED
    BY <1>1, <1>5, <2>2, <2>3, <2>4 DEF ProcessVec2L, Retire, walks
<1>6. ASSUME NEW w, FlashDecodeCompute(w) PROVE Frame
  <2>1. DOMAIN out' = {0, 1} /\ \A h \in {0, 1} : DOMAIN out'[h] = Tasks
    BY <1>1, <1>6 DEF FlashDecodeCompute
  <2>2. QED
    BY <1>1, <1>6, <2>1 DEF FlashDecodeCompute, walks
<1>7. ASSUME NEW g, SetLoopTimesCube(g) PROVE Frame
  BY <1>1, <1>7 DEF SetLoopTimesCube, StartCube, walks, data
<1>8. ASSUME NEW g \in Cubes, NEW to, NEW info, ComputeMm1(g, to, info) PROVE Frame
  BY <1>1, <1>8 DEF ComputeMm1, Matmul1
<1>9. ASSUME NEW g \in Cubes, NEW k, ComputeMm2(g, k) PROVE Frame
  BY <1>1, <1>9 DEF ComputeMm2, Matmul2, walks
<1>10. ASSUME SyncAll PROVE Frame
  BY <1>1, <1>10 DEF SyncAll, walks, data
<1>11. ASSUME UNCHANGED vars PROVE Frame
  BY <1>1, <1>11 DEF vars, pipeVars, walks, data
<1> HIDE DEF Frame
<1>12. Frame
  BY <1>2, <1>3, <1>4, <1>5, <1>6, <1>7, <1>8, <1>9, <1>10, <1>11
     DEF FlashNext, VectorStep, CubeStep, VectorLoad, CubeLoad
<1>13. input' = input /\ loops' = loops /\ Tasks' = Tasks /\ Loops' = Loops
  <2>1. input' = input /\ loops' = loops
    BY <1>12 DEF Frame
  <2>2. QED
    BY <2>1, SameTables
<1>14. input \in Inputs /\ loops = Loops /\ loops \in [Cubes -> 0 .. MaxLoops]
  BY DEF DataInv, DataType
<1>15. QED
  BY <1>12, <1>13, <1>14 DEF DataType, Frame

\* Places stay on the grid of blocks, and Preload after one place is the next.
LEMMA GridNext ==
  /\ 0 % Preload = 0
  /\ \A i \in Nat : i % Preload = 0 => (i + Preload) % Preload = 0
<1>1. PICK n \in Nat \ {0} : n = Preload
  BY PipeAssumption
<1>2. 0 % n = 0
  <2>1. 0 = n * 0 + 0 /\ 0 \in 0 .. n - 1 /\ 0 \in Int
    BY <1>1
  <2>2. QED
    BY <2>1, DivisionOnly, Zenon
<1>3. ASSUME NEW i \in Nat, i % n = 0 PROVE (i + n) % n = 0
  <2>1. PICK q \in Int : q = i \div n
    BY Division
  <2>2. i = n * q + 0
    <3>1. i \in Int
      OBVIOUS
    <3>2. i = n * (i \div n) + (i % n)
      BY <3>1, Division, Zenon
    <3>3. QED
      BY <1>3, <2>1, <3>2
  <2>3. n * (q + 1) = n * q + n
    BY <2>1, SMT
  <2>4. n * q \in Int
    BY <2>1
  <2>5. i + n = n * (q + 1) + 0
    BY <2>2, <2>3, <2>4
  <2>6. q + 1 \in Int /\ 0 \in 0 .. n - 1 /\ i + n \in Int
    OBVIOUS
  <2>7. QED
    BY <2>5, <2>6, DivisionOnly, Zenon
<1>4. QED
  BY <1>1, <1>2, <1>3

\* Every step keeps the places on the grid.
LEMMA GridStep ==
  ASSUME PipeInv, DataInv, [FlashNext]_vars
  PROVE  Grid'
<1> DEFINE On(p, last) == p.i % Preload = 0 /\ p.i <= last
<1>1. /\ \A w \in Vectors : On(vec[w], loops[GroupOf(w)])
      /\ \A g \in Cubes : On(cube[g], loops[g])
      /\ vec = [w \in Vectors |-> vec[w]] /\ cube = [g \in Cubes |-> cube[g]]
  BY DEF DataInv, Grid
<1>2. /\ DOMAIN vec = Vectors /\ \A w \in Vectors : VectorPlace(vec[w], loops[GroupOf(w)])
      /\ DOMAIN cube = Cubes /\ \A g \in Cubes : CubePlace(cube[g], loops[g])
      /\ loops \in [Cubes -> Nat] /\ \A w \in Vectors : GroupOf(w) \in Cubes
  BY Groups2 DEF PipeInv, PipeType
<1>3. 0 % Preload = 0 /\ \A i \in Nat : i % Preload = 0 => (i + Preload) % Preload = 0
  BY GridNext
<1>4. ASSUME NEW last \in Nat, NEW p, VectorPlace(p, last), On(p, last)
      PROVE  /\ On(AfterStart(last), last) /\ On(NextLoad(p, last), last)
             /\ On(AfterSoftmax(p, last), last) /\ On(AfterRetire(p, last), last)
             /\ On(AfterFlush(p, last), last) /\ On(At("combine", 0, 0), last)
             /\ On(At("done", 0, 0), last)
  <2>1. p.i \in Nat /\ Preload \in Nat
    BY <1>4, PipeAssumption DEF VectorPlace
  <2>2. \A part, j : On(At(part, 0, j), last) /\ On(At(part, p.i, j), last)
    BY <1>3, <1>4 DEF At
  <2>3. p.i + Preload < last => \A part, j : On(At(part, p.i + Preload, j), last)
    <3>1. (p.i + Preload) % Preload = 0 /\ p.i + Preload \in Nat
      BY <1>3, <1>4, <2>1
    <3>2. QED
      BY <3>1 DEF At
  <2> HIDE DEF On
  <2>4. On(NextLoad(p, last), last)
    BY <2>2 DEF NextLoad
  <2>5. On(AfterSoftmax(p, last), last)
    BY <2>2, <2>3 DEF AfterSoftmax
  <2>6. QED
    BY <2>2, <2>4, <2>5 DEF AfterStart, AfterRetire, AfterFlush
<1>5. ASSUME NEW last \in Nat, NEW p, CubePlace(p, last), On(p, last)
      PROVE  /\ On(CubeStart(last), last) /\ On(AfterMm1(p, last), last)
             /\ On(AfterMm2(p, last), last)
  <2>1. p.i \in Nat /\ Preload \in Nat
    BY <1>5, PipeAssumption DEF CubePlace
  <2>2. \A part, j : On(At(part, 0, j), last) /\ On(At(part, p.i, j), last)
    BY <1>3, <1>5 DEF At
  <2>3. p.i + Preload < last => \A part, j : On(At(part, p.i + Preload, j), last)
    <3>1. (p.i + Preload) % Preload = 0 /\ p.i + Preload \in Nat
      BY <1>3, <1>5, <2>1
    <3>2. QED
      BY <3>1 DEF At
  <2> HIDE DEF On
  <2>4. QED
    BY <2>2, <2>3 DEF CubeStart, AfterMm1, AfterMm2
<1> DEFINE Goal == /\ loops' = loops
                   /\ vec' = [w \in Vectors |-> vec'[w]] /\ cube' = [g \in Cubes |-> cube'[g]]
                   /\ \A w \in Vectors : On(vec'[w], loops[GroupOf(w)])
                   /\ \A g \in Cubes : On(cube'[g], loops[g])
<1> HIDE DEF On
<1>6. ASSUME NEW w \in Vectors, NEW q, vec' = [vec EXCEPT ![w] = q],
             q \in {AfterStart(loops[GroupOf(w)]), NextLoad(vec[w], loops[GroupOf(w)]),
                    AfterSoftmax(vec[w], loops[GroupOf(w)]), AfterRetire(vec[w], loops[GroupOf(w)]),
                    AfterFlush(vec[w], loops[GroupOf(w)]), At("done", 0, 0)},
             loops' = loops, cube' = cube
      PROVE  Goal
  <2>1. On(q, loops[GroupOf(w)])
    BY <1>1, <1>2, <1>4, <1>6
  <2>2. vec' = [u \in Vectors |-> vec'[u]]
    BY <1>2, <1>6
  <2>3. QED
    BY <1>1, <1>2, <1>6, <2>1, <2>2
<1>7. ASSUME NEW g \in Cubes, NEW q, cube' = [cube EXCEPT ![g] = q],
             q \in {CubeStart(loops[g]), AfterMm1(cube[g], loops[g]), AfterMm2(cube[g], loops[g])},
             loops' = loops, vec' = vec
      PROVE  Goal
  <2>1. On(q, loops[g])
    BY <1>1, <1>2, <1>5, <1>7
  <2>2. cube' = [h \in Cubes |-> cube'[h]]
    BY <1>2, <1>7
  <2>3. QED
    BY <1>1, <1>2, <1>7, <2>1, <2>2
<1>8. ASSUME SyncAll PROVE Goal
  <2>1. /\ loops' = loops /\ cube' = cube /\ \A w \in Vectors : vec'[w] = At("combine", 0, 0)
        /\ vec' = [w \in Vectors |-> vec'[w]]
    BY <1>8 DEF SyncAll
  <2>2. \A w \in Vectors : On(At("combine", 0, 0), loops[GroupOf(w)])
    BY <1>1, <1>2, <1>4
  <2>3. QED
    BY <1>1, <2>1, <2>2
<1>9. ASSUME UNCHANGED vars PROVE Goal
  BY <1>1, <1>9 DEF vars, pipeVars
<1> HIDE DEF Goal
<1>10. ASSUME NEW w \in Vectors, VectorStep(w) PROVE Goal
  <2>1. CASE SetLoopTimes(w)
    BY <1>6, <2>1 DEF SetLoopTimes, Start
  <2>2. CASE VectorLoad(w, LoopAt(vec[w]), Walked(GroupOf(w), vecWalk[w], LoopAt(vec[w])))
    BY <1>6, <2>2 DEF VectorLoad, QueryPreProcessL, Issue
  <2>3. CASE ProcessVec1L(w, LoopAt(vec[w]))
    BY <1>6, <2>3 DEF ProcessVec1L, Softmax
  <2>4. CASE ProcessVec2L(w, Retired(vec[w]))
    BY <1>6, <2>4 DEF ProcessVec2L, Retire
  <2>5. CASE FlashDecodeCompute(w)
    BY <1>6, <2>5 DEF FlashDecodeCompute
  <2>6. QED
    BY <1>10, <2>1, <2>2, <2>3, <2>4, <2>5 DEF VectorStep
<1>11. ASSUME NEW g \in Cubes, CubeStep(g) PROVE Goal
  <2>1. CASE SetLoopTimesCube(g)
    BY <1>7, <2>1 DEF SetLoopTimesCube, StartCube
  <2>2. CASE CubeLoad(g, LoopAt(cube[g]), Walked(g, cubeWalk[g], LoopAt(cube[g])))
    BY <1>7, <2>2 DEF CubeLoad, ComputeMm1, Matmul1
  <2>3. CASE ComputeMm2(g, LoopAt(cube[g]))
    BY <1>7, <2>3 DEF ComputeMm2, Matmul2
  <2>4. QED
    BY <1>11, <2>1, <2>2, <2>3 DEF CubeStep
<1>12. Goal
  BY <1>8, <1>9, <1>10, <1>11 DEF FlashNext
<1>13. QED
  BY <1>12 DEF Goal, On, Grid

\* Every step keeps the barrier.
LEMMA BarrierStep ==
  ASSUME PipeInv, DataInv, [FlashNext]_vars
  PROVE  Barrier'
<1> DEFINE Ends2(p) == p.part \in {"combine", "done"}
<1>1. \A w \in Vectors : Ends2(vec[w]) => FlashDecode /\ \A u \in Vectors : Ends2(vec[u])
  BY DEF DataInv, Barrier
<1>2. DOMAIN vec = Vectors
  BY DEF PipeInv, PipeType
<1> DEFINE Goal == /\ input' = input
                   /\ \A w \in Vectors : Ends2(vec'[w]) =>
                        FlashDecode /\ \A u \in Vectors : Ends2(vec'[u])
<1>3. ASSUME NEW w \in Vectors, ~Ends2(vec[w]), NEW q, ~Ends2(q),
             vec' = [vec EXCEPT ![w] = q], input' = input
      PROVE  Goal
  <2>1. \A u \in Vectors : ~Ends2(vec[u])
    BY <1>1, <1>3
  <2>2. \A u \in Vectors : ~Ends2(vec'[u])
    BY <1>2, <1>3, <2>1
  <2>3. QED
    BY <1>3, <2>2
<1>4. ASSUME vec' = vec, input' = input PROVE Goal
  BY <1>1, <1>4
<1>5. ASSUME NEW w \in Vectors, FlashDecodeCompute(w) PROVE Goal
  <2>1. vec[w].part = "combine" /\ vec' = [vec EXCEPT ![w] = At("done", 0, 0)] /\ input' = input
    BY <1>5 DEF FlashDecodeCompute
  <2>2. Ends2(At("done", 0, 0))
    BY DEF At
  <2>3. \A u \in Vectors : Ends2(vec'[u])
    BY <1>1, <1>2, <2>1, <2>2
  <2>4. QED
    BY <1>1, <2>1, <2>3
<1>6. ASSUME SyncAll PROVE Goal
  BY <1>6 DEF SyncAll, At
<1> HIDE DEF Goal
<1>7. ASSUME NEW w \in Vectors, VectorStep(w) PROVE Goal
  <2>1. CASE SetLoopTimes(w)
    <3>1. ~Ends2(AfterStart(loops[GroupOf(w)]))
      BY DEF AfterStart, At
    <3>2. QED
      BY <1>3, <2>1, <3>1 DEF SetLoopTimes, Start
  <2>2. CASE VectorLoad(w, LoopAt(vec[w]), Walked(GroupOf(w), vecWalk[w], LoopAt(vec[w])))
    <3>1. ~Ends2(NextLoad(vec[w], loops[GroupOf(w)]))
      BY DEF NextLoad, At
    <3>2. QED
      BY <1>3, <2>2, <3>1 DEF VectorLoad, QueryPreProcessL, Issue
  <2>3. CASE ProcessVec1L(w, LoopAt(vec[w]))
    <3>1. ~Ends2(AfterSoftmax(vec[w], loops[GroupOf(w)]))
      BY DEF AfterSoftmax, At
    <3>2. QED
      BY <1>3, <2>3, <3>1 DEF ProcessVec1L, Softmax
  <2>4. CASE ProcessVec2L(w, Retired(vec[w]))
    <3>1. /\ ~Ends2(AfterRetire(vec[w], loops[GroupOf(w)]))
          /\ ~Ends2(AfterFlush(vec[w], loops[GroupOf(w)]))
      BY DEF AfterRetire, NextLoad, AfterFlush, At
    <3>2. QED
      BY <1>3, <2>4, <3>1 DEF ProcessVec2L, Retire
  <2>5. CASE FlashDecodeCompute(w)
    BY <1>5, <2>5
  <2>6. QED
    BY <1>7, <2>1, <2>2, <2>3, <2>4, <2>5 DEF VectorStep
<1>8. ASSUME NEW g \in Cubes, CubeStep(g) PROVE Goal
  BY <1>4, <1>8 DEF CubeStep, SetLoopTimesCube, StartCube, CubeLoad, ComputeMm1, Matmul1,
                    ComputeMm2, Matmul2
<1>9. ASSUME UNCHANGED vars PROVE Goal
  BY <1>4, <1>9 DEF vars, pipeVars
<1>10. Goal
  BY <1>6, <1>7, <1>8, <1>9 DEF FlashNext
<1>11. QED
  BY <1>10, SameTables DEF Goal, Barrier

\* Results stay accounted for as long as the cores go on.
LEMMA ResultsStay ==
  ASSUME DataInv, input' = input,
         \A u \in Vectors : V2(u) \in Nat /\ V2(u)' \in Nat /\ V2(u) <= V2(u)',
         \A u \in Vectors : vec[u].part = "done" => vec'[u].part = "done",
         \A h \in {0, 1}, t \in Tasks :
           \/ out'[h][t] = out[h][t]
           \/ input.lens[t[1]] = 0 /\ out'[h][t] = <<Nothing>>
           \/ input.lens[t[1]] # 0 /\ IF FlashDecode THEN Combined(t)' ELSE Retiring(h, t)'
  PROVE  OutHolds'
<1>1. Tasks' = Tasks /\ (FlashDecode' <=> FlashDecode)
  BY SameTables
<1> SUFFICES ASSUME NEW h \in {0, 1}, NEW t \in Tasks
             PROVE  \/ out'[h][t] = <<>>
                    \/ input.lens[t[1]] = 0 /\ out'[h][t] = <<Nothing>>
                    \/ input.lens[t[1]] # 0 /\ IF FlashDecode THEN Combined(t)' ELSE Retiring(h, t)'
  BY <1>1 DEF OutHolds, Nothing
<1>2. Combined(t) => Combined(t)'
  BY DEF Combined, TaskAt
<1>3. Retiring(h, t) => Retiring(h, t)'
  <2>1. Infos(0)' = Infos(0) /\ Lasts(0)' = Lasts(0)
    BY SameTables
  <2>2. Core(0, h) \in Vectors
    BY CoresOf, PipeAssumption DEF Cubes
  <2>3. /\ V2(Core(0, h)) \in Nat /\ V2(Core(0, h))' \in Nat
        /\ V2(Core(0, h)) <= V2(Core(0, h))'
    BY <2>2
  <2>4. SUFFICES ASSUME NEW k \in 0 .. V2(Core(0, h)) - 1,
                        TaskOf(Infos(0)[k].data) = t, k \in Lasts(0)
                 PROVE  Retiring(h, t)'
    BY DEF Retiring
  <2>5. k \in 0 .. V2(Core(0, h))' - 1
    BY <2>3
  <2>6. QED
    BY <2>1, <2>4, <2>5 DEF Retiring
<1>4. \/ out[h][t] = <<>>
      \/ input.lens[t[1]] = 0 /\ out[h][t] = <<Nothing>>
      \/ input.lens[t[1]] # 0 /\ IF FlashDecode THEN Combined(t) ELSE Retiring(h, t)
  BY DEF DataInv, OutHolds
<1>5. QED
  BY <1>2, <1>3, <1>4

\* The task of a loop is one, and not empty.
LEMMA LoopTask ==
  ASSUME input \in Inputs, NEW g \in Cubes, NEW k \in 0 .. LoopTimes(g) - 1
  PROVE  LET t == TaskOf(InfoOf(g, k))
         IN /\ t = TaskAt(TaskOfLoop(g, k)) /\ t \in Tasks /\ input.lens[t[1]] \in Nat \ {0}
            /\ t \in TasksOf(g) \ EmptyTasks(g)
<1>1. /\ TaskOfLoop(g, k) \in TaskNumbers(g)
      /\ <<WalkIn(g, k).b, WalkIn(g, k).n2>> = TaskAt(TaskOfLoop(g, k))
      /\ input.lens[WalkIn(g, k).b] \in Nat \ {0}
  BY WalkType
<1>2. TaskOf(InfoOf(g, k)) = <<WalkIn(g, k).b, WalkIn(g, k).n2>>
  BY InfoIs
<1>3. TaskAt(TaskOfLoop(g, k)) \in Tasks
  BY <1>1, NumbersBelow, TaskIn
<1>4. <<WalkIn(g, k).b, WalkIn(g, k).n2>>[1] = WalkIn(g, k).b
  OBVIOUS
<1>5. TaskAt(TaskOfLoop(g, k)) \in TasksOf(g)
  BY <1>1 DEF TasksOf
<1>6. QED
  BY <1>1, <1>2, <1>3, <1>4, <1>5 DEF EmptyTasks

\* Where tasks are not split, only the first group has any.
LEMMA FirstGroup ==
  ASSUME input \in Inputs, ~FlashDecode, NEW g \in Cubes, LoopTimes(g) > 0
  PROVE  g = 0
<1>1. SUFFICES ASSUME g # 0 PROVE FALSE
  OBVIOUS
<1>2. TaskCount(g) = 0
  BY <1>1 DEF TaskCount
<1>3. FirstTask(g) \in Nat /\ FirstTask(g) + 0 = FirstTask(g)
  BY NumbersBelow
<1>4. LoopTimes(g) = 0
  BY <1>2, <1>3, AllLoops, BeforeFirst
<1>5. QED
  BY <1>4

\* What retiring a loop writes to the results: where tasks are not split, the sums
\* of a task at its last loop.
LEMMA RetireWrites ==
  ASSUME PipeInv, DataInv, NEW w \in Vectors, ProcessVec2L(w, Retired(vec[w])), out' # out
  PROVE  LET k == V2(w)
             t == TaskOf(InfoOf(0, k))
         IN /\ ~FlashDecode /\ k \in 0 .. LoopTimes(0) - 1 /\ Ends(0, k) /\ w = Core(0, Half(w))
            /\ V2(w)' = k + 1 /\ 0 \in Cubes
            /\ out' = [out EXCEPT ![Half(w)][t] = <<[acc |-> Sums(0, k), sum |-> Sums(0, k)]>>]
<1> DEFINE g == GroupOf(w)
           k == V2(w)
           info == InfoOf(g, k)
           t == TaskOf(InfoOf(0, k))
<1>1. Retire(w)
  BY DEF ProcessVec2L
<1>2. Retired(vec[w]) = k /\ k < C2(g) /\ k < V1(w) /\ V2(w)' = k + 1
  BY <1>1, RetireCounts
<1>3. /\ g \in Cubes /\ k \in Nat /\ V0(w) \in Nat /\ V1(w) \in Nat /\ V1(w) <= V0(w)
      /\ V0(w) <= V2(w) + Preload /\ V1(w) <= loops[g]
      /\ input \in Inputs /\ loops[g] = LoopTimes(g) /\ loops[g] \in Nat /\ V0(w) <= loops[g]
  BY AllBounds, DataFacts
<1>4. k \in 0 .. LoopTimes(g) - 1 /\ LoopTimes(g) > 0
  BY <1>2, <1>3
<1>5. /\ vecInfo[w][Slot(k)].data = info /\ Accumulated(w, k, info) = Sums(g, k)
      /\ info.s2 + 1 = info.times <=> Ends(g, k)
  BY <1>2, RetireComputes
<1>6. Ends(g, k) /\ CopyOut(w, k, TaskOf(info), Sums(g, k))
  BY <1>2, <1>5 DEF ProcessVec2L
<1>7. ~FlashDecode
  BY <1>6 DEF CopyOut
<1>8. g = 0
  BY <1>3, <1>4, <1>7, FirstGroup
<1>9. w = Core(0, Half(w))
  BY <1>8, CoresOf
<1>10. soft[w][Slot(k)] = Sums(0, k)
  <2>1. V1(w) <= k + Preload
    BY <1>3, PipeAssumption
  <2>2. k \in Since(V1(w)) .. V1(w) - 1
    BY <1>2, <1>3, <2>1, SinceIs
  <2>3. QED
    BY <1>3, <1>8, <2>2, VectorFinds
<1>11. out' = [out EXCEPT ![Half(w)][t] = <<[acc |-> Sums(0, k), sum |-> Sums(0, k)]>>]
  BY <1>6, <1>7, <1>8, <1>10 DEF CopyOut
<1>12. QED
  BY <1>2, <1>3, <1>4, <1>6, <1>7, <1>8, <1>9, <1>11

\* Every step keeps the results accounted for.
LEMMA ResultsStep ==
  ASSUME PipeInv, DataInv, [FlashNext]_vars
  PROVE  OutHolds'
<1>1. DOMAIN vec = Vectors /\ \A u \in Vectors : V2(u) \in Nat
  BY Facts DEF PipeInv, PipeType
<1>2. DOMAIN out = {0, 1} /\ \A h \in {0, 1} : DOMAIN out[h] = Tasks
  BY DEF DataInv, DataType
<1> DEFINE Up == /\ \A u \in Vectors : V2(u) \in Nat /\ V2(u)' \in Nat /\ V2(u) <= V2(u)'
                 /\ \A u \in Vectors : vec[u].part = "done" => vec'[u].part = "done"
<1>3. ASSUME vec' = vec, loops' = loops, out' = out, input' = input PROVE OutHolds'
  <2>1. \A u \in Vectors : V2(u)' = V2(u)
    BY <1>3 DEF V2
  <2>2. Up
    BY <1>1, <1>3, <2>1
  <2>3. QED
    BY <1>3, <2>2, ResultsStay
<1>4. ASSUME NEW w \in Vectors, vec[w].part # "done", NEW q, vec' = [vec EXCEPT ![w] = q],
             \A u \in Vectors : V2(u)' = V2(u)
      PROVE  Up
  BY <1>1, <1>4
<1>5. ASSUME NEW w \in Vectors, SetLoopTimes(w) PROVE OutHolds'
  <2>1. Start(w) /\ input' = input
    BY <1>5 DEF SetLoopTimes
  <2>2. Up
    BY <1>4, <2>1, StartCounts
  <2>3. ASSUME NEW h \in {0, 1}, NEW t \in Tasks
        PROVE  \/ out'[h][t] = out[h][t]
               \/ input.lens[t[1]] = 0 /\ out'[h][t] = <<Nothing>>
    BY <1>5 DEF SetLoopTimes, EmptyTasks
  <2>4. QED
    BY <2>1, <2>2, <2>3, ResultsStay
<1>6. ASSUME NEW w \in Vectors, NEW to, NEW info, QueryPreProcessL(w, to, info) PROVE OutHolds'
  <2>1. Issue(w, info) /\ input' = input /\ out' = out
    BY <1>6 DEF QueryPreProcessL
  <2>2. Up
    BY <1>4, <2>1, IssueCounts
  <2>3. QED
    BY <2>1, <2>2, ResultsStay
<1>7. ASSUME NEW w \in Vectors, NEW k, ProcessVec1L(w, k) PROVE OutHolds'
  <2>1. PICK p : Softmax(w, p)
    BY <1>7 DEF ProcessVec1L
  <2>2. input' = input /\ out' = out
    BY <1>7 DEF ProcessVec1L
  <2>3. Up
    BY <1>4, <2>1, SoftmaxCounts
  <2>4. QED
    BY <2>2, <2>3, ResultsStay
<1>8. ASSUME NEW w \in Vectors, ProcessVec2L(w, Retired(vec[w])) PROVE OutHolds'
  <2>1. Retire(w) /\ input' = input
    BY <1>8 DEF ProcessVec2L
  <2>2. /\ vec[w].part \in {"retire", "flush"} /\ V2(w)' = V2(w) + 1
        /\ \A u \in Vectors \ {w} : V2(u)' = V2(u) /\ vec'[u] = vec[u]
    <3>1. /\ vec[w].part \in {"retire", "flush"} /\ V2(w)' = V2(w) + 1
          /\ \A u \in Vectors \ {w} : V2(u)' = V2(u)
      BY <2>1, RetireCounts
    <3>2. \A u \in Vectors \ {w} : vec'[u] = vec[u]
      BY <2>1 DEF Retire
    <3>3. QED
      BY <3>1, <3>2
  <2>3. Up
    BY <1>1, <2>2
  <2>4. CASE out' = out
    BY <2>1, <2>3, <2>4, ResultsStay
  <2>5. CASE out' # out
    <3> DEFINE k == V2(w)
    <3>1. /\ ~FlashDecode /\ k \in 0 .. LoopTimes(0) - 1 /\ Ends(0, k) /\ w = Core(0, Half(w))
          /\ V2(w)' = k + 1 /\ 0 \in Cubes
          /\ out' = [out EXCEPT ![Half(w)][TaskOf(InfoOf(0, k))] =
                       <<[acc |-> Sums(0, k), sum |-> Sums(0, k)]>>]
      BY <1>8, <2>5, RetireWrites
    <3>2. PICK t : t = TaskOf(InfoOf(0, k))
      OBVIOUS
    <3>3. t \in Tasks /\ input.lens[t[1]] # 0
      BY <3>1, <3>2, LoopTask DEF DataInv, DataType
    <3>4. Retiring(Half(w), t)'
      <4>1. k \in Nat
        BY <1>1
      <4>2. Infos(0)[k].data = InfoOf(0, k) /\ k \in Lasts(0)
        BY <3>1, <4>1, TablesAre
      <4>3. Infos(0)' = Infos(0) /\ Lasts(0)' = Lasts(0)
        BY <2>1, SameTables
      <4>4. k \in 0 .. V2(Core(0, Half(w)))' - 1
        BY <3>1, <4>1
      <4>5. QED
        BY <3>2, <4>2, <4>3, <4>4 DEF Retiring
    <3>5. ASSUME NEW h \in {0, 1}, NEW s \in Tasks, h # Half(w) \/ s # t
          PROVE  out'[h][s] = out[h][s]
      BY <1>2, <3>1, <3>2, <3>5
    <3>6. QED
      BY <2>1, <2>3, <3>1, <3>3, <3>4, <3>5, ResultsStay
  <2>6. QED
    BY <2>4, <2>5
<1>9. ASSUME NEW w \in Vectors, FlashDecodeCompute(w) PROVE OutHolds'
  <2> PICK t : t = TaskAt(w)
    OBVIOUS
  <2>1. /\ vec[w].part = "combine" /\ vec' = [vec EXCEPT ![w] = At("done", 0, 0)]
        /\ loops' = loops /\ cube' = cube /\ input' = input
    BY <1>9 DEF FlashDecodeCompute
  <2>2. \A u \in Vectors : V2(u)' = V2(u)
    BY <1>1, <2>1, EndCounts
  <2>3. Up
    BY <1>4, <2>1, <2>2
  <2>4. FlashDecode
    BY <2>1 DEF DataInv, Barrier
  <2>5. \/ out' = out
        \/ /\ input.lens[t[1]] # 0
           /\ \A h \in {0, 1}, s \in Tasks : s # t => out'[h][s] = out[h][s]
    BY <1>2, <1>9 DEF FlashDecodeCompute
  <2>6. Combined(t)'
    <3>1. TaskAt(w)' = t
      BY <2>1, SameTasks
    <3>2. vec'[w].part = "done"
      BY <1>1, <2>1 DEF At
    <3>3. QED
      BY <3>1, <3>2 DEF Combined
  <2>7. \A h \in {0, 1}, s \in Tasks :
          \/ out'[h][s] = out[h][s]
          \/ input.lens[s[1]] # 0 /\ Combined(s)'
    BY <2>5, <2>6
  <2>8. QED
    BY <2>1, <2>3, <2>4, <2>7, ResultsStay
<1>10. ASSUME SyncAll PROVE OutHolds'
  <2>1. /\ \A w \in Vectors : vec[w].part = "sync" /\ vec'[w] = At("combine", 0, 0)
        /\ loops' = loops /\ cube' = cube /\ input' = input /\ out' = out
    BY <1>10 DEF SyncAll, data
  <2>2. \A u \in Vectors : V2(u)' = V2(u)
    BY <2>1, EndCounts
  <2>3. Up
    BY <1>1, <2>1, <2>2
  <2>4. QED
    BY <2>1, <2>3, ResultsStay
<1>11. ASSUME NEW g \in Cubes, CubeStep(g) PROVE OutHolds'
  BY <1>3, <1>11 DEF CubeStep, SetLoopTimesCube, StartCube, CubeLoad, ComputeMm1, Matmul1,
                     ComputeMm2, Matmul2, data
<1>12. ASSUME UNCHANGED vars PROVE OutHolds'
  BY <1>3, <1>12 DEF vars, pipeVars, data
<1> HIDE DEF Up
<1>13. QED
  BY <1>5, <1>6, <1>7, <1>8, <1>9, <1>10, <1>11, <1>12
     DEF FlashNext, VectorStep, VectorLoad

-----------------------------------------------------------------------------
(* The invariant. *)

\* It holds when the cores start,
LEMMA DataInit == FlashInit => DataInv
<1> SUFFICES ASSUME FlashInit PROVE DataInv
  OBVIOUS
<1>1. PipeInv
  BY PipeInit
<1>2. /\ \A w \in Vectors : vec[w] = At("setup", 0, 0)
      /\ \A g \in Cubes : cube[g] = At("setup", 0, 0)
      /\ vec = [w \in Vectors |-> vec[w]] /\ cube = [g \in Cubes |-> cube[g]]
      /\ input \in Inputs /\ loops \in [Cubes -> 0 .. MaxLoops]
      /\ \A g \in Cubes : loops[g] = LoopTimes(g)
      /\ \A w \in Vectors : vecWalk[w] = NoWalk
      /\ \A g \in Cubes : cubeWalk[g] = NoWalk
  BY DEF FlashInit
<1>3. /\ \A w \in Vectors : V0(w) = 0 /\ V1(w) = 0 /\ V2(w) = 0
      /\ \A g \in Cubes : C1(g) = 0 /\ C2(g) = 0
  BY <1>2 DEF V0, V1, V2, C1, C2, At, Issued, Softened, RetiredUpTo, Multiplied1, Multiplied2
<1>4. DataType
  <2>1. loops = Loops
    BY <1>2 DEF Loops
  <2>2. IsParts(lse, Tasks, 0 .. input.split - 1) /\ IsParts(accum, Tasks, 0 .. input.split - 1)
    BY DEF FlashInit, IsParts
  <2>3. IsRing(query, Vectors) /\ IsRing(soft, Vectors) /\ IsRing(acc, Vectors)
    BY DEF FlashInit, IsRing, Ring
  <2>4. /\ DOMAIN vecWalk = Vectors /\ DOMAIN cubeWalk = Cubes
        /\ DOMAIN keyGm = Cubes /\ DOMAIN valueGm = Cubes
        /\ DOMAIN out = {0, 1} /\ \A h \in {0, 1} : DOMAIN out[h] = Tasks
    BY DEF FlashInit
  <2>5. QED
    BY <1>2, <2>1, <2>2, <2>3, <2>4 DEF DataType
<1>5. \A g : Walks(g)[0] = NoWalk
  <2>1. \A g : Walks(g)[0] = WalkBefore(g, 0)
    BY TablesAre
  <2>2. QED
    BY <2>1 DEF WalkBefore
<1>6. \A ring, due : Keeps(ring, due, 0, 0) /\ Queried(ring, due, 0, 0)
  BY DEF Keeps, Queried
<1>7. Since(0) = 0
  BY PipeAssumption DEF Since
<1>8. ASSUME NEW w \in Vectors PROVE VectorHolds(w)
  <2>1. GroupOf(w) \in Cubes
    BY Groups2
  <2>2. VectorData(w)
    BY <1>2, <1>3, <1>5, <1>6, <1>7, <2>1 DEF VectorData
  <2>3. AccHolds(w)
    BY <1>3 DEF AccHolds
  <2>4. QueryHolds(w)
    BY <1>3, <1>6, <1>7 DEF QueryHolds
  <2>5. PartsHold(w)
    BY <1>3 DEF PartsHold
  <2>6. QED
    BY <2>2, <2>3, <2>4, <2>5 DEF VectorHolds
<1>9. ASSUME NEW g \in Cubes PROVE CubeHolds(g)
  BY <1>2, <1>3, <1>5, <1>6 DEF CubeHolds
<1>10. OutHolds
  BY DEF FlashInit, OutHolds
<1>11. Barrier
  BY <1>2 DEF Barrier, At
<1>12. Grid
  <2>1. 0 % Preload = 0
    BY GridNext
  <2>2. /\ \A w \in Vectors : vec[w].i = 0 /\ loops[GroupOf(w)] >= 0
        /\ \A g \in Cubes : cube[g].i = 0 /\ loops[g] >= 0
    BY <1>2, Groups2 DEF At
  <2>3. QED
    BY <1>2, <2>1, <2>2 DEF Grid
<1>13. QED
  BY <1>4, <1>8, <1>9, <1>10, <1>11, <1>12 DEF DataInv

\* ... and every step keeps it.
LEMMA DataStep == PipeInv /\ DataInv /\ [FlashNext]_vars => DataInv'
BY HoldsStep, TypesStep, GridStep, BarrierStep, ResultsStep DEF DataInv

\* What every core finds in its slots, of whatever loop it is at, is the account
\* of that loop: the function of the input that Infos, Accounts and Sums are.
THEOREM DataInvariant == FlashSpec => [](PipeInv /\ DataInv)
<1>1. FlashInit => PipeInv /\ DataInv
  BY PipeInit, DataInit
<1>2. PipeInv /\ DataInv /\ [FlashNext]_vars => (PipeInv /\ DataInv)'
  BY PipeStep, DataStep
<1>3. QED
  BY <1>1, <1>2, PTL DEF FlashSpec

\* A walk that has begun is at a task of its group that is not empty.
LEMMA WalksIn ==
  ASSUME input \in Inputs, NEW g \in Cubes, NEW n \in 0 .. LoopTimes(g),
         Walks(g)[n].count > 0
  PROVE  <<Walks(g)[n].b, Walks(g)[n].n2>> \in TasksOf(g) \ EmptyTasks(g)
<1>1. n \in Nat /\ LoopTimes(g) \in Nat
  BY AllLoops
<1>2. Walks(g)[n] = WalkBefore(g, n)
  BY <1>1, TablesAre
<1>3. n # 0
  BY <1>2 DEF WalkBefore, NoWalk
<1>4. PICK k \in Nat : n = k + 1 /\ n - 1 = k /\ k \in 0 .. LoopTimes(g) - 1
  <2>1. n - 1 \in Nat /\ n = (n - 1) + 1
    BY <1>1, <1>3
  <2>2. QED
    BY <1>1, <2>1
<1>5. Walks(g)[n] = WalkIn(g, k)
  BY <1>2, <1>3, <1>4 DEF WalkBefore
<1>6. TaskOf(InfoOf(g, k)) \in TasksOf(g) \ EmptyTasks(g)
  BY <1>4, LoopTask
<1>7. QED
  BY <1>5, <1>6, InfoIs

\* Every core is at a loop it has, in a block that starts at a multiple of Preload,
\* and every walk at a task of its group that is not empty.
THEOREM TypeCorrect == FlashSpec => []TypeOK
<1>1. ASSUME PipeInv, DataInv PROVE TypeOK
  <2>1. /\ loops = Loops /\ loops \in [Cubes -> 0 .. MaxLoops] /\ input \in Inputs
        /\ MaxLoops \in Nat /\ \A w \in Vectors : GroupOf(w) \in Cubes
    BY <1>1, InputAssumption, Groups2 DEF DataInv, DataType
  <2>2. /\ vec = [w \in Vectors |-> vec[w]] /\ cube = [g \in Cubes |-> cube[g]]
        /\ \A w \in Vectors : vec[w].i % Preload = 0 /\ vec[w].i <= loops[GroupOf(w)]
        /\ \A g \in Cubes : cube[g].i <= loops[g]
    BY <1>1 DEF DataInv, Grid
  <2>3. ASSUME NEW w \in Vectors
        PROVE  /\ vec[w] \in VectorPlaces
               /\ vec[w].part \in {"issue", "softmax", "flush"} => LoopAt(vec[w]) < loops[GroupOf(w)]
    <3>1. VectorPlace(vec[w], loops[GroupOf(w)])
      BY <1>1 DEF PipeInv, PipeType
    <3>2. vec[w].i \in 0 .. MaxLoops
      BY <2>1, <2>2, <3>1 DEF VectorPlace
    <3>3. vec[w] \in VectorPlaces
      BY <3>1, <3>2 DEF VectorPlace, VectorPlaces, VectorParts
    <3>4. QED
      BY <3>1, <3>3 DEF VectorPlace, LoopAt
  <2>4. ASSUME NEW g \in Cubes PROVE cube[g] \in CubePlaces
    <3>1. CubePlace(cube[g], loops[g])
      BY <1>1 DEF PipeInv, PipeType
    <3>2. cube[g].i \in 0 .. MaxLoops
      BY <2>1, <2>2, <3>1 DEF CubePlace
    <3>3. QED
      BY <3>1, <3>2 DEF CubePlace, CubePlaces, CubeParts
  <2>5. vec \in [Vectors -> VectorPlaces] /\ cube \in [Cubes -> CubePlaces]
    BY <2>2, <2>3, <2>4
  <2>6. ASSUME NEW w \in Vectors, vecWalk[w].count > 0
        PROVE  <<vecWalk[w].b, vecWalk[w].n2>> \in TasksOf(GroupOf(w)) \ EmptyTasks(GroupOf(w))
    <3>1. vecWalk[w] = Walks(GroupOf(w))[V0(w)]
      BY <1>1 DEF DataInv, VectorHolds, VectorData
    <3>2. V0(w) \in 0 .. LoopTimes(GroupOf(w))
      BY <1>1, <2>1, AllBounds, DataFacts
    <3>3. QED
      BY <2>1, <2>6, <3>1, <3>2, WalksIn
  <2>7. ASSUME NEW g \in Cubes, cubeWalk[g].count > 0
        PROVE  <<cubeWalk[g].b, cubeWalk[g].n2>> \in TasksOf(g) \ EmptyTasks(g)
    <3>1. cubeWalk[g] = Walks(g)[C1(g)]
      BY <1>1 DEF DataInv, CubeHolds
    <3>2. C1(g) \in 0 .. LoopTimes(g)
      BY <1>1, GroupBounds
    <3>3. QED
      BY <2>1, <2>7, <3>1, <3>2, WalksIn
  <2>8. QED
    BY <2>2, <2>3, <2>5, <2>6, <2>7 DEF TypeOK
<1>2. QED
  BY <1>1, DataInvariant, PTL

-----------------------------------------------------------------------------
(* The results.  The loops of a task take its rows one block after another,   *)
(* so that what is computed up to its last loop has each of them once.        *)

\* A multiple of n leaves room for n more below the next multiples.
LEMMA MultipleBelow ==
  ASSUME NEW n \in Nat, NEW x \in Int, NEW y \in Int, x < y
  PROVE  x * n + n <= y * n
<1>1. PICK d \in Nat : y = x + 1 + d
  <2>1. y - x - 1 \in Nat /\ y = x + 1 + (y - x - 1)
    OBVIOUS
  <2>2. QED
    BY <2>1
<1>2. (x + 1 + d) * n = x * n + n + d * n
  OBVIOUS
<1>3. x * n \in Int /\ d * n \in Nat
  OBVIOUS
<1>4. QED
  BY <1>1, <1>2, <1>3

\* Block x of n blocks of a size, of which the last has its own.
Block(from, n, size, tail, x) ==
  from + (x - 1) * size .. from + (x - 1) * size + (IF x = n THEN tail ELSE size) - 1

\* The blocks have every row from the first on, and no row twice.
LEMMA BlocksAre ==
  ASSUME NEW from \in Nat, NEW n \in Nat \ {0}, NEW size \in Nat \ {0}, NEW tail \in 1 .. size
  PROVE  /\ UNION {Block(from, n, size, tail, x) : x \in 1 .. n}
              = from .. from + ((n - 1) * size + tail) - 1
         /\ \A x, y \in 1 .. n : x # y =>
              Block(from, n, size, tail, x) \cap Block(from, n, size, tail, y) = {}
<1> DEFINE B(x) == Block(from, n, size, tail, x)
           at(x) == (x - 1) * size
<1>1. \A x \in 1 .. n : at(x) \in Nat
  <2> TAKE x \in 1 .. n
  <2>1. PICK d \in Nat : d = x - 1
    OBVIOUS
  <2>2. d * size \in Nat
    OBVIOUS
  <2>3. QED
    BY <2>1, <2>2
<1>2. \A x, y \in 1 .. n : x < y => at(x) + size <= at(y)
  <2> SUFFICES ASSUME NEW x \in 1 .. n, NEW y \in 1 .. n, x < y PROVE at(x) + size <= at(y)
    OBVIOUS
  <2>1. x - 1 \in Int /\ y - 1 \in Int /\ x - 1 < y - 1 /\ size \in Nat
    OBVIOUS
  <2>2. QED
    BY <2>1, MultipleBelow, Zenon
<1>3. \A x \in 1 .. n : B(x) = from + at(x) .. from + at(x) + (IF x = n THEN tail ELSE size) - 1
  BY DEF Block
<1>4. \A x \in 1 .. n : x < n => at(x) + size <= at(n)
  BY <1>2
<1>5. ASSUME NEW r \in from .. from + (at(n) + tail) - 1
      PROVE  \E x \in 1 .. n : r \in from + at(x) .. from + at(x) + (IF x = n THEN tail ELSE size) - 1
  <2>1. PICK a \in Nat : a = r - from /\ r = from + a /\ r \in Int
    <3>1. at(n) \in Nat
      BY <1>1
    <3> HIDE DEF at
    <3>2. r - from \in Nat /\ r = from + (r - from)
      BY <3>1
    <3>3. QED
      BY <3>1, <3>2
  <2>2. PICK q \in Int : q = a \div size
    BY Division
  <2>3. PICK m \in 0 .. size - 1 : m = a % size
    BY Division
  <2>4. a = size * q + m
    BY <2>2, <2>3, Division
  <2>5. a < size * n
    <3>1. size * n = (n - 1) * size + size /\ (n - 1) * size \in Int
      OBVIOUS
    <3>2. PICK z \in Int : z = (n - 1) * size
      OBVIOUS
    <3>3. a < z + size
      BY <2>1, <3>2
    <3>4. QED
      BY <3>1, <3>2, <3>3
  <2>6. q \in 0 .. n - 1
    BY <2>2, <2>5, DivisionBelow
  <2>7. q + 1 \in 1 .. n /\ at(q + 1) = size * q
    BY <2>6
  <2>8. PICK z \in Int : z = size * q
    BY <2>6
  <2>9. PICK x \in 1 .. n : at(x) = z
    BY <2>7, <2>8
  <2>10. r = from + z + m
    BY <2>1, <2>4, <2>8
  <2>11. r < from + at(n) + tail /\ at(n) \in Nat
    <3>1. at(n) \in Nat
      BY <1>1
    <3> HIDE DEF at
    <3>2. QED
      BY <3>1
  <2> HIDE DEF at
  <2>12. r \in from + at(x) .. from + at(x) + (IF x = n THEN tail ELSE size) - 1
    BY <2>9, <2>10, <2>11
  <2>13. QED
    BY <2>12
<1> HIDE DEF at
<1>6. ASSUME NEW x \in 1 .. n, NEW r \in B(x)
      PROVE  r \in from .. from + (at(n) + tail) - 1
  <2>1. at(x) \in Nat /\ at(n) \in Nat /\ (x < n => at(x) + size <= at(n))
    BY <1>1, <1>4
  <2>2. r \in from + at(x) .. from + at(x) + (IF x = n THEN tail ELSE size) - 1
    BY <1>3, <1>6
  <2>3. QED
    BY <2>1, <2>2
<1>7. ASSUME NEW x \in 1 .. n, NEW y \in 1 .. n, x < y PROVE B(x) \cap B(y) = {}
  <2>1. at(x) \in Nat /\ at(y) \in Nat /\ at(x) + size <= at(y)
    BY <1>1, <1>2, <1>7
  <2>2. /\ B(x) = from + at(x) .. from + at(x) + size - 1
        /\ B(y) = from + at(y) .. from + at(y) + (IF y = n THEN tail ELSE size) - 1
    BY <1>3, <1>7
  <2>3. QED
    BY <2>1, <2>2
<1> HIDE DEF B
<1>8. UNION {B(x) : x \in 1 .. n} = from .. from + (at(n) + tail) - 1
  BY <1>3, <1>5, <1>6
<1>9. \A x, y \in 1 .. n : x # y => B(x) \cap B(y) = {}
  <2> SUFFICES ASSUME NEW x \in 1 .. n, NEW y \in 1 .. n, x # y PROVE B(x) \cap B(y) = {}
    OBVIOUS
  <2>1. x < y \/ y < x
    OBVIOUS
  <2>2. QED
    BY <1>7, <2>1
<1>10. QED
  BY <1>8, <1>9 DEF at, B

\* The rows of the part a group has of a task.
PartRows(g, b) == SplitOf(g) * SplitSize .. SplitOf(g) * SplitSize + RowsOf(g, b) - 1

\* What has been computed of a task by its last loop is of this task alone, and of
\* each of the rows of the part once.
LEMMA PartWhole ==
  ASSUME input \in Inputs, NEW g \in Cubes, NEW k \in 0 .. LoopTimes(g) - 1, Ends(g, k)
  PROVE  LET t == TaskOf(InfoOf(g, k))
         IN MadeOf(t, PartRows(g, t[1]), Sums(g, k))
<1> DEFINE n == TaskOfLoop(g, k)
           t == TaskAt(n)
           b == t[1]
           from == SplitOf(g) * SplitSize
           times == Times(g, n)
           tail == TailRows(g, b)
<1>1. /\ n \in TaskNumbers(g) /\ Before(g, n) \in Nat
      /\ Before(g, n) <= k /\ k < Before(g, n + 1) /\ k \in Nat
      /\ Before(g, n + 1) = Before(g, n) + times
      /\ n \in Nat /\ n < input.heads * input.batch /\ times \in Nat \ {0}
  BY TaskOfLoopIs, AllLoops
<1>2. /\ WalkIn(g, k).s2 = k - Before(g, n) /\ WalkIn(g, k).times = times
  BY WalkType
<1>3. k - Before(g, n) + 1 = times
  BY <1>2 DEF Ends
<1>4. TaskOf(InfoOf(g, k)) = t
  BY LoopTask
<1>5. /\ tail \in 1 .. SInner /\ RowsOf(g, b) = (times - 1) * SInner + tail
  BY <1>1, TimesType
<1>6. SInner \in Nat \ {0} /\ SplitSize \in Nat \ {0} /\ LoopTimes(g) \in Nat
  BY InputIs, AllLoops
<1>7. from \in Nat
  <2>1. SplitOf(g) \in Nat
    <3>1. CASE FlashDecode
      <4>1. SplitOf(g) \in 0 .. input.split - 1 /\ input.split \in Nat
        BY <3>1, OwnTaskIs, InputIs
      <4>2. QED
        BY <4>1
    <3>2. CASE ~FlashDecode
      BY <3>2 DEF SplitOf
    <3>3. QED
      BY <3>1, <3>2
  <2>2. QED
    BY <1>6, <2>1
<1> DEFINE B(x) == Block(from, times, SInner, tail, x)
<1>8. ASSUME NEW x \in 1 .. times
      PROVE  AccountOf(g, Before(g, n) + x - 1) = Account({t}, B(x))
  <2> DEFINE j == Before(g, n) + x - 1
  <2>1. j \in 0 .. LoopTimes(g) - 1 /\ Before(g, n) <= j /\ j < Before(g, n + 1)
    BY <1>1, <1>3, <1>6
  <2>2. TaskOfLoop(g, j) = n
    BY <1>1, <2>1, OnlyTask
  <2>3. /\ WalkIn(g, j).s2 = j - Before(g, n) /\ WalkIn(g, j).times = times
        /\ WalkIn(g, j).tail = tail /\ WalkIn(g, j).b = b
    BY <2>1, <2>2, WalkInIs
  <2>4. j - Before(g, n) = x - 1
    BY <1>1
  <2>5. TaskOf(InfoOf(g, j)) = t
    BY <2>1, <2>2, LoopTask
  <2>6. /\ InfoOf(g, j).from = from + (x - 1) * SInner
        /\ InfoOf(g, j).size = IF x - 1 = times - 1 THEN tail ELSE SInner
    BY <2>3, <2>4, InfoIs
  <2>7. x - 1 = times - 1 <=> x = times
    BY <1>1
  <2>8. RowsIn(InfoOf(g, j)) = B(x)
    <3>1. InfoOf(g, j).size = IF x = times THEN tail ELSE SInner
      BY <2>6, <2>7
    <3>2. QED
      BY <2>6, <3>1 DEF RowsIn, Block
  <2>9. QED
    BY <2>5, <2>8 DEF AccountOf
<1>9. Sums(g, k) = [x \in 1 .. times |-> Account({t}, B(x))]
  <2>1. Sums(g, k) = [x \in 1 .. k - Before(g, n) + 1 |-> AccountOf(g, k - (k - Before(g, n)) + x - 1)]
    BY <1>2, SumsIs
  <2>2. k - (k - Before(g, n)) = Before(g, n)
    BY <1>1
  <2>3. Sums(g, k) = [x \in 1 .. times |-> AccountOf(g, Before(g, n) + x - 1)]
    BY <1>3, <2>1, <2>2
  <2>4. QED
    BY <1>8, <2>3
<1>10. /\ UNION {B(x) : x \in 1 .. times} = from .. from + ((times - 1) * SInner + tail) - 1
       /\ \A x, y \in 1 .. times : x # y => B(x) \cap B(y) = {}
  BY <1>1, <1>5, <1>6, <1>7, BlocksAre
<1> HIDE DEF n, B, times, tail
<1>11. UNION {B(x) : x \in 1 .. times} = PartRows(g, b)
  BY <1>5, <1>10 DEF PartRows
<1>12. MadeOf(t, PartRows(g, b), [x \in 1 .. times |-> Account({t}, B(x))])
  <2> DEFINE parts == [x \in 1 .. times |-> Account({t}, B(x))]
  <2>1. DOMAIN parts = 1 .. times
    OBVIOUS
  <2>2. \A x \in 1 .. times : parts[x].of = {t} /\ parts[x].rows = B(x)
    BY DEF Account
  <2> HIDE DEF parts
  <2>3. {parts[x].rows : x \in 1 .. times} = {B(x) : x \in 1 .. times}
    BY <2>2
  <2>4. MadeOf(t, PartRows(g, b), parts)
    BY <1>10, <1>11, <2>1, <2>2, <2>3 DEF MadeOf
  <2>5. QED
    BY <2>4 DEF parts
<1>13. QED
  BY <1>4, <1>9, <1>12

\* The rows of part s of a batch, and their parts together.
RowsOfPart(b, s) == Block(0, Parts(b), SplitSize, input.lens[b] - (Parts(b) - 1) * SplitSize, s + 1)

\* The parts of a batch have all its rows and none twice, and the groups with a part
\* that is not empty take its rows.
LEMMA PartsOfTask ==
  ASSUME input \in Inputs, FlashDecode, NEW b \in 0 .. input.batch - 1, input.lens[b] > 0
  PROVE  /\ Parts(b) \in 1 .. input.split
         /\ UNION {RowsOfPart(b, s) : s \in 0 .. Parts(b) - 1} = 0 .. input.lens[b] - 1
         /\ \A s, r \in 0 .. Parts(b) - 1 :
              s # r => RowsOfPart(b, s) \cap RowsOfPart(b, r) = {}
         /\ \A g \in Cubes : SplitOf(g) < Parts(b) =>
              RowsOf(g, b) > 0 /\ PartRows(g, b) = RowsOfPart(b, SplitOf(g))
<1>1. /\ input.lens[b] \in Nat /\ SplitSize \in Nat \ {0} /\ input.split \in Nat \ {0}
      /\ input.lens[b] <= input.split * SplitSize
  BY InputIs
<1>2. PICK p : p = Parts(b)
  OBVIOUS
<1>3. PICK len \in Nat : len = input.lens[b] /\ len > 0
  BY <1>1
<1>4. p \in Nat \ {0} /\ len - (p - 1) * SplitSize \in 1 .. SplitSize
  <2>1. p = CeilDiv(len, SplitSize)
    BY <1>2, <1>3 DEF Parts
  <2>2. /\ CeilDiv(len, SplitSize) \in Nat /\ (CeilDiv(len, SplitSize) = 0 <=> len = 0)
        /\ len > 0 => len - (CeilDiv(len, SplitSize) - 1) * SplitSize \in 1 .. SplitSize
    BY <1>1, LoopsOfRows, Zenon
  <2>3. p \in Nat /\ p # 0
    BY <1>3, <2>1, <2>2
  <2>4. QED
    BY <1>3, <2>1, <2>2, <2>3, Zenon
<1>5. PICK full \in Int : full = (p - 1) * SplitSize
  BY <1>1, <1>4
<1>6. PICK tail \in 1 .. SplitSize : tail = len - full /\ len = full + tail
  BY <1>1, <1>3, <1>4, <1>5
<1>7. p <= input.split
  <2>1. SUFFICES ASSUME input.split <= p - 1 PROVE FALSE
    BY <1>1, <1>4
  <2>2. input.split * SplitSize <= full
    <3>1. CASE input.split = p - 1
      BY <1>1, <1>5, <3>1
    <3>2. CASE input.split < p - 1
      <4>1. input.split * SplitSize + SplitSize <= (p - 1) * SplitSize
        <5>1. SplitSize \in Nat /\ input.split \in Int /\ p - 1 \in Int
          BY <1>1, <1>4
        <5>2. QED
          BY <3>2, <5>1, MultipleBelow, Zenon
      <4>2. input.split * SplitSize \in Int
        BY <1>1
      <4>3. QED
        BY <1>1, <1>5, <4>1, <4>2
    <3>3. QED
      BY <1>1, <1>4, <2>1, <3>1, <3>2
  <2>3. QED
    BY <1>1, <1>3, <1>5, <1>6, <2>2
<1> DEFINE R(x) == Block(0, p, SplitSize, tail, x)
<1>8. \A s : RowsOfPart(b, s) = R(s + 1)
  BY <1>2, <1>3, <1>5, <1>6 DEF RowsOfPart
<1>9. /\ UNION {R(x) : x \in 1 .. p} = 0 .. 0 + ((p - 1) * SplitSize + tail) - 1
      /\ \A x, y \in 1 .. p : x # y => R(x) \cap R(y) = {}
  <2>1. 0 \in Nat
    OBVIOUS
  <2>2. QED
    BY <1>1, <1>4, <2>1, BlocksAre
<1>10. 0 + ((p - 1) * SplitSize + tail) - 1 = input.lens[b] - 1
  BY <1>3, <1>5, <1>6
<1> HIDE DEF R
<1>11. {RowsOfPart(b, s) : s \in 0 .. p - 1} = {R(x) : x \in 1 .. p}
  <2>1. ASSUME NEW x \in 1 .. p PROVE \E s \in 0 .. p - 1 : R(x) = R(s + 1)
    <3>1. x - 1 \in 0 .. p - 1 /\ (x - 1) + 1 = x
      BY <1>4
    <3>2. QED
      BY <3>1
  <2>2. \A s \in 0 .. p - 1 : s + 1 \in 1 .. p
    BY <1>4
  <2>3. QED
    BY <1>8, <2>1, <2>2
<1>12. \A s, r \in 0 .. p - 1 : s # r => RowsOfPart(b, s) \cap RowsOfPart(b, r) = {}
  <2> SUFFICES ASSUME NEW s \in 0 .. p - 1, NEW r \in 0 .. p - 1, s # r
               PROVE  RowsOfPart(b, s) \cap RowsOfPart(b, r) = {}
    OBVIOUS
  <2>1. s + 1 \in 1 .. p /\ r + 1 \in 1 .. p /\ s + 1 # r + 1
    BY <1>4
  <2>2. QED
    BY <1>8, <1>9, <2>1
<1>13. ASSUME NEW g \in Cubes, SplitOf(g) < p
       PROVE  RowsOf(g, b) > 0 /\ PartRows(g, b) = RowsOfPart(b, SplitOf(g))
  <2>1. PICK s \in Nat : s = SplitOf(g) /\ s < p
    BY <1>1, <1>13, OwnTaskIs
  <2>2. PICK at \in Nat : at = s * SplitSize /\ at = SplitSize * s
    BY <1>1
  <2>3. s = p - 1 => at = full
    BY <1>5, <2>2
  <2>4. s < p - 1 => at + SplitSize <= full
    <3>1. SplitSize \in Nat /\ s \in Int /\ p - 1 \in Int
      BY <1>1, <1>4
    <3>2. s < p - 1 => s * SplitSize + SplitSize <= (p - 1) * SplitSize
      BY <3>1, MultipleBelow, Zenon
    <3>3. QED
      BY <1>5, <2>2, <3>2
  <2>5. PICK left \in Nat : left = len - at /\ left > 0
                            /\ (left <= SplitSize <=> s = p - 1) /\ (s = p - 1 => left = tail)
    <3>1. s = p - 1 \/ s < p - 1
      BY <1>4, <2>1
    <3>2. len - at > 0 /\ (len - at <= SplitSize <=> s = p - 1) /\ (s = p - 1 => len - at = tail)
      BY <1>1, <1>4, <1>6, <2>3, <2>4, <3>1
    <3>3. len - at \in Nat
      BY <3>2
    <3>4. QED
      BY <3>2, <3>3
  <2>6. Max({0, input.lens[b] - SplitSize * SplitOf(g)}) = left
    <3>1. input.lens[b] - SplitSize * SplitOf(g) = left
      BY <1>3, <2>1, <2>2, <2>5
    <3>2. Max({0, left}) = IF 0 <= left THEN left ELSE 0
      <4>1. 0 \in Int /\ left \in Int
        BY <2>5
      <4>2. QED
        BY <4>1, MinMax, Zenon
    <3>3. QED
      BY <2>5, <3>1, <3>2
  <2>7. RowsOf(g, b) = IF s = p - 1 THEN tail ELSE SplitSize
    <3>1. SplitSize \in Int /\ left \in Int
      BY <1>1
    <3>2. Min({SplitSize, left}) = IF SplitSize <= left THEN SplitSize ELSE left
      BY <3>1, MinMax, Zenon
    <3>3. RowsOf(g, b) = Min({SplitSize, left})
      BY <2>6 DEF RowsOf
    <3>4. QED
      BY <1>1, <1>6, <2>5, <3>2, <3>3
  <2>8. PartRows(g, b) = 0 + at .. 0 + at + (IF s = p - 1 THEN tail ELSE SplitSize) - 1
    BY <2>1, <2>2, <2>7 DEF PartRows
  <2>9. R(s + 1) = 0 + at .. 0 + at + (IF s = p - 1 THEN tail ELSE SplitSize) - 1
    <3>1. (s + 1) - 1 = s /\ (s + 1 = p <=> s = p - 1)
      BY <1>4
    <3>2. QED
      BY <2>2, <3>1 DEF R, Block
  <2>10. QED
    BY <1>1, <1>6, <1>8, <2>1, <2>7, <2>8, <2>9
<1>14. Parts(b) \in 1 .. input.split
  BY <1>1, <1>2, <1>4, <1>7
<1>15. UNION {RowsOfPart(b, s) : s \in 0 .. Parts(b) - 1} = 0 .. input.lens[b] - 1
  BY <1>2, <1>9, <1>10, <1>11
<1>16. QED
  BY <1>2, <1>12, <1>13, <1>14, <1>15, Zenon

\* What is joined of the parts of a task is of this task alone, and of each of its
\* rows once, if each of the parts is of its own rows.
LEMMA JoinedWhole ==
  ASSUME input \in Inputs, FlashDecode, NEW t \in Tasks, input.lens[t[1]] > 0, NEW parts,
         \A s \in 0 .. Parts(t[1]) - 1 : MadeOf(t, RowsOfPart(t[1], s), parts[s])
  PROVE  MadeOf(t, 0 .. input.lens[t[1]] - 1, Joined(parts, t[1]))
<1> DEFINE b == t[1]
           own == 0 .. Parts(b) - 1
           D == UNION {{s} \X DOMAIN parts[s] : s \in own}
           all == Joined(parts, b)
<1>1. b \in 0 .. input.batch - 1
  BY DEF Tasks
<1>2. /\ UNION {RowsOfPart(b, s) : s \in own} = 0 .. input.lens[b] - 1
      /\ \A s, r \in own : s # r => RowsOfPart(b, s) \cap RowsOfPart(b, r) = {}
  BY <1>1, PartsOfTask
<1>3. all = [x \in D |-> parts[x[1]][x[2]]]
  BY DEF Joined
<1>4. /\ \A x \in D : x[1] \in own /\ x[2] \in DOMAIN parts[x[1]] /\ x = <<x[1], x[2]>>
      /\ \A s \in own : \A y \in DOMAIN parts[s] : <<s, y>> \in D
  OBVIOUS
<1> HIDE DEF own, D, all
<1>5. DOMAIN all = D /\ \A x \in D : all[x] = parts[x[1]][x[2]]
  BY <1>3
<1>6. \A s \in own : /\ \A y \in DOMAIN parts[s] : /\ parts[s][y].of = {t}
                                                   /\ parts[s][y].rows \subseteq RowsOfPart(b, s)
                     /\ \A r \in RowsOfPart(b, s) : \E y \in DOMAIN parts[s] : r \in parts[s][y].rows
                     /\ \A y, z \in DOMAIN parts[s] :
                          y # z => parts[s][y].rows \cap parts[s][z].rows = {}
  BY DEF MadeOf, own
<1>7. \A x \in D : all[x].of = {t} /\ all[x].rows \subseteq RowsOfPart(b, x[1])
  BY <1>4, <1>5, <1>6
<1>8. UNION {all[x].rows : x \in D} = UNION {RowsOfPart(b, s) : s \in own}
  <2>1. ASSUME NEW x \in D, NEW r \in all[x].rows
        PROVE  \E s \in own : r \in RowsOfPart(b, s)
    BY <1>4, <1>7
  <2>2. ASSUME NEW s \in own, NEW r \in RowsOfPart(b, s)
        PROVE  \E x \in D : r \in all[x].rows
    <3>1. PICK y \in DOMAIN parts[s] : r \in parts[s][y].rows
      BY <1>6
    <3>2. <<s, y>> \in D /\ all[<<s, y>>] = parts[s][y]
      BY <1>4, <1>5
    <3>3. QED
      BY <3>1, <3>2
  <2>3. QED
    BY <2>1, <2>2
<1>9. \A x, y \in D : x # y => all[x].rows \cap all[y].rows = {}
  <2> SUFFICES ASSUME NEW x \in D, NEW y \in D, x # y PROVE all[x].rows \cap all[y].rows = {}
    OBVIOUS
  <2>1. CASE x[1] = y[1]
    <3>1. x[2] # y[2]
      BY <1>4, <2>1
    <3>2. QED
      BY <1>4, <1>5, <1>6, <2>1, <3>1
  <2>2. CASE x[1] # y[1]
    <3>1. RowsOfPart(b, x[1]) \cap RowsOfPart(b, y[1]) = {}
      BY <1>2, <1>4, <2>2
    <3>2. QED
      BY <1>7, <3>1
  <2>3. QED
    BY <2>1, <2>2
<1>10. QED
  BY <1>2, <1>5, <1>7, <1>8, <1>9 DEF MadeOf, all

\* A task there is has a number below the number of tasks.
LEMMA NumberOfTask ==
  ASSUME input \in Inputs, NEW n \in Nat, TaskAt(n) \in Tasks
  PROVE  n < input.heads * input.batch
<1>1. PICK heads \in Nat \ {0} : heads = input.heads
  BY InputIs
<1>2. PICK q \in Int : q = n \div heads /\ n % heads \in 0 .. heads - 1
                       /\ n = heads * (n \div heads) + (n % heads)
  <2>1. n \in Int
    OBVIOUS
  <2>2. QED
    BY <2>1, Division, Zenon
<1>3. q < input.batch /\ input.batch \in Nat
  BY <1>1, <1>2, InputIs DEF TaskAt, Tasks
<1>4. q * heads + heads <= input.batch * heads
  <2>1. heads \in Nat /\ input.batch \in Int
    BY <1>3
  <2>2. QED
    BY <1>3, <2>1, MultipleBelow, Zenon
<1>5. PICK a \in Int : a = q * heads /\ a = heads * q
  OBVIOUS
<1>6. PICK c \in Int : c = input.batch * heads /\ c = heads * input.batch
  BY <1>3
<1>7. n < c
  BY <1>1, <1>2, <1>4, <1>5, <1>6
<1>8. QED
  BY <1>1, <1>6, <1>7

\* Every part of a task has its group.
LEMMA GroupOfPart ==
  ASSUME input \in Inputs, FlashDecode, NEW n \in Nat, n < input.heads * input.batch,
         NEW s \in 0 .. input.split - 1
  PROVE  \E g \in Cubes : OwnTask(g) = TaskAt(n) /\ FirstTask(g) = n /\ SplitOf(g) = s
<1>1. PICK m \in Nat \ {0} : m = input.split
  BY InputIs
<1>2. PICK all \in Nat : all = input.batch * input.heads /\ all = input.heads * input.batch
  BY InputIs
<1>3. all * m = Groups
  BY <1>1, <1>2, InputIs
<1>4. n * m + m <= all * m
  <2>1. m \in Nat /\ n \in Int /\ all \in Int /\ n < all
    BY <1>2
  <2>2. QED
    BY <2>1, MultipleBelow, Zenon
<1>5. PICK a \in Nat : a = n * m /\ a = m * n
  OBVIOUS
<1>6. PICK g \in Int : g = a + s
  BY <1>1
<1>7. g \in Cubes
  BY <1>1, <1>3, <1>4, <1>5, <1>6, PipeAssumption DEF Cubes
<1>8. g \div m = n /\ g % m = s
  <2>1. s \in 0 .. m - 1 /\ g = m * n + s /\ n \in Int
    BY <1>1, <1>5, <1>6
  <2>2. QED
    BY <2>1, DivisionOnly, Zenon
<1>9. FirstTask(g) = n /\ SplitOf(g) = s
  BY <1>1, <1>8 DEF FirstTask, SplitOf
<1>10. QED
  BY <1>7, <1>9 DEF OwnTask

\* What a core combines is whole.
LEMMA CombinesWhole ==
  ASSUME PipeInv, DataInv, NEW w \in Vectors, vec[w].part = "combine",
         NEW t \in Tasks, t = TaskAt(w), input.lens[t[1]] # 0, NEW h \in {0, 1},
         NEW parts, parts \in {lse[h][t], accum[h][t]}
  PROVE  MadeOf(t, 0 .. input.lens[t[1]] - 1, Joined(parts, t[1]))
<1> DEFINE b == t[1]
<1>1. FlashDecode /\ \A u \in Vectors : vec[u].part \in {"combine", "done"}
  BY DEF DataInv, Barrier
<1>2. /\ input \in Inputs /\ loops = Loops /\ b \in 0 .. input.batch - 1
      /\ input.lens[b] \in Nat /\ input.lens[b] > 0
  BY InputIs DEF DataInv, DataType, Tasks
<1>3. w \in Nat /\ w < input.heads * input.batch
  BY <1>2, NumberOfTask, PipeAssumption DEF Vectors
<1>4. Parts(b) \in 1 .. input.split /\ input.split \in Nat
  BY <1>1, <1>2, PartsOfTask, InputIs
<1>5. ASSUME NEW s \in 0 .. Parts(b) - 1
      PROVE  MadeOf(t, RowsOfPart(b, s), parts[s])
  <2>1. PICK g \in Cubes : OwnTask(g) = t /\ FirstTask(g) = w /\ SplitOf(g) = s
    <3>1. s \in 0 .. input.split - 1
      BY <1>4
    <3>2. QED
      BY <1>1, <1>2, <1>3, <3>1, GroupOfPart
  <2>2. PICK u \in Vectors : GroupOf(u) = g /\ Half(u) = h
    BY CoresOf
  <2>3. V1(u) = loops[g] /\ V2(u) = loops[g]
    BY <1>1, <2>2 DEF V1, V2, Softened, RetiredUpTo
  <2>4. RowsOf(g, b) > 0 /\ PartRows(g, b) = RowsOfPart(b, s)
    BY <1>1, <1>2, <1>4, <2>1, PartsOfTask
  <2>5. loops[g] = LoopTimes(g) /\ LoopTimes(g) \in Nat /\ LoopTimes(g) > 0
    <3>1. LoopTimes(g) = Times(g, w)
      BY <1>1, <1>2, <2>1, OwnTaskIs
    <3>2. Times(g, w) \in Nat /\ Times(g, w) # 0
      BY <1>2, <1>3, <2>1, <2>4, TimesType DEF OwnTask
    <3>3. QED
      BY <1>2, <3>1, <3>2 DEF Loops
  <2>6. PICK k \in Nat : k = loops[g] - 1 /\ k + 1 = LoopTimes(g) /\ k \in 0 .. LoopTimes(g) - 1
    <3>1. LoopTimes(g) - 1 \in Nat /\ (LoopTimes(g) - 1) + 1 = LoopTimes(g)
      BY <2>5
    <3>2. QED
      BY <2>5, <3>1
  <2>7. parts[s] = AllSums(g)[k]
    <3>1. PartsHold(u)
      BY DEF DataInv, VectorHolds
    <3>2. /\ lse[h][t][s] = AllSums(g)[loops[g] - 1]
          /\ accum[h][t][s] = AllSums(g)[loops[g] - 1]
      BY <1>1, <2>1, <2>2, <2>3, <2>5, <3>1 DEF PartsHold
    <3>3. QED
      BY <2>6, <3>2
  <2>8. AllSums(g)[k] = Sums(g, k)
    BY <2>6, TablesAre
  <2>9. Ends(g, k) /\ TaskOf(InfoOf(g, k)) = t
    BY <1>1, <1>2, <2>1, <2>6, OwnLoops DEF Ends
  <2>10. MadeOf(t, PartRows(g, b), Sums(g, k))
    BY <1>2, <2>6, <2>9, PartWhole
  <2>11. QED
    BY <2>4, <2>7, <2>8, <2>10
<1>6. QED
  BY <1>1, <1>2, <1>5, JoinedWhole

\* A task is combined by one core.
LEMMA CombinesOnce ==
  ASSUME PipeInv, DataInv, NEW w \in Vectors, vec[w].part = "combine",
         NEW t \in Tasks, t = TaskAt(w), input.lens[t[1]] # 0, NEW h \in {0, 1}
  PROVE  out[h][t] = <<>>
<1>1. FlashDecode /\ input \in Inputs
  BY DEF DataInv, Barrier, DataType
<1>2. SUFFICES ASSUME Combined(t) PROVE FALSE
  BY <1>1 DEF DataInv, OutHolds
<1>3. PICK u \in Vectors : TaskAt(u) = t /\ vec[u].part = "done"
  BY <1>2 DEF Combined
<1>4. /\ u \in Nat /\ u < input.heads * input.batch
      /\ w \in Nat /\ w < input.heads * input.batch
  <2>1. u \in Nat /\ w \in Nat
    BY PipeAssumption DEF Vectors
  <2>2. QED
    BY <1>1, <1>3, <2>1, NumberOfTask
<1>5. u = w
  BY <1>1, <1>3, <1>4, TasksApart
<1>6. QED
  BY <1>3, <1>5

\* The last loop of a task is one.
LEMMA RetiresOnce ==
  ASSUME PipeInv, DataInv, ~FlashDecode, NEW h \in {0, 1}, 0 \in Cubes,
         NEW k \in 0 .. LoopTimes(0) - 1, k = V2(Core(0, h)), Ends(0, k)
  PROVE  out[h][TaskOf(InfoOf(0, k))] = <<>>
<1> DEFINE t == TaskOf(InfoOf(0, k))
<1>1. input \in Inputs /\ LoopTimes(0) \in Nat
  BY AllLoops DEF DataInv, DataType
<1>2. t \in Tasks /\ input.lens[t[1]] # 0
  BY <1>1, LoopTask
<1>3. SUFFICES ASSUME Retiring(h, t) PROVE FALSE
  BY <1>2 DEF DataInv, OutHolds
<1>4. PICK j \in 0 .. k - 1 : TaskOf(Infos(0)[j].data) = t /\ j \in Lasts(0)
  BY <1>3 DEF Retiring
<1>5. j \in Nat /\ j \in 0 .. LoopTimes(0) - 1 /\ j < k
  BY <1>1
<1>6. TaskOf(InfoOf(0, j)) = t /\ Ends(0, j)
  BY <1>4, <1>5, TablesAre
<1>7. TaskAt(TaskOfLoop(0, j)) = TaskAt(TaskOfLoop(0, k))
  BY <1>1, <1>5, <1>6, LoopTask
<1>8. TaskOfLoop(0, j) = TaskOfLoop(0, k)
  BY <1>1, <1>5, <1>7, TaskOfLoopIs, TasksApart
<1>9. PICK n : n = TaskOfLoop(0, k)
  OBVIOUS
<1>10. /\ WalkIn(0, j).s2 = j - Before(0, n) /\ WalkIn(0, j).times = Times(0, n)
       /\ WalkIn(0, k).s2 = k - Before(0, n) /\ WalkIn(0, k).times = Times(0, n)
       /\ Before(0, n) \in Nat /\ Times(0, n) \in Nat
  BY <1>1, <1>5, <1>8, <1>9, WalkType, TaskOfLoopIs
<1>11. QED
  BY <1>5, <1>6, <1>10 DEF Ends

\* Every step writes results that were not there, and whole.
LEMMA WritesWhole ==
  ASSUME PipeInv, DataInv, [FlashNext]_vars, NEW h \in {0, 1}, NEW t \in Tasks,
         out'[h][t] # out[h][t]
  PROVE  out[h][t] = <<>> /\ Whole(t, out'[h][t][1])
<1>1. /\ input \in Inputs /\ DOMAIN out = {0, 1} /\ DOMAIN out[h] = Tasks
  BY DEF DataInv, DataType
<1>2. ASSUME NEW w \in Vectors, SetLoopTimes(w)
      PROVE  out[h][t] = <<>> /\ Whole(t, out'[h][t][1])
  <2>1. t \in EmptyTasks(GroupOf(w)) /\ out'[h][t] = <<Nothing>>
    BY <1>2 DEF SetLoopTimes
  <2>2. input.lens[t[1]] = 0
    BY <2>1 DEF EmptyTasks
  <2>3. out[h][t] = <<>>
    BY <2>1, <2>2 DEF DataInv, OutHolds
  <2>4. out'[h][t][1] = Nothing
    BY <2>1
  <2>5. MadeOf(t, {}, <<>>)
    BY DEF MadeOf
  <2>6. 0 .. input.lens[t[1]] - 1 = {}
    BY <2>2
  <2>7. Nothing.acc = <<>> /\ Nothing.sum = <<>>
    BY DEF Nothing
  <2>8. Whole(t, Nothing)
    BY <2>5, <2>6, <2>7 DEF Whole
  <2>9. QED
    BY <2>3, <2>4, <2>8
<1>3. ASSUME NEW w \in Vectors, ProcessVec2L(w, Retired(vec[w]))
      PROVE  out[h][t] = <<>> /\ Whole(t, out'[h][t][1])
  <2> DEFINE k == V2(w)
  <2>1. /\ ~FlashDecode /\ k \in 0 .. LoopTimes(0) - 1 /\ Ends(0, k) /\ w = Core(0, Half(w))
        /\ 0 \in Cubes
        /\ out' = [out EXCEPT ![Half(w)][TaskOf(InfoOf(0, k))] =
                     <<[acc |-> Sums(0, k), sum |-> Sums(0, k)]>>]
    BY <1>3, RetireWrites
  <2>2. PICK u : u = TaskOf(InfoOf(0, k))
    OBVIOUS
  <2>3. PICK a : a = Half(w) /\ a \in {0, 1}
    BY CoresOf
  <2>4. h = a /\ t = u /\ out'[h][t] = <<[acc |-> Sums(0, k), sum |-> Sums(0, k)]>>
    BY <1>1, <2>1, <2>2, <2>3
  <2>5. out[h][t] = <<>>
    BY <2>1, <2>2, <2>3, <2>4, RetiresOnce
  <2>6. MadeOf(t, PartRows(0, t[1]), Sums(0, k))
    BY <1>1, <2>1, <2>2, <2>4, PartWhole
  <2>7. PartRows(0, t[1]) = 0 .. input.lens[t[1]] - 1
    <3>1. PICK b : b = t[1] /\ input.lens[b] \in Nat
      BY <1>1, <2>1, <2>2, <2>4, LoopTask
    <3>2. SplitOf(0) = 0 /\ RowsOf(0, b) = input.lens[b] /\ SplitSize \in Nat
      BY <1>1, <2>1, InputIs DEF SplitOf, RowsOf
    <3>3. SplitOf(0) * SplitSize = 0
      BY <3>2
    <3>4. QED
      BY <3>1, <3>2, <3>3 DEF PartRows
  <2>8. Whole(t, [acc |-> Sums(0, k), sum |-> Sums(0, k)])
    BY <2>6, <2>7 DEF Whole
  <2>9. QED
    BY <2>4, <2>5, <2>8
<1>4. ASSUME NEW w \in Vectors, FlashDecodeCompute(w)
      PROVE  out[h][t] = <<>> /\ Whole(t, out'[h][t][1])
  <2> DEFINE acc2 == Joined(accum[h][t], t[1])
             sum2 == Joined(lse[h][t], t[1])
  <2>1. vec[w].part = "combine"
    BY <1>4 DEF FlashDecodeCompute
  <2>2. /\ t = TaskAt(w) /\ input.lens[t[1]] # 0
        /\ out'[h][t] = <<[acc |-> acc2, sum |-> sum2]>>
    BY <1>1, <1>4 DEF FlashDecodeCompute
  <2>3. out[h][t] = <<>>
    BY <2>1, <2>2, CombinesOnce
  <2>4. /\ MadeOf(t, 0 .. input.lens[t[1]] - 1, acc2)
        /\ MadeOf(t, 0 .. input.lens[t[1]] - 1, sum2)
    BY <2>1, <2>2, CombinesWhole
  <2>5. Whole(t, [acc |-> acc2, sum |-> sum2])
    <3> HIDE DEF acc2, sum2
    <3>1. QED
      BY <2>4 DEF Whole
  <2>6. QED
    BY <2>2, <2>3, <2>5
<1>5. ASSUME NEW w \in Vectors,
             \/ \E to, info : QueryPreProcessL(w, to, info)
             \/ \E k : ProcessVec1L(w, k)
      PROVE  FALSE
  BY <1>5 DEF QueryPreProcessL, ProcessVec1L
<1>6. ASSUME NEW g \in Cubes, CubeStep(g) PROVE FALSE
  BY <1>6 DEF CubeStep, SetLoopTimesCube, CubeLoad, ComputeMm1, ComputeMm2, data
<1>7. ASSUME SyncAll \/ UNCHANGED vars PROVE FALSE
  BY <1>7 DEF SyncAll, vars, data
<1>8. CASE \E w \in Vectors : VectorStep(w)
  <2>1. PICK w \in Vectors : VectorStep(w)
    BY <1>8
  <2>2. \/ SetLoopTimes(w) \/ ProcessVec2L(w, Retired(vec[w])) \/ FlashDecodeCompute(w)
        \/ \E to, info : QueryPreProcessL(w, to, info)
        \/ \E k : ProcessVec1L(w, k)
    BY <2>1 DEF VectorStep, VectorLoad
  <2>3. QED
    BY <1>2, <1>3, <1>4, <1>5, <2>2
<1>9. QED
  BY <1>6, <1>7, <1>8 DEF FlashNext

\* A result is written once, and has then been computed of all rows of its own task
\* and of nothing else, however the cores interleave.
THEOREM ResultsAreWhole == FlashSpec => WrittenWhole
<1> DEFINE Step == \A h \in {0, 1}, t \in Tasks :
                     out'[h][t] # out[h][t] => out[h][t] = <<>> /\ Whole(t, out'[h][t][1])
<1>1. PipeInv /\ DataInv /\ [FlashNext]_vars => [Step]_out
  BY WritesWhole
<1>2. QED
  BY <1>1, DataInvariant, PTL DEF FlashSpec, WrittenWhole
==============================================================================
