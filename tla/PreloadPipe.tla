----------------------------- MODULE PreloadPipe -----------------------------
(* How the cores of incre_flash_attention's preload kernel keep step: each    *)
(* group is one cube core and two vector cores, every core runs the same      *)
(* loops, Preload of them at a time, and hands its results to the other kind  *)
(* of core through rings of Preload slots in the workspace, announced by      *)
(* counting flags.  This module is the control: what is in the slots is a     *)
(* parameter of the actions, of which it only knows the loop it belongs to.   *)
EXTENDS Integers

CONSTANTS Groups,       \* number of groups of one cube core and two vector cores
          Preload       \* PRE_LOAD_NUM, the loops in flight and the slots of a ring

ASSUME PipeAssumption == Groups \in Nat \ {0} /\ Preload \in Nat \ {0}

Cubes == 0 .. Groups - 1            \* aiCoreIdx
Vectors == 0 .. 2 * Groups - 1      \* tmpPreBlockIdx of a vector core
GroupOf(w) == w \div 2
Halves(g) == {2 * g, 2 * g + 1}
Slots == 0 .. Preload - 1
\* (a ring with a slot fewer)
SlotShort(k) == k % (Preload - 1)
Slot(k) == k % Preload

VARIABLES antiquant,    \* ANTIQUANT_PRE: is the query prepared by the vector cores?
          loops,        \* bn2s2LoopTimes of each group
          vec, cube,    \* where each core stands in Process: [part, i, j]
          v0c1, c1v1, v1c2, c2v2,   \* the flags, counted at each vector core
          vecInfo, cubeInfo,        \* extraInfo, a ring in every core
          mm1, vec1, mm2            \* the rings of results in the workspace

flags == <<v0c1, c1v1, v1c2, c2v2>>
pipeVars == <<antiquant, loops, vec, cube, flags, vecInfo, cubeInfo, mm1, vec1, mm2>>

At(part, i, j) == [part |-> part, i |-> i, j |-> j]
LoopAt(p) == p.i + p.j
Entry(k, data) == [loop |-> k, data |-> data]

(* The inner loop a vector core takes up after loading loop LoopAt(p): the    *)
(* next iteration, which retires an old loop first once there is one, or the  *)
(* second of Process's inner loops.  Iterations that only find IsFinish true  *)
(* are passed over.                                                           *)
NextLoad(p, last) ==
  IF p.j + 1 < Preload /\ (p.i # 0 \/ LoopAt(p) + 1 < last)
  THEN At(IF p.i = 0 THEN "issue" ELSE "retire", p.i, p.j + 1)
  ELSE At("softmax", p.i, 0)

AfterStart(last) == IF last = 0 THEN At("sync", 0, 0) ELSE At("issue", 0, 0)
AfterRetire(p, last) ==
  IF LoopAt(p) < last THEN At("issue", p.i, p.j) ELSE NextLoad(p, last)
\* (a bound that starts one more block)
AfterSoftmaxOver(p, last) ==
  IF p.j + 1 < Preload /\ LoopAt(p) + 1 < last THEN At("softmax", p.i, p.j + 1)
  ELSE IF p.i + Preload <= last THEN At("retire", p.i + Preload, 0)
  ELSE At("flush", p.i, 0)
AfterSoftmax(p, last) ==
  IF p.j + 1 < Preload /\ LoopAt(p) + 1 < last THEN At("softmax", p.i, p.j + 1)
  ELSE IF p.i + Preload < last THEN At("retire", p.i + Preload, 0)
  ELSE At("flush", p.i, 0)
\* (an end of Process that retires a single loop)
AfterFlushOne(p, last) == At("sync", 0, 0)
AfterFlush(p, last) ==
  IF p.j + 1 < Preload /\ LoopAt(p) + 1 < last THEN At("flush", p.i, p.j + 1)
  ELSE At("sync", 0, 0)

CubeStart(last) == IF last = 0 THEN At("done", 0, 0) ELSE At("mm1", 0, 0)
AfterMm1(p, last) ==
  IF p.j + 1 < Preload /\ LoopAt(p) + 1 < last THEN At("mm1", p.i, p.j + 1)
  ELSE At("mm2", p.i, 0)
AfterMm2(p, last) ==
  IF p.j + 1 < Preload /\ LoopAt(p) + 1 < last THEN At("mm2", p.i, p.j + 1)
  ELSE IF p.i + Preload < last THEN At("mm1", p.i + Preload, 0)
  ELSE At("done", 0, 0)

-----------------------------------------------------------------------------
(* CrossCoreSetFlag and CrossCoreWaitFlag in PRE_SYNC_MODE2: what a cube core *)
(* sets, each of its two vector cores waits for; what it waits for, both must *)
(* have set.                                                                  *)
SetOne(flag, w) == [flag EXCEPT ![w] = @ + 1]
WaitOne(flag, w) == [flag EXCEPT ![w] = @ - 1]
\* (a cube core that sets its flag for the first vector core only)
SetFirst(flag, g) == SetOne(flag, 2 * g)
SetBoth(flag, g) == [w \in Vectors |-> IF GroupOf(w) = g THEN flag[w] + 1 ELSE flag[w]]
WaitBoth(flag, g) == [w \in Vectors |-> IF GroupOf(w) = g THEN flag[w] - 1 ELSE flag[w]]

\* Process up to its loops; a group beyond usedPreCoreNum has none.
Start(w) ==
  /\ vec[w].part = "setup"
  /\ vec' = [vec EXCEPT ![w] = AfterStart(loops[GroupOf(w)])]
  /\ UNCHANGED <<antiquant, loops, cube, flags, vecInfo, cubeInfo, mm1, vec1, mm2>>

StartCube(g) ==
  /\ cube[g].part = "setup"
  /\ cube' = [cube EXCEPT ![g] = CubeStart(loops[g])]
  /\ UNCHANGED <<antiquant, loops, vec, flags, vecInfo, cubeInfo, mm1, vec1, mm2>>

\* CalcParams and QueryPreProcessL
Issue(w, info) ==
  LET p == vec[w]
      k == LoopAt(p)
  IN /\ p.part = "issue"
     /\ vec' = [vec EXCEPT ![w] = NextLoad(p, loops[GroupOf(w)])]
     /\ vecInfo' = [vecInfo EXCEPT ![w][Slot(k)] = Entry(k, info)]
     /\ v0c1' = IF antiquant THEN SetOne(v0c1, w) ELSE v0c1
     /\ UNCHANGED <<antiquant, loops, cube, c1v1, v1c2, c2v2, cubeInfo, mm1, vec1, mm2>>

\* CalcParams and ComputeMm1
Matmul1(g, info, result) ==
  LET p == cube[g]
      k == LoopAt(p)
  IN /\ p.part = "mm1"
     /\ antiquant => \A w \in Halves(g) : v0c1[w] > 0
     /\ cube' = [cube EXCEPT ![g] = AfterMm1(p, loops[g])]
     /\ cubeInfo' = [cubeInfo EXCEPT ![g][Slot(k)] = Entry(k, info)]
     /\ mm1' = [mm1 EXCEPT ![g][Slot(k)] = Entry(k, result)]
     /\ v0c1' = IF antiquant THEN WaitBoth(v0c1, g) ELSE v0c1
     /\ c1v1' = SetBoth(c1v1, g)
     /\ UNCHANGED <<antiquant, loops, vec, v1c2, c2v2, vecInfo, vec1, mm2>>

\* ProcessVec1L
Softmax(w, result) ==
  LET p == vec[w]
      k == LoopAt(p)
  IN /\ p.part = "softmax"
     /\ c1v1[w] > 0
     /\ vec' = [vec EXCEPT ![w] = AfterSoftmax(p, loops[GroupOf(w)])]
     /\ vec1' = [vec1 EXCEPT ![w][Slot(k)] = Entry(k, result)]
     /\ c1v1' = WaitOne(c1v1, w)
     /\ v1c2' = SetOne(v1c2, w)
     /\ UNCHANGED <<antiquant, loops, cube, v0c1, c2v2, vecInfo, cubeInfo, mm1, mm2>>

\* ComputeMm2
Matmul2(g, result) ==
  LET p == cube[g]
      k == LoopAt(p)
  IN /\ p.part = "mm2"
     /\ \A w \in Halves(g) : v1c2[w] > 0
     /\ cube' = [cube EXCEPT ![g] = AfterMm2(p, loops[g])]
     /\ mm2' = [mm2 EXCEPT ![g][Slot(k)] = Entry(k, result)]
     /\ v1c2' = WaitBoth(v1c2, g)
     /\ c2v2' = SetBoth(c2v2, g)
     /\ UNCHANGED <<antiquant, loops, vec, v0c1, c1v1, vecInfo, cubeInfo, mm1, vec1>>

\* The loop ProcessVec2L is called for: one of Preload loops ago while more are
\* being loaded, and those left at the end.
Retired(p) == IF p.part = "retire" THEN LoopAt(p) - Preload ELSE LoopAt(p)

\* ProcessVec2L
Retire(w) ==
  LET p == vec[w]
      last == loops[GroupOf(w)]
  IN /\ p.part \in {"retire", "flush"}
     /\ c2v2[w] > 0
     /\ vec' = [vec EXCEPT ![w] = IF p.part = "retire" THEN AfterRetire(p, last)
                                                       ELSE AfterFlush(p, last)]
     /\ c2v2' = WaitOne(c2v2, w)
     /\ UNCHANGED <<antiquant, loops, cube, v0c1, c1v1, v1c2, vecInfo, cubeInfo, mm1, vec1, mm2>>

-----------------------------------------------------------------------------
(* How many loops a core is through with, stage by stage.                     *)
UpTo(a, b) == IF a < b THEN a ELSE b

Issued(p, last) ==
  CASE p.part = "setup" -> 0
    [] p.part \in {"retire", "issue"} -> UpTo(LoopAt(p), last)
    [] p.part = "softmax" -> UpTo(p.i + Preload, last)
    [] OTHER -> last
Softened(p, last) ==
  CASE p.part = "setup" -> 0
    [] p.part \in {"retire", "issue"} -> p.i
    [] p.part = "softmax" -> LoopAt(p)
    [] OTHER -> last
RetiredUpTo(p, last) ==
  CASE p.part = "setup" -> 0
    [] p.part = "retire" -> LoopAt(p) - Preload
    [] p.part = "issue" -> IF p.i = 0 THEN 0 ELSE LoopAt(p) + 1 - Preload
    [] p.part = "softmax" -> p.i
    [] p.part = "flush" -> LoopAt(p)
    [] OTHER -> last
Multiplied1(p, last) ==
  CASE p.part = "setup" -> 0
    [] p.part = "mm1" -> LoopAt(p)
    [] p.part = "mm2" -> UpTo(p.i + Preload, last)
    [] OTHER -> last
Multiplied2(p, last) ==
  CASE p.part = "setup" -> 0
    [] p.part = "mm1" -> p.i
    [] p.part = "mm2" -> LoopAt(p)
    [] OTHER -> last

V0(w) == Issued(vec[w], loops[GroupOf(w)])
V1(w) == Softened(vec[w], loops[GroupOf(w)])
V2(w) == RetiredUpTo(vec[w], loops[GroupOf(w)])
C1(g) == Multiplied1(cube[g], loops[g])
C2(g) == Multiplied2(cube[g], loops[g])

\* Flags and rings agree with the places of the cores: a flag counts the loops
\* its setter is ahead of its waiter, which are never more than the rings have
\* slots (nor than the hardware counts).  A flag left over at the end of
\* Process would release a wait of the next kernel.
FlagsCount ==
  \A w \in Vectors : LET g == GroupOf(w) IN
    /\ v0c1[w] = IF antiquant THEN V0(w) - C1(g) ELSE 0
    /\ c1v1[w] = C1(g) - V1(w)
    /\ v1c2[w] = V1(w) - C2(g)
    /\ c2v2[w] = C2(g) - V2(w)
    /\ \A flag \in {v0c1[w], c1v1[w], v1c2[w], c2v2[w]} : flag \in 0 .. Preload

Holds(ring, from, to) == \A k \in from .. to - 1 : ring[Slot(k)].loop = k

\* No slot is overwritten while a core has yet to read it, and every stage finds
\* in its slots what was computed, and noted in extraInfo, for its own loop.
OwnSlots ==
  /\ \A w \in Vectors : LET g == GroupOf(w) IN
       /\ Holds(vecInfo[w], V2(w), V0(w))
       /\ Holds(mm1[g], V1(w), C1(g))
       /\ Holds(vec1[w], C2(g), V1(w))
       /\ Holds(mm2[g], V2(w), C2(g))
  /\ \A g \in Cubes : Holds(cubeInfo[g], C2(g), C1(g))
=============================================================================
