---------------------------- MODULE FlashPreload ----------------------------
(* The incremental flash attention kernel with preloading: which (batch, key  *)
(* head) tasks a group of cores walks, which rows of keys and values every    *)
(* loop takes, what is folded into the result of a task, and, when one task   *)
(* is split among groups (flash decode), how the parts are combined.  A       *)
(* result is not a number but the account of what it was computed from.       *)
EXTENDS PreloadPipe, Sequences, SequencesExt

CONSTANTS Inputs,       \* the inputs and tilings of a run, see InputAssumption
          SInner,       \* singleProcessSInnerSize, rows a loop takes
          SplitSize,    \* sInnerLoopSize, rows of one part of a split task
          MaxLoops      \* bound on the loops of a group in the chosen inputs

\* batch, heads: B and N2.  lens: the actual length of each batch.  split: the
\* parts of a task, 0 unless flashDecodeFlag.  before, range: the tasks of the
\* only group at work when tasks are not split (coreSidxEnd).
ASSUME InputAssumption ==
  /\ SInner \in Nat \ {0} /\ SplitSize \in Nat \ {0} /\ MaxLoops \in Nat
  /\ \A in \in Inputs :
       /\ {in.batch, in.split, in.before, in.range} \subseteq Nat
       /\ in.heads \in Nat \ {0} /\ in.continuous \in BOOLEAN
       /\ in.lens \in [0 .. in.batch - 1 -> Nat]
       /\ in.before + in.range <= in.batch * in.heads
       /\ in.split > 0 => /\ in.batch * in.heads * in.split = Groups
                          /\ \A b \in DOMAIN in.lens : in.lens[b] <= in.split * SplitSize

VARIABLES input,
          vecWalk, cubeWalk,    \* curBIdx, curN2Idx, curS2Idx, ... of every core
          query,                \* queryPreProcessRes and aMaxBmm1, by vector core
          keyGm, valueGm,       \* the batch whose tensors a cube core has at hand
          soft, acc,            \* softmaxSum, Max and Exp; vec2Res: rings of a vector core
          lse, accum,           \* what the groups leave of the parts of a task
          out                   \* attentionOut, by half of the rows and task

walks == <<vecWalk, cubeWalk>>
data == <<query, keyGm, valueGm, soft, acc, lse, accum, out>>
vars == <<pipeVars, input, walks, data>>

CeilDiv(a, b) == (a + b - 1) \div b
FlashDecode == input.split > 0
Tasks == (0 .. input.batch - 1) \X (0 .. input.heads - 1)

-----------------------------------------------------------------------------
(* The walk of a group over its tasks.                                        *)

\* GetBN2id and InitCalcParamsEach
SplitOf(g) == IF FlashDecode THEN g % input.split ELSE 0
FirstTask(g) == IF FlashDecode THEN g \div input.split ELSE input.before
TaskCount(g) == IF FlashDecode THEN 1 ELSE IF g = 0 THEN input.range ELSE 0
TaskAt(n) == <<n \div input.heads, n % input.heads>>
TaskNumbers(g) == FirstTask(g) .. FirstTask(g) + TaskCount(g) - 1
TasksOf(g) == {TaskAt(n) : n \in TaskNumbers(g)}

\* UpdateInnerLoopCond: the rows of batch b a group computes, and in how many loops
RowsOf(g, b) ==
  IF FlashDecode THEN Min({SplitSize, Max({0, input.lens[b] - SplitSize * SplitOf(g)})})
                 ELSE input.lens[b]
InnerLoopTimes(g, b) == CeilDiv(RowsOf(g, b), SInner)
TailRows(g, b) == RowsOf(g, b) - (InnerLoopTimes(g, b) - 1) * SInner

\* SetLoopTimes: how many inner loops the tasks of a group have together
InnerLoops(g, numbers) == UNION {{n} \X (0 .. InnerLoopTimes(g, TaskAt(n)[1]) - 1) : n \in numbers}
LoopTimes(g) == Cardinality(InnerLoops(g, TaskNumbers(g)))
EmptyTasks(g) == {t \in TasksOf(g) : input.lens[t[1]] = 0}

WalkAt(g, b, n2, s2, count) ==
  [b |-> b, n2 |-> n2, s2 |-> s2, count |-> count,
   times |-> InnerLoopTimes(g, b), tail |-> TailRows(g, b)]
NoWalk == [b |-> 0, n2 |-> 0, s2 |-> 0, count |-> 0, times |-> 0, tail |-> 0]

\* The while loop of CalcParams: empty batches are passed over, and what is left
\* of the heads with them.
FullFrom(b) == CHOOSE x \in b .. input.batch - 1 :
                 input.lens[x] > 0 /\ \A y \in b .. x - 1 : input.lens[y] = 0
Seek(g, b, n2, count) == WalkAt(g, FullFrom(b), IF FullFrom(b) = b THEN n2 ELSE 0, 0, count)

TaskEnds(walk) == ~FlashDecode /\ walk.s2 + 1 >= walk.times
FirstFull(g) ==
  CHOOSE n \in TaskNumbers(g) :
    /\ input.lens[TaskAt(n)[1]] > 0
    /\ \A m \in FirstTask(g) .. n - 1 : input.lens[TaskAt(m)[1]] = 0
BeginAt(g, t) == WalkAt(g, t[1], t[2], 0, 0)
Begin(g) == BeginAt(g, TaskAt(FirstFull(g)))
Advance(g, walk) ==
  IF TaskEnds(walk)
  THEN Seek(g, walk.b + (walk.n2 + 1) \div input.heads, (walk.n2 + 1) % input.heads, walk.count)
  ELSE [walk EXCEPT !.s2 = @ + 1]
Counted(walk) == IF walk.s2 = 0 THEN [walk EXCEPT !.count = @ + 1] ELSE walk

\* CalcParams: where a core's walk is at loop k, and the extraInfo it notes there
Walked(g, walk, k) == Counted(IF k = 0 THEN Begin(g) ELSE Advance(g, walk))
\* (a test that leaves out the first loop)
BatchChangesLater(walk, k) ==
  ~input.continuous /\ k # 0 /\ TaskEnds(walk) /\ walk.n2 + 1 >= input.heads
BatchChanges(walk, k) ==
  ~input.continuous /\ (k = 0 \/ (TaskEnds(walk) /\ walk.n2 + 1 >= input.heads))
ExtraInfo(g, walk, to, k) ==
  [b |-> to.b, n2 |-> to.n2, s2 |-> to.s2, times |-> to.times, bn2 |-> to.count - 1,
   changed |-> BatchChanges(walk, k),
   from |-> SplitOf(g) * SplitSize + to.s2 * SInner,
   size |-> IF to.s2 = to.times - 1 THEN to.tail ELSE SInner]

TaskOf(info) == <<info.b, info.n2>>
RowsIn(info) == info.from .. info.from + info.size - 1

-----------------------------------------------------------------------------
(* What the stages compute.  An account has the tasks whose query, keys and   *)
(* values went into it, and the rows of the keys and values.                  *)
Account(of, rows) == [of |-> of, rows |-> rows]
Nothing == [acc |-> <<>>, sum |-> <<>>]     \* InitAllZeroOutput: no row attended to
Half(w) == w % 2
Core(g, h) == 2 * g + h

\* Process: SetLoopTimes, whose DealActSeqLenIsZero runs on the vector cores
SetLoopTimes(w) ==
  LET g == GroupOf(w)
  IN /\ Start(w)
     /\ out' = [h \in {0, 1} |-> [t \in Tasks |->
                  IF t \in EmptyTasks(g) THEN <<Nothing>> ELSE out[h][t]]]
     /\ UNCHANGED <<input, walks, query, keyGm, valueGm, soft, acc, lse, accum>>

SetLoopTimesCube(g) == StartCube(g) /\ UNCHANGED <<input, walks, data>>

QueryPreProcessL(w, to, info) ==
  LET g == GroupOf(w)
  IN /\ Issue(w, info)
     /\ vecWalk' = [vecWalk EXCEPT ![w] = to]
     /\ query' = IF antiquant /\ info.s2 = 0
                 THEN [query EXCEPT ![w][Slot(info.bn2)] = TaskOf(info)] ELSE query
     /\ UNCHANGED <<input, cubeWalk, keyGm, valueGm, soft, acc, lse, accum, out>>

\* CopyInMm1AToL1
Queries(g, info) ==
  IF antiquant THEN {query[w][Slot(info.bn2)] : w \in Halves(g)} ELSE {TaskOf(info)}

\* InitKeyGm and InitValueGm: the tensors of a batch, if batches have their own.
Tensor(at, info) == IF info.changed THEN info.b ELSE at
\* CopyInMm1BToL1 and CopyInMm2BToL1, from the tensors at hand.
Fetched(batch, info) == <<IF input.continuous THEN info.b ELSE batch, info.n2>>

ComputeMm1(g, to, info) ==
  LET batch == Tensor(keyGm[g], info)
  IN /\ Matmul1(g, info, Account(Queries(g, info) \cup {Fetched(batch, info)}, RowsIn(info)))
     /\ cubeWalk' = [cubeWalk EXCEPT ![g] = to]
     /\ keyGm' = [keyGm EXCEPT ![g] = batch]
     /\ UNCHANGED <<input, vecWalk, query, valueGm, soft, acc, lse, accum, out>>

\* DealBmm1ResBaseBlock and DealAntiqBmm1ResBaseBlock: the row maxima that scaled
\* the query are applied to the score.
Scored(w, info, score) ==
  Account(score.of \cup (IF antiquant THEN {query[w][Slot(info.bn2)]} ELSE {}), score.rows)
\* SoftmaxFlashV2Compute: sums and maxima go on from the loop before.
Summed(w, k, info, p) == IF info.s2 = 0 THEN <<p>> ELSE Append(soft[w][Slot(k - 1)], p)

ProcessVec1L(w, k) ==
  LET g == GroupOf(w)
      info == vecInfo[w][Slot(k)].data
      p == Scored(w, info, mm1[g][Slot(k)].data)
      sum == Summed(w, k, info, p)
  IN /\ Softmax(w, p)
     /\ soft' = [soft EXCEPT ![w][Slot(k)] = sum]
     /\ lse' = IF FlashDecode /\ info.s2 = vecWalk[w].times - 1
               THEN [lse EXCEPT ![Half(w)][TaskOf(info)][SplitOf(g)] = sum] ELSE lse
     /\ UNCHANGED <<input, walks, query, keyGm, valueGm, acc, accum, out>>

ComputeMm2(g, k) ==
  LET info == cubeInfo[g][Slot(k)].data
      batch == Tensor(valueGm[g], info)
      half(h) == LET p == vec1[Core(g, h)][Slot(k)].data
                 IN Account(p.of \cup {Fetched(batch, info)}, p.rows \cup RowsIn(info))
  IN /\ Matmul2(g, [h \in {0, 1} |-> half(h)])
     /\ valueGm' = [valueGm EXCEPT ![g] = batch]
     /\ UNCHANGED <<input, walks, query, keyGm, soft, acc, lse, accum, out>>

\* DealBmm2ResBaseBlock: the result so far, from the loop before and this one.
Accumulated(w, k, info) ==
  LET part == mm2[GroupOf(w)][Slot(k)].data[Half(w)]
  IN IF info.s2 > 0 THEN Append(acc[w][Slot(k - 1)], part) ELSE <<part>>
\* Bmm2CastAndCopyOut and Bmm2FDDataCopyOut
CopyOut(w, k, t, res) ==
  /\ out' = IF FlashDecode THEN out
            ELSE [out EXCEPT ![Half(w)][t] = <<[acc |-> res, sum |-> soft[w][Slot(k)]]>>]
  /\ accum' = IF FlashDecode THEN [accum EXCEPT ![Half(w)][t][SplitOf(GroupOf(w))] = res]
              ELSE accum

ProcessVec2L(w, k) ==
  LET info == vecInfo[w][Slot(k)].data
      res == Accumulated(w, k, info)
  IN /\ Retire(w)
     /\ IF info.s2 + 1 = info.times
        THEN CopyOut(w, k, TaskOf(info), res) /\ UNCHANGED acc
        ELSE acc' = [acc EXCEPT ![w][Slot(k)] = res] /\ UNCHANGED <<out, accum>>
     /\ UNCHANGED <<input, walks, query, keyGm, valueGm, soft, lse>>

\* SyncAll, of the vector cores (external)
SyncAll ==
  /\ FlashDecode
  /\ \A w \in Vectors : vec[w].part = "sync"
  /\ vec' = [w \in Vectors |-> At("combine", 0, 0)]
  /\ UNCHANGED <<antiquant, loops, cube, flags, vecInfo, cubeInfo, mm1, vec1, mm2,
                 input, walks, data>>

\* FlashDecodeCompute and CombineSplitKVRes: one core combines both halves of a task.
Parts(b) == CeilDiv(input.lens[b], SplitSize)
Joined(parts, b) ==
  [x \in UNION {{s} \X DOMAIN parts[s] : s \in 0 .. Parts(b) - 1} |-> parts[x[1]][x[2]]]
FlashDecodeCompute(w) ==
  LET t == TaskAt(w)
      combines == t \in Tasks /\ input.lens[t[1]] # 0
      res(h) == [acc |-> Joined(accum[h][t], t[1]), sum |-> Joined(lse[h][t], t[1])]
  IN /\ vec[w].part = "combine"
     /\ vec' = [vec EXCEPT ![w] = At("done", 0, 0)]
     /\ out' = IF combines THEN [h \in {0, 1} |-> [out[h] EXCEPT ![t] = <<res(h)>>]] ELSE out
     /\ UNCHANGED <<antiquant, loops, cube, flags, vecInfo, cubeInfo, mm1, vec1, mm2,
                    input, walks, query, keyGm, valueGm, soft, acc, lse, accum>>

-----------------------------------------------------------------------------
Ring(x) == [s \in Slots |-> x]
NoInfo == [b |-> 0, n2 |-> 0, s2 |-> 0, times |-> 0, bn2 |-> 0,
           changed |-> FALSE, from |-> 0, size |-> 0]
NoAccount == Account({}, {})

FlashInit ==
  /\ input \in Inputs
  /\ antiquant \in BOOLEAN
  /\ loops \in [Cubes -> 0 .. MaxLoops] /\ \A g \in Cubes : loops[g] = LoopTimes(g)
  /\ vec = [w \in Vectors |-> At("setup", 0, 0)]
  /\ cube = [g \in Cubes |-> At("setup", 0, 0)]
  /\ v0c1 = [w \in Vectors |-> 0] /\ c1v1 = v0c1 /\ v1c2 = v0c1 /\ c2v2 = v0c1
  /\ vecInfo = [w \in Vectors |-> Ring(Entry(-1, NoInfo))]
  /\ cubeInfo = [g \in Cubes |-> Ring(Entry(-1, NoInfo))]
  /\ mm1 = [g \in Cubes |-> Ring(Entry(-1, NoAccount))]
  /\ vec1 = [w \in Vectors |-> Ring(Entry(-1, NoAccount))]
  /\ mm2 = [g \in Cubes |-> Ring(Entry(-1, [h \in {0, 1} |-> NoAccount]))]
  /\ vecWalk = [w \in Vectors |-> NoWalk] /\ cubeWalk = [g \in Cubes |-> NoWalk]
  /\ query = [w \in Vectors |-> Ring(<<>>)]
  /\ keyGm = [g \in Cubes |-> IF input.continuous THEN 0 ELSE -1] /\ valueGm = keyGm
  /\ soft = [w \in Vectors |-> Ring(<<>>)] /\ acc = soft
  /\ lse = [h \in {0, 1} |-> [t \in Tasks |-> [s \in 0 .. input.split - 1 |-> <<>>]]] /\ accum = lse
  /\ out = [h \in {0, 1} |-> [t \in Tasks |-> <<>>]]

VectorLoad(w, k, to) == QueryPreProcessL(w, to, ExtraInfo(GroupOf(w), vecWalk[w], to, k))
CubeLoad(g, k, to) == ComputeMm1(g, to, ExtraInfo(g, cubeWalk[g], to, k))

VectorStep(w) ==
  LET k == LoopAt(vec[w])
  IN \/ SetLoopTimes(w)
     \/ VectorLoad(w, k, Walked(GroupOf(w), vecWalk[w], k))
     \/ ProcessVec1L(w, k)
     \/ ProcessVec2L(w, Retired(vec[w]))
     \/ FlashDecodeCompute(w)
CubeStep(g) ==
  LET k == LoopAt(cube[g])
  IN \/ SetLoopTimesCube(g)
     \/ CubeLoad(g, k, Walked(g, cubeWalk[g], k))
     \/ ComputeMm2(g, k)

FlashNext == (\E w \in Vectors : VectorStep(w)) \/ (\E g \in Cubes : CubeStep(g)) \/ SyncAll

\* As long as a core can go on, one does: the cores run to the end of Process.
FlashFairness == WF_vars(FlashNext)

FlashSpec == FlashInit /\ [][FlashNext]_vars /\ FlashFairness

-----------------------------------------------------------------------------
VectorPlaces == [part : {"setup", "issue", "softmax", "retire", "flush", "sync", "combine", "done"},
                 i : 0 .. MaxLoops, j : Slots]
CubePlaces == [part : {"setup", "mm1", "mm2", "done"}, i : 0 .. MaxLoops, j : Slots]

\* Every core is at a loop it has, the blocks of loops starting at multiples of
\* Preload, and every walk is at a task of its group that is not empty.
TypeOK ==
  /\ vec \in [Vectors -> VectorPlaces] /\ cube \in [Cubes -> CubePlaces]
  /\ \A w \in Vectors : LET p == vec[w] IN
       p.i % Preload = 0 /\ (p.part \in {"issue", "softmax", "flush"} => LoopAt(p) < loops[GroupOf(w)])
  /\ \A w \in Vectors : vecWalk[w].count > 0 =>
       <<vecWalk[w].b, vecWalk[w].n2>> \in TasksOf(GroupOf(w)) \ EmptyTasks(GroupOf(w))
  /\ \A g \in Cubes : cubeWalk[g].count > 0 =>
       <<cubeWalk[g].b, cubeWalk[g].n2>> \in TasksOf(g) \ EmptyTasks(g)

\* The result of a task is whole: both of what it is divided by and what it is
\* accumulated from were computed of its own query, keys and values alone, and
\* of each of the rows its batch has just once.
MadeOf(t, rows, parts) ==
  /\ \A x \in DOMAIN parts : parts[x].of = {t}
  /\ UNION {parts[x].rows : x \in DOMAIN parts} = rows
  /\ \A x, y \in DOMAIN parts : x # y => parts[x].rows \cap parts[y].rows = {}
Whole(t, res) ==
  \A parts \in {res.acc, res.sum} : MadeOf(t, 0 .. input.lens[t[1]] - 1, parts)

\* attentionOut of a task is written once, and what is written is whole: however
\* the cores interleave, wherever a task starts or ends in the loops in flight,
\* and whatever the batches' lengths.
WrittenWhole ==
  [][\A h \in {0, 1}, t \in Tasks :
       out'[h][t] # out[h][t] => out[h][t] = <<>> /\ Whole(t, out'[h][t][1])]_out

\* Every task of the groups at work gets its result: no core waits for ever for
\* a flag or at the barrier.
EveryTaskWritten ==
  <>(\A g \in Cubes : \A t \in TasksOf(g), h \in {0, 1} : out[h][t] # <<>>)

=============================================================================
