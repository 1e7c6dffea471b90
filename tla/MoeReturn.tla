-------------------------------- MODULE MoeReturn -------------------------------
(***************************************************************************)
(* The round trip of the tokens of one invocation: MoeLayout, then the     *)
(* experts, then moe_distribute_combine.h, which sends each result back to *)
(* the rank of its token and adds the results of a token up.               *)
(*                                                                         *)
(* Combine uses the half of the windows that dispatch has not (MoeCombine  *)
(* shows that the halves and the rounds are kept apart), here a memory of  *)
(* its own.  A result is named by its token and its expert, a sum by the   *)
(* results added.  One step is one core's share of the functions between   *)
(* two points of synchronisation.                                          *)
(***************************************************************************)
EXTENDS MoeLayout

CONSTANT H   \* axisH_ in units of UB_ALIGN elements

ASSUME ReturnAssumption ==
  /\ H \in Nat \ {0}
  /\ Nothing \notin (Ranks \X Tokens) \X Experts

VARIABLES
  stage,      \* where each core is in combine
  returned,   \* returned[r][slot]: the result in a slot of r's window
  raised,     \* raised[r]: the ranks whose flags are up in r's status space
  xOut        \* xOut[r][t][u]: the results added up in a unit of a token, at first none

returnVars == <<stage, returned, raised, xOut>>

Units == 0 .. H - 1

ReturnInit ==
  /\ Init
  /\ stage = [r \in Ranks |-> [c \in Cores |-> "send"]]
  /\ returned = [r \in Ranks |-> [a \in Slots |-> Nothing]]
  /\ raised = [r \in Ranks |-> {}]
  /\ xOut = [r \in Ranks |-> [t \in Tokens |-> [u \in Units |-> {}]]]

Enter(r, c, label) == stage' = [stage EXCEPT ![r][c] = label]

----------------------------------------------------------------------------
(* The experts, between the two kernels. *)

\* The expert that computes a row of a rank: the rows are divided by
\* expertTokenNums, as the grouped matrix product takes them.
RowsUpTo(r, m) ==
  IF tokenNumsType = 0 /\ M > 1 THEN expertTokenNums[r][m]
  ELSE MapThenSumSet(LAMBDA j : expertTokenNums[r][j], 0 .. m)
ExpertOf(r, a) ==
  IF r < Shared THEN r
  ELSE Shared + (r - Shared) * M
         + CHOOSE m \in 0 .. M - 1 : /\ a < RowsUpTo(r, m)
                                     /\ \A j \in 0 .. m - 1 : RowsUpTo(r, j) <= a
Result(r, a) == <<expandXOut[r][a], ExpertOf(r, a)>>

----------------------------------------------------------------------------
(* Combine. *)

LocalExperts(r) == IF r < Shared THEN 1 ELSE M

\* The word of sendCounts for the rows of rank d and the m-th local expert.
Word(r, m, d) == m * R + d
RowsBefore(r, n) == IF n = 0 THEN 0 ELSE sendCounts[r][n - 1]

\* Mutant: regions as close as for one expert per rank.
PlacePacked(r, m, d) ==
  IF r < Shared /\ d < Shared THEN <<r, d + m>> ELSE <<d, r + m>>

\* The window and the region for these rows.  The first words of a shared
\* expert's rank stand for its own tokens, and their results stay.
Place(r, m, d) ==
  IF r < Shared /\ d < Shared THEN <<r, d * M + m>> ELSE <<d, r * M + m>>

\* The slots of rank d's window that core c of r writes, with their results.
SentBack(r, c, d) ==
  UNION {LET n == Word(r, w[1], w[2])
             first == RowsBefore(r, n)
         IN {<<Place(r, w[1], w[2])[2] * BS + a - first, Result(r, a)>> :
               a \in first .. sendCounts[r][n] - 1} :
         w \in {v \in (0 .. LocalExperts(r) - 1) \X Slice(R, C, c) :
                  Place(r, v[1], v[2])[1] = d}}

\* SplitCoreCal, ExpertAlltoAllDispatchCopyAdd, SetStatus: the core sends the
\* results for its ranks, then raises the flag of its own rank there.
SendBack(r, c) ==
  /\ stage[r][c] = "send" /\ AllPast(r, Labels \ {"done"})
  /\ returned' = [d \in Ranks |-> After(returned[d], SentBack(r, c, d))]
  /\ raised' = [d \in Ranks |->
       IF d \in Slice(R, C, c) THEN raised[d] \cup {r} ELSE raised[d]]
  /\ Enter(r, c, "gather")
  /\ UNCHANGED xOut

\* The share of the output of core c.
OutShare(c) == RowShare(BS, C, H, c)

\* Where a token finds the result of its shared expert.
SharedSlot(r, t) ==
  LET base == (r * BS) \div Shared
      k == CeilDiv((t + 1 + base) * Shared, BS) - 1 - r
  IN k * M * BS + t - (((k + r) * BS) \div Shared - base)

ChoiceSlot(r, i) == (Shared * M + expertIds[r][i]) * BS + expandIdx[r][i]

\* What is added up for token t.
Sum(r, t) ==
  {returned[r][ChoiceSlot(r, t * K + k)] : k \in 0 .. K - 1}
  \cup (IF Shared > 0 THEN {returned[r][SharedSlot(r, t)]} ELSE {})

\* Mutant: a core waits for its own ranks' flags only.
GatherEarly(r, c) ==
  /\ stage[r][c] = "gather" /\ Slice(R, C, c) \subseteq raised[r]
  /\ xOut' = [xOut EXCEPT ![r] = [t \in Tokens |->
       After(@[t], {<<p[2], Sum(r, t)>> : p \in {q \in OutShare(c) : q[1] = t}})]]
  /\ Enter(r, c, "done")
  /\ UNCHANGED <<returned, raised>>

\* WaitDispatch, with its SyncAll, and LocalWindowCopy.
Gather(r, c) ==
  /\ stage[r][c] = "gather"
  /\ raised[r] = Ranks /\ \A d \in Cores : stage[r][d] # "send"
  /\ xOut' = [xOut EXCEPT ![r] = [t \in Tokens |->
       After(@[t], {<<p[2], Sum(r, t)>> : p \in {q \in OutShare(c) : q[1] = t}})]]
  /\ Enter(r, c, "done")
  /\ UNCHANGED <<returned, raised>>

AllReturned ==
  /\ \A r \in Ranks, c \in Cores : stage[r][c] = "done"
  /\ UNCHANGED <<vars, returnVars>>

ReturnNext ==
  \/ \E r \in Ranks, c \in Cores :
       \/ Step(r, c) /\ UNCHANGED returnVars
       \/ (SendBack(r, c) \/ Gather(r, c)) /\ UNCHANGED vars
  \/ AllReturned

ReturnSpec == ReturnInit /\ [][ReturnNext]_<<vars, returnVars>>

----------------------------------------------------------------------------
(* Properties. *)

\* What the two kernels are for: a core of combine that is done has added up,
\* for its units of a token, the results of that very token by each expert it
\* was routed to and by one shared expert, each once and nothing else.
ResultsReturn ==
  \A r \in Ranks, c \in Cores : stage[r][c] = "done" =>
    \A p \in OutShare(c) :
      LET sum == xOut[r][p[1]][p[2]]
          chosen == {Shared + expertIds[r][i] : i \in {j \in Picks : j \div K = p[1]}}
          by == {q[2] : q \in sum}
      IN /\ sum \subseteq {<<r, p[1]>>} \X Experts
         /\ chosen = by \ (0 .. Shared - 1)
         /\ Cardinality(sum) = K + (IF Shared > 0 THEN 1 ELSE 0)

\* The whole output is written, and no two cores of any ranks write different
\* results to one slot of a window or to one unit of a token.
ReturnedOnce ==
  [][\A r \in Ranks :
       /\ \A a \in Slots :
            returned[r][a] # Nothing => returned'[r][a] = returned[r][a]
       /\ \A t \in Tokens, u \in Units :
            xOut[r][t][u] # {} => xOut'[r][t][u] = xOut[r][t][u]
       /\ (\A c \in Cores : stage'[r][c] = "done") =>
            \A t \in Tokens, u \in Units : xOut'[r][t][u] # {}]_<<vars, returnVars>>
===============================================================================
