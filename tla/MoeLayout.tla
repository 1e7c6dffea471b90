------------------------------- MODULE MoeLayout -------------------------------
(***************************************************************************)
(* moe_distribute_dispatch.h, the data of one invocation: the slot of the  *)
(* receiver's window each core writes a token to, the counts in the status *)
(* words, the row of expandXOut the receiver copies it to, and the counts  *)
(* it leaves for moe_distribute_combine.                                   *)
(*                                                                         *)
(* MoeDispatch shows that a core reads the tokens and the counts of its    *)
(* own round; here they are the tokens and the counts of this round.  One  *)
(* step is one core's share of one function of Process: nobody reads what  *)
(* it writes before the barrier or the status word that follows.  A window *)
(* is addressed in tokens, from the start of the half in use.              *)
(***************************************************************************)
EXTENDS MoeRouting, FiniteSetsExt

CONSTANTS
  BS,             \* axisBS_: tokens of a rank
  Routings,       \* the values of expertIds, for all ranks, to consider
  Nothing         \* what memory holds that nobody has written

Tokens == 0 .. BS - 1
Picks == 0 .. BS * K - 1                \* 0 .. expertIdsCnt_ - 1
MoeExperts == 0 .. (R - Shared) * M - 1
Slots == 0 .. R * M * BS - 1
Rows == 0 .. R * M * BS - 1
Words == 0 .. R * M - 1

\* The experts of one token differ.
Assignments ==
  {f \in [Picks -> MoeExperts] :
     \A i, j \in Picks : i \div K = j \div K /\ f[i] = f[j] => i = j}

ASSUME LayoutAssumption ==
  /\ R \in Nat \ {0} /\ C \in Nat \ {0} /\ M \in Nat \ {0} /\ K \in Nat \ {0}
  /\ BS \in Nat \ {0}
  /\ Shared \in Nat /\ Shared < R
  /\ Shared # 0 => C > 1 /\ R % Shared = 0
  /\ Routings \subseteq [Ranks -> Assignments]
  /\ Nothing \notin Ranks \X Tokens

VARIABLES
  expertIds,       \* the routing of this invocation
  tokenNumsType,   \* expertTokenNumsType_: 0 for running sums, 1 for counts
  pc,              \* the function of Process each core is in
  window,          \* window[r][slot]: the token in a slot of r's window
  expandIdx,       \* expandIdx[r][i]: place of choice i among its expert's
  status,          \* status[r][index]: the count in a status word of r
  expandXOut,      \* expandXOut[r][row]: the token copied to a row
  sendCounts,      \* sendCounts[r][index]: rows up to and with this word's
  expertTokenNums  \* expertTokenNumsOut, per local expert

Labels == {"send", "status", "copy", "totals", "done"}

inputs == <<expertIds, tokenNumsType>>

vars == <<inputs, pc, window, expandIdx, status, expandXOut, sendCounts,
          expertTokenNums>>

Init ==
  /\ expertIds \in Routings /\ tokenNumsType \in {0, 1}
  /\ pc = [r \in Ranks |-> [c \in Cores |-> "send"]]
  /\ window = [r \in Ranks |-> [a \in Slots |-> Nothing]]
  /\ expandIdx = [r \in Ranks |-> [i \in Picks |-> Nothing]]
  /\ status = [r \in Ranks |-> [n \in Words |-> Nothing]]
  /\ expandXOut = [r \in Ranks |-> [a \in Rows |-> Nothing]]
  /\ sendCounts = [r \in Ranks |-> [n \in Words |-> Nothing]]
  /\ expertTokenNums = [r \in Ranks |-> [m \in 0 .. M - 1 |-> Nothing]]

\* Memory after writes, given as pairs of an address and a value.
After(memory, writes) ==
  [a \in DOMAIN memory |-> IF \E w \in writes : w[1] = a
                           THEN (CHOOSE w \in writes : w[1] = a)[2]
                           ELSE memory[a]]

Goto(r, c, label) == pc' = [pc EXCEPT ![r][c] = label]

\* Every core of r has left these functions: a SyncAll is behind it.
AllPast(r, labels) == \A c \in Cores : pc[r][c] \notin labels

----------------------------------------------------------------------------
(* Sending. *)

CeilDiv(a, b) == (a + b - 1) \div b

\* The tokens before those that rank r sends to shared expert k, and how many
\* it sends there: the tokens of all ranks are dealt out in equal runs.
SharedBase(r, k) == (r * BS) \div Shared
\* Mutant: as if each rank dealt its tokens out from the first expert.
SharedBeforeAlone(r, k) == (k * BS) \div Shared
SharedBefore(r, k) == ((k + r) * BS) \div Shared - SharedBase(r, k)
SharedCount(r, k) ==
  ((k + 1 + r) * BS) \div Shared - ((k + r) * BS) \div Shared
SharedExpertOf(r, t) ==
  CeilDiv((t + 1 + (r * BS) \div Shared) * Shared, BS) - 1 - r

\* CalTokenSendExpertCnt: the choices of e by rank r before choice i.
PicksBefore(r, e, i) == Cardinality({j \in 0 .. i - 1 : expertIds[r][j] = e})

RankOf(e) == e \div M + Shared
MoeSlot(r, i) ==
  LET e == expertIds[r][i] IN (r * M + (e % M)) * BS + PicksBefore(r, e, i)

MoeShare(r, c) == IF c < C - SharedCores
                  THEN Slice(BS * K, C - SharedCores, c) ELSE {}

\* On the shared experts' ranks the tokens stay at home, in the first rows.
SharedShare(c) == IF c < C - SharedCores THEN {}
                  ELSE Slice(BS, SharedCores, c - (C - SharedCores))

\* The slots of rank d's window that core c of r writes, with their tokens.
MoeSent(r, c, d) ==
  {<<MoeSlot(r, i), <<r, i \div K>>>> :
     i \in {j \in MoeShare(r, c) : RankOf(expertIds[r][j]) = d}}
SharedSent(r, c, d) ==
  IF r < Shared THEN {}
  ELSE {<<r * BS + t - SharedBefore(r, d), <<r, t>>>> :
          t \in {u \in SharedShare(c) : SharedExpertOf(r, u) = d}}

\* AlltoAllDispatch: SendToMoeExpert or SendToSharedExpert.
Send(r, c) ==
  /\ pc[r][c] = "send"
  /\ window' = [d \in Ranks |->
                  After(window[d], MoeSent(r, c, d) \cup SharedSent(r, c, d))]
  /\ expandIdx' = [expandIdx EXCEPT ![r] =
       After(@, {<<i, PicksBefore(r, expertIds[r][i], i)>> : i \in MoeShare(r, c)})]
  /\ expandXOut' = [expandXOut EXCEPT ![r] =
       After(@, {<<t, <<r, t>>>> : t \in IF r < Shared THEN SharedShare(c) ELSE {}})]
  /\ Goto(r, c, "status")
  /\ UNCHANGED <<inputs, status, sendCounts, expertTokenNums>>

\* The count a status word carries to expert e.
CountFor(r, e) ==
  IF e < Shared THEN IF r < Shared THEN 0 ELSE SharedCount(r, e)
  ELSE PicksBefore(r, e - Shared, BS * K)

\* The status words of rank d that core c of r writes, with their counts.
Told(r, c, d) ==
  {<<StatusIndex(<<r, e>>), CountFor(r, e)>> :
     e \in {f \in Slice(ExpertNum, C, c) : Home(f) = d}}

\* Mutant: no barrier before the status words are written.
SetStatusEarly(r, c) ==
  /\ pc[r][c] = "status"
  /\ status' = [d \in Ranks |-> After(status[d], Told(r, c, d))]
  /\ Goto(r, c, "copy")
  /\ UNCHANGED <<inputs, window, expandIdx, expandXOut, sendCounts,
                 expertTokenNums>>

\* SetStatus, after its SyncAll.
SetStatus(r, c) ==
  /\ pc[r][c] = "status" /\ AllPast(r, {"send"})
  /\ status' = [d \in Ranks |-> After(status[d], Told(r, c, d))]
  /\ Goto(r, c, "copy")
  /\ UNCHANGED <<inputs, window, expandIdx, expandXOut, sendCounts,
                 expertTokenNums>>

----------------------------------------------------------------------------
(* Receiving. *)

\* Mutant: a shared expert's rank takes the words as they are.
CountAsTold(r, n) == status[r][n]

\* GetCumSum: the counts of r's status words; a shared expert's rank counts
\* its own tokens as those of the first senders.
Count(r, n) ==
  IF r < Shared /\ n < Shared THEN SharedCount(r, n) ELSE status[r][n]
CumSum(r, n) == MapThenSumSet(LAMBDA m : Count(r, m), 0 .. n)

\* The rows that core c of r copies out of its window.
RowsCopied(r, c) ==
  UNION {{<<CumSum(r, n) - Count(r, n) + k, window[r][Region(r, n) * BS + k]>> :
            k \in 0 .. Count(r, n) - 1} :
         n \in {m \in Slice(InboxSize(r), C, c) : ~(r < Shared /\ m < Shared)}}

\* WaitDispatch, then LocalWindowCopy: every word has been seen by some core.
LocalWindowCopy(r, c) ==
  /\ pc[r][c] = "copy" /\ AllPast(r, {"send", "status"})
  /\ \A n \in 0 .. InboxSize(r) - 1 : status[r][n] # Nothing
  /\ expandXOut' = [expandXOut EXCEPT ![r] = After(@, RowsCopied(r, c))]
  /\ sendCounts' = [sendCounts EXCEPT ![r] =
       After(@, {<<n, CumSum(r, n)>> : n \in Slice(InboxSize(r), C, c)})]
  /\ Goto(r, c, "totals")
  /\ UNCHANGED <<inputs, window, expandIdx, status, expertTokenNums>>

MultiExpert(r) == r >= Shared /\ M > 1
LastCore(r) == (IF InboxSize(r) < C THEN InboxSize(r) ELSE C) - 1

\* Mutant: running sums of running sums.
TokenSumsTwice(r) ==
  LET upTo(m) == sendCounts[r][R * m + R - 1]
      sums[m \in 0 .. M - 1] ==
        IF m = 0 THEN upTo(0)
        ELSE (IF tokenNumsType = 0 THEN sums[m - 1] ELSE 0) + upTo(m)
  IN sums

\* UpdateMultiMoeTokenNumsOut: from the sums the cores have written out.
TokenSums(r) ==
  LET upTo(m) == sendCounts[r][R * m + R - 1]
      sums[m \in 0 .. M - 1] ==
        IF m = 0 THEN upTo(0)
        ELSE (IF tokenNumsType = 0 THEN sums[m - 1] ELSE 0)
               + (upTo(m) - upTo(m - 1))
  IN sums

\* UpdateTokenNumsOut: the last core writes; with several experts it waits for
\* the others first.
UpdateTokenNumsOut(r, c) ==
  /\ pc[r][c] = "totals"
  /\ MultiExpert(r) => AllPast(r, {"send", "status", "copy"})
  /\ expertTokenNums' =
       IF c # LastCore(r) THEN expertTokenNums
       ELSE IF MultiExpert(r)
       THEN [expertTokenNums EXCEPT ![r] = TokenSums(r)]
       ELSE [expertTokenNums EXCEPT ![r][0] = CumSum(r, InboxSize(r) - 1)]
  /\ Goto(r, c, "done")
  /\ UNCHANGED <<inputs, window, expandIdx, status, expandXOut, sendCounts>>

Finished ==
  /\ \A r \in Ranks : AllPast(r, Labels \ {"done"})
  /\ UNCHANGED vars

Step(r, c) ==
  Send(r, c) \/ SetStatus(r, c) \/ LocalWindowCopy(r, c)
  \/ UpdateTokenNumsOut(r, c)

Next == (\E r \in Ranks, c \in Cores : Step(r, c)) \/ Finished

Spec == Init /\ [][Next]_vars

----------------------------------------------------------------------------
(* Properties. *)

AllTokens == Ranks \X Tokens

\* A window, a status word or a row holds nothing until it has been written,
\* and a count never exceeds the tokens there are.
TypeOK ==
  /\ expertIds \in [Ranks -> Assignments] /\ tokenNumsType \in {0, 1}
  /\ pc \in [Ranks -> [Cores -> Labels]]
  /\ window \in [Ranks -> [Slots -> AllTokens \cup {Nothing}]]
  /\ expandIdx \in [Ranks -> [Picks -> Tokens \cup {Nothing}]]
  /\ status \in [Ranks -> [Words -> (0 .. BS) \cup {Nothing}]]
  /\ expandXOut \in [Ranks -> [Rows -> AllTokens \cup {Nothing}]]
  /\ sendCounts \in [Ranks -> [Words -> (0 .. R * M * BS) \cup {Nothing}]]
  /\ expertTokenNums \in
       [Ranks -> [0 .. M - 1 -> (0 .. R * M * BS) \cup {Nothing}]]

Copied(r) == AllPast(r, {"send", "status", "copy"})
Done(r) == AllPast(r, Labels \ {"done"})

\* What moe_distribute_combine relies on to send results back: the rows of a
\* sender and an expert begin where sendCounts says, and in them the sender's
\* own expandIdx finds each of its choices.
RowsFound ==
  \A s, d \in Ranks : Copied(s) /\ Copied(d) =>
    \A i \in Picks : RankOf(expertIds[s][i]) = d =>
      LET n == StatusIndex(<<s, expertIds[s][i] + Shared>>)
          first == IF n = 0 THEN 0 ELSE sendCounts[d][n - 1]
      IN expandXOut[d][first + expandIdx[s][i]] = <<s, i \div K>>

\* What the experts' matrix product relies on: expertTokenNumsOut divides the
\* rows of a rank into one run per local expert, which holds the tokens routed
\* to it, each once and nothing else.
RowsGrouped ==
  \A r \in Ranks \ (0 .. Shared - 1) : Done(r) =>
    \A m \in 0 .. M - 1 :
      LET nums == expertTokenNums[r]
          running == tokenNumsType = 0 /\ M > 1
          end(k) == IF running THEN nums[k]
                    ELSE MapThenSumSet(LAMBDA j : nums[j], 0 .. k)
          rows == (IF m = 0 THEN 0 ELSE end(m - 1)) .. end(m) - 1
          routed == {p \in AllTokens : \E i \in Picks :
                       i \div K = p[2] /\ expertIds[p[1]][i] = (r - Shared) * M + m}
      IN /\ {expandXOut[r][a] : a \in rows} = routed
         /\ Cardinality(rows) = Cardinality(routed)

\* The tokens of all ranks reach the shared experts once each, and every shared
\* expert gets the same number: README of the operator, BS * epWorldSize /
\* sharedExpertRankNum rows, which it also reports.
SharedExpertsBalanced ==
  LET places == {p \in (0 .. Shared - 1) \X Rows : expandXOut[p[1]][p[2]] # Nothing}
  IN Shared # 0 /\ (\A r \in Ranks : Done(r)) =>
       /\ \A d \in 0 .. Shared - 1 :
            /\ {p[2] : p \in {q \in places : q[1] = d}}
                 = 0 .. (BS * R) \div Shared - 1
            /\ expertTokenNums[d][0] = (BS * R) \div Shared
       /\ {expandXOut[p[1]][p[2]] : p \in places} = AllTokens
       /\ Cardinality(places) = Cardinality(AllTokens)

\* No two cores of any ranks write different contents to one slot, word or row.
WrittenOnce ==
  [][\A r \in Ranks :
       /\ \A a \in Slots :
            window[r][a] # Nothing => window'[r][a] = window[r][a]
       /\ \A n \in Words :
            status[r][n] # Nothing => status'[r][n] = status[r][n]
       /\ \A a \in Rows :
            expandXOut[r][a] # Nothing => expandXOut'[r][a] = expandXOut[r][a]]_vars
===============================================================================
