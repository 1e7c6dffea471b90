------------------------------ MODULE MoeRouting ------------------------------
(***************************************************************************)
(* Who sends what to whom in moe_distribute_dispatch.h: the rank of an     *)
(* expert, the experts a core sends to, and the status word of each pair   *)
(* of a sender and an expert, with the core that waits for it.             *)
(***************************************************************************)
EXTENDS Integers, MoeSplit

CONSTANTS
  R,         \* epWorldSize_: number of ranks
  C,         \* aivNum_: number of cores of a rank
  Shared,    \* sharedExpertRankNum_: the first ranks hold a shared expert each
  M,         \* moeExpertNumPerRank_: experts on each of the other ranks
  K          \* axisK_: experts per token

Ranks == 0 .. R - 1
Cores == 0 .. C - 1
ExpertNum == Shared + (R - Shared) * M   \* totalExpertNum_
Experts == 0 .. ExpertNum - 1

\* The rank an expert lives on.
Home(e) == IF e < Shared THEN e ELSE (e - Shared) \div M + Shared

\* The last cores send to the shared experts, the others to the MoE experts; a
\* shared expert's own rank keeps its tokens out of the windows.
SharedCores ==
  IF Shared = 0 THEN 0 ELSE IF C \div (K + 1) = 0 THEN 1 ELSE C \div (K + 1)

Targets(r, c) ==
  IF c < C - SharedCores THEN Shared .. ExpertNum - 1
  ELSE IF r < Shared THEN {} ELSE 0 .. Shared - 1

\* The status words of a rank are ordered by local expert, then by sender.
Inbox(r) == {b \in Ranks \X Experts : Home(b[2]) = r}
InboxSize(r) == IF r < Shared THEN R ELSE R * M
StatusIndex(b) ==
  IF b[2] < Shared THEN b[1] ELSE b[1] + ((b[2] - Shared) % M) * R
InboxSlice(r, c) ==
  {b \in Inbox(r) : StatusIndex(b) \in Slice(InboxSize(r), C, c)}

\* Mutant: regions in the order of the words.
RegionAsWord(r, index) == index

\* The region of a window that holds the tokens of a status word: regions are
\* ordered by sender, then by local expert.
Region(r, index) ==
  IF r < Shared THEN index ELSE (index % R) * M + index \div R
===============================================================================
