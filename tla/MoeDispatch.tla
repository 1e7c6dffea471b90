------------------------------ MODULE MoeDispatch ------------------------------
(***************************************************************************)
(* moe_distribute_dispatch.h: the all-to-all that sends tokens to the      *)
(* ranks of their experts through windows in the receivers' memory.        *)
(*                                                                         *)
(* Every core of every rank runs Init and Process once per invocation of   *)
(* the kernel (a round).  A window and its status words have two halves    *)
(* used in alternate rounds; a status word carries a flag that alternates  *)
(* each time its half is used.  Nothing else orders the ranks: a receiver  *)
(* polls flags, a sender never asks whether its window has been emptied.   *)
(*                                                                         *)
(* Tokens and counts are abstracted to the round they belong to; where in  *)
(* a window a token goes is modelled in MoeLayout.  Copies to and from     *)
(* global memory complete in any order up to the next pipe barrier.  Cores *)
(* begin a round independently, so nothing is assumed of kernel launches.  *)
(***************************************************************************)
EXTENDS Integers, FiniteSets, MoeRouting

CONSTANT MaxRound   \* bound on the number of invocations

ASSUME DispatchAssumption ==
  /\ R \in Nat \ {0} /\ C \in Nat \ {0} /\ M \in Nat \ {0}
  /\ Shared \in Nat /\ Shared < R
  /\ K \in Nat /\ MaxRound \in Nat
  /\ Shared # 0 => C > 1

Halves == {0, 1}

VARIABLES
  pc,         \* where core c of rank r is in Process
  round,      \* the invocation it is in
  half,       \* dataState_, its copy of the half it uses
  target,     \* sumTarget_, the flag it writes and waits for
  todo,       \* experts it has still to serve in the current loop
  unread,     \* blocks of its rank's window it has still to copy out
  dataState,  \* the core's word at STATE_WIN_OFFSET: the half of the next round
  selfState,  \* the core's word at SELF_STATE_OFFSET of each half
  window,     \* window[s][e][h][c]: round of the tokens core c of s has written
  flag,       \* flag[s][e][h]: the flag of the status word from s for e
  told,       \* told[s][e][h]: the round whose count that status word holds
  sendCounts  \* round of the cumulative counts the core has written out

vars == <<pc, round, half, target, todo, unread, dataState, selfState, window,
          flag, told, sendCounts>>

registers == <<half, target>>
states == <<dataState, selfState>>
memory == <<window, flag, told, sendCounts>>

Labels == {"idle", "send", "sync1", "status", "wait", "sync2", "counts",
           "copy", "sync3", "totals"}

\* The windows start zeroed: a half holds the round it would have held last.
TypeOK ==
  /\ pc \in [Ranks -> [Cores -> Labels]]
  /\ round \in [Ranks -> [Cores -> 0 .. MaxRound]]
  /\ half \in [Ranks -> [Cores -> Halves]]
  /\ target \in [Ranks -> [Cores -> {0, 1}]]
  /\ todo \in [Ranks -> [Cores -> SUBSET Experts]]
  /\ unread \in [Ranks -> [Cores -> SUBSET (Ranks \X Experts)]]
  /\ dataState \in [Ranks -> [Cores -> Halves]]
  /\ selfState \in [Ranks -> [Cores -> [Halves -> {0, 1}]]]
  /\ window \in
       [Ranks -> [Experts -> [Halves -> [Cores -> -2 .. MaxRound - 1]]]]
  /\ flag \in [Ranks -> [Experts -> [Halves -> {0, 1}]]]
  /\ told \in [Ranks -> [Experts -> [Halves -> -2 .. MaxRound - 1]]]
  /\ sendCounts \in [Ranks -> [Cores -> -1 .. MaxRound - 1]]

PerCore(v) == [r \in Ranks |-> [c \in Cores |-> v]]
PerExpert(v) == [r \in Ranks |-> [e \in Experts |-> v]]

Init ==
  /\ pc = PerCore("idle") /\ round = PerCore(0)
  /\ half = PerCore(0) /\ target = PerCore(0)
  /\ todo = PerCore({}) /\ unread = PerCore({})
  /\ dataState = PerCore(0) /\ selfState = PerCore([h \in Halves |-> 0])
  /\ window = PerExpert([h \in Halves |-> [c \in Cores |-> h - 2]])
  /\ flag = PerExpert([h \in Halves |-> 0])
  /\ told = PerExpert([h \in Halves |-> h - 2])
  /\ sendCounts = PerCore(-1)

-------------------------------------------------------------------------------
Goto(r, c, label) == pc' = [pc EXCEPT ![r][c] = label]

\* SyncAll: no core passes before every core of the rank has arrived.
Barrier(r, from, to) ==
  /\ \A c \in Cores : pc[r][c] = from
  /\ pc' = [pc EXCEPT ![r] = [c \in Cores |-> to]]

\* Mutants of Start, for the properties to reject: the half is never switched;
\* the flag is counted up instead of flipped; the flag never alternates.
StartSameHalf(r, c) ==
  LET h == dataState[r][c] IN
  /\ pc[r][c] = "idle" /\ round[r][c] < MaxRound
  /\ Goto(r, c, "send")
  /\ half' = [half EXCEPT ![r][c] = h]
  /\ target' = [target EXCEPT ![r][c] = 1 - selfState[r][c][h]]
  /\ selfState' = [selfState EXCEPT ![r][c][h] = 1 - @]
  /\ todo' = [todo EXCEPT ![r][c] = Targets(r, c)]
  /\ UNCHANGED <<round, unread, dataState, memory>>

StartCountsUp(r, c) ==
  LET h == dataState[r][c] IN
  /\ pc[r][c] = "idle" /\ round[r][c] < MaxRound
  /\ Goto(r, c, "send")
  /\ half' = [half EXCEPT ![r][c] = h]
  /\ dataState' = [dataState EXCEPT ![r][c] = 1 - h]
  /\ target' = [target EXCEPT ![r][c] = selfState[r][c][h] + 1]
  /\ selfState' = [selfState EXCEPT ![r][c][h] = @ + 1]
  /\ todo' = [todo EXCEPT ![r][c] = Targets(r, c)]
  /\ UNCHANGED <<round, unread, memory>>

StartOneFlag(r, c) ==
  LET h == dataState[r][c] IN
  /\ pc[r][c] = "idle" /\ round[r][c] < MaxRound
  /\ Goto(r, c, "send")
  /\ half' = [half EXCEPT ![r][c] = h]
  /\ dataState' = [dataState EXCEPT ![r][c] = 1 - h]
  /\ target' = [target EXCEPT ![r][c] = 1]
  /\ todo' = [todo EXCEPT ![r][c] = Targets(r, c)]
  /\ UNCHANGED <<round, unread, selfState, memory>>

\* Init: take the half and the flag of this round, and leave the other ones in
\* memory for the next round and for the next use of the half.
Start(r, c) ==
  LET h == dataState[r][c] IN
  /\ pc[r][c] = "idle" /\ round[r][c] < MaxRound
  /\ Goto(r, c, "send")
  /\ half' = [half EXCEPT ![r][c] = h]
  /\ dataState' = [dataState EXCEPT ![r][c] = 1 - h]
  /\ target' = [target EXCEPT ![r][c] = 1 - selfState[r][c][h]]
  /\ selfState' = [selfState EXCEPT ![r][c][h] = 1 - @]
  /\ todo' = [todo EXCEPT ![r][c] = Targets(r, c)]
  /\ UNCHANGED <<round, unread, memory>>

\* AlltoAllDispatch: the core writes its share of the tokens for an expert.
SendTokens(r, c, e) ==
  /\ pc[r][c] = "send" /\ e \in todo[r][c]
  /\ window' = [window EXCEPT ![r][e][half[r][c]][c] = round[r][c]]
  /\ todo' = [todo EXCEPT ![r][c] = @ \ {e}]
  /\ UNCHANGED <<pc, round, registers, unread, states, flag, told, sendCounts>>

FinishSend(r, c) ==
  /\ pc[r][c] = "send" /\ todo[r][c] = {}
  /\ Goto(r, c, "sync1")
  /\ UNCHANGED <<round, registers, todo, unread, states, memory>>

\* Mutant of Sync1: a core announces before the others have sent.
Sync1Open(r) ==
  /\ \E c \in Cores :
       /\ pc[r][c] = "sync1" /\ Goto(r, c, "status")
       /\ todo' = [todo EXCEPT ![r][c] = Slice(ExpertNum, C, c)]
  /\ UNCHANGED <<round, registers, unread, states, memory>>

\* SetStatus: when all cores of the rank have sent, each announces the counts
\* of its slice of the experts.
Sync1(r) ==
  /\ Barrier(r, "sync1", "status")
  /\ todo' = [todo EXCEPT ![r] = [c \in Cores |-> Slice(ExpertNum, C, c)]]
  /\ UNCHANGED <<round, registers, unread, states, memory>>

\* Mutant of WriteStatus: the flag is always raised.
WriteStatusRaised(r, c, e) ==
  /\ pc[r][c] = "status" /\ e \in todo[r][c]
  /\ flag' = [flag EXCEPT ![r][e][half[r][c]] = 1]
  /\ told' = [told EXCEPT ![r][e][half[r][c]] = round[r][c]]
  /\ todo' = [todo EXCEPT ![r][c] = @ \ {e}]
  /\ UNCHANGED <<pc, round, registers, unread, states, window, sendCounts>>

WriteStatus(r, c, e) ==
  /\ pc[r][c] = "status" /\ e \in todo[r][c]
  /\ flag' = [flag EXCEPT ![r][e][half[r][c]] = target[r][c]]
  /\ told' = [told EXCEPT ![r][e][half[r][c]] = round[r][c]]
  /\ todo' = [todo EXCEPT ![r][c] = @ \ {e}]
  /\ UNCHANGED <<pc, round, registers, unread, states, window, sendCounts>>

FinishStatus(r, c) ==
  /\ pc[r][c] = "status" /\ todo[r][c] = {}
  /\ Goto(r, c, "wait")
  /\ UNCHANGED <<round, registers, todo, unread, states, memory>>

\* WaitDispatch: the sum of the flags of the core's slice of the status words
\* is what it is when each of them is the target.
Poll(r, c) ==
  LET slice == InboxSlice(r, c)
      raised == {b \in slice : flag[b[1]][b[2]][half[r][c]] = 1}
  IN
  /\ pc[r][c] = "wait"
  /\ Cardinality(raised) = target[r][c] * Cardinality(slice)
  /\ Goto(r, c, "sync2")
  /\ UNCHANGED <<round, registers, todo, unread, states, memory>>

\* Mutant of Sync2: without the barrier each core goes on by itself.
Sync2Open(r) ==
  /\ \E c \in Cores : pc[r][c] = "sync2" /\ Goto(r, c, "counts")
  /\ UNCHANGED <<round, registers, todo, unread, states, memory>>

Sync2(r) ==
  /\ Barrier(r, "sync2", "counts")
  /\ UNCHANGED <<round, registers, todo, unread, states, memory>>

\* LocalWindowCopy: GetCumSum reads the counts of every status word, then the
\* core copies the blocks of its slice.  A shared expert's rank skips the ones
\* of its kind.
ReadCounts(r, c) ==
  /\ pc[r][c] = "counts"
  /\ Goto(r, c, "copy")
  /\ unread' = [unread EXCEPT ![r][c] =
                  {b \in InboxSlice(r, c) : r < Shared => b[1] >= Shared}]
  /\ UNCHANGED <<round, registers, todo, states, memory>>

CopyBlock(r, c, b) ==
  /\ pc[r][c] = "copy" /\ b \in unread[r][c]
  /\ unread' = [unread EXCEPT ![r][c] = @ \ {b}]
  /\ UNCHANGED <<pc, round, registers, todo, states, memory>>

\* Cores without a slice return before they write counts.
FinishCopy(r, c) ==
  /\ pc[r][c] = "copy" /\ unread[r][c] = {}
  /\ sendCounts' = IF InboxSlice(r, c) = {} THEN sendCounts
                   ELSE [sendCounts EXCEPT ![r][c] = round[r][c]]
  /\ Goto(r, c, IF r >= Shared /\ M > 1 THEN "sync3" ELSE "totals")
  /\ UNCHANGED <<round, registers, todo, unread, states, window, flag, told>>

\* Mutant of Sync3: without the barrier each core goes on by itself.
Sync3Open(r) ==
  /\ \E c \in Cores : pc[r][c] = "sync3" /\ Goto(r, c, "totals")
  /\ UNCHANGED <<round, registers, todo, unread, states, memory>>

\* UpdateTokenNumsOut: with several experts on the rank the last core needs the
\* counts of all cores.
Sync3(r) ==
  /\ Barrier(r, "sync3", "totals")
  /\ UNCHANGED <<round, registers, todo, unread, states, memory>>

Finish(r, c) ==
  /\ pc[r][c] = "totals"
  /\ Goto(r, c, "idle")
  /\ round' = [round EXCEPT ![r][c] = @ + 1]
  /\ UNCHANGED <<registers, todo, unread, states, memory>>

-------------------------------------------------------------------------------
Step(r, c) ==
  \/ Start(r, c)
  \/ \E e \in Experts : SendTokens(r, c, e)
  \/ FinishSend(r, c)
  \/ \E e \in Experts : WriteStatus(r, c, e)
  \/ FinishStatus(r, c)
  \/ Poll(r, c)
  \/ ReadCounts(r, c)
  \/ \E b \in Ranks \X Experts : CopyBlock(r, c, b)
  \/ FinishCopy(r, c)
  \/ Finish(r, c)

SyncAll(r) == Sync1(r) \/ Sync2(r) \/ Sync3(r)

Next == \E r \in Ranks : SyncAll(r) \/ \E c \in Cores : Step(r, c)

\* Cores are hardware units of their own: a core that can move moves, and a
\* barrier all of whose cores have arrived opens.
Fairness == \A r \in Ranks : /\ WF_vars(SyncAll(r))
                             /\ \A c \in Cores : WF_vars(Step(r, c))

Spec == Init /\ [][Next]_vars /\ Fairness

-------------------------------------------------------------------------------
\* A core reads counts only when the status words of its rank all hold those of
\* its own round: none is left from the half's last use, although flags repeat
\* every four rounds and the core itself has polled only its slice of them.
CountsFresh ==
  \A r \in Ranks, c \in Cores : pc[r][c] = "counts" =>
    \A b \in Inbox(r) : told[b[1]][b[2]][half[r][c]] = round[r][c]

\* Until a block has been copied out it holds the tokens of the copier's round,
\* complete: every core of its sender has delivered its share, and none has
\* begun to overwrite it, although nothing tells a sender that it may.
TokensIntact ==
  \A r \in Ranks, c \in Cores : pc[r][c] = "copy" =>
    \A b \in unread[r][c], d \in Cores : b[2] \in Targets(b[1], d) =>
      window[b[1]][b[2]][half[r][c]][d] = round[r][c]

\* The last core adds up counts that every core with a slice has written in
\* this round, and that no core has overwritten in the next one.
TotalsComplete ==
  \A r \in Ranks, c \in Cores : pc[r][c] = "totals" /\ r >= Shared /\ M > 1 =>
    \A d \in Cores : InboxSlice(r, d) # {} => sendCounts[r][d] = round[r][c]

\* The exchange of rounds the kernel implements: a rank has contributed to a
\* round when its cores may announce it, and has received one when its cores
\* may read it.
Contributed(r) ==
  round[r][0] + (IF pc[r][0] \in {"idle", "send", "sync1"} THEN 0 ELSE 1)
Received(r) ==
  round[r][0] + (IF pc[r][0] \in {"counts", "copy", "sync3", "totals"}
                 THEN 1 ELSE 0)

Exchange == INSTANCE AllToAll WITH
  sent <- [r \in Ranks |-> Contributed(r)],
  got <- [r \in Ranks |-> Received(r)]

\* The windows, flags and barriers implement the all-to-all exchange.
ImplementsExchange == Exchange!Spec

\* No rank is ever more than one round ahead of another, although a receiver
\* never acknowledges: two halves of a window are therefore enough.
RanksInStep == Exchange!InStep

\* Every core of every rank completes every round: no poll waits for ever, and
\* no barrier for a core that has returned early.
AllRoundsFinish == <>(\A r \in Ranks, c \in Cores : round[r][c] = MaxRound)
===============================================================================
