------------------------------- MODULE MoeCombine ------------------------------
(***************************************************************************)
(* moe_distribute_combine.h, the way back of the tokens, composed with the *)
(* dispatch kernel it is used with: every core runs the two in turn, even  *)
(* rounds being invocations of dispatch and odd ones of combine.  Both     *)
(* keep the half of the windows in the same word, which each toggles, so   *)
(* as the two alternate dispatch always has half 0 and combine half 1,     *)
(* with flags of their own.                                                *)
(*                                                                         *)
(* Combine divides the ranks among the cores: a core sends the results     *)
(* that belong to its ranks and raises its rank's flag there, without a    *)
(* barrier between the two and without one at the end.  What dispatch does *)
(* without, combine needs: that the cores of a rank begin an invocation    *)
(* only when all of them have ended the last one, as kernels of one stream *)
(* are launched.                                                           *)
(***************************************************************************)
EXTENDS MoeDispatch

Dispatching(r, c) == round[r][c] % 2 = 0
Combining(r, c) == round[r][c] % 2 = 1

\* Mutant: cores go on to the next kernel by themselves.
LaunchedAlone(r, c) == pc[r][c] \in Labels

\* A kernel of a stream is launched when the one before it has ended.
Launched(r, c) == pc[r][c] = "idle" => \A d \in Cores : round[r][d] >= round[r][c]

\* SplitCoreCal: the ranks that core c serves and whose flags it polls.
Peers(c) == Slice(R, C, c)

\* A status word of combine is the one dispatch has for the first expert.
FirstExpert(d) == IF d < Shared THEN d ELSE Shared + (d - Shared) * M

\* The blocks of a window that results for rank d go to.  A shared expert's rank
\* has kept its tokens, as if the shared ranks had sent them to it, and puts
\* their results where results from those ranks would be.
BlocksFor(r, d) ==
  {b \in Ranks \X Experts :
     IF r < Shared /\ d < Shared THEN b[1] = d /\ Home(b[2]) = r
     ELSE b[1] = r /\ Home(b[2]) = d}

\* Init, InitStatusTargetSum, SplitCoreCal.
CombineStart(r, c) ==
  LET h == dataState[r][c] IN
  /\ pc[r][c] = "idle" /\ round[r][c] < MaxRound
  /\ Goto(r, c, "send")
  /\ half' = [half EXCEPT ![r][c] = h]
  /\ dataState' = [dataState EXCEPT ![r][c] = 1 - h]
  /\ target' = [target EXCEPT ![r][c] = 1 - selfState[r][c][h]]
  /\ selfState' = [selfState EXCEPT ![r][c][h] = 1 - @]
  /\ todo' = [todo EXCEPT ![r][c] = Peers(c)]
  /\ UNCHANGED <<round, unread, memory>>

\* ExpertAlltoAllDispatchCopyAdd: the results of all local experts for rank d.
SendResults(r, c, d) ==
  LET h == half[r][c] IN
  /\ pc[r][c] = "send" /\ d \in todo[r][c]
  /\ window' = [s \in Ranks |-> [e \in Experts |->
       IF <<s, e>> \in BlocksFor(r, d)
       THEN [window[s][e] EXCEPT ![h][c] = round[r][c]] ELSE window[s][e]]]
  /\ todo' = [todo EXCEPT ![r][c] = @ \ {d}]
  /\ UNCHANGED <<pc, round, registers, unread, states, flag, told, sendCounts>>

\* The pipe barrier at the start of SetStatus.
FinishResults(r, c) ==
  /\ pc[r][c] = "send" /\ todo[r][c] = {}
  /\ Goto(r, c, "status")
  /\ todo' = [todo EXCEPT ![r][c] = Peers(c)]
  /\ UNCHANGED <<round, registers, unread, states, memory>>

\* Mutant: the flag is always raised.
RaiseFlagHigh(r, c, d) ==
  LET e == FirstExpert(d) IN
  /\ pc[r][c] = "status" /\ d \in todo[r][c]
  /\ flag' = [flag EXCEPT ![r][e][half[r][c]] = 1]
  /\ told' = [told EXCEPT ![r][e][half[r][c]] = round[r][c]]
  /\ todo' = [todo EXCEPT ![r][c] = @ \ {d}]
  /\ UNCHANGED <<pc, round, registers, unread, states, window, sendCounts>>

\* SetStatus.
RaiseFlag(r, c, d) ==
  LET e == FirstExpert(d) IN
  /\ pc[r][c] = "status" /\ d \in todo[r][c]
  /\ flag' = [flag EXCEPT ![r][e][half[r][c]] = target[r][c]]
  /\ told' = [told EXCEPT ![r][e][half[r][c]] = round[r][c]]
  /\ todo' = [todo EXCEPT ![r][c] = @ \ {d}]
  /\ UNCHANGED <<pc, round, registers, unread, states, window, sendCounts>>

\* WaitDispatch: a core without ranks goes straight to the barrier.
PollFlags(r, c) ==
  LET raised == {s \in Peers(c) : flag[s][FirstExpert(r)][half[r][c]] = 1} IN
  /\ pc[r][c] = "wait"
  /\ Cardinality(raised) = target[r][c] * Cardinality(Peers(c))
  /\ Goto(r, c, "sync2")
  /\ UNCHANGED <<round, registers, todo, unread, states, memory>>

\* Mutant of CombineSync: a core reads as soon as its own flags are there.
CombineSyncOpen(r) ==
  /\ \E c \in Cores :
       /\ pc[r][c] = "sync2" /\ Combining(r, c) /\ Goto(r, c, "copy")
       /\ unread' = [unread EXCEPT ![r][c] = Inbox(r)]
  /\ UNCHANGED <<round, registers, todo, states, memory>>

\* The SyncAll of WaitDispatch: then every core may read the whole window.
CombineSync(r) ==
  /\ \A c \in Cores : Combining(r, c)
  /\ Barrier(r, "sync2", "copy")
  /\ unread' = [unread EXCEPT ![r] = [c \in Cores |-> Inbox(r)]]
  /\ UNCHANGED <<round, registers, todo, states, memory>>

\* LocalWindowCopy: a core reads what its tokens need, of any block and in the
\* order of its tokens; until it is done no block is done with.
FinishGather(r, c) ==
  /\ pc[r][c] = "copy"
  /\ Goto(r, c, "idle")
  /\ unread' = [unread EXCEPT ![r][c] = {}]
  /\ round' = [round EXCEPT ![r][c] = @ + 1]
  /\ UNCHANGED <<registers, todo, states, memory>>

-------------------------------------------------------------------------------
CombineStep(r, c) ==
  /\ Combining(r, c) /\ Launched(r, c)
  /\ \/ CombineStart(r, c)
     \/ \E d \in Ranks : SendResults(r, c, d)
     \/ FinishResults(r, c)
     \/ \E d \in Ranks : RaiseFlag(r, c, d)
     \/ FinishStatus(r, c)
     \/ PollFlags(r, c)
     \/ FinishGather(r, c)

DispatchStep(r, c) == Dispatching(r, c) /\ Launched(r, c) /\ Step(r, c)

PairSync(r) ==
  \/ CombineSync(r)
  \/ (\A c \in Cores : Dispatching(r, c)) /\ SyncAll(r)

PairNext ==
  \E r \in Ranks :
    PairSync(r) \/ \E c \in Cores : DispatchStep(r, c) \/ CombineStep(r, c)

\* As for dispatch: cores run, and barriers that all have reached open.
PairFairness ==
  \A r \in Ranks :
    /\ WF_vars(PairSync(r))
    /\ \A c \in Cores : WF_vars(DispatchStep(r, c) \/ CombineStep(r, c))

PairSpec == Init /\ [][PairNext]_vars /\ PairFairness

-------------------------------------------------------------------------------
\* The core whose data a block holds in the round of a kernel.
Writers(r, c, b) ==
  IF Dispatching(r, c) THEN {d \in Cores : b[2] \in Targets(b[1], d)}
  ELSE IF r < Shared /\ b[1] < Shared THEN {d \in Cores : b[1] \in Peers(d)}
  ELSE {d \in Cores : r \in Peers(d)}

\* Whichever kernel a core runs, the blocks it has still to read hold what their
\* writers sent in this very invocation: all of it, although combine announces
\* without a barrier, and nothing later, although nobody asks whether it is done.
BlocksIntact ==
  \A r \in Ranks, c \in Cores : pc[r][c] = "copy" =>
    \A b \in unread[r][c] : \A d \in Writers(r, c, b) :
      window[b[1]][b[2]][half[r][c]][d] = round[r][c]

\* The rounds a core and a rank have begun to announce, and those a rank may read.
Begun(r, c) ==
  round[r][c] +
    (IF \/ pc[r][c] \in {"idle", "send", "sync1"}
        \/ pc[r][c] = "status" /\ Combining(r, c) /\ todo[r][c] = Peers(c)
     THEN 0 ELSE 1)
Joined(r) == CHOOSE n \in {Begun(r, c) : c \in Cores} :
               \A c \in Cores : Begun(r, c) <= n
Gathered(r) ==
  round[r][0] + (IF pc[r][0] \in {"counts", "copy", "sync3", "totals"}
                 THEN 1 ELSE 0)

Pairing == INSTANCE AllToAll WITH
  sent <- [r \in Ranks |-> Joined(r)],
  got <- [r \in Ranks |-> Gathered(r)]

\* The two kernels in turn implement one sequence of all-to-all exchanges: each
\* delivers all of its round before the other's next round can begin.
PairImplementsExchange == Pairing!Spec

\* Launched in turn, neither kernel waits for ever: for a flag that has been turned
\* back before its reader has seen it, for a sum of flags that words nobody raises
\* keep from being exact, or at a barrier for a core that has gone on to the other
\* kernel.
AllInvocationsFinish ==
  <>(\A r \in Ranks, c \in Cores : round[r][c] = MaxRound)
===============================================================================
