---------------------------- MODULE MoeDispatchInv ----------------------------
(***************************************************************************)
(* The inductive invariant of MoeDispatch.  It says what every word of     *)
(* memory and every register holds as a function of how far the core that  *)
(* writes it has come, and how far apart the ranks can be.                 *)
(***************************************************************************)
EXTENDS MoeDispatch

HalfOf(k) == k % 2
FlagOf(k) == 1 - ((k \div 2) % 2)

\* The last of the rounds 0 .. n - 1 that used half h; before the first one, the
\* round -2 or -1 that would have.
Last(h, n) == IF (n - 1) % 2 = h THEN n - 1 ELSE n - 2

\* Rounds core c of rank r may announce, and rounds it may read.
Announcing(r, c) ==
  round[r][c] + (IF pc[r][c] \in {"idle", "send", "sync1"} THEN 0 ELSE 1)
Reading(r, c) ==
  round[r][c] + (IF pc[r][c] \in {"counts", "copy", "sync3", "totals"}
                 THEN 1 ELSE 0)

\* Rounds core c of rank s has begun, has sent its tokens for expert e in, has
\* announced expert e in, has written its counts in, and has passed Sync3 in.
Started(s, c) == round[s][c] + (IF pc[s][c] = "idle" THEN 0 ELSE 1)
Delivered(s, c, e) ==
  round[s][c] + (IF \/ pc[s][c] = "idle"
                    \/ pc[s][c] = "send" /\ e \in todo[s][c]
                 THEN 0 ELSE 1)
Announced(s, c, e) ==
  round[s][c] + (IF \/ pc[s][c] \in {"idle", "send", "sync1"}
                    \/ pc[s][c] = "status" /\ e \in todo[s][c]
                 THEN 0 ELSE 1)
Counted(r, c) ==
  round[r][c] + (IF pc[r][c] \in {"sync3", "totals"} THEN 1 ELSE 0)
Totalling(r, c) == round[r][c] + (IF pc[r][c] = "totals" THEN 1 ELSE 0)

\* The experts core c announces.
Share(c) == Slice(ExpertNum, C, c)

\* A core is in a round only while rounds are left.
Bounded ==
  \A r \in Ranks, c \in Cores : pc[r][c] # "idle" => round[r][c] < MaxRound

\* The barriers keep the cores of a rank together.
Lockstep ==
  \A r \in Ranks, c, d \in Cores :
    /\ Announcing(r, c) = Announcing(r, d)
    /\ Reading(r, c) = Reading(r, d)
    /\ r >= Shared /\ M > 1 => Totalling(r, c) = Totalling(r, d)

\* The words a core keeps for its next round, and its copies of them.
Registers ==
  \A r \in Ranks, c \in Cores :
    /\ dataState[r][c] = HalfOf(Started(r, c))
    /\ \A h \in Halves : selfState[r][c][h] = FlagOf(Last(h, Started(r, c)))
    /\ pc[r][c] # "idle" => /\ half[r][c] = HalfOf(round[r][c])
                            /\ target[r][c] = FlagOf(round[r][c])

\* Init, as both kernels have it: take this round's half and flag, and turn them.
Switches(r, c) ==
  LET h == dataState[r][c] IN
  /\ pc[r][c] = "idle" /\ Goto(r, c, "send") /\ round' = round
  /\ half' = [half EXCEPT ![r][c] = h]
  /\ dataState' = [dataState EXCEPT ![r][c] = 1 - h]
  /\ target' = [target EXCEPT ![r][c] = 1 - selfState[r][c][h]]
  /\ selfState' = [selfState EXCEPT ![r][c][h] = 1 - @]

WorkLists ==
  \A r \in Ranks, c \in Cores :
    /\ pc[r][c] = "status" => todo[r][c] \subseteq Share(c)
    /\ pc[r][c] = "copy" => unread[r][c] \subseteq InboxSlice(r, c)

\* Every word of a window and every status word holds what the one core that
\* writes it wrote last in that half.
Windows ==
  \A s \in Ranks, c \in Cores, h \in Halves : \A e \in Targets(s, c) :
    window[s][e][h][c] = Last(h, Delivered(s, c, e))

StatusWords ==
  \A s \in Ranks, c \in Cores, h \in Halves : \A e \in Share(c) :
    /\ told[s][e][h] = Last(h, Announced(s, c, e))
    /\ flag[s][e][h] = FlagOf(told[s][e][h])

CountWords ==
  \A r \in Ranks, c \in Cores :
    InboxSlice(r, c) # {} => sendCounts[r][c] = Counted(r, c) - 1

\* A rank reads a round, and one of its cores waits at Sync2, only when what it
\* has polled has been announced.
Ahead ==
  \A r, s \in Ranks, d \in Cores : \A e \in Share(d) :
    Home(e) = r => \A c \in Cores : Reading(r, c) <= Announced(s, d, e)

Polled ==
  \A r \in Ranks, c \in Cores : pc[r][c] = "sync2" =>
    \A b \in InboxSlice(r, c), d \in Cores :
      b[2] \in Share(d) => round[r][c] < Announced(b[1], d, b[2])

\* The inductive invariant: together these hold initially and after every step,
\* and imply CountsFresh, TokensIntact and TotalsComplete.
IInv ==
  /\ TypeOK /\ Bounded /\ Lockstep /\ Registers /\ WorkLists
  /\ Windows /\ StatusWords /\ CountWords
  /\ Ahead /\ Polled
===============================================================================
