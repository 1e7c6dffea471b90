----------------------------- MODULE MoeCombineInv -----------------------------
(***************************************************************************)
(* The inductive invariant of the two kernels in turn, and what one step   *)
(* does to one core.                                                       *)
(*                                                                         *)
(* As the rounds of the two kernels alternate, dispatch uses half 0 of the *)
(* windows and status words only, and combine half 1.  Each half is written *)
(* in every second round, so that a word must not be found two rounds old  *)
(* nor two rounds new.  Delivered and Announced of MoeDispatchInv count    *)
(* what has been done for an expert in the rounds of dispatch, and for a   *)
(* rank in those of combine.                                               *)
(***************************************************************************)
EXTENDS MoeCombine, MoeDispatchInv

\* A core in an invocation waits for no other's last one: that has ended.
Launches ==
  \A r \in Ranks, c, d \in Cores :
    pc[r][c] # "idle" => round[r][c] <= round[r][d]

\* SyncAll after the flags: in both kernels the cores of a rank begin to read
\* together.
ReadTogether ==
  \A r \in Ranks, c, d \in Cores : Reading(r, c) = Reading(r, d)

\* SyncAll before the flags, which only dispatch has: what one core announces all
\* have sent.
SentTogether ==
  \A r \in Ranks, c, d \in Cores :
    Dispatching(r, c) /\ pc[r][c] \notin {"idle", "send", "sync1"}
      => round[r][c] < Announcing(r, d)

\* Places and work lists of each kernel.
PairLists ==
  \A r \in Ranks, c \in Cores :
    /\ Dispatching(r, c) =>
         /\ pc[r][c] = "status" => todo[r][c] \subseteq Share(c)
         /\ pc[r][c] = "copy" => unread[r][c] \subseteq InboxSlice(r, c)
    /\ Combining(r, c) =>
         /\ pc[r][c] \notin {"sync1", "counts", "sync3", "totals"}
         /\ pc[r][c] \in {"send", "status"} => todo[r][c] \subseteq Peers(c)
         /\ pc[r][c] = "copy" => unread[r][c] \subseteq Inbox(r)

\* What the words of the windows hold: in half 0 what dispatch wrote last, in half
\* 1 what combine did.
TokenWords ==
  \A s \in Ranks, c \in Cores : \A e \in Targets(s, c) :
    window[s][e][0][c] = Last(0, Delivered(s, c, e))
ResultWords ==
  \A r \in Ranks, c \in Cores : \A q \in Peers(c) : \A b \in BlocksFor(r, q) :
    window[b[1]][b[2]][1][c] = Last(1, Delivered(r, c, q))

\* And what the status words hold.
CountFlags ==
  \A s \in Ranks, c \in Cores : \A e \in Share(c) :
    /\ told[s][e][0] = Last(0, Announced(s, c, e))
    /\ flag[s][e][0] = FlagOf(told[s][e][0])
ResultFlags ==
  \A r \in Ranks, c \in Cores : \A q \in Peers(c) :
    /\ told[r][FirstExpert(q)][1] = Last(1, Announced(r, c, q))
    /\ flag[r][FirstExpert(q)][1] = FlagOf(told[r][FirstExpert(q)][1])

\* Of either kernel a rank has read only rounds that every rank had announced to
\* it: for dispatch its experts, for combine itself.
TokensAhead ==
  \A r, s \in Ranks, d \in Cores : \A e \in Share(d) :
    Home(e) = r =>
      \A c \in Cores : Last(0, Reading(r, c)) < Announced(s, d, e)
ResultsAhead ==
  \A r, s \in Ranks, d \in Cores : r \in Peers(d) =>
    \A c \in Cores : Last(1, Reading(r, c)) < Announced(s, d, r)

\* And a core that waits at the barrier after the flags has found what it polls.
PairPolled ==
  \A r \in Ranks, c \in Cores : pc[r][c] = "sync2" =>
    /\ Dispatching(r, c) =>
         \A b \in InboxSlice(r, c), d \in Cores :
           b[2] \in Share(d) => round[r][c] < Announced(b[1], d, b[2])
    /\ Combining(r, c) =>
         \A s \in Peers(c), d \in Cores :
           r \in Peers(d) => round[r][c] < Announced(s, d, r)

\* The inductive invariant of the pair: it implies CountsFresh and BlocksIntact.
PairInv ==
  /\ TypeOK /\ Bounded /\ Registers
  /\ Launches /\ ReadTogether /\ SentTogether /\ PairLists
  /\ TokenWords /\ ResultWords /\ CountFlags /\ ResultFlags
  /\ TokensAhead /\ ResultsAhead /\ PairPolled

-------------------------------------------------------------------------------
(***************************************************************************)
(* What a step of the pair does to core c of rank r.  Every step does one  *)
(* of these to every core, whichever core or rank it is a step of.         *)
(***************************************************************************)
Stays(r, c) ==
  /\ pc'[r][c] = pc[r][c] /\ round'[r][c] = round[r][c]
  /\ todo'[r][c] = todo[r][c] /\ unread'[r][c] \subseteq unread[r][c]

Begins(r, c) ==
  /\ pc[r][c] = "idle" /\ pc'[r][c] = "send"
  /\ round'[r][c] = round[r][c]
  /\ \A d \in Cores : round[r][c] <= round[r][d]
  /\ todo'[r][c] = IF Dispatching(r, c) THEN Targets(r, c) ELSE Peers(c)

\* It serves one of its work list.
Serves(r, c) ==
  /\ pc[r][c] \in {"send", "status"} /\ pc'[r][c] = pc[r][c]
  /\ round'[r][c] = round[r][c]
  /\ \E x \in todo[r][c] : todo'[r][c] = todo[r][c] \ {x}

HasSent(r, c) ==
  /\ pc[r][c] = "send" /\ todo[r][c] = {}
  /\ round'[r][c] = round[r][c]
  /\ \/ Dispatching(r, c) /\ pc'[r][c] = "sync1" /\ todo'[r][c] = {}
     \/ Combining(r, c) /\ pc'[r][c] = "status" /\ todo'[r][c] = Peers(c)

\* The barrier of dispatch takes it to the announcements, with all others.
Announces(r, c) ==
  /\ Dispatching(r, c) /\ todo'[r][c] = Share(c)
  /\ round'[r][c] = round[r][c]
  /\ \A d \in Cores : pc[r][d] = "sync1" /\ pc'[r][d] = "status"
                      /\ round'[r][d] = round[r][d]

HasAnnounced(r, c) ==
  /\ pc[r][c] = "status" /\ todo[r][c] = {} /\ pc'[r][c] = "wait"
  /\ round'[r][c] = round[r][c] /\ todo'[r][c] = {}

Polls(r, c) ==
  /\ pc[r][c] = "wait" /\ pc'[r][c] = "sync2"
  /\ round'[r][c] = round[r][c] /\ todo'[r][c] = todo[r][c]
  /\ \/ Dispatching(r, c) /\ Poll(r, c)
     \/ Combining(r, c) /\ PollFlags(r, c)

\* The barrier of either kernel lets it read, with all others.
Receives(r, c) ==
  /\ round'[r][c] = round[r][c]
  /\ \A d \in Cores :
       /\ pc[r][d] = "sync2" /\ pc'[r][d] \in {"counts", "copy"}
       /\ round'[r][d] = round[r][d]
  /\ \/ Dispatching(r, c) /\ pc'[r][c] = "counts"
     \/ Combining(r, c) /\ pc'[r][c] = "copy" /\ unread'[r][c] = Inbox(r)

\* Dispatch goes on to copy and to total.
Reads(r, c) ==
  /\ Dispatching(r, c) /\ round'[r][c] = round[r][c]
  /\ \/ /\ pc[r][c] = "counts" /\ pc'[r][c] = "copy"
        /\ unread'[r][c] \subseteq InboxSlice(r, c)
     \/ pc[r][c] = "copy" /\ pc'[r][c] \in {"sync3", "totals"}
     \/ pc[r][c] = "sync3" /\ pc'[r][c] = "totals"

Ends(r, c) ==
  /\ pc[r][c] = (IF Dispatching(r, c) THEN "totals" ELSE "copy")
  /\ pc'[r][c] = "idle" /\ round'[r][c] = round[r][c] + 1

Moves(r, c) ==
  \/ Stays(r, c) \/ Begins(r, c) \/ Serves(r, c) \/ HasSent(r, c)
  \/ Announces(r, c) \/ HasAnnounced(r, c) \/ Polls(r, c) \/ Receives(r, c)
  \/ Reads(r, c) \/ Ends(r, c)

\* A step is one of a single rank.
OthersStay(r) ==
  \A s \in Ranks \ {r} :
    pc'[s] = pc[s] /\ round'[s] = round[s] /\ todo'[s] = todo[s]

\* What Joined chooses: a rank has joined the round it reads next, or is there.
Joins ==
  \A r \in Ranks :
    /\ Joined(r) \in {Reading(r, 0), Reading(r, 0) + 1}
    /\ \A c \in Cores : Begun(r, c) <= Joined(r)
    /\ \E c \in Cores : Joined(r) = Begun(r, c)
===============================================================================
