------------------------------ MODULE MoeLayoutInv -----------------------------
(***************************************************************************)
(* The inductive invariant of MoeLayout.  Where a token goes and what a    *)
(* word says are fixed by the routing: a memory holds exactly what the     *)
(* cores that have come past the writing of it were to write there.        *)
(***************************************************************************)
EXTENDS MoeLayout

\* The sender and the expert of a status word of rank r.
WordSender(r, n) == IF r < Shared THEN n ELSE n % R
WordExpert(r, n) ==
  IF r < Shared THEN r ELSE Shared + (r - Shared) * M + n \div R

\* A word of a shared expert's rank that stands for the rank's own tokens.
Own(r, n) == r < Shared /\ n < Shared

\* The rows each word of rank r stands for, and the rows before those of word n.
Counts(r) ==
  [n \in 0 .. InboxSize(r) - 1 |->
     IF r < Shared THEN SharedCount(n, r)
     ELSE PicksBefore(WordSender(r, n), WordExpert(r, n) - Shared, BS * K)]
AddUp(f, n) == MapThenSumSet(LAMBDA j : f[j], 0 .. n - 1)
First(r, n) == AddUp(Counts(r), n)

\* The choice of expert e by rank s that has place k.
PickAt(s, e, k) ==
  CHOOSE i \in Picks : expertIds[s][i] = e /\ PicksBefore(s, e, i) = k

\* The token that belongs to place k of word n, unless the rank keeps its own.
TokenAt(r, n, k) ==
  LET s == WordSender(r, n)
  IN <<s, IF r < Shared THEN SharedBefore(s, r) + k
          ELSE PickAt(s, WordExpert(r, n) - Shared, k) \div K>>

\* What the rows of word n are to hold.
RowsAt(r, n) ==
  {<<First(r, n) + k, TokenAt(r, n, k)>> : k \in 0 .. Counts(r)[n] - 1}

-------------------------------------------------------------------------------
(* What a core writes, whenever it does. *)

SentFrom(r, c, d) == MoeSent(r, c, d) \cup SharedSent(r, c, d)
PlacesFrom(r, c) == {<<i, PicksBefore(r, expertIds[r][i], i)>> : i \in MoeShare(r, c)}
KeptBy(r, c) == {<<t, <<r, t>>>> : t \in IF r < Shared THEN SharedShare(c) ELSE {}}
RowsFrom(r, c) ==
  UNION {RowsAt(r, n) : n \in {m \in Slice(InboxSize(r), C, c) : ~Own(r, m)}}
SumsFrom(r, c) == {<<n, First(r, n + 1)>> : n \in Slice(InboxSize(r), C, c)}

FinalNums(r) ==
  [m \in 0 .. M - 1 |->
     IF MultiExpert(r)
     THEN First(r, R * (m + 1)) - (IF tokenNumsType = 0 THEN 0 ELSE First(r, R * m))
     ELSE IF m = 0 THEN First(r, InboxSize(r)) ELSE Nothing]

\* What has been written by the cores that are not in these functions any more.
Beyond(labels) == {p \in Ranks \X Cores : pc[p[1]][p[2]] \notin labels}
BeyondAt(r, labels) == {c \in Cores : pc[r][c] \notin labels}

SentTo(d) == UNION {SentFrom(p[1], p[2], d) : p \in Beyond({"send"})}
ToldTo(d) == UNION {Told(p[1], p[2], d) : p \in Beyond({"send", "status"})}
PlacesOf(r) == UNION {PlacesFrom(r, c) : c \in BeyondAt(r, {"send"})}
RowsOf(r) ==
  (UNION {KeptBy(r, c) : c \in BeyondAt(r, {"send"})})
  \cup (UNION {RowsFrom(r, c) : c \in BeyondAt(r, {"send", "status", "copy"})})
SumsOf(r) == UNION {SumsFrom(r, c) : c \in BeyondAt(r, {"send", "status", "copy"})}

-------------------------------------------------------------------------------
\* Memory holds these writes and nothing else.
Holds(memory, writes) ==
  \A a \in DOMAIN memory :
    /\ memory[a] # Nothing => <<a, memory[a]>> \in writes
    /\ \A w \in writes : w[1] = a => memory[a] = w[2]

Arrived(r) == \A n \in 0 .. InboxSize(r) - 1 : status[r][n] # Nothing

\* A core writes its counts after all cores of its rank have sent, and copies
\* after all its rank's words have come.
Ordered ==
  \A r \in Ranks, c \in Cores :
    /\ pc[r][c] # "send" /\ pc[r][c] # "status" => AllPast(r, {"send"})
    /\ pc[r][c] \in {"totals", "done"} => AllPast(r, {"send", "status"}) /\ Arrived(r)

WindowsHold == \A d \in Ranks : Holds(window[d], SentTo(d))
WordsHold == \A d \in Ranks : Holds(status[d], ToldTo(d))
PlacesHold == \A r \in Ranks : Holds(expandIdx[r], PlacesOf(r))
RowsHold == \A r \in Ranks : Holds(expandXOut[r], RowsOf(r))
SumsHold == \A r \in Ranks : Holds(sendCounts[r], SumsOf(r))
TotalsHold ==
  \A r \in Ranks : expertTokenNums[r] =
    IF pc[r][LastCore(r)] = "done" THEN FinalNums(r)
    ELSE [m \in 0 .. M - 1 |-> Nothing]

IInv ==
  /\ TypeOK /\ Ordered /\ WindowsHold /\ WordsHold /\ PlacesHold /\ RowsHold
  /\ SumsHold /\ TotalsHold
===============================================================================
