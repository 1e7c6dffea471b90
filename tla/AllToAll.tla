-------------------------------- MODULE AllToAll -------------------------------
(***************************************************************************)
(* What an all-to-all exchange promises, without buffers, flags or cores:  *)
(* rounds are numbered, a rank contributes to a round only when it has     *)
(* received the round before, and receives a round only when every rank    *)
(* has contributed to it.                                                  *)
(***************************************************************************)
EXTENDS Integers

CONSTANTS Ranks, MaxRound

VARIABLES
  sent,   \* sent[r]: rounds to which rank r has contributed
  got     \* got[r]: rounds rank r has received from every rank

vars == <<sent, got>>

TypeOK == sent \in [Ranks -> 0 .. MaxRound] /\ got \in [Ranks -> 0 .. MaxRound]

Init == sent = [r \in Ranks |-> 0] /\ got = [r \in Ranks |-> 0]

Send(r) ==
  /\ sent[r] = got[r] /\ sent[r] < MaxRound
  /\ sent' = [sent EXCEPT ![r] = @ + 1]
  /\ UNCHANGED got

Receive(r) ==
  /\ \A s \in Ranks : got[r] < sent[s]
  /\ got' = [got EXCEPT ![r] = @ + 1]
  /\ UNCHANGED sent

Next == \E r \in Ranks : Send(r) \/ Receive(r)

Spec == Init /\ [][Next]_vars /\ \A r \in Ranks : WF_vars(Send(r) \/ Receive(r))

\* A rank is at most one round ahead of what any other rank has contributed.
InStep == \A r, s \in Ranks : sent[r] <= sent[s] + 1 /\ got[r] <= sent[s]
===============================================================================
