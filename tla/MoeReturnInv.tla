------------------------------ MODULE MoeReturnInv -----------------------------
(***************************************************************************)
(* The inductive invariant of MoeReturn, on top of that of MoeLayout.      *)
(* Which result comes back to which slot is fixed by the routing, too.     *)
(***************************************************************************)
EXTENDS MoeReturn, MoeLayoutInv

\* The shared expert of a token: the first ranks keep their own tokens.
SharedFor(r, t) == IF r < Shared THEN r ELSE SharedExpertOf(r, t)

\* The word of its rank that the token's result is sent back with.
SharedTurn(r, t) == IF r < Shared THEN SharedExpertOf(r, t) ELSE r

\* The slot and the result of a choice of rank r, and of a token by its shared
\* expert.
ChoiceBack(r, i) ==
  LET e == expertIds[r][i]
  IN <<(Shared * M + e) * BS + PicksBefore(r, e, i), <<<<r, i \div K>>, e + Shared>>>>
SharedBack(r, t) == <<SharedSlot(r, t), <<<<r, t>>, SharedFor(r, t)>>>>

\* What core c of rank r sends back to rank d.
ChoicesFrom(r, c, d) ==
  {ChoiceBack(d, i) :
     i \in {j \in Picks : RankOf(expertIds[d][j]) = r /\ d \in Slice(R, C, c)}}
SharedFrom(r, c, d) ==
  {SharedBack(d, t) :
     t \in {u \in Tokens :
              /\ Shared > 0 /\ SharedFor(d, u) = r
              /\ SharedTurn(d, u) \in Slice(R, C, c)}}
BackFrom(r, c, d) == ChoicesFrom(r, c, d) \cup SharedFrom(r, c, d)

\* What has come back to rank d, and all that ever does.
BackTo(d) ==
  UNION {BackFrom(p[1], p[2], d) :
           p \in {q \in Ranks \X Cores : stage[q[1]][q[2]] # "send"}}
AllBack(d) ==
  {ChoiceBack(d, i) : i \in Picks}
  \cup {SharedBack(d, t) : t \in {u \in Tokens : Shared > 0}}

\* What is added up for a token.
FinalSum(r, t) ==
  {<<<<r, t>>, expertIds[r][t * K + k] + Shared>> : k \in 0 .. K - 1}
  \cup (IF Shared > 0 THEN {<<<<r, t>>, SharedFor(r, t)>>} ELSE {})

Results == AllTokens \X Experts

ReturnTypeOK ==
  /\ stage \in [Ranks -> [Cores -> {"send", "gather", "done"}]]
  /\ returned \in [Ranks -> [Slots -> Results \cup {Nothing}]]
  /\ raised \in [Ranks -> SUBSET Ranks]
  /\ xOut \in [Ranks -> [Tokens -> [Units -> SUBSET Results]]]

\* A core sends back when its rank is done with dispatch ...
Begun == \A r \in Ranks, c \in Cores : stage[r][c] # "send" => Done(r)

\* ... and a flag says that the core has, which serves the flag's rank.
FlagsHold ==
  \A d \in Ranks : \A r \in raised[d] :
    \E c \in Cores : d \in Slice(R, C, c) /\ stage[r][c] # "send"

BackHolds == \A d \in Ranks : Holds(returned[d], BackTo(d))

OutHolds ==
  \A r \in Ranks : \A t \in Tokens, u \in Units :
    xOut[r][t][u] =
      IF \E c \in Cores : stage[r][c] = "done" /\ <<t, u>> \in OutShare(c)
      THEN FinalSum(r, t) ELSE {}

ReturnInv ==
  /\ IInv /\ ReturnTypeOK /\ Begun /\ FlagsHold /\ BackHolds /\ OutHolds
===============================================================================
