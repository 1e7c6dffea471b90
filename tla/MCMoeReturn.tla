------------------------------ MODULE MCMoeReturn ------------------------------
(***************************************************************************)
(* Small instances of the round trip: routings that crowd some experts and *)
(* leave others without tokens, that use them all, and that name a token's *)
(* experts in falling order, alike or different on even and odd ranks.     *)
(***************************************************************************)
EXTENDS MoeReturn

MoeExpertNum == (R - Shared) * M
Spread == [i \in Picks |-> i % MoeExpertNum]
Crowded == [i \in Picks |-> i % K]
Reversed == [i \in Picks |-> MoeExpertNum - 1 - Spread[i]]

MCRoutings ==
  {[r \in Ranks |-> IF r % 2 = 0 THEN f ELSE g] :
     f, g \in {Spread, Crowded, Reversed}}
===============================================================================
