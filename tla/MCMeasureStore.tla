------------------------------ MODULE MCMeasureStore ------------------------------
(* Three items: two that the source alone decides, of which the older         *)
(* extraction finds one, and one that needs hardware figures.                 *)
EXTENDS MeasureStore

MCComputed ==
  [in \in Inputs |->
     [i \in Items |->
        CASE i = "static" /\ in = "old" -> 3
          [] i = "static" /\ in = "new" -> 4
          [] i = "found" /\ in = "new" -> 4
          [] i = "hardware" /\ in = Missing -> 3
          [] OTHER -> None]]
MCOriginal == [i \in Items |-> [score |-> 5, source |-> "placeholder"]]
=============================================================================
