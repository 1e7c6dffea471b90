-------------------------------- MODULE MoeSplit -------------------------------
(***************************************************************************)
(* SplitToCore of moe_distribute_dispatch.h: how total items, numbered     *)
(* from 0, are divided among cores, numbered from 0.  Every core gets the  *)
(* quotient, the first ones one item more until the remainder is used up.  *)
(***************************************************************************)
EXTENDS Integers

SliceStart(total, cores, i) ==
  LET quota == total \div cores
      extra == total % cores
  IN quota * i + (IF i < extra THEN i ELSE extra)

SliceSize(total, cores, i) ==
  total \div cores + (IF i < total % cores THEN 1 ELSE 0)

\* startTokenId .. endTokenId - 1 of core i.
Slice(total, cores, i) ==
  {k \in 0 .. total - 1 : /\ SliceStart(total, cores, i) <= k
                          /\ k < SliceStart(total, cores, i)
                                   + SliceSize(total, cores, i)}

(***************************************************************************)
(* LocalWindowCopy of moe_distribute_combine.h: tokens are divided in the  *)
(* same way, unless there are more cores than tokens.  Then the row of a   *)
(* token, of units units, is divided among as many cores as each token can *)
(* have, the last of them taking what is left; the cores beyond have none. *)
(***************************************************************************)
PartOf(units, parts, p) ==
  LET len == units \div parts
  IN {u \in 0 .. units - 1 : /\ p * len <= u
                             /\ p < parts - 1 => u < (p + 1) * len}

\* The tokens and units of core i.
RowShare(total, cores, units, i) ==
  IF total < cores
  THEN LET parts == cores \div total
       IN {t \in 0 .. total - 1 : t = i \div parts} \X PartOf(units, parts, i % parts)
  ELSE Slice(total, cores, i) \X (0 .. units - 1)
===============================================================================
