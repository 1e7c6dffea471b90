--------------------------- MODULE MCFlashPreload ---------------------------
EXTENDS FlashPreload

\* Tasks not split: two batches of two heads and their sub-ranges, an empty
\* batch before, between and after; tasks split in two: one task, two groups.
Whole2(lens, before, range, continuous) ==
  [batch |-> Len(lens), heads |-> 2, split |-> 0, before |-> before, range |-> range,
   continuous |-> continuous, lens |-> [b \in 0 .. Len(lens) - 1 |-> lens[b + 1]]]
Split2(len, continuous) ==
  [batch |-> 1, heads |-> 1, split |-> 2, before |-> 0, range |-> 0,
   continuous |-> continuous, lens |-> [b \in {0} |-> len]]

MCInputs ==
  {Whole2(lens, 0, 4, c) : lens \in {<<3, 5>>, <<0, 4>>, <<2, 0>>}, c \in BOOLEAN}
  \cup {Whole2(<<3, 0, 1>>, 1, 5, c) : c \in BOOLEAN}
  \cup {Whole2(<<7>>, 1, 1, FALSE), Whole2(<<0>>, 0, 2, TRUE)}
  \cup {Split2(len, c) : len \in {0, 2, 4, 7}, c \in BOOLEAN}
=============================================================================
