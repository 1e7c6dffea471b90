------------------------------ MODULE ScoreMath ------------------------------
(***************************************************************************)
(* The numbers both scorers work with.  While it is computed, a score of s *)
(* points out of 10 is the integer Point * s, in hundredths of what is     *)
(* reported in the end, and a division rounds down.  A share or a rate is  *)
(* a whole percentage, one of which is worth Percent.  A field of a form   *)
(* or of a file is a number, Blank (the string "") or Missing (null, or no *)
(* such key); a score is a number, None (null), or Raises when the program *)
(* throws instead.                                                         *)
(***************************************************************************)
EXTENDS Integers, FiniteSets, FiniteSetsExt

CONSTANTS Missing, Blank, None, Raises

ASSUME MarkersDiffer ==
  /\ Missing # Blank
  /\ None # Raises
  /\ {Missing, Blank, None, Raises} \cap Int = {}

Point == 10000

\* Ten points.
Full == 100000

\* A hundredth of Full, what a percent is worth.
Percent == 1000

\* Ten points in the hundredths that are reported.
FullReported == 1000

Clamp(x, lo, hi) == Max({lo, Min({hi, x})})

Clamp10(x) == Clamp(x, 0, Full)

\* Ten points halved n times.
Halves ==
  <<100000, 50000, 25000, 12500, 6250, 3125, 1562, 781, 390, 195, 97, 48, 24, 12, 6, 3, 1>>

Halved(n) == IF n < 17 THEN Halves[n + 1] ELSE 0

(***************************************************************************)
(* 10 * num / den, and 10 * (1 - num / den / (ref %)), clamped to 0..10.   *)
(***************************************************************************)
\* Mutant of Part: without the clamp.
PartLoose(num, den) == (Full * num) \div den

Part(num, den) == Clamp10((Full * num) \div den)

CostPart(num, den, ref) == Clamp10(Full - (100 * Full * num) \div (den * ref))

(***************************************************************************)
(* Logarithms are rounded down and do not grow beyond 2^16.                *)
(***************************************************************************)
Powers ==
  {2, 4, 8, 16, 32, 64, 128, 256, 512, 1024, 2048, 4096, 8192, 16384, 32768, 65536}

Log2(v) == Cardinality({q \in Powers : q <= v})

LnScore(val, vmin, vmax) ==
  IF val <= 0 \/ val <= vmin THEN Full
  ELSE IF val >= vmax THEN 0
  ELSE (Full * (Log2(vmax) - Log2(val))) \div (Log2(vmax) - Log2(vmin))

(***************************************************************************)
(* Weighted averages of a family of scores that leave out the Nones.       *)
(***************************************************************************)
Given(f) == {i \in DOMAIN f : f[i] # None}

WeightedMean(w, f) ==
  IF Given(f) = {} THEN None
  ELSE MapThenSumSet(LAMBDA i : w[i] * f[i], Given(f))
         \div MapThenSumSet(LAMBDA i : w[i], Given(f))

Mean(f) == WeightedMean([i \in DOMAIN f |-> 1], f)

(***************************************************************************)
(* wa and wb percent of two scores, or the one that is there.              *)
(***************************************************************************)
Blend(wa, a, wb, b) ==
  IF a = None THEN b
  ELSE IF b = None THEN a
  ELSE (wa * a + wb * b) \div 100
===============================================================================
