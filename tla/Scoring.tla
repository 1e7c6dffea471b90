------------------------------- MODULE Scoring -------------------------------
(***************************************************************************)
(* One sub-item of one architecture while its inputs are edited: the       *)
(* hardware form and the benchmark form of report.html, or files written   *)
(* by hand, feed the same inputs to two programs, score.py on the command  *)
(* line (Command) and measure_lib.js in the page (Browser).                *)
(***************************************************************************)
EXTENDS ScoreMath, ScoreItems, Sequences

CONSTANTS
  Ops,            \* benchmark operators
  Weight,         \* their weights times the weight of their pattern (4.b.2 leaves
                  \* the pattern out)
  MetricValues,   \* what extraction can find for one operator, by item
  Values,         \* the numbers a field may be given
  Scored,         \* the items under study
  MaxEdits        \* bound on the measurements set in one behaviour, by item

ASSUME ScoringAssumption ==
  /\ IsFiniteSet(Ops) /\ IsFiniteSet(Tiers)
  /\ Scored \subseteq Items
  /\ Weight \in [Ops -> Nat \ {0}]
  /\ MaxEdits \in [Items -> Nat]

(***************************************************************************)
(* A field is given a number, a history of versions is a sequence, and     *)
(* extraction counts.  Neither program checks that a number is in the      *)
(* range of its field.                                                     *)
(***************************************************************************)
Versions == [lines : Nat \cup {Missing}, delta_lines : Nat \cup {Missing}, time : Nat \cup {Missing}]

Metrics == [missing : BOOLEAN, L_total : Nat, lines : Nat, P_src : Nat, N_hint_used : Nat,
            N_enum_used : Nat, N_alive : Nat, f_cluster : Nat]

ASSUME FieldAssumption ==
  /\ \A i \in Items : MetricValues[i] \subseteq Metrics
  /\ \A f \in UNION {HwFields[i] \cup OpFields[i] \cup TierFields[i] : i \in Items} :
       /\ Values[f] \cap {Missing, Blank} = {}
       /\ Values[f] \subseteq IF f = "versions" THEN Seq(Versions) ELSE Nat

VARIABLES
  item,      \* the item under study
  metrics,   \* metrics[o]: what the source of operator o gave
  hw,        \* the hardware form
  perf,      \* perf[o]: the measurements of operator o, if it has any
  edits      \* how many measurements have been set

vars == <<item, metrics, hw, perf, edits>>

Command == INSTANCE ScoreCommand
Browser == INSTANCE ScoreBrowser

(***************************************************************************)
(* An operator's object with every field v: Missing is {}, Blank is        *)
(* defaultPerfOp(), which has no list of versions.  Both scorers read an   *)
(* object that is not there as {}.                                         *)
(***************************************************************************)
Object(v) ==
  [op   |-> [f \in OpFields[item] |-> IF f = "versions" THEN Missing ELSE v],
   tier |-> [t \in Tiers |-> [f \in TierFields[item] |-> v]]]

PerfOp(p, o) == IF o \in DOMAIN p THEN p[o] ELSE Object(Missing)

Measured(p) == [o \in Ops |-> PerfOp(p, o)]

(***************************************************************************)
(* The scores the two programs report, and what score.py rounds.           *)
(***************************************************************************)
Unrounded(h, p) == Command!Score(item, h, metrics, Measured(p), Weight)

ByCommand(h, p) == Command!Rounded(Unrounded(h, p))
ByBrowser(h, p) == Browser!Rounded(Browser!Score(item, h, metrics, Measured(p), Weight))

(***************************************************************************)
(* The form and the measurements start empty: no object at all, or an      *)
(* object without fields, as a file may have it.                           *)
(***************************************************************************)
Init ==
  /\ item \in Scored
  /\ metrics \in [Ops -> MetricValues[item]]
  /\ hw = [f \in HwFields[item] |-> Missing]
  /\ \E known \in SUBSET Ops : perf = [o \in known |-> Object(Missing)]
  /\ edits = 0

(***************************************************************************)
(* setHwVal: a number, or Blank when the input is cleared.                 *)
(***************************************************************************)
SetHwVal(f, v) ==
  /\ hw' = [hw EXCEPT ![f] = v]
  /\ UNCHANGED <<item, metrics, perf, edits>>

\* Mutant of Ensured: zeroes for blanks.
EnsuredZero(o) == IF o \in DOMAIN perf THEN perf[o] ELSE Object(0)

(***************************************************************************)
(* ensurePerfOp fills in an absent object with blanks; showing the         *)
(* benchmark page of an operator does no more than that.                   *)
(***************************************************************************)
Ensured(o) == IF o \in DOMAIN perf THEN perf[o] ELSE Object(Blank)

WithPerf(o, object) ==
  [q \in DOMAIN perf \cup {o} |-> IF q = o THEN object ELSE perf[q]]

RenderPerf(o) ==
  /\ o \notin DOMAIN perf
  /\ perf' = WithPerf(o, Ensured(o))
  /\ UNCHANGED <<item, metrics, hw, edits>>

SetPerfField(o, f, v) ==
  /\ edits < MaxEdits[item]
  /\ perf' = WithPerf(o, [Ensured(o) EXCEPT !.op[f] = v])
  /\ edits' = edits + 1
  /\ UNCHANGED <<item, metrics, hw>>

SetPerfTier(o, t, f, v) ==
  /\ edits < MaxEdits[item]
  /\ perf' = WithPerf(o, [Ensured(o) EXCEPT !.tier[t][f] = v])
  /\ edits' = edits + 1
  /\ UNCHANGED <<item, metrics, hw>>

Next ==
  \/ \E f \in HwFields[item] : \E v \in Values[f] \cup {Blank} : SetHwVal(f, v)
  \/ \E o \in Ops :
       \/ RenderPerf(o)
       \/ \E f \in OpFields[item] : \E v \in Values[f] \cup {Blank} : SetPerfField(o, f, v)
       \/ \E t \in Tiers, f \in TierFields[item] :
            \E v \in Values[f] \cup {Blank} : SetPerfTier(o, t, f, v)

Spec == Init /\ [][Next]_vars

-------------------------------------------------------------------------------
IsScore(s) == s \notin {None, Raises}

(***************************************************************************)
(* Blanks turned into missing fields.                                      *)
(***************************************************************************)
Filled(v) == IF v = Blank THEN Missing ELSE v

WithoutBlanks(p) ==
  [o \in Ops |->
     [op   |-> [f \in OpFields[item] |-> Filled(PerfOp(p, o).op[f])],
      tier |-> [t \in Tiers |-> [f \in TierFields[item] |-> Filled(PerfOp(p, o).tier[t][f])]]]]

(***************************************************************************)
(* Every field holds a marker or one of its numbers.                       *)
(***************************************************************************)
TypeOK ==
  /\ item \in Scored
  /\ metrics \in [Ops -> MetricValues[item]]
  /\ DOMAIN hw = HwFields[item]
  /\ \A f \in HwFields[item] : hw[f] \in Values[f] \cup {Blank, Missing}
  /\ DOMAIN perf \subseteq Ops
  /\ \A o \in Ops :
       /\ DOMAIN PerfOp(perf, o).tier = Tiers
       /\ \A f \in OpFields[item] : PerfOp(perf, o).op[f] \in Values[f] \cup {Blank, Missing}
       /\ \A t \in Tiers, f \in TierFields[item] :
            PerfOp(perf, o).tier[t][f] \in Values[f] \cup {Blank, Missing}
  /\ edits \in 0..MaxEdits[item]

(***************************************************************************)
(* A score halfway between two hundredths, or so close to it that the      *)
(* division of the model and the floating point of the programs may put it *)
(* on either side: at most Margin of the 100 units of a hundredth away.    *)
(***************************************************************************)
Margin == 10

NearTie(s) == IsScore(s) /\ s % 100 \in (50 - Margin)..(50 + Margin)

(***************************************************************************)
(* The two programs mirror each other (measure_lib.js:1) as far as their   *)
(* two roundings allow (score.py:751 takes halves to even, and             *)
(* measure_lib.js:609 takes them up): on measurements without blanks both  *)
(* report the same score, or both none, and next to a tie scores that are  *)
(* a hundredth apart at most.  On ties they do differ: 8.125 is 8.12 by    *)
(* the one and 8.13 by the other.                                          *)
(***************************************************************************)
AtMostOneApart(a, b) == IsScore(a) /\ IsScore(b) /\ a - b \in {-1, 0, 1}

MirrorAgrees ==
  Measured(perf) = WithoutBlanks(perf) =>
    \/ ByCommand(hw, perf) = ByBrowser(hw, perf)
    \/ /\ NearTie(Unrounded(hw, perf))
       /\ AtMostOneApart(ByCommand(hw, perf), ByBrowser(hw, perf))

(***************************************************************************)
(* Scores are in 0..10.  score.py:4 says so of all scores, and of all it   *)
(* is not true: several formulas are not clamped and nothing checks a      *)
(* field, so 3 violations among 1 name are -20.                            *)
(***************************************************************************)
InRange ==
  \A s \in {ByCommand(hw, perf), ByBrowser(hw, perf)} : IsScore(s) => s \in 0..FullReported

(***************************************************************************)
(* A form is consistent when a part of a whole that is counted is no       *)
(* larger than the whole, as the definitions of 4.a.1 and 4.a.2 have it,   *)
(* and a share is no more than 1.                                          *)
(***************************************************************************)
Number(v) == v \notin {Missing, Blank}

Shares == {"p_det", "c_acc", "c_comp", "r_root", "r_loc", "r_pc", "r_halt", "r_obscov", "r_evtcov",
           "r_expl", "r_tasklink", "r_hw", "r_simt", "r_sw", "r_cover", "r_ieee"}

NoMore(part, whole) ==
  {part, whole} \subseteq HwFields[item] =>
    (Number(hw[part]) /\ Number(hw[whole]) => hw[part] <= hw[whole])

CountsConsistent == NoMore("N_viol", "N_api") /\ NoMore("N_api_dup", "N_hw")

SharesConsistent == \A f \in HwFields[item] \cap Shares : Number(hw[f]) => hw[f] <= 100

Consistent == CountsConsistent /\ SharesConsistent

(***************************************************************************)
(* With a consistent form both scores are in 0..10, whatever the           *)
(* measurements and the other fields of the form are.                      *)
(***************************************************************************)
ConsistentInRange == Consistent => InRange

(***************************************************************************)
(* What was not measured scores nothing: a score that is given is the one  *)
(* the same inputs give without the blanks.  3.a.2 is left out: score.py   *)
(* reads its blanks as a cost of 0 and a deviation of 1.                    *)
(***************************************************************************)
CommandIgnoresBlanks ==
  item # "3.a.2" /\ IsScore(ByCommand(hw, perf)) =>
    ByCommand(hw, perf) = ByCommand(hw, WithoutBlanks(perf))

(***************************************************************************)
(* The same of the page, on every item.                                    *)
(***************************************************************************)
BrowserIgnoresBlanks ==
  IsScore(ByBrowser(hw, perf)) => ByBrowser(hw, perf) = ByBrowser(hw, WithoutBlanks(perf))

(***************************************************************************)
(* Fields that measure a cost.                                             *)
(***************************************************************************)
Costs == BandwidthFields \cup
  {"Lc", "dV", "T_scalar", "hint_gap", "icache_miss", "P_runtime", "T_head", "N_hint",
   "binary_stack_KiB", "N_viol", "N_api_dup", "r_sw", "p_fn", "p_fp", "p_dup", "p_sdc",
   "P_gm2vec", "P_gm2cube", "P_cube2vec", "P_vec2cube", "e_rel", "delta_t", "delta_b",
   "optional_param_ratio", "ulp", "c_conv", "N_versions"} \cup Alignments

(***************************************************************************)
(* One field that measures a cost changes from a number to a larger one.   *)
(***************************************************************************)
CostRises ==
  \/ \E f \in HwFields[item] \cap Costs :
       Number(hw[f]) /\ Number(hw'[f]) /\ hw'[f] > hw[f]
  \/ \E o \in DOMAIN perf \cap DOMAIN perf' :
       \/ \E f \in OpFields[item] \cap Costs :
            /\ Number(perf[o].op[f]) /\ Number(perf'[o].op[f])
            /\ perf'[o].op[f] > perf[o].op[f]
       \/ \E t \in Tiers, f \in TierFields[item] \cap Costs :
            /\ Number(perf[o].tier[t][f]) /\ Number(perf'[o].tier[t][f])
            /\ perf'[o].tier[t][f] > perf[o].tier[t][f]

NotAbove(new, old) == IsScore(new) /\ IsScore(old) => new <= old

(***************************************************************************)
(* Paying more for the same thing never raises a score in either program,  *)
(* through bands, logarithms, clamps, shares and averages over operators.  *)
(***************************************************************************)
CostOnlyHurts ==
  [][CostRises => /\ NotAbove(ByCommand(hw', perf'), ByCommand(hw, perf))
                  /\ NotAbove(ByBrowser(hw', perf'), ByBrowser(hw, perf))]_vars
===============================================================================
