------------------------------ MODULE MCScoring ------------------------------
(***************************************************************************)
(* Small instances of Scoring: two operators of different weight, two      *)
(* tiers, and for each field numbers on both sides of its thresholds.      *)
(***************************************************************************)
EXTENDS Scoring

MCTiers == {"60%", "99%"}

MCWeight == [o \in Ops |-> IF o = CHOOSE q \in Ops : TRUE THEN 1 ELSE 3]

Extract(total, lines) ==
  [missing |-> FALSE, L_total |-> total, lines |-> lines, P_src |-> lines,
   N_hint_used |-> lines, N_enum_used |-> lines, N_alive |-> lines, f_cluster |-> IF lines > 1 THEN 1 ELSE 0]

NoSource == [Extract(0, 0) EXCEPT !.missing = TRUE]

MCMetrics ==
  [i \in Items |->
     CASE i \in HwItems \cup {"1.a.1", "4.b.1", "8.a.1", "9.a.1"} -> {NoSource}
       [] i \in {"3.a.2", "3.a.4", "5.d.1", "5.e.1"} -> {Extract(8, 2), NoSource}
       [] i = "4.b.2" -> {Extract(8, 1)}
       [] OTHER -> {Extract(8, 0), Extract(8, 2), NoSource}]

\* Shares and ratios up to the whole and beyond it.
Percents == {0, 50, 100, 150}
Counts == {0, 1, 2}

Version(lines, delta, time) == [lines |-> lines, delta_lines |-> delta, time |-> time]

\* A first version alone, one without times, and two steps of which one counts lines.
Histories ==
  {<<>>,
   <<Version(100, Missing, 8)>>,
   <<Version(100, Missing, Missing), Version(90, Missing, 8)>>,
   <<Version(100, Missing, 8), Version(100, 20, 6), Version(0, Missing, 9), Version(5, 5, 4)>>}

MCValues ==
  [f \in UNION {HwFields[i] \cup OpFields[i] \cup TierFields[i] : i \in Items} |->
     CASE f = "tileSize" -> {16384}
       [] f = "burstLen" -> {64, 256}
       [] f = "stride" -> {2, 64}
       [] f = "coreConc" -> {0, 1, 2}
       [] f = "N" -> {1, 4}
       [] f = "p0" -> {50, 95}
       [] f = "Lc" -> {0, 7}
       [] f = "dV" -> {0, 1, 2}
       [] f \in Alignments -> {0, 1, 16, 64}
       [] f \in Capacities -> {0, 16, 20}
       [] f = "optional_param_ratio" -> {0, 20, 50, 100}
       [] f = "N_enum_def" -> {0, 2, 4}
       [] f \in {"r_mma", "r_ieee"} -> {50}
       [] f = "ulp" -> {3}
       [] f = "c_conv" -> {1}
       [] f \in {"round_rtn", "round_sr"} -> {1}
       [] f = "mfu_quant" -> {1}
       [] f = "mfu_fp16" -> {2}
       [] f = "N_api" -> {0, 1, 16}
       [] f = "N_viol" -> {0, 1, 3, 16}
       [] f = "N_versions" -> {1, 2, 7}
       [] f = "versions" -> Histories
       [] f = "hint_gap" -> {0, 5, 15, 30}
       [] f = "icache_miss" -> {0, 1, 5, 15}
       [] f = "ICache_KiB" -> {0, 10, 20}
       [] f = "DCache_KiB" -> {0, 10}
       [] f = "binary_stack_KiB" -> {0, 10, 11}
       [] f \in {"e_rel", "delta_t", "delta_b"} -> {0, 1, 4, 10}
       [] f = "r_loss" -> {90, 97, 100}
       [] f \in {"p_det", "p_fn", "p_fp", "p_dup", "p_sdc", "c_acc", "c_comp", "r_root", "r_loc",
                 "r_pc", "r_halt", "r_obscov", "r_evtcov", "r_expl", "r_tasklink",
                 "r_hw", "r_simt", "r_sw", "r_cover", "eta_ratio_vs_baseline"} -> Percents
       [] OTHER -> Counts]

MCEdits == [i \in Items |-> IF i = "4.b.2" THEN 2 ELSE 3]
MCMoreEdits == [i \in Items |-> 4]

MCMirrored == Items \ RateItems
MCMeasured == {i \in Items : OpFields[i] \cup TierFields[i] # {}}
MCFallback == RateItems
===============================================================================
