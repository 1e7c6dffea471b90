------------------------------ MODULE ScoreItems ------------------------------
(***************************************************************************)
(* The sub-items that are scored and the fields each of them reads: of the *)
(* hardware form, of the measurements of one operator, and of one tuning   *)
(* tier of those measurements.  The list of buffers of the form has a name *)
(* for every buffer (defaultHw), so none is dropped; two of them stand     *)
(* here as fields of their own.                                            *)
(***************************************************************************)
CONSTANT Tiers

LineItems == {"3.a.5", "3.b.1", "5.b.1", "5.b.2", "5.c.1", "6.a.1", "6.a.2", "6.b.1"}

RateItems == {"7.a.4", "7.b.2", "7.b.3", "7.b.4", "7.c.1", "7.d.1"}

HwItems == RateItems \cup {"3.a.1", "3.a.3", "4.a.1", "4.a.2", "4.a.4", "7.a.1", "7.a.2", "7.a.3",
                           "7.b.1", "7.d.2", "7.d.3", "7.d.4", "7.d.5", "7.d.6", "7.d.7"}

MixedItems == {"3.b.2", "3.b.4", "4.a.3", "4.b.2"}

OpItems == LineItems \cup {"1.a.1", "3.a.2", "3.a.4", "3.b.3", "4.b.1", "5.a.1", "5.d.1", "5.e.1", "8.a.1",
                        "9.a.1"}

Items == HwItems \cup MixedItems \cup OpItems

RateFields ==
  [i \in RateItems |->
     CASE i = "7.a.4" -> [ok |-> "root_ok", total |-> "root_total", share |-> "r_root"]
       [] i = "7.b.2" -> [ok |-> "bp_loc_ok", total |-> "bp_loc_total", share |-> "r_loc"]
       [] i = "7.b.3" -> [ok |-> "pc_ok", total |-> "pc_total", share |-> "r_pc"]
       [] i = "7.b.4" -> [ok |-> "halt_ok", total |-> "halt_total", share |-> "r_halt"]
       [] i = "7.c.1" -> [ok |-> "obs_ok", total |-> "obs_total", share |-> "r_obscov"]
       [] i = "7.d.1" -> [ok |-> "evt_ok", total |-> "evt_total", share |-> "r_evtcov"]]

Alignments == {"UB_align_B", "L1_align_B"}

Capacities == {"UB_cap_KiB", "L1_cap_KiB"}

HwFields ==
  [i \in Items |->
     CASE i = "1.a.1" -> {"N"}
       [] i = "3.a.1" -> Alignments
       [] i = "3.a.4" -> Capacities
       [] i = "3.a.3" -> {"pipe_ref", "P_gm2vec", "P_gm2cube", "P_cube2vec", "P_vec2cube"}
       [] i = "3.b.2" -> {"N_hint"}
       [] i = "3.b.4" -> {"ICache_KiB", "DCache_KiB", "binary_stack_KiB"}
       [] i = "4.a.1" -> {"N_api", "N_viol"}
       [] i = "4.a.2" -> {"N_hw", "N_api_dup", "eta_ratio_vs_baseline"}
       [] i = "4.a.3" -> {"optional_param_ratio", "N_enum_def"}
       [] i = "4.b.2" -> {"r_mma", "ulp", "c_conv", "round_rtn", "round_sr", "r_ieee"}
       [] i = "4.a.4" -> {"r_hw", "r_simt", "r_sw", "r_cover"}
       [] i = "7.a.1" -> {"exc_detected", "exc_defined"}
       [] i = "7.a.2" -> {"p_det", "p_fn", "p_fp", "p_dup", "p_sdc"}
       [] i = "7.a.3" -> {"c_acc", "c_comp"}
       [] i = "7.b.1" -> {"bp_supported"}
       [] i = "7.d.2" -> {"e_rel"}
       [] i = "7.d.3" -> {"r_loss"}
       [] i = "7.d.4" -> {"bn_ok"}
       [] i = "7.d.5" -> {"r_expl"}
       [] i = "7.d.6" -> {"delta_t", "delta_b"}
       [] i = "7.d.7" -> {"r_tasklink"}
       [] i \in RateItems -> {RateFields[i].ok, RateFields[i].total, RateFields[i].share}
       [] OTHER -> {}]

BandwidthFields == {"tileSize", "burstLen", "stride", "coreConc"}

OpFields ==
  [i \in Items |->
     CASE i = "3.a.2" -> {"p0"}
       [] i = "3.b.2" -> {"hint_gap"}
       [] i = "3.b.4" -> {"icache_miss"}
       [] i = "4.b.1" -> {"T_fused", "T_no_fused"}
       [] i = "4.b.2" -> {"mfu_quant", "mfu_fp16"}
       [] i = "5.a.1" -> {"P_runtime"}
       [] i = "5.e.1" -> {"T_head", "T_kernel"}
       [] i = "8.a.1" -> {"P_agent", "P_theory"}
       [] i = "9.a.1" -> {"versions", "N_versions"}
       [] OTHER -> {}]

TierFields ==
  [i \in Items |->
     CASE i = "1.a.1" -> BandwidthFields
       [] i = "3.a.2" -> {"Lc", "dV"}
       [] i = "3.a.4" -> {"tileSize"}
       [] i = "5.d.1" -> {"T_scalar", "T_maxPipe"}
       [] OTHER -> {}]
===============================================================================
