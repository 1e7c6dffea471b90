----------------------------- MODULE ScoreCommand -----------------------------
(***************************************************************************)
(* scripts/score.py: the score of one item of one architecture, from the   *)
(* hardware form hw, the metrics m[o] extracted from the source of each    *)
(* benchmark operator o and its measurements p[o] (single fields in .op,   *)
(* fields of the tuning tiers in .tier).  m[o].lines stands for the count  *)
(* of the kind of lines the item is about.  float("") raises ValueError,   *)
(* so a Blank that is read as a number ends the whole computation.         *)
(***************************************************************************)
EXTENDS ScoreMath, ScoreItems, Sequences

(***************************************************************************)
(* "x or d", and the same for a field read as a number.                    *)
(***************************************************************************)
Truthy(v) == v \notin {Missing, Blank, 0}

Or(v, d) == IF Truthy(v) THEN v ELSE d

(***************************************************************************)
(* _hw drops every blank field before any item reads the form.             *)
(***************************************************************************)
Hw(hw) == [f \in DOMAIN hw |-> IF hw[f] = Blank THEN Missing ELSE hw[f]]

Present(m) == ~m.missing /\ m.L_total > 0

(***************************************************************************)
(* The items scored once, from the form.                                   *)
(***************************************************************************)
Rate(n, d) == IF n = Missing \/ d = Missing \/ d <= 0 THEN None ELSE Part(n, d)

RateOrShare(n, d, share) ==
  LET rate == Rate(n, d)
  IN IF rate \notin {None, 0} THEN rate
     ELSE IF share # Missing THEN Percent * share ELSE None

CountScore(n, of) == IF n = Missing THEN None ELSE Part(n, of)

ShareScore(v) == IF v = Missing THEN None ELSE Percent * v

CostOf(v, ref) == IF v = Missing THEN None ELSE CostPart(v, 100, ref)

S3a1(hw) ==
  Mean([f \in {k \in Alignments : hw[k] # Missing} |-> LnScore(hw[f], 1, 64)])

S3a3(hw) ==
  LET keys == {"P_gm2vec", "P_gm2cube", "P_cube2vec", "P_vec2cube"}
  IN IF \A k \in keys : hw[k] = Missing THEN None
     ELSE Mean([k \in keys |-> CostPart(Or(hw[k], 0), Or(hw.pipe_ref, 3), 100)])

S4a1(hw) ==
  IF hw.N_api # Missing /\ hw.N_viol # Missing /\ hw.N_api > 0
  THEN Full - (Full * hw.N_viol) \div hw.N_api
  ELSE None

S4a2(hw) ==
  LET s == Full - (Full * hw.N_api_dup) \div hw.N_hw
      r == hw.eta_ratio_vs_baseline
      c == IF Truthy(r) THEN Part(100, r) ELSE s
  IN IF hw.N_hw = Missing \/ hw.N_api_dup = Missing \/ hw.N_hw <= 0 THEN None
     ELSE (65 * s + 35 * c) \div 100

S4a4(hw) ==
  LET keys == {"r_hw", "r_simt", "r_sw", "r_cover"}
      r == [k \in keys |-> Or(hw[k], 0)]
  IN IF \A k \in keys : hw[k] = Missing THEN None
     ELSE 250 * r.r_hw + 250 * r.r_simt + 150 * (100 - r.r_sw) + 350 * r.r_cover

S7a2(hw) ==
  LET lost == Or(hw.p_fn, 0) + Or(hw.p_fp, 0) + Or(hw.p_dup, 0) + Or(hw.p_sdc, 0)
      noise == Clamp10(Full - 250 * lost)
  IN IF hw.p_det = Missing THEN None ELSE (60 * Percent * hw.p_det + 40 * noise) \div 100

S7d3(hw) == IF hw.r_loss = Missing THEN None ELSE Clamp10(2 * Point * (hw.r_loss - 95))

HwScore(item, hw) ==
  CASE item = "3.a.1" -> S3a1(hw)
    [] item = "3.a.3" -> S3a3(hw)
    [] item = "4.a.1" -> S4a1(hw)
    [] item = "4.a.2" -> S4a2(hw)
    [] item = "4.a.4" -> S4a4(hw)
    [] item = "7.a.1" -> Rate(hw.exc_detected, hw.exc_defined)
    [] item = "7.a.2" -> S7a2(hw)
    [] item = "7.a.3" -> Blend(55, ShareScore(hw.c_acc), 45, ShareScore(hw.c_comp))
    [] item = "7.b.1" -> CountScore(hw.bp_supported, 12)
    [] item = "7.d.2" -> CostOf(hw.e_rel, 10)
    [] item = "7.d.3" -> S7d3(hw)
    [] item = "7.d.4" -> CountScore(hw.bn_ok, 9)
    [] item = "7.d.5" -> ShareScore(hw.r_expl)
    [] item = "7.d.6" -> Blend(55, CostOf(hw.delta_t, 5), 45, CostOf(hw.delta_b, 2))
    [] item = "7.d.7" -> ShareScore(hw.r_tasklink)
    [] item \in RateItems ->
         LET f == RateFields[item] IN RateOrShare(hw[f.ok], hw[f.total], hw[f.share])

(***************************************************************************)
(* Items that mix the form with measurements of all operators.             *)
(***************************************************************************)
\* Mutant of Band: the two worst bands swapped.
BandSwapped(v, bounds) ==
  IF v < bounds[1] THEN Full ELSE IF v < bounds[2] THEN 8 * Point
  ELSE IF v < bounds[3] THEN 3 * Point ELSE 5 * Point

Band(v, bounds) ==
  IF v < bounds[1] THEN Full ELSE IF v < bounds[2] THEN 8 * Point
  ELSE IF v < bounds[3] THEN 5 * Point ELSE 3 * Point

Banded(m, p, f, bounds) ==
  LET measured == {o \in DOMAIN m : p[o].op[f] # Missing}
  IN IF \E o \in measured : p[o].op[f] = Blank THEN Raises
     ELSE IF measured = {} THEN None
     ELSE Band(Mean([o \in measured |-> p[o].op[f]]), bounds)

S3b2(hw, m, p) ==
  LET used == {m[o].N_hint_used : o \in {q \in DOMAIN m : Present(m[q])}}
      n == IF hw.N_hint # Missing THEN hw.N_hint
           ELSE IF used = {} THEN Missing ELSE Max(used)
      gap == Banded(m, p, "hint_gap", <<5, 15, 30>>)
  IN IF n = Missing THEN None
     ELSE IF gap = Raises THEN Raises
     ELSE Blend(45, Clamp10(Full - 2 * Point * n), 55, gap)

S3b4(hw, m, p) ==
  LET cache == Or(hw.ICache_KiB, 0) + Or(hw.DCache_KiB, 0)
      ratio == IF cache > 0 /\ hw.binary_stack_KiB # Missing
               THEN CostPart(Max({hw.binary_stack_KiB - cache, 0}), cache, 10)
               ELSE None
      miss == Banded(m, p, "icache_miss", <<1, 5, 15>>)
  IN IF miss = Raises THEN Raises ELSE Blend(40, ratio, 60, miss)

S4a3(hw, m) ==
  LET used == {m[o].N_enum_used : o \in {q \in DOMAIN m : Present(m[q])}}
      eps == Min({Full, (Full * Max(used)) \div hw.N_enum_def})
      enums == IF ~Truthy(hw.N_enum_def) \/ used = {} THEN None
               ELSE Clamp10((10 * (eps - 3 * Point)) \div 7)
  IN Blend(50, CostOf(hw.optional_param_ratio, 50), 50, enums)

S4b2(hw, m, p, w) ==
  LET timed == {o \in DOMAIN m : p[o].op.mfu_quant # Missing /\ Truthy(p[o].op.mfu_fp16)}
      parts ==
        [r_mma  |-> IF hw.r_mma = Missing THEN None ELSE Clamp10(Percent * hw.r_mma),
         ulp    |-> IF hw.ulp = Missing THEN None ELSE CostPart(Max({hw.ulp - 2, 0}), 2, 100),
         c_conv |-> IF hw.c_conv = Missing THEN None
                   ELSE Clamp10(Halved(hw.c_conv)
                                  + 5 * Percent * Or(hw.round_rtn, 0)
                                  + 5 * Percent * Or(hw.round_sr, 0)),
         scale  |-> WeightedMean(w, [o \in {q \in DOMAIN m : Present(m[q])} |->
                                      CostPart(m[o].lines, m[o].L_total, 15)]),
         quant  |-> WeightedMean(w, [o \in timed |-> Part(p[o].op.mfu_quant, p[o].op.mfu_fp16)]),
         r_ieee |-> ShareScore(hw.r_ieee)]
  IN IF \E o \in timed : p[o].op.mfu_quant = Blank THEN Raises
     ELSE WeightedMean([r_mma |-> 25, ulp |-> 15, c_conv |-> 15, scale |-> 15, quant |-> 20, r_ieee |-> 10],
                       parts)

(***************************************************************************)
(* Items scored operator by operator.                                      *)
(***************************************************************************)
Span == [tileSize |-> <<8192, 65536>>, burstLen |-> <<32, 256>>, stride |-> <<1, 64>>]

S1a1(hw, p) ==
  LET n == Or(hw.N, 64)
      span == [f \in BandwidthFields |-> IF f = "coreConc" THEN <<1, n>> ELSE Span[f]]
      read(f) == {t \in Tiers : p.tier[t][f] # Missing}
  IN IF \E f \in BandwidthFields : \E t \in Tiers : p.tier[t][f] = Blank THEN Raises
     ELSE Mean([f \in BandwidthFields |->
                  Mean([t \in read(f) |-> LnScore(p.tier[t][f], span[f][1], span[f][2])])])

S3a2(m, p) ==
  LET lines == Max({1, m.L_total})
      short(c) == IF lines > 1
                  THEN Clamp10((Full * (Log2(lines) - Log2(c + 1))) \div Log2(lines)) ELSE Full
      steady(v) == IF v <= 1 THEN Full ELSE 0
      tuned == {t \in Tiers : p.tier[t].Lc # Missing \/ p.tier[t].dV # Missing}
  IN IF p.op.p0 = Blank THEN Raises
     ELSE IF p.op.p0 # Missing /\ p.op.p0 >= 95 THEN Full
     ELSE Mean([t \in tuned |->
                  (60 * short(Or(p.tier[t].Lc, 0)) + 40 * steady(Or(p.tier[t].dV, 1))) \div 100])

(***************************************************************************)
(* The form as it was given: it has a list of buffers if one of them has a *)
(* capacity or the blank of one, and without a list no measurement is read.*)
(***************************************************************************)
S3a4(hw, m, p) ==
  LET n == Or(m.N_alive, 1)
      listed == \E f \in Capacities : hw[f] # Missing
      bytes == [f \in {k \in Capacities : Truthy(hw[k])} |-> 1024 * hw[f]]
      fits(size) == Mean([f \in DOMAIN bytes |-> IF n * size <= bytes[f] THEN Full
                                                 ELSE Part(bytes[f], n * size)])
      tiled == {t \in Tiers : p.tier[t].tileSize # Missing}
  IN IF ~listed THEN None
     ELSE IF \E t \in tiled : p.tier[t].tileSize = Blank THEN Raises
     ELSE Mean([t \in tiled |-> fits(p.tier[t].tileSize)])

S3b3(m) == IF ~Present(m) THEN None ELSE Clamp10(Full - 5 * Point * m.f_cluster)

\* Mutant of S4b1: "or 0" where None is tested.
S4b1Or(p) ==
  LET fused == Or(p.op.T_fused, 0)
      raw == Or(p.op.T_no_fused, 0)
  IN IF p.op.T_fused = Missing \/ raw = 0 THEN None
     ELSE CostPart(Max({fused - raw, raw - fused}), raw, 25)

S4b1(p) ==
  LET fused == p.op.T_fused
      raw == p.op.T_no_fused
  IN IF fused = Missing \/ raw \in {Missing, 0} THEN None
     ELSE IF Blank \in {fused, raw} THEN Raises
     ELSE CostPart(Max({fused - raw, raw - fused}), raw, 25)

S5a1(m, p) ==
  LET run == p.op.P_runtime
  IN IF ~Present(m) \/ run = Missing \/ m.P_src <= 0 THEN None
     ELSE IF run = Blank THEN Raises
     ELSE Clamp10(2 * Full - (Full * run) \div m.P_src)

S5d1(m, p) ==
  LET timed(t) == p.tier[t].T_scalar # Missing /\ Truthy(p.tier[t].T_maxPipe)
      gap(t) == IF timed(t)
                THEN CostPart(p.tier[t].T_scalar - p.tier[t].T_maxPipe, p.tier[t].T_maxPipe, 5)
                ELSE None
      lines == IF Present(m) THEN CostPart(m.lines, m.L_total, 30) ELSE None
  IN IF \E t \in Tiers : timed(t) /\ p.tier[t].T_scalar = Blank THEN Raises
     ELSE Mean([t \in Tiers |-> Blend(55, gap(t), 45, lines)])

S5e1(m, p) ==
  LET timed == p.op.T_head # Missing /\ Truthy(p.op.T_kernel)
      lines == IF Present(m) THEN CostPart(m.lines, m.L_total, 25) ELSE None
  IN IF ~timed THEN lines
     ELSE IF p.op.T_head = Blank THEN Raises
     ELSE Blend(55, CostPart(p.op.T_head, p.op.T_kernel, 20), 45, lines)

S8a1(p) ==
  LET agent == p.op.P_agent
      theory == p.op.P_theory
  IN IF agent = Missing \/ theory \in {Missing, 0} THEN None
     ELSE IF Blank \in {agent, theory} THEN Raises
     ELSE Part(agent, theory)

(***************************************************************************)
(* A version has its lines, the lines changed and its time, each possibly  *)
(* missing.  Growth and time are those from one version to the next.       *)
(***************************************************************************)
S9a1(p) ==
  LET v == IF p.op.versions \in {Missing, Blank} THEN <<>> ELSE p.op.versions
      n == IF p.op.N_versions # Missing THEN p.op.N_versions
           ELSE IF v = <<>> THEN Missing ELSE Len(v)
      was(i) == Or(v[i - 1].lines, 0)
      is(i) == Or(v[i].lines, 0)
      changed(i) == IF v[i].delta_lines # Missing THEN v[i].delta_lines
                    ELSE Max({is(i) - was(i), was(i) - is(i)})
      growth == Mean([i \in {k \in 2..Len(v) : was(k) > 0} |-> (Full * changed(i)) \div was(i)])
      time == Mean([i \in {k \in 2..Len(v) : Truthy(v[k - 1].time) /\ Truthy(v[k].time)} |->
                      (Full * v[i].time) \div v[i - 1].time])
  IN IF n = Missing THEN None
     ELSE IF n = Blank THEN Raises
     ELSE WeightedMean([n |-> 25, growth |-> 35, time |-> 40],
            [n |-> CostPart(n - 1, 5, 100), growth |-> IF growth = None THEN None
                       ELSE Clamp10(Full - (10 * growth) \div 3),
             time |-> IF time = None THEN None ELSE Clamp10((10 * (Full - time)) \div 3)])

LineRef ==
  [i \in LineItems |->
     CASE i \in {"3.a.5", "5.b.1", "6.a.2"} -> 30
       [] i = "3.b.1" -> 20
       [] i \in {"5.b.2", "6.b.1"} -> 25
       [] i \in {"5.c.1", "6.a.1"} -> 35]

LineScore(item, m) ==
  IF ~Present(m) THEN None ELSE CostPart(m.lines, m.L_total, LineRef[item])

OpScore(item, hw, m, p) ==
  CASE item = "1.a.1" -> S1a1(Hw(hw), p)
    [] item = "3.a.2" -> S3a2(m, p)
    [] item = "3.a.4" -> S3a4(hw, m, p)
    [] item = "3.b.3" -> S3b3(m)
    [] item = "4.b.1" -> S4b1(p)
    [] item = "5.a.1" -> S5a1(m, p)
    [] item = "5.d.1" -> S5d1(m, p)
    [] item = "5.e.1" -> S5e1(m, p)
    [] item = "8.a.1" -> S8a1(p)
    [] item = "9.a.1" -> S9a1(p)
    [] item \in LineItems -> LineScore(item, m)

(***************************************************************************)
(* _agg_ops and score_arch.  _hw has dropped the blanks of the form.       *)
(***************************************************************************)
Aggregate(w, s) ==
  IF \E o \in DOMAIN s : s[o] = Raises THEN Raises ELSE WeightedMean(w, s)

Score(item, hw, m, p, w) ==
  CASE item \in HwItems -> HwScore(item, Hw(hw))
    [] item = "3.b.2" -> S3b2(Hw(hw), m, p)
    [] item = "3.b.4" -> S3b4(Hw(hw), m, p)
    [] item = "4.a.3" -> S4a3(Hw(hw), m)
    [] item = "4.b.2" -> S4b2(Hw(hw), m, p, w)
    [] item \in OpItems -> Aggregate(w, [o \in DOMAIN m |-> OpScore(item, hw, m[o], p[o])])

(***************************************************************************)
(* score_all reports hundredths: round(val, 2), halves to even.            *)
(***************************************************************************)
\* Mutant of Rounded: down.
RoundedDown(s) == IF s \in {None, Raises} THEN s ELSE s \div 100

Rounded(s) ==
  LET down == s \div 100
      even == down % 2 = 0
  IN IF s \in {None, Raises} THEN s
     ELSE IF s % 100 < 50 \/ (s % 100 = 50 /\ even) THEN down ELSE down + 1
===============================================================================
