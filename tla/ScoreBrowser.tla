----------------------------- MODULE ScoreBrowser -----------------------------
(***************************************************************************)
(* scripts/measure_lib.js: the browser's score of one item, from the same  *)
(* inputs as ScoreCommand.  Number("") is 0, so a Blank that passes the    *)
(* test "!= null" is read as 0; Blank and 0 both fail a test for truth.    *)
(***************************************************************************)
EXTENDS ScoreMath, ScoreItems, Sequences

Truthy(v) == v \notin {Missing, Blank, 0}

Or(v, d) == IF Truthy(v) THEN v ELSE d

Number(v) == Or(v, 0)

(***************************************************************************)
(* hwOf drops every blank field before any item reads the form.            *)
(***************************************************************************)
Hw(hw) == [f \in DOMAIN hw |-> IF hw[f] = Blank THEN Missing ELSE hw[f]]

Present(m) == ~m.missing /\ m.L_total > 0

(***************************************************************************)
(* The items scored once, from the form.                                   *)
(***************************************************************************)
Rate(n, d) == IF n = Missing \/ ~Truthy(d) THEN None ELSE Part(n, d)

ShareOrRate(n, d, share) == IF share # Missing THEN Percent * share ELSE Rate(n, d)

CountScore(n, of) == IF n = Missing THEN None ELSE Part(n, of)

ShareScore(v) == IF v = Missing THEN None ELSE Percent * v

CostOf(v, ref) == IF v = Missing THEN None ELSE CostPart(v, 100, ref)

S3a1(hw) ==
  LET aligned == {f \in Alignments : hw[f] # Missing}
  IN Mean([f \in aligned |-> IF hw[f] <= 0 THEN Full ELSE LnScore(hw[f], 1, 64)])

S3a3(hw) ==
  LET keys == {"P_gm2vec", "P_gm2cube", "P_cube2vec", "P_vec2cube"}
  IN IF \E k \in keys : hw[k] # Missing
     THEN Mean([k \in keys |-> CostPart(Number(hw[k]), Or(hw.pipe_ref, 3), 100)])
     ELSE None

S4a1(hw) ==
  IF hw.N_api # Missing /\ hw.N_viol # Missing /\ hw.N_api > 0
  THEN Full - (Full * hw.N_viol) \div hw.N_api
  ELSE None

S4a2(hw) ==
  LET s == Full - (Full * hw.N_api_dup) \div hw.N_hw
      r == hw.eta_ratio_vs_baseline
      c == IF Truthy(r) THEN Part(100, r) ELSE s
  IN IF hw.N_api_dup = Missing \/ ~Truthy(hw.N_hw) THEN None
     ELSE (65 * s + 35 * c) \div 100

S4a4(hw) ==
  IF \E k \in {"r_hw", "r_simt", "r_sw", "r_cover"} : hw[k] # Missing
  THEN 250 * Number(hw.r_hw) + 250 * Number(hw.r_simt)
         + 150 * (100 - Number(hw.r_sw)) + 350 * Number(hw.r_cover)
  ELSE None

S7a2(hw) ==
  LET lost == Number(hw.p_fn) + Number(hw.p_fp) + Number(hw.p_dup) + Number(hw.p_sdc)
      noise == Full - 250 * lost
  IN IF hw.p_det = Missing THEN None ELSE (60 * Percent * hw.p_det + 40 * Clamp10(noise)) \div 100

S7d3(hw) == IF hw.r_loss = Missing THEN None ELSE Clamp10(2 * Point * (hw.r_loss - 95))

HwScore(item, hw) ==
  CASE item = "3.a.1" -> S3a1(hw)
    [] item = "3.a.3" -> S3a3(hw)
    [] item = "4.a.1" -> S4a1(hw)
    [] item = "4.a.2" -> S4a2(hw)
    [] item = "4.a.4" -> S4a4(hw)
    [] item = "7.a.1" -> Rate(hw.exc_detected, hw.exc_defined)
    [] item = "7.a.2" -> S7a2(hw)
    [] item = "7.a.3" -> Blend(55, ShareScore(hw.c_acc), 45, ShareScore(hw.c_comp))
    [] item = "7.b.1" -> CountScore(hw.bp_supported, 12)
    [] item = "7.d.2" -> CostOf(hw.e_rel, 10)
    [] item = "7.d.3" -> S7d3(hw)
    [] item = "7.d.4" -> CountScore(hw.bn_ok, 9)
    [] item = "7.d.5" -> ShareScore(hw.r_expl)
    [] item = "7.d.6" -> Blend(55, CostOf(hw.delta_t, 5), 45, CostOf(hw.delta_b, 2))
    [] item = "7.d.7" -> ShareScore(hw.r_tasklink)
    [] item \in RateItems ->
         LET f == RateFields[item] IN ShareOrRate(hw[f.ok], hw[f.total], hw[f.share])

(***************************************************************************)
(* Items that mix the form with measurements of all operators.             *)
(***************************************************************************)
Banded(m, p, f, bounds) ==
  LET v == Mean([o \in {q \in DOMAIN m : p[q].op[f] # Missing} |-> Number(p[o].op[f])])
  IN CASE v = None -> None
       [] v # None /\ v < bounds[1] -> Full
       [] v # None /\ v >= bounds[1] /\ v < bounds[2] -> 8 * Point
       [] v # None /\ v >= bounds[2] /\ v < bounds[3] -> 5 * Point
       [] v # None /\ v >= bounds[3] -> 3 * Point

\* Mutant of S3b2: a form that says "no kind of hint" is read as not filled in.
S3b2OrUsed(hw, m, p) ==
  LET used == {m[o].N_hint_used : o \in {q \in DOMAIN m : Present(m[q])}}
      n == IF ~Truthy(hw.N_hint) /\ used # {} THEN Max(used) ELSE hw.N_hint
  IN IF n = Missing THEN None
     ELSE Blend(45, Clamp10(Full - 2 * Point * n), 55, Banded(m, p, "hint_gap", <<5, 15, 30>>))

S3b2(hw, m, p) ==
  LET used == {m[o].N_hint_used : o \in {q \in DOMAIN m : Present(m[q])}}
      n == IF hw.N_hint = Missing /\ used # {} THEN Max(used) ELSE hw.N_hint
  IN IF n = Missing THEN None
     ELSE Blend(45, Clamp10(Full - 2 * Point * n), 55, Banded(m, p, "hint_gap", <<5, 15, 30>>))

S3b4(hw, m, p) ==
  LET cache == Number(hw.ICache_KiB) + Number(hw.DCache_KiB)
      ratio == IF cache > 0 /\ hw.binary_stack_KiB # Missing
               THEN CostPart(Max({hw.binary_stack_KiB - cache, 0}), cache, 10)
               ELSE None
  IN Blend(40, ratio, 60, Banded(m, p, "icache_miss", <<1, 5, 15>>))

S4a3(hw, m) ==
  LET used == {m[o].N_enum_used : o \in {q \in DOMAIN m : Present(m[q])}}
      share == (Full * Max(used)) \div hw.N_enum_def
      enums == IF Truthy(hw.N_enum_def) /\ used # {}
               THEN Clamp10((10 * (share - 3 * Point)) \div 7) ELSE None
  IN Blend(50, CostOf(hw.optional_param_ratio, 50), 50, enums)

S4b2(hw, m, p, w) ==
  LET shown == {f \in {"r_mma", "ulp", "c_conv", "r_ieee"} : hw[f] # Missing}
      ofForm(f) ==
        CASE f = "r_mma" -> Clamp10(Percent * hw.r_mma)
          [] f = "ulp" -> CostPart(Max({hw.ulp - 2, 0}), 2, 100)
          [] f = "c_conv" -> Clamp10(Halved(hw.c_conv)
                                       + 5 * Percent * Number(hw.round_rtn)
                                       + 5 * Percent * Number(hw.round_sr))
          [] f = "r_ieee" -> Percent * hw.r_ieee
      scale == [o \in {q \in DOMAIN m : Present(m[q])} |-> CostPart(m[o].lines, m[o].L_total, 15)]
      quant == [o \in {q \in DOMAIN m : p[q].op.mfu_quant # Missing /\ Truthy(p[q].op.mfu_fp16)} |->
                  Part(Number(p[o].op.mfu_quant), p[o].op.mfu_fp16)]
  IN WeightedMean([r_mma |-> 25, ulp |-> 15, c_conv |-> 15, scale |-> 15, quant |-> 20, r_ieee |-> 10],
       [f \in shown \cup {"scale", "quant"} |->
          CASE f = "scale" -> WeightedMean(w, scale)
            [] f = "quant" -> WeightedMean(w, quant)
            [] OTHER -> ofForm(f)])

(***************************************************************************)
(* Items scored operator by operator.                                      *)
(***************************************************************************)
Span == [tileSize |-> <<8192, 65536>>, burstLen |-> <<32, 256>>, stride |-> <<1, 64>>]

S1a1(hw, p) ==
  LET span == [f \in BandwidthFields |->
                 IF f = "coreConc" THEN <<1, Or(hw.N, 64)>> ELSE Span[f]]
      read(f) == {t \in Tiers : p.tier[t][f] # Missing}
  IN Mean([f \in BandwidthFields |->
             Mean([t \in read(f) |-> LnScore(Number(p.tier[t][f]), span[f][1], span[f][2])])])

S3a2(m, p) ==
  LET lines == Max({1, m.L_total})
      short(c) == IF lines > 1
                  THEN Clamp10((Full * (Log2(lines) - Log2(c + 1))) \div Log2(lines)) ELSE Full
      steady(v) == IF v <= 1 THEN Full ELSE 0
      tuned == {t \in Tiers : p.tier[t].Lc # Missing \/ p.tier[t].dV # Missing}
  IN IF p.op.p0 # Missing /\ Number(p.op.p0) >= 95 THEN Full
     ELSE Mean([t \in tuned |->
                  (60 * short(Number(p.tier[t].Lc)) + 40 * steady(Or(p.tier[t].dV, 1))) \div 100])

S3a4(hw, m, p) ==
  LET alive == Or(m.N_alive, 1)
      caps == {f \in Capacities : Number(hw[f]) > 0}
      room(f, size) == IF alive * size <= 1024 * hw[f] THEN Full
                       ELSE (Full * 1024 * hw[f]) \div (alive * size)
      tiled == {t \in Tiers : p.tier[t].tileSize # Missing}
  IN Mean([t \in tiled |-> Mean([f \in caps |-> room(f, Number(p.tier[t].tileSize))])])

S3b3(m) == IF Present(m) THEN Clamp10(Full - 5 * Point * m.f_cluster) ELSE None

S4b1(p) ==
  LET fused == Number(p.op.T_fused)
      raw == p.op.T_no_fused
  IN IF p.op.T_fused = Missing \/ ~Truthy(raw) THEN None
     ELSE CostPart(Max({fused - raw, raw - fused}), raw, 25)

S5a1(m, p) ==
  IF ~Present(m) \/ p.op.P_runtime = Missing \/ m.P_src = 0 THEN None
  ELSE Clamp10(2 * Full - (Full * Number(p.op.P_runtime)) \div m.P_src)

S5d1(m, p) ==
  LET gap(T) == IF T.T_scalar # Missing /\ Truthy(T.T_maxPipe)
                THEN CostPart(Number(T.T_scalar) - T.T_maxPipe, T.T_maxPipe, 5)
                ELSE None
      lines == IF Present(m) THEN CostPart(m.lines, m.L_total, 30) ELSE None
  IN Mean([t \in Tiers |-> Blend(55, gap(p.tier[t]), 45, lines)])

S5e1(m, p) ==
  LET time == IF p.op.T_head # Missing /\ Truthy(p.op.T_kernel)
              THEN CostPart(Number(p.op.T_head), p.op.T_kernel, 20) ELSE None
      lines == IF Present(m) THEN CostPart(m.lines, m.L_total, 25) ELSE None
  IN Blend(55, time, 45, lines)

S8a1(p) ==
  IF p.op.P_agent = Missing \/ ~Truthy(p.op.P_theory) THEN None
  ELSE Part(Number(p.op.P_agent), p.op.P_theory)

(***************************************************************************)
(* The development of an operator: how many versions, how much each grew   *)
(* over the one before, and how much faster it is.                         *)
(***************************************************************************)
S9a1(p) ==
  LET v == IF p.op.versions \in {Missing, Blank} THEN <<>> ELSE p.op.versions
      n == IF p.op.N_versions # Missing THEN Number(p.op.N_versions)
           ELSE IF Len(v) > 0 THEN Len(v) ELSE Missing
      diff(i) == Number(v[i].lines) - Number(v[i - 1].lines)
      delta(i) == IF v[i].delta_lines # Missing THEN Number(v[i].delta_lines)
                  ELSE Max({diff(i), 0 - diff(i)})
      grown == {i \in 2..Len(v) : Number(v[i - 1].lines) > 0}
      timed == {i \in 2..Len(v) : Truthy(v[i - 1].time) /\ Truthy(v[i].time)}
      growth == Mean([i \in grown |-> (Full * delta(i)) \div v[i - 1].lines])
      ratio == Mean([i \in timed |-> (Full * v[i].time) \div v[i - 1].time])
  IN IF n = Missing THEN None
     ELSE WeightedMean([n |-> 25, growth |-> 35, time |-> 40],
            [n |-> Clamp10(Full - (Full * (n - 1)) \div 5),
             growth |-> IF growth = None THEN None ELSE Clamp10(Full - (10 * growth) \div 3),
             time |-> IF ratio = None THEN None ELSE Clamp10((10 * (Full - ratio)) \div 3)])

LineRef ==
  [i \in LineItems |->
     CASE i = "3.b.1" -> 20
       [] i \in {"5.b.2", "6.b.1"} -> 25
       [] i \in {"3.a.5", "5.b.1", "6.a.2"} -> 30
       [] i \in {"5.c.1", "6.a.1"} -> 35]

LineScore(item, m) ==
  IF Present(m) THEN CostPart(m.lines, m.L_total, LineRef[item]) ELSE None

OpScore(item, hw, m, p) ==
  CASE item = "1.a.1" -> S1a1(hw, p)
    [] item = "3.a.2" -> S3a2(m, p)
    [] item = "3.a.4" -> S3a4(hw, m, p)
    [] item = "3.b.3" -> S3b3(m)
    [] item = "4.b.1" -> S4b1(p)
    [] item = "5.a.1" -> S5a1(m, p)
    [] item = "5.d.1" -> S5d1(m, p)
    [] item = "5.e.1" -> S5e1(m, p)
    [] item = "8.a.1" -> S8a1(p)
    [] item = "9.a.1" -> S9a1(p)
    [] item \in LineItems -> LineScore(item, m)

(***************************************************************************)
(* aggOps and scoreArch.                                                   *)
(***************************************************************************)
Score(item, hw, m, p, w) ==
  CASE item \in HwItems -> HwScore(item, Hw(hw))
    [] item = "3.b.2" -> S3b2(Hw(hw), m, p)
    [] item = "3.b.4" -> S3b4(Hw(hw), m, p)
    [] item = "4.a.3" -> S4a3(Hw(hw), m)
    [] item = "4.b.2" -> S4b2(Hw(hw), m, p, w)
    [] item \in OpItems ->
         WeightedMean(w, [o \in DOMAIN m |-> OpScore(item, Hw(hw), m[o], p[o])])

(***************************************************************************)
(* scoreAll reports hundredths: Math.round, halves up.                     *)
(***************************************************************************)
Rounded(s) == IF s = None THEN None ELSE (s + 50) \div 100
===============================================================================
