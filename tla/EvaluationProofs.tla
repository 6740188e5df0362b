--------------------------- MODULE EvaluationProofs ---------------------------
(***************************************************************************)
(* Proofs about what an evaluation publishes, for every configuration,     *)
(* split, label, day and sequence of edits, fits, trainings and kills: the *)
(* reports of the harness, the lead time of a warning, and the benchmark   *)
(* of an experiment.                                                       *)
(***************************************************************************)
EXTENDS EvalReports, TrainingProofs

-----------------------------------------------------------------------------
(***************************************************************************)
(* The reports of the harness.  A file is written when its run is over, by *)
(* then the configuration, the weights and the calibration may be others;  *)
(* what the run took of them when it started stays with it, and the rows   *)
(* that it computes are of it.                                             *)
(***************************************************************************)
ReportNames == {"baselines", "ablations", "calibration", "lead_time"}
PoolingOf(metadata) ==
    [method |-> Signature(metadata).risk_pooling_method,
     quantile |-> Signature(metadata).risk_pooling_quantile,
     head_reduction |-> Signature(metadata).risk_pooling_head_reduction]

\* Curves that were fitted on the validation split to one statistic.
CurvesSound(params, statistic) ==
    \A k \in DOMAIN params :
       /\ params[k].a \in Int /\ params[k].a > 0
       /\ ~params[k].degenerate =>
             /\ params[k].of.on \subseteq SplitRows["val"]
             /\ Classes(params[k].of.on, k) = BOOLEAN
             /\ params[k].of.params = Raw
             /\ params[k].of.pooling = statistic

CalibrationSound ==
    calibration # Missing => CurvesSound(calibration.params, Statistic(PoolingOf(calibration.metadata)))

\* Everything a run of the harness keeps from its start on.
RunSound(running) ==
    /\ running \in [at : ReportNames, id : {running.id}, cfg : {running.cfg}, model : {running.model},
                ensemble : {running.ensemble}, params : {running.params}, rows : {running.rows}, stamp : {running.stamp}]
    /\ running.stamp.split \in EvalSplits
    /\ running.stamp.seed = running.model /\ running.stamp.ensemble_seeds = running.ensemble
    /\ running.stamp.n_trajectories =
         running.stamp.n_samples * (IF running.ensemble = <<>> THEN 1 ELSE Len(running.ensemble))
    /\ running.rows \subseteq SplitRows[running.stamp.split]
    /\ running.stamp.n_eval_rows = Cardinality(running.rows)
    /\ \/ AttackedRows(SplitRows[running.stamp.split]) \subseteq running.rows
       \/ running.rows \subseteq AttackedRows(SplitRows[running.stamp.split])
    /\ CurvesSound(running.params, Statistic(running.stamp.risk_pooling))

\* The file that a run leaves under a name.
FileOf(running, file) ==
    [at |-> "file", id |-> running.id, stamp |-> running.stamp, rows |-> ReportRows(running, file)]
IsLeftBy(filed, running, w) ==
    RunSound(running) /\ running.stamp.split = w[1] /\ filed = FileOf(running, w[2])

EvaluatingSound ==
    evaluating # Missing =>
        /\ RunSound(evaluating) /\ evaluating.id \in Nat /\ evaluating.id < spent.evaluations
        /\ \A w \in Written : Report(w).id = evaluating.id => IsLeftBy(Report(w), evaluating, w)

\* The files with one number are all of one run.
FiledSound ==
    /\ \A w \in Written : Report(w).id \in Nat /\ Report(w).id < spent.evaluations
    /\ \A v \in Written, w \in Written : Report(v).id = Report(w).id =>
          \E running : IsLeftBy(Report(v), running, v) /\ IsLeftBy(Report(w), running, w)

ReportsType ==
    /\ spent \in [evaluations : Nat, changes : Nat]
    /\ reports = [w \in ReportPaths |-> reports[w]]

ReportsInductive ==
    ReportsType /\ CalibrationSound /\ EvaluatingSound /\ FiledSound

-----------------------------------------------------------------------------
\* What `resolve_pooling` and the signature of a calibration make of one
\* configuration is the same.
LEMMA OneReader ==
    ASSUME NEW cfg
    PROVE  resolve_pooling(cfg) = PoolingOf(cfg.rollout)
BY DEF resolve_pooling, PoolingOf, Signature

\* A calibration that is not refused was fitted to the statistic it is used on.
LEMMA NotRefused ==
    ASSUME NEW metadata, NEW cfg, ~calibration_pooling_mismatch(metadata, cfg)
    PROVE  Statistic(PoolingOf(metadata)) = Statistic(resolve_pooling(cfg))
<1> DEFINE f == Signature(metadata)
           c == Signature(cfg.rollout)
<1>1. /\ f.risk_pooling_method = c.risk_pooling_method
      /\ \/ c.risk_pooling_method = "mean"
         \/ /\ f.risk_pooling_quantile = c.risk_pooling_quantile
            /\ f.risk_pooling_head_reduction = c.risk_pooling_head_reduction
  BY DEF calibration_pooling_mismatch, pooling_signature
<1> HIDE DEF f, c
<1>2. PoolingOf(metadata) = [method |-> f.risk_pooling_method, quantile |-> f.risk_pooling_quantile,
                            head_reduction |-> f.risk_pooling_head_reduction]
  BY DEF PoolingOf, f
<1>3. resolve_pooling(cfg) = [method |-> c.risk_pooling_method, quantile |-> c.risk_pooling_quantile,
                            head_reduction |-> c.risk_pooling_head_reduction]
  BY OneReader DEF PoolingOf, c
<1> QED BY <1>1, <1>2, <1>3 DEF Statistic

\* What an earlier version left is of the mean.
LEMMA EarlierIsTheMean == Statistic(PoolingOf(EarlierMetadata)) = Statistic(Mean)
<1>1. Signature(EarlierMetadata).risk_pooling_method = "mean"
  BY EvalReportsAssumption DEF Signature, Get
<1> QED BY <1>1 DEF PoolingOf, Statistic, Mean

\* The signature is read back from the metadata it was put in.
LEMMA SignatureIsKept ==
    ASSUME NEW cfg, NEW seeds, NEW n
    PROVE  PoolingOf([risk_pooling_method |-> pooling_signature(cfg).risk_pooling_method,
                      risk_pooling_quantile |-> pooling_signature(cfg).risk_pooling_quantile,
                      risk_pooling_head_reduction |-> pooling_signature(cfg).risk_pooling_head_reduction,
                      seeds |-> seeds, n_ensemble_members |-> n])
               = PoolingOf(cfg.rollout)
BY DEF PoolingOf, pooling_signature, Signature, Get

\* Every curve of a fit is sound for the score it was fitted to.
LEMMA FitIsSound ==
    ASSUME NEW score, NEW n, NEW slopes \in [1..n -> Int],
           NEW params, params = [k \in 1..n |-> fit_platt(score, k, slopes[k])],
           score.on \subseteq SplitRows["val"], score.params = Raw
    PROVE  CurvesSound(params, score.pooling)
<1>1. SUFFICES ASSUME NEW k \in 1..n
               PROVE /\ params[k].a \in Int /\ params[k].a > 0
                     /\ ~params[k].degenerate =>
                           /\ params[k].of.on \subseteq SplitRows["val"]
                           /\ Classes(params[k].of.on, k) = BOOLEAN
                           /\ params[k].of.params = Raw
                           /\ params[k].of.pooling = score.pooling
  BY DEF CurvesSound
<1>2. params[k] = fit_platt(score, k, slopes[k])
  OBVIOUS
<1>3. CASE Classes(score.on, k) # BOOLEAN \/ slopes[k] <= 0
  BY <1>2, <1>3 DEF fit_platt
<1>4. CASE ~(Classes(score.on, k) # BOOLEAN \/ slopes[k] <= 0)
  <2>1. fit_platt(score, k, slopes[k]) = [a |-> slopes[k], degenerate |-> FALSE, of |-> score]
    BY <1>4 DEF fit_platt
  <2>2. slopes[k] \in Int /\ slopes[k] > 0
    <3>1. slopes[k] \in Int  OBVIOUS
    <3>2. PICK i \in Int : i = slopes[k]  BY <3>1
    <3> QED BY <3>2, <1>4
  <2> QED BY <1>2, <2>1, <2>2, <1>4
<1> QED BY <1>3, <1>4

-----------------------------------------------------------------------------
Usual(name) == name \in {"by_horizon", "pre_attack", "benign"}
PooledAs(running, s) ==
    \/ s.pooling = Statistic(running.stamp.risk_pooling)
    \/ Len(s.members) = 1 /\ s.pooling = Statistic(OneHead(running.stamp.risk_pooling))

RowsOf(running, file) == IF file = "lead_time" THEN Early(running.stamp.split) ELSE running.rows
OnItsRows(running, file, name, on) ==
    IF name = "pre_attack" THEN on = AttackedRows(running.rows)
    ELSE IF name = "benign" THEN on = running.rows \ AttackedRows(running.rows)
    ELSE on = RowsOf(running, file)

\* What is said of one score of a run, whatever file it is in.
ScoreSound(running, file, name, s) ==
    /\ s.members \in {<<running.model>>, running.ensemble}
    /\ s.samples > 0 => Usual(name) \/ PooledAs(running, s)
    /\ s.samples > 0 /\ Len(s.members) > 1 =>
          s.samples * Len(s.members) = running.stamp.n_trajectories
    /\ s.params = Raw \/ (s.params = running.params /\ PooledAs(running, s))
    /\ OnItsRows(running, file, name, s.on)

\* Apart from lead time, a file scores the rows the run evaluates.
LEMMA OnAllRows ==
    ASSUME NEW running, NEW file, NEW name, ~Usual(name)
    PROVE  OnItsRows(running, file, name, RowsOf(running, file))
BY DEF OnItsRows, Usual

\* A world model's score is pooled by one head, over the rows it is given.
LEMMA WorldIs ==
    ASSUME NEW running, NEW samples, NEW rows, NEW s, s = World(running, samples, rows)
    PROVE  /\ s.members = <<running.model>> /\ s.pooling = Statistic(OneHead(running.stamp.risk_pooling))
           /\ s.samples = samples /\ s.on = rows /\ s.params = Raw
BY DEF World, world_model_forecast, ScoreOf

\* The ensemble's score is pooled as the stamp of its run says, in its samples.
LEMMA PooledIs ==
    ASSUME NEW running, NEW rows, NEW s, s = Pooled(running, rows)
    PROVE  /\ s.members = running.ensemble /\ s.pooling = Statistic(running.stamp.risk_pooling)
           /\ s.samples = running.stamp.n_samples /\ s.on = rows /\ s.params = Raw
BY DEF Pooled, ensemble_forecast, ScoreOf

\* A score of the heads alone simulates nothing.
LEMMA HeadsAre ==
    ASSUME NEW members, NEW rows, NEW s, s = HeadsOnly(members, rows)
    PROVE  s.members = members /\ s.samples = 0 /\ s.on = rows /\ s.params = Raw
BY DEF HeadsOnly, ScoreOf

\* The forecast that the ablations start from is of one model, pooled by the mean.
LEMMA UsualIs ==
    ASSUME NEW model, NEW samples, NEW rows, NEW s, s = world_model_forecast(model, Mean, samples, rows)
    PROVE  s.members = <<model>> /\ s.samples = samples /\ s.on = rows /\ s.params = Raw
BY DEF world_model_forecast, ScoreOf

\* Calibration changes the curves of a score and nothing else.
LEMMA CalibratedIs ==
    ASSUME NEW s, NEW params, NEW t, t = apply_platt_by_horizon(s, params)
    PROVE  /\ t.members = s.members /\ t.pooling = s.pooling /\ t.samples = s.samples
           /\ t.on = s.on /\ t.params = params
BY DEF apply_platt_by_horizon

\* Scores that were not rolled out.
LEMMA HeadsSound ==
    ASSUME NEW running, NEW members \in {<<running.model>>, running.ensemble}, NEW file, RowsOf(running, file) = running.rows,
           NEW name, ~Usual(name)
    PROVE  ScoreSound(running, file, name, HeadsOnly(members, running.rows))
<1> DEFINE s == HeadsOnly(members, running.rows)
<1>1. OnItsRows(running, file, name, running.rows)
  BY OnAllRows
<1>2. s.members = members /\ s.samples = 0 /\ s.params = Raw /\ s.on = running.rows
  BY HeadsAre
<1>4. s.members \in {<<running.model>>, running.ensemble}
  BY <1>2
<1> HIDE DEF s
<1>3. ~(s.samples > 0)
  BY <1>2
<1>5. ScoreSound(running, file, name, s)
  BY <1>1, <1>2, <1>3, <1>4 DEF ScoreSound
<1> QED BY <1>5 DEF s

\* Scores of one model, raw and calibrated.
LEMMA WorldSound ==
    ASSUME NEW running, NEW file, NEW name, ~Usual(name), NEW samples
    PROVE  LET s == World(running, samples, RowsOf(running, file))
           IN  /\ ScoreSound(running, file, name, s)
               /\ ScoreSound(running, file, name, apply_platt_by_horizon(s, running.params))
<1> DEFINE rows == RowsOf(running, file)
           s == World(running, samples, rows)
           t == apply_platt_by_horizon(s, running.params)
<1>1. OnItsRows(running, file, name, rows)
  BY OnAllRows
<1>2. /\ s.members = <<running.model>> /\ s.pooling = Statistic(OneHead(running.stamp.risk_pooling))
      /\ s.on = rows /\ s.params = Raw
  BY WorldIs
<1>3. t.members = s.members /\ t.pooling = s.pooling /\ t.on = s.on /\ t.params = running.params
  BY CalibratedIs
<1>4. Len(<<running.model>>) = 1
  OBVIOUS
<1> HIDE DEF t, s, rows
<1>5. PooledAs(running, s) /\ PooledAs(running, t)
  BY <1>2, <1>3, <1>4 DEF PooledAs
<1>6. ~(Len(s.members) > 1) /\ ~(Len(t.members) > 1)
  BY <1>2, <1>3, <1>4
<1>7. ScoreSound(running, file, name, s)
  BY <1>1, <1>2, <1>5, <1>6 DEF ScoreSound
<1>8. ScoreSound(running, file, name, t)
  BY <1>1, <1>2, <1>3, <1>5, <1>6 DEF ScoreSound
<1> QED BY <1>7, <1>8 DEF s, t, rows

\* Scores of the ensemble.
LEMMA StatisticSound ==
    ASSUME NEW running, RunSound(running), running.ensemble # <<>>, NEW file, NEW name, ~Usual(name)
    PROVE  LET s == Pooled(running, RowsOf(running, file))
           IN  /\ ScoreSound(running, file, name, s)
               /\ ScoreSound(running, file, name, apply_platt_by_horizon(s, running.params))
<1> DEFINE rows == RowsOf(running, file)
           s == Pooled(running, rows)
           t == apply_platt_by_horizon(s, running.params)
<1>1. OnItsRows(running, file, name, rows)
  BY OnAllRows
<1>2. /\ s.members = running.ensemble /\ s.pooling = Statistic(running.stamp.risk_pooling)
      /\ s.samples = running.stamp.n_samples /\ s.on = rows /\ s.params = Raw
  BY PooledIs
<1>3. /\ t.members = s.members /\ t.pooling = s.pooling /\ t.samples = s.samples
      /\ t.on = s.on /\ t.params = running.params
  BY CalibratedIs
<1>4. running.stamp.n_trajectories = running.stamp.n_samples * Len(running.ensemble)
  BY DEF RunSound
<1> HIDE DEF t, s, rows
<1>5. PooledAs(running, s) /\ PooledAs(running, t)
  BY <1>2, <1>3 DEF PooledAs
<1>6. /\ s.samples * Len(s.members) = running.stamp.n_trajectories
      /\ t.samples * Len(t.members) = running.stamp.n_trajectories
  BY <1>2, <1>3, <1>4
<1>7. ScoreSound(running, file, name, s)
  BY <1>1, <1>2, <1>5, <1>6 DEF ScoreSound
<1>8. ScoreSound(running, file, name, t)
  BY <1>1, <1>2, <1>3, <1>5, <1>6 DEF ScoreSound
<1> QED BY <1>7, <1>8 DEF s, t, rows

\* Both scores of one key.
LEMMA WithIs ==
    ASSUME NEW running, NEW name, NEW calibrated, NEW s, NEW row \in With(running, name, calibrated, s)
    PROVE  \/ row.name = name /\ row.score = s
           \/ row.name = calibrated /\ row.score = apply_platt_by_horizon(s, running.params)
BY DEF With, Named

\* Each row of baselines.json is scored as its run is stamped.
LEMMA BaselinesSound ==
    ASSUME NEW running, RunSound(running), NEW row \in Baselines(running)
    PROVE  ScoreSound(running, "baselines", row.name, row.score)
<1> DEFINE W == World(running, running.stamp.n_samples, running.rows)
           P == Pooled(running, running.rows)
           H(members) == HeadsOnly(members, running.rows)
<1>1. RowsOf(running, "baselines") = running.rows
  BY DEF RowsOf
<1>2. /\ ~Usual("world_model") /\ ~Usual("world_model_calibrated") /\ ~Usual("ensemble_world_model")
      /\ ~Usual("ensemble_world_model_calibrated") /\ ~Usual("persistence") /\ ~Usual("oracle")
      /\ ~Usual("ensemble_persistence") /\ ~Usual("ensemble_oracle")
  BY DEF Usual
<1>3. CASE row \in With(running, "world_model", "world_model_calibrated", W)
  <2>1. /\ ScoreSound(running, "baselines", "world_model", W)
        /\ ScoreSound(running, "baselines", "world_model_calibrated", apply_platt_by_horizon(W, running.params))
    BY <1>1, <1>2, WorldSound
  <2> QED BY <1>3, <2>1, WithIs
<1>4. CASE running.ensemble # <<>> /\ row \in With(running, "ensemble_world_model", "ensemble_world_model_calibrated", P)
  <2>1. /\ ScoreSound(running, "baselines", "ensemble_world_model", P)
        /\ ScoreSound(running, "baselines", "ensemble_world_model_calibrated", apply_platt_by_horizon(P, running.params))
    BY <1>1, <1>2, <1>4, StatisticSound
  <2> QED BY <1>4, <2>1, WithIs
<1>5. CASE row \in {Named("persistence", H(<<running.model>>)), Named("oracle", H(<<running.model>>))}
  <2>1. /\ ScoreSound(running, "baselines", "persistence", H(<<running.model>>))
        /\ ScoreSound(running, "baselines", "oracle", H(<<running.model>>))
    BY <1>1, <1>2, HeadsSound
  <2> QED BY <1>5, <2>1 DEF Named
<1>6. CASE row \in {Named("ensemble_persistence", H(running.ensemble)), Named("ensemble_oracle", H(running.ensemble))}
  <2>1. /\ ScoreSound(running, "baselines", "ensemble_persistence", H(running.ensemble))
        /\ ScoreSound(running, "baselines", "ensemble_oracle", H(running.ensemble))
    BY <1>1, <1>2, HeadsSound
  <2> QED BY <1>6, <2>1 DEF Named
<1> QED BY <1>3, <1>4, <1>5, <1>6 DEF Baselines

\* Each row of ablations.json is of the rows and the model of its run.
LEMMA AblationsSound ==
    ASSUME NEW running, NEW row \in Ablations(running)
    PROVE  ScoreSound(running, "ablations", row.name, row.score)
<1> DEFINE W(n) == World(running, n, running.rows)
           H == HeadsOnly(<<running.model>>, running.rows)
           Once(rows) == world_model_forecast(running.model, Mean, 1, rows)
<1>1. RowsOf(running, "ablations") = running.rows
  BY DEF RowsOf
<1>2. CASE row = Named("persistence", H)
  <2>1. ~Usual("persistence")
    BY DEF Usual
  <2>2. ScoreSound(running, "ablations", "persistence", H)
    BY <1>1, <2>1, HeadsSound
  <2> QED BY <1>2, <2>2 DEF Named
<1>3. CASE \E n, name : ~Usual(name) /\ row = Named(name, W(n))
  <2>1. PICK n, name : ~Usual(name) /\ row = Named(name, W(n))
    BY <1>3
  <2>2. ScoreSound(running, "ablations", name, W(n))
    BY <1>1, <2>1, WorldSound
  <2>3. row.name = name /\ row.score = W(n)
    BY <2>1 DEF Named
  <2> QED BY <2>2, <2>3
<1>4. ASSUME NEW name, NEW rows, OnItsRows(running, "ablations", name, rows), Usual(name),
             row = Named(name, Once(rows))
      PROVE  ScoreSound(running, "ablations", row.name, row.score)
  <2>1. row.name = name /\ row.score = Once(rows)
    BY <1>4 DEF Named
  <2> DEFINE s == Once(rows)
  <2>2. s.members = <<running.model>> /\ s.samples = 1 /\ s.on = rows /\ s.params = Raw
    BY UsualIs
  <2>3. Len(<<running.model>>) = 1
    OBVIOUS
  <2> HIDE DEF s, Once
  <2>4. ~(Len(s.members) > 1)
    BY <2>2, <2>3
  <2>5. ScoreSound(running, "ablations", name, s)
    BY <2>2, <2>4, <1>4 DEF ScoreSound
  <2> QED BY <2>1, <2>5 DEF s
<1>5. CASE row = Named("pre_attack", Once(AttackedRows(running.rows)))
  BY <1>4, <1>5 DEF Usual, OnItsRows
<1>6. CASE row = Named("benign", Once(running.rows \ AttackedRows(running.rows)))
  BY <1>4, <1>6 DEF Usual, OnItsRows
<1>7. ~Usual("world") /\ ~Usual("normal_order") /\ ~Usual("shuffled_order") /\ ~Usual("horizon_curve")
  BY DEF Usual
<1>8. CASE row \in {Named("world", W(FixedSamples)), Named("normal_order", W(FixedSamples)),
                    Named("shuffled_order", W(FixedSamples)), Named("horizon_curve", W(running.stamp.n_samples))}
  BY <1>3, <1>7, <1>8
<1> QED BY <1>2, <1>5, <1>6, <1>8 DEF Ablations, persistence_ablation, time_shuffle_ablation,
                                     horizon_curve, surprise_signal

\* Each row of calibration.json is scored as its run is stamped.
LEMMA ReliabilitySound ==
    ASSUME NEW running, NEW row \in Reliability(running)
    PROVE  ScoreSound(running, "calibration", row.name, row.score)
<1> DEFINE W == World(running, running.stamp.n_samples, running.rows)
           O == world_model_forecast(running.model, Mean, running.stamp.n_samples, running.rows)
<1>1. RowsOf(running, "calibration") = running.rows
  BY DEF RowsOf
<1>2. CASE row = Named("recalibrated", apply_platt_by_horizon(W, running.params))
  <2>1. ~Usual("recalibrated")
    BY DEF Usual
  <2>2. ScoreSound(running, "calibration", "recalibrated", apply_platt_by_horizon(W, running.params))
    BY <1>1, <2>1, WorldSound
  <2> QED BY <1>2, <2>2 DEF Named
<1>3. CASE row = Named("by_horizon", O)
  <2>1. O.members = <<running.model>> /\ O.on = running.rows /\ O.params = Raw
    BY UsualIs
  <2>2. Len(<<running.model>>) = 1
    OBVIOUS
  <2>3. Usual("by_horizon") /\ OnItsRows(running, "calibration", "by_horizon", running.rows)
    BY <1>1 DEF Usual, OnItsRows
  <2> HIDE DEF O
  <2>4. ~(Len(O.members) > 1)
    BY <2>1, <2>2
  <2>5. ScoreSound(running, "calibration", "by_horizon", O)
    BY <2>1, <2>3, <2>4 DEF ScoreSound
  <2> QED BY <1>3, <2>5 DEF Named
<1> QED BY <1>2, <1>3 DEF Reliability, calibration_by_horizon

\* Each row of lead_time.json is of a part of the split, as its run is stamped.
LEMMA LeadTimeSound ==
    ASSUME NEW running, RunSound(running), NEW row \in LeadTimeRows(running)
    PROVE  ScoreSound(running, "lead_time", row.name, row.score)
<1> DEFINE on == Early(running.stamp.split)
           W == World(running, running.stamp.n_samples, on)
           P == Pooled(running, on)
<1>1. RowsOf(running, "lead_time") = on
  BY DEF RowsOf
<1>2. ~Usual("raw") /\ ~Usual("calibrated") /\ ~Usual("ensemble") /\ ~Usual("ensemble_calibrated")
  BY DEF Usual
<1>3. CASE row \in With(running, "raw", "calibrated", W)
  <2>1. /\ ScoreSound(running, "lead_time", "raw", W)
        /\ ScoreSound(running, "lead_time", "calibrated", apply_platt_by_horizon(W, running.params))
    BY <1>1, <1>2, WorldSound
  <2> QED BY <1>3, <2>1, WithIs
<1>4. CASE running.ensemble # <<>> /\ row \in With(running, "ensemble", "ensemble_calibrated", P)
  <2>1. /\ ScoreSound(running, "lead_time", "ensemble", P)
        /\ ScoreSound(running, "lead_time", "ensemble_calibrated", apply_platt_by_horizon(P, running.params))
    BY <1>1, <1>2, <1>4, StatisticSound
  <2> QED BY <1>4, <2>1, WithIs
<1> QED BY <1>3, <1>4 DEF LeadTimeRows

\* Only the ablations have halves.
LEMMA OnlyAblationsHaveHalves ==
    ASSUME NEW running, NEW file \in ReportNames, NEW row \in ReportRows(running, file), row.name = "pre_attack"
    PROVE  file = "ablations"
<1>1. CASE file = "baselines"
  <2>1. row \in Baselines(running)
    BY <1>1 DEF ReportRows
  <2> QED BY <2>1, WithIs DEF Baselines, Named
<1>2. CASE file = "calibration"
  <2>1. row \in Reliability(running)
    BY <1>2 DEF ReportRows
  <2> QED BY <2>1 DEF Reliability, calibration_by_horizon, Named
<1>3. CASE file = "lead_time"
  <2>1. row \in LeadTimeRows(running)
    BY <1>3 DEF ReportRows
  <2> QED BY <2>1, WithIs DEF LeadTimeRows
<1> QED BY <1>1, <1>2, <1>3 DEF ReportNames

\* Every score of every file of a sound run is sound.
LEMMA ScoresOfARun ==
    ASSUME NEW running, RunSound(running), NEW file \in ReportNames, NEW row \in ReportRows(running, file)
    PROVE  ScoreSound(running, file, row.name, row.score)
<1>1. CASE file = "baselines"
  BY <1>1, BaselinesSound DEF ReportRows
<1>2. CASE file = "ablations"
  BY <1>2, AblationsSound DEF ReportRows
<1>3. CASE file = "calibration"
  BY <1>3, ReliabilitySound DEF ReportRows
<1>4. CASE file = "lead_time"
  BY <1>4, LeadTimeSound DEF ReportRows
<1> QED BY <1>1, <1>2, <1>3, <1>4 DEF ReportNames

\* A file but the ablations has a calibrated score when the run had curves.
LEMMA CalibratedTogether ==
    ASSUME NEW running, NEW file \in ReportNames \ {"ablations"}, running.params # Raw
    PROVE  \E row \in ReportRows(running, file) : row.score.params # Raw
<1>1. ASSUME NEW name, NEW s
      PROVE  Named(name, apply_platt_by_horizon(s, running.params)).score.params # Raw
  BY CalibratedIs DEF Named
<1> DEFINE W(rows) == World(running, running.stamp.n_samples, rows)
<1>2. CASE file = "baselines"
  <2>1. Named("world_model_calibrated", apply_platt_by_horizon(W(running.rows), running.params)) \in Baselines(running)
    BY DEF Baselines, With
  <2> QED BY <1>1, <1>2, <2>1 DEF ReportRows
<1>3. CASE file = "calibration"
  <2>1. Named("recalibrated", apply_platt_by_horizon(W(running.rows), running.params)) \in Reliability(running)
    BY DEF Reliability
  <2> QED BY <1>1, <1>3, <2>1 DEF ReportRows
<1>4. CASE file = "lead_time"
  <2>1. Named("calibrated", apply_platt_by_horizon(W(Early(running.stamp.split)), running.params))
            \in LeadTimeRows(running)
    BY DEF LeadTimeRows, With
  <2> QED BY <1>1, <1>4, <2>1 DEF ReportRows
<1> QED BY <1>2, <1>3, <1>4 DEF ReportNames

\* Without curves none has.
LEMMA RawTogether ==
    ASSUME NEW running, RunSound(running), NEW file \in ReportNames, NEW row \in ReportRows(running, file),
           row.score.params # Raw
    PROVE  running.params # Raw
BY ScoresOfARun DEF ScoreSound

-----------------------------------------------------------------------------

\* A report lies under its split and has one of four names.
LEMMA PathsAre == ReportPaths = EvalSplits \X ReportNames
<1>1. ToSet(ReportFiles) = ReportNames
  BY DEF ToSet, ReportFiles, ReportNames
<1> QED BY <1>1 DEF ReportPaths

\* A file of a run says what the run was told and what its scores are.
LEMMA FileMeansWhatItSays ==
    ASSUME ReportsInductive, NEW w \in Written
    PROVE  \E running : /\ RunSound(running) /\ running.stamp.split = w[1] /\ w[2] \in ReportNames
                    /\ Report(w).stamp = running.stamp /\ Report(w).rows = ReportRows(running, w[2])
                    /\ \A row \in Report(w).rows : ScoreSound(running, w[2], row.name, row.score)
<1>1. PICK running : IsLeftBy(Report(w), running, w)
  BY DEF ReportsInductive, FiledSound
<1>2. w[2] \in ReportNames
  BY PathsAre DEF Written
<1>3. /\ RunSound(running) /\ running.stamp.split = w[1]
      /\ Report(w).stamp = running.stamp /\ Report(w).rows = ReportRows(running, w[2])
  BY <1>1 DEF IsLeftBy, FileOf
<1>4. \A row \in Report(w).rows : ScoreSound(running, w[2], row.name, row.score)
  BY <1>2, <1>3, ScoresOfARun
<1> QED BY <1>2, <1>3, <1>4

\* A file was left by a run whose stamp it carries, so it says how it was pooled.
LEMMA StampsHold == ASSUME ReportsInductive PROVE StampedAsPooled
<1>1. SUFFICES ASSUME NEW w \in Written
      PROVE  /\ Report(w).stamp.split = w[1]
             /\ \A row \in Report(w).rows :
                  row.score.samples > 0 /\ row.name \notin {"by_horizon", "pre_attack", "benign"} =>
                     \/ row.score.pooling = Statistic(Report(w).stamp.risk_pooling)
                     \/ /\ Len(row.score.members) = 1
                        /\ row.score.pooling = Statistic(OneHead(Report(w).stamp.risk_pooling))
             /\ \A s \in ScoresIn(w) :
                  /\ s.members \in {<<Report(w).stamp.seed>>, Report(w).stamp.ensemble_seeds}
                  /\ s.samples > 0 /\ Len(s.members) > 1 =>
                       s.samples * Len(s.members) = Report(w).stamp.n_trajectories
  BY DEF StampedAsPooled
<1>2. PICK running : /\ RunSound(running) /\ running.stamp.split = w[1] /\ Report(w).stamp = running.stamp
                 /\ \A row \in Report(w).rows : ScoreSound(running, w[2], row.name, row.score)
  BY FileMeansWhatItSays
<1>3. ASSUME NEW row \in Report(w).rows
      PROVE  /\ row.score.samples > 0 => Usual(row.name) \/ PooledAs(running, row.score)
             /\ row.score.members \in {<<running.model>>, running.ensemble}
             /\ row.score.samples > 0 /\ Len(row.score.members) > 1 =>
                  row.score.samples * Len(row.score.members) = running.stamp.n_trajectories
  BY <1>2 DEF ScoreSound
<1>4. running.stamp.seed = running.model /\ running.stamp.ensemble_seeds = running.ensemble
  BY <1>2 DEF RunSound
<1>5. ASSUME NEW row \in Report(w).rows, row.score.samples > 0,
             row.name \notin {"by_horizon", "pre_attack", "benign"}
      PROVE  \/ row.score.pooling = Statistic(Report(w).stamp.risk_pooling)
             \/ /\ Len(row.score.members) = 1
                /\ row.score.pooling = Statistic(OneHead(Report(w).stamp.risk_pooling))
  BY <1>2, <1>3, <1>5, Zenon DEF PooledAs, Usual
<1> QED BY <1>2, <1>3, <1>4, <1>5, Zenon DEF ScoresIn

\* A run keeps the curves it loaded, and it loaded them for its own statistic.
LEMMA CurvesHold == ASSUME ReportsInductive PROVE CalibratedAsFitted
<1>1. SUFFICES ASSUME NEW w \in Written, NEW row \in Report(w).rows, row.score.params # Raw,
                      NEW k \in DOMAIN row.score.params
      PROVE  LET s == row.score
                 fitted == s.params[k]
             IN  /\ fitted.a > 0
                 /\ ~fitted.degenerate =>
                      /\ fitted.of.on \subseteq SplitRows["val"]
                      /\ Classes(fitted.of.on, k) = BOOLEAN
                      /\ fitted.of.params = Raw
                      /\ IF Len(s.members) > 1 THEN fitted.of.pooling = s.pooling
                         ELSE <<fitted.of.pooling.method, fitted.of.pooling.quantile>>
                                = <<s.pooling.method, s.pooling.quantile>>
  BY DEF CalibratedAsFitted, ScoresIn
<1> DEFINE s == row.score
           fitted == s.params[k]
           p == Report(w).stamp.risk_pooling
<1>2. PICK running : /\ RunSound(running) /\ Report(w).stamp = running.stamp
                 /\ ScoreSound(running, w[2], row.name, row.score)
  BY FileMeansWhatItSays
<1>3. s.params = running.params /\ PooledAs(running, s)
  BY <1>1, <1>2 DEF ScoreSound
<1>4. CurvesSound(s.params, Statistic(p))
  BY <1>2, <1>3 DEF RunSound
<1>5. /\ fitted.a > 0
      /\ ~fitted.degenerate =>
            /\ fitted.of.on \subseteq SplitRows["val"] /\ Classes(fitted.of.on, k) = BOOLEAN
            /\ fitted.of.params = Raw /\ fitted.of.pooling = Statistic(p)
  BY <1>4 DEF CurvesSound
<1>6. /\ Statistic(OneHead(p)).method = Statistic(p).method
      /\ Statistic(OneHead(p)).quantile = Statistic(p).quantile
  BY DEF Statistic, OneHead
<1>7. s.pooling = Statistic(p) \/ (Len(s.members) = 1 /\ s.pooling = Statistic(OneHead(p)))
  BY <1>2, <1>3 DEF PooledAs
<1> HIDE DEF s, fitted, p
<1>8. ASSUME ~fitted.degenerate
      PROVE  IF Len(s.members) > 1 THEN fitted.of.pooling = s.pooling
             ELSE <<fitted.of.pooling.method, fitted.of.pooling.quantile>>
                    = <<s.pooling.method, s.pooling.quantile>>
  <2>1. CASE s.pooling = Statistic(p)
    BY <1>5, <1>8, <2>1
  <2>2. CASE Len(s.members) = 1 /\ s.pooling = Statistic(OneHead(p))
    BY <1>5, <1>6, <1>8, <2>2
  <2> QED BY <1>7, <2>1, <2>2
<1> QED BY <1>5, <1>8 DEF s, fitted

\* The scores of a file are of the rows of one run, which its stamp counts.
LEMMA RowsHold == ASSUME ReportsInductive PROVE ComparedOnTheSameRows
<1>1. ASSUME NEW w \in Written
      PROVE  /\ \A s \in Compared(w) : \A t \in Compared(w) : s.on = t.on
             /\ \A s \in Compared(w) :
                  IF w[2] = "lead_time" THEN s.on = Early(w[1])
                  ELSE /\ Cardinality(s.on) = Report(w).stamp.n_eval_rows
                       /\ \/ AttackedRows(SplitRows[w[1]]) \subseteq s.on
                          \/ s.on \subseteq AttackedRows(SplitRows[w[1]])
             /\ \A pre \in PartOf(w, "pre_attack"), benign \in PartOf(w, "benign") :
                  /\ pre.score.on \cap benign.score.on = {}
                  /\ \A s \in Compared(w) : pre.score.on \cup benign.score.on = s.on
  <2>1. PICK running : /\ RunSound(running) /\ running.stamp.split = w[1] /\ Report(w).stamp = running.stamp
                   /\ w[2] \in ReportNames /\ Report(w).rows = ReportRows(running, w[2])
                   /\ \A row \in Report(w).rows : ScoreSound(running, w[2], row.name, row.score)
    BY FileMeansWhatItSays
  <2>2. \A s \in Compared(w) : s.on = RowsOf(running, w[2])
    <3>1. SUFFICES ASSUME NEW row \in Report(w).rows, row.name # "pre_attack", row.name # "benign"
                   PROVE  row.score.on = RowsOf(running, w[2])
      BY DEF Compared, PartOf
    <3>2. OnItsRows(running, w[2], row.name, row.score.on)
      BY <2>1 DEF ScoreSound
    <3> QED BY <3>1, <3>2, Zenon DEF OnItsRows
  <2>3. \A pre \in PartOf(w, "pre_attack") : pre.score.on = AttackedRows(running.rows)
    <3>1. SUFFICES ASSUME NEW row \in Report(w).rows, row.name = "pre_attack"
                   PROVE  row.score.on = AttackedRows(running.rows)
      BY DEF PartOf
    <3>2. OnItsRows(running, w[2], row.name, row.score.on)
      BY <2>1 DEF ScoreSound
    <3> QED BY <3>1, <3>2, Zenon DEF OnItsRows
  <2>4. \A benign \in PartOf(w, "benign") : benign.score.on = running.rows \ AttackedRows(running.rows)
    <3>1. SUFFICES ASSUME NEW row \in Report(w).rows, row.name = "benign"
                   PROVE  row.score.on = running.rows \ AttackedRows(running.rows)
      BY DEF PartOf
    <3>2. OnItsRows(running, w[2], "benign", row.score.on)
      BY <2>1, <3>1 DEF ScoreSound
    <3> QED BY <3>2 DEF OnItsRows
  <2>5. AttackedRows(running.rows) \subseteq running.rows
    BY DEF AttackedRows
  <2>6. /\ running.stamp.n_eval_rows = Cardinality(running.rows)
        /\ \/ AttackedRows(SplitRows[w[1]]) \subseteq running.rows
           \/ running.rows \subseteq AttackedRows(SplitRows[w[1]])
    BY <2>1 DEF RunSound
  <2>7. ASSUME NEW s \in Compared(w)
        PROVE  IF w[2] = "lead_time" THEN s.on = Early(w[1])
               ELSE /\ Cardinality(s.on) = Report(w).stamp.n_eval_rows
                    /\ \/ AttackedRows(SplitRows[w[1]]) \subseteq s.on
                       \/ s.on \subseteq AttackedRows(SplitRows[w[1]])
    BY <2>1, <2>2, <2>6, Zenon DEF RowsOf
  <2>8. ASSUME NEW pre \in PartOf(w, "pre_attack"), NEW benign \in PartOf(w, "benign")
        PROVE  /\ pre.score.on \cap benign.score.on = {}
               /\ \A s \in Compared(w) : pre.score.on \cup benign.score.on = s.on
    <3>1. w[2] = "ablations"
      <4>1. pre \in ReportRows(running, w[2]) /\ pre.name = "pre_attack"
        BY <2>1 DEF PartOf
      <4> QED BY <2>1, <4>1, OnlyAblationsHaveHalves
    <3>2. RowsOf(running, w[2]) = running.rows
      BY <3>1 DEF RowsOf
    <3> QED BY <2>2, <2>3, <2>4, <2>5, <3>2
  <2> QED BY <2>2, <2>7, <2>8
<1>2. ASSUME NEW v \in Written, NEW w \in Written, Report(v).id = Report(w).id
      PROVE  /\ Report(v).stamp = Report(w).stamp
             /\ "ablations" \notin {v[2], w[2]} =>
                   (\E s \in ScoresIn(v) : s.params # Raw) = (\E s \in ScoresIn(w) : s.params # Raw)
  <2>1. PICK running : IsLeftBy(Report(v), running, v) /\ IsLeftBy(Report(w), running, w)
    BY <1>2 DEF ReportsInductive, FiledSound
  <2>2. v[2] \in ReportNames /\ w[2] \in ReportNames
    BY PathsAre DEF Written
  <2>3. /\ RunSound(running) /\ Report(v).stamp = running.stamp /\ Report(w).stamp = running.stamp
        /\ Report(v).rows = ReportRows(running, v[2]) /\ Report(w).rows = ReportRows(running, w[2])
    BY <2>1 DEF IsLeftBy, FileOf
  <2>4. ASSUME NEW x \in {v, w}, x[2] # "ablations"
        PROVE  (\E s \in ScoresIn(x) : s.params # Raw) <=> running.params # Raw
    <3>1. x[2] \in ReportNames \ {"ablations"} /\ Report(x).rows = ReportRows(running, x[2])
      BY <2>2, <2>3, <2>4
    <3>2. ASSUME running.params # Raw  PROVE \E s \in ScoresIn(x) : s.params # Raw
      BY <3>1, <3>2, CalibratedTogether DEF ScoresIn
    <3>3. ASSUME NEW s \in ScoresIn(x), s.params # Raw  PROVE running.params # Raw
      BY <2>3, <3>1, <3>3, RawTogether DEF ScoresIn
    <3> QED BY <3>2, <3>3
  <2> QED BY <2>3, <2>4
<1> QED BY <1>1, <1>2, Zenon DEF ComparedOnTheSameRows

\* The inductive invariant gives each part of the property.
LEMMA ReportsInductiveImplies == ReportsInductive => ReportsMeanWhatTheySay
BY StampsHold, CurvesHold, RowsHold DEF ReportsMeanWhatTheySay

-----------------------------------------------------------------------------
\* What is evaluated is of the split, and the attacked come first.
LEMMA SubsampleIs ==
    ASSUME NEW rows, NEW cap, NEW some \in subsample_stratified_by_risk(rows, cap)
    PROVE  /\ some \subseteq rows
           /\ AttackedRows(rows) \subseteq some \/ some \subseteq AttackedRows(rows)
<1>1. AttackedRows(rows) \subseteq rows
  BY DEF AttackedRows
<1>2. CASE cap = NoCap \/ Cardinality(rows) <= cap
  BY <1>1, <1>2 DEF subsample_stratified_by_risk
<1>3. CASE ~(cap = NoCap \/ Cardinality(rows) <= cap)
  <2>1. \/ some \in kSubset(cap, AttackedRows(rows))
        \/ \E more \in kSubset(cap - Cardinality(AttackedRows(rows)), rows \ AttackedRows(rows)) :
              some = AttackedRows(rows) \cup more
    BY <1>3 DEF subsample_stratified_by_risk
  <2> QED BY <1>1, <2>1 DEF kSubset
<1> QED BY <1>2, <1>3

\* The next file of a run.
LEMMA FollowingIs ==
    ASSUME NEW file \in ReportNames
    PROVE  Following(file) \in ReportNames \cup {"none"}
<1> DEFINE i == CHOOSE j \in DOMAIN ReportFiles : ReportFiles[j] = file
<1>1. DOMAIN ReportFiles = 1..4 /\ Len(ReportFiles) = 4
  BY DEF ReportFiles
<1>2. \E j \in DOMAIN ReportFiles : ReportFiles[j] = file
  BY PathsAre DEF ReportFiles, ReportNames
<1>3. i \in 1..4
  BY <1>1, <1>2
<1> HIDE DEF i
<1>4. i # 4 => ReportFiles[i + 1] \in ReportNames
  BY <1>3 DEF ReportFiles, ReportNames
<1> QED BY <1>1, <1>4 DEF Following, i

-----------------------------------------------------------------------------

\* At first there is no report and no calibration.
LEMMA ReportsInitInductive == ReportsInit => ReportsInductive
<1> SUFFICES ASSUME ReportsInit PROVE ReportsInductive
  OBVIOUS
<1>1. ReportsType
  BY DEF ReportsInit, ReportsType
<1>2. CalibrationSound
  <2>1. CASE calibration = Missing
    BY <2>1 DEF CalibrationSound
  <2>2. CASE calibration # Missing
    <3> DEFINE score == ensemble_forecast(SelectSeq(MemberSeeds, HasWeights), Mean, FixedSamples, SplitRows["val"])
               ones == [k \in 1..settings.K |-> 1]
    <3>1. calibration = [at |-> "file", metadata |-> EarlierMetadata,
                         params |-> [k \in 1..settings.K |-> fit_platt(score, k, 1)]]
      BY <2>2 DEF ReportsInit
    <3>2. calibration.params = [k \in 1..settings.K |-> fit_platt(score, k, ones[k])]
      BY <3>1
    <3>3. score.on = SplitRows["val"] /\ score.params = Raw /\ score.pooling = Statistic(Mean)
      BY DEF ensemble_forecast, ScoreOf
    <3>5. ones \in [1..settings.K -> Int]
      OBVIOUS
    <3> HIDE DEF score, ones
    <3>4. CurvesSound(calibration.params, score.pooling)
      BY <3>2, <3>3, <3>5, FitIsSound
    <3> QED BY <3>1, <3>3, <3>4, EarlierIsTheMean DEF CalibrationSound
  <2> QED BY <2>1, <2>2
<1>3. EvaluatingSound
  BY DEF ReportsInit, EvaluatingSound
<1>4. FiledSound
  BY DEF ReportsInit, FiledSound, Written
<1> QED BY <1>1, <1>2, <1>3, <1>4 DEF ReportsInductive

\* What leaves the files and the harness alone, and counts on.
LEMMA FiledKeeps ==
    ASSUME ReportsInductive, UNCHANGED <<evaluating, reports>>,
           spent' \in [evaluations : Nat, changes : Nat], spent'.evaluations = spent.evaluations
    PROVE  ReportsType' /\ EvaluatingSound' /\ FiledSound'
<1>1. ReportsType'
  BY DEF ReportsInductive, ReportsType
<1>2. Written' = Written /\ \A w : Report(w)' = Report(w)
  BY DEF Written, Report
<1>3. EvaluatingSound'
  BY <1>2 DEF ReportsInductive, EvaluatingSound
<1>4. FiledSound'
  BY <1>2 DEF ReportsInductive, FiledSound
<1> QED BY <1>1, <1>3, <1>4

\* Evaluations are counted apart from changes.
LEMMA SpendIs ==
    ASSUME ReportsType, NEW what \in {"evaluations", "changes"}, Spend(what)
    PROVE  /\ spent' \in [evaluations : Nat, changes : Nat]
           /\ what = "changes" => spent'.evaluations = spent.evaluations
           /\ what = "evaluations" => spent'.evaluations = spent.evaluations + 1
BY DEF ReportsType, Spend

\* A fit is saved with the statistic it was fitted to, or fails before.
LEMMA SaveFitInductive == ASSUME ReportsInductive, SaveFit PROVE CalibrationSound'
<1> DEFINE cfg == fitting.cfg
           p == pooling_signature(cfg)
           stats == [method |-> p.risk_pooling_method, quantile |-> p.risk_pooling_quantile,
                      head_reduction |-> p.risk_pooling_head_reduction]
           metadata == [risk_pooling_method |-> p.risk_pooling_method,
                        risk_pooling_quantile |-> p.risk_pooling_quantile,
                        risk_pooling_head_reduction |-> p.risk_pooling_head_reduction,
                        seeds |-> MemberSeeds, n_ensemble_members |-> Len(fitting.members)]
           S(rows) == ensemble_forecast(fitting.members, stats, FixedSamples, rows)
<1>1. PICK cap \in EvalCaps : \E rows \in subsample_stratified_by_risk(SplitRows["val"], cap) :
           \E slopes \in [1..cfg.K -> Slopes] :
              calibration' = [at |-> "file", params |-> [k \in 1..cfg.K |-> fit_platt(S(rows), k, slopes[k])],
                              metadata |-> metadata]
  BY DEF SaveFit
<1>2. PICK rows \in subsample_stratified_by_risk(SplitRows["val"], cap) : \E slopes \in [1..cfg.K -> Slopes] :
           calibration' = [at |-> "file", params |-> [k \in 1..cfg.K |-> fit_platt(S(rows), k, slopes[k])],
                           metadata |-> metadata]
  BY <1>1
<1>3. PICK slopes \in [1..cfg.K -> Slopes] :
           calibration' = [at |-> "file", params |-> [k \in 1..cfg.K |-> fit_platt(S(rows), k, slopes[k])],
                           metadata |-> metadata]
  BY <1>2
<1> DEFINE score == S(rows)
<1>4. rows \subseteq SplitRows["val"]
  BY SubsampleIs
<1>5. score.on = rows /\ score.params = Raw /\ score.pooling = Statistic(stats)
  BY DEF ensemble_forecast, ScoreOf
<1>6. slopes \in [1..cfg.K -> Int]
  BY EvalReportsAssumption
<1>7. stats = PoolingOf(cfg.rollout) /\ PoolingOf(metadata) = PoolingOf(cfg.rollout)
  BY SignatureIsKept DEF PoolingOf, pooling_signature
<1> HIDE DEF score, metadata, stats, cfg, S, p
<1>8. calibration'.params = [k \in 1..cfg.K |-> fit_platt(score, k, slopes[k])] /\ calibration'.metadata = metadata
  BY <1>3 DEF score
<1> DEFINE params == calibration'.params
<1>9. params = [k \in 1..cfg.K |-> fit_platt(score, k, slopes[k])]
  BY <1>8
<1>10. score.on \subseteq SplitRows["val"] /\ score.params = Raw
  BY <1>4, <1>5
<1> HIDE DEF params
<1>11. CurvesSound(params, score.pooling)
  BY <1>6, <1>9, <1>10, FitIsSound
<1> QED BY <1>5, <1>7, <1>8, <1>11 DEF params, CalibrationSound

\* What a run is started with.
LEMMA BeginIsSound ==
    ASSUME ReportsInductive, NEW split \in EvalSplits, NEW seed, NEW seeds, NEW samples, NEW cap,
           BeginEvaluation(split, seed, seeds, samples, cap)
    PROVE  /\ RunSound(evaluating') /\ evaluating'.id = spent.evaluations
           /\ Spend("evaluations") /\ UNCHANGED <<calibration, reports>>
<1> DEFINE usable == calibration # Missing /\ ~calibration_pooling_mismatch(calibration.metadata, settings)
           running == evaluating'
<1>1. PICK rows \in subsample_stratified_by_risk(SplitRows[split], cap) :
         running = [at |-> "baselines", id |-> spent.evaluations, cfg |-> settings,
                model |-> seed, ensemble |-> seeds,
                params |-> IF usable THEN calibration.params ELSE Raw, rows |-> rows,
                stamp |-> build_run_params(settings, seed, split, samples, cap, seeds, rows)]
  BY DEF BeginEvaluation
<1> DEFINE stamp == build_run_params(settings, seed, split, samples, cap, seeds, rows)
<1>2. /\ stamp.split = split /\ stamp.seed = seed /\ stamp.n_samples = samples
      /\ stamp.n_trajectories = samples * (IF seeds = <<>> THEN 1 ELSE Len(seeds))
      /\ stamp.n_eval_rows = Cardinality(rows) /\ stamp.ensemble_seeds = seeds
      /\ stamp.risk_pooling = resolve_pooling(settings)
  BY DEF build_run_params
<1> DEFINE params == IF usable THEN calibration.params ELSE Raw
<1>3. CurvesSound(params, Statistic(resolve_pooling(settings)))
  <2>1. CASE usable
    <3>1. CurvesSound(calibration.params, Statistic(PoolingOf(calibration.metadata)))
      BY <2>1 DEF ReportsInductive, CalibrationSound
    <3>2. Statistic(PoolingOf(calibration.metadata)) = Statistic(resolve_pooling(settings))
      BY <2>1, NotRefused
    <3> QED BY <2>1, <3>1, <3>2
  <2>2. CASE ~usable
    <3>1. params = <<>>
      BY <2>2 DEF Raw
    <3> HIDE DEF params
    <3>2. DOMAIN params = {}
      BY <3>1
    <3> QED BY <3>2 DEF CurvesSound
  <2> QED BY <2>1, <2>2
<1>4. /\ rows \subseteq SplitRows[split]
      /\ AttackedRows(SplitRows[split]) \subseteq rows \/ rows \subseteq AttackedRows(SplitRows[split])
  BY SubsampleIs
<1> HIDE DEF usable, stamp, params
<1>5. /\ running = [at |-> "baselines", id |-> running.id, cfg |-> running.cfg, model |-> running.model,
                ensemble |-> running.ensemble, params |-> running.params, rows |-> running.rows, stamp |-> running.stamp]
      /\ running.id = spent.evaluations /\ running.model = seed /\ running.ensemble = seeds /\ running.params = params
      /\ running.rows = rows /\ running.stamp = stamp
  BY <1>1 DEF stamp, params, usable
<1> HIDE DEF running
<1>6. running \in [at : ReportNames, id : {running.id}, cfg : {running.cfg}, model : {running.model},
               ensemble : {running.ensemble}, params : {running.params}, rows : {running.rows}, stamp : {running.stamp}]
  BY <1>5 DEF ReportNames
<1>7. RunSound(running)
  BY <1>2, <1>3, <1>4, <1>5, <1>6 DEF RunSound
<1>8. Spend("evaluations") /\ UNCHANGED <<calibration, reports>>
  BY DEF BeginEvaluation
<1> QED BY <1>5, <1>7, <1>8 DEF running

\* An evaluation that begins takes the calibration that fits its pooling, or none.
LEMMA BeginInductive ==
    ASSUME ReportsInductive, NEW split \in EvalSplits, NEW seed, NEW seeds, NEW samples, NEW cap,
           BeginEvaluation(split, seed, seeds, samples, cap)
    PROVE  ReportsInductive'
<1>1. /\ RunSound(evaluating') /\ evaluating'.id = spent.evaluations
      /\ Spend("evaluations") /\ UNCHANGED <<calibration, reports>>
  BY BeginIsSound
<1>2. /\ spent \in [evaluations : Nat, changes : Nat] /\ spent' \in [evaluations : Nat, changes : Nat]
      /\ spent'.evaluations = spent.evaluations + 1
  BY <1>1, SpendIs DEF ReportsInductive, ReportsType
<1>3. PICK n \in Nat : n = spent.evaluations
  BY <1>2
<1>4. Written' = Written /\ \A w : Report(w)' = Report(w)
  BY <1>1 DEF Written, Report
<1>5. \A w \in Written : Report(w).id \in Nat /\ Report(w).id < n
  BY <1>3 DEF ReportsInductive, FiledSound
<1>6. ReportsType' /\ CalibrationSound'
  BY <1>1, <1>2 DEF ReportsInductive, ReportsType, CalibrationSound
<1>7. EvaluatingSound'
  <2>1. evaluating'.id \in Nat /\ evaluating'.id < spent'.evaluations
    BY <1>1, <1>2, <1>3
  <2>2. \A w \in Written : Report(w).id # evaluating'.id
    BY <1>1, <1>3, <1>5
  <2> QED BY <1>1, <1>4, <2>1, <2>2 DEF EvaluatingSound
<1>8. FiledSound'
  <2>1. \A w \in Written : Report(w).id \in Nat /\ Report(w).id < spent'.evaluations
    <3>1. SUFFICES ASSUME NEW w \in Written PROVE Report(w).id \in Nat /\ Report(w).id < n + 1
      BY <1>2, <1>3
    <3>2. PICK i \in Nat : i = Report(w).id
      BY <1>5
    <3> QED BY <1>5, <3>2
  <2> QED BY <1>4, <2>1 DEF ReportsInductive, FiledSound
<1> QED BY <1>6, <1>7, <1>8 DEF ReportsInductive

\* A run is the same run whichever of its files it writes.
LEMMA OtherFile ==
    ASSUME NEW running, RunSound(running), NEW file \in ReportNames
    PROVE  LET next == [running EXCEPT !.at = file]
           IN  /\ RunSound(next) /\ next.id = running.id /\ next.stamp = running.stamp
               /\ \A w : FileOf(next, w[2]) = FileOf(running, w[2])
<1> DEFINE next == [running EXCEPT !.at = file]
<1>1. /\ next.id = running.id /\ next.cfg = running.cfg /\ next.model = running.model /\ next.ensemble = running.ensemble
      /\ next.params = running.params /\ next.rows = running.rows /\ next.stamp = running.stamp
  BY DEF RunSound
<1>2. next \in [at : ReportNames, id : {running.id}, cfg : {running.cfg}, model : {running.model},
                ensemble : {running.ensemble}, params : {running.params}, rows : {running.rows}, stamp : {running.stamp}]
  BY DEF RunSound
<1> HIDE DEF next
<1>3. RunSound(next)
  BY <1>1, <1>2 DEF RunSound
<1>5. \A samples, rows : World(next, samples, rows) = World(running, samples, rows) /\ Pooled(next, rows) = Pooled(running, rows)
  BY <1>1 DEF World, Pooled
<1>6. Baselines(next) = Baselines(running)
  BY <1>1 DEF Baselines, With, World, Pooled
<1>7. Ablations(next) = Ablations(running)
  BY <1>1, <1>5 DEF Ablations, persistence_ablation, time_shuffle_ablation, horizon_curve, surprise_signal
<1>8. Reliability(next) = Reliability(running)
  BY <1>1, <1>5 DEF Reliability, calibration_by_horizon
<1>9. LeadTimeRows(next) = LeadTimeRows(running)
  BY <1>1 DEF LeadTimeRows, With, World, Pooled
<1>10. \A w : FileOf(next, w[2]) = FileOf(running, w[2])
  BY <1>1, <1>6, <1>7, <1>8, <1>9 DEF FileOf, ReportRows
<1> QED BY <1>1, <1>3, <1>10 DEF next

\* A killed evaluation leaves the files it wrote.
LEMMA StopInductive ==
    ASSUME ReportsInductive, StopEvaluation
    PROVE  ReportsInductive'
<1>1. evaluating' = Missing /\ UNCHANGED <<calibration, reports, spent>>
  BY DEF StopEvaluation
<1>2. Written' = Written /\ \A w : Report(w)' = Report(w)
  BY <1>1 DEF Written, Report
<1> QED BY <1>1, <1>2 DEF ReportsInductive, ReportsType, CalibrationSound, EvaluatingSound, FiledSound

\* A file is replaced whole, by the rows of one run.
LEMMA WriteInductive ==
    ASSUME ReportsInductive, WriteReport
    PROVE  ReportsInductive'
<1> DEFINE running == evaluating
           at == <<running.stamp.split, running.at>>
           file == FileOf(running, running.at)
<1>1. /\ running # Missing
      /\ reports' = [reports EXCEPT ![at] = file]
      /\ evaluating' = IF Following(running.at) = "none" THEN Missing ELSE [running EXCEPT !.at = Following(running.at)]
      /\ UNCHANGED <<calibration, spent>>
  <2>1. [running EXCEPT !.at = Following(@)] = [running EXCEPT !.at = Following(running.at)]
    OBVIOUS
  <2> QED BY <2>1 DEF WriteReport, FileOf
<1>2. /\ RunSound(running) /\ running.id \in Nat /\ running.id < spent.evaluations
      /\ \A w \in Written : Report(w).id = running.id => IsLeftBy(Report(w), running, w)
  BY <1>1 DEF ReportsInductive, EvaluatingSound
<1>3. running.at \in ReportNames /\ running.stamp.split \in EvalSplits /\ at \in ReportPaths
  BY <1>2, PathsAre DEF RunSound
<1>4. reports' = [w \in ReportPaths |-> IF w = at THEN file ELSE reports[w]]
  BY <1>1, <1>3 DEF ReportsInductive, ReportsType
<1>5. IsLeftBy(file, running, at) /\ file.id = running.id
  BY <1>2 DEF IsLeftBy, FileOf
<1>6. \A w \in Written' : (w = at /\ Report(w)' = file) \/ (w \in Written /\ Report(w)' = Report(w))
  BY <1>4 DEF Written, Report
<1> HIDE DEF running, at, file
<1>7. \A w \in Written' : Report(w)'.id = running.id => IsLeftBy(Report(w)', running, w)
  BY <1>2, <1>5, <1>6
<1>8. ReportsType' /\ CalibrationSound'
  BY <1>1, <1>4 DEF ReportsInductive, ReportsType, CalibrationSound
<1>9. EvaluatingSound'
  <2>1. CASE Following(running.at) = "none"
    BY <1>1, <2>1 DEF EvaluatingSound
  <2>2. CASE Following(running.at) # "none"
    <3> DEFINE next == [running EXCEPT !.at = Following(running.at)]
    <3>1. Following(running.at) \in ReportNames
      BY <1>3, <2>2, FollowingIs
    <3>2. /\ RunSound(next) /\ next.id = running.id /\ next.stamp = running.stamp
          /\ \A w : FileOf(next, w[2]) = FileOf(running, w[2])
      BY <1>2, <3>1, OtherFile
    <3>3. evaluating' = next
      BY <1>1, <2>2 DEF running
    <3> HIDE DEF next
    <3>4. \A w \in Written' : Report(w)'.id = next.id => IsLeftBy(Report(w)', next, w)
      BY <1>7, <3>2 DEF IsLeftBy
    <3> QED BY <1>1, <1>2, <3>2, <3>3, <3>4 DEF EvaluatingSound
  <2> QED BY <2>1, <2>2
<1>10. FiledSound'
  <2>1. \A w \in Written' : Report(w)'.id \in Nat /\ Report(w)'.id < spent'.evaluations
    BY <1>1, <1>2, <1>5, <1>6 DEF ReportsInductive, FiledSound
  <2>2. ASSUME NEW v \in Written', NEW w \in Written', Report(v)'.id = Report(w)'.id
        PROVE  \E r : IsLeftBy(Report(v)', r, v) /\ IsLeftBy(Report(w)', r, w)
    <3>1. CASE Report(v)'.id = running.id
      BY <1>7, <2>2, <3>1
    <3>2. CASE Report(v)'.id # running.id
      <4>1. v \in Written /\ w \in Written /\ Report(v)' = Report(v) /\ Report(w)' = Report(w)
        BY <1>5, <1>6, <2>2, <3>2
      <4>2. \E r : IsLeftBy(Report(v), r, v) /\ IsLeftBy(Report(w), r, w)
        BY <2>2, <4>1 DEF ReportsInductive, FiledSound
      <4> QED BY <4>1, <4>2
    <3> QED BY <3>1, <3>2
  <2> QED BY <2>1, <2>2 DEF FiledSound
<1> QED BY <1>8, <1>9, <1>10 DEF ReportsInductive

\* Whatever is edited, fitted, trained, evaluated or killed, it stays.
LEMMA ReportsNextInductive ==
    ASSUME ReportsInductive, [ReportsNext]_reportVars
    PROVE  ReportsInductive'
<1>1. ASSUME UNCHANGED <<evaluating, reports>>, CalibrationSound',
             Spend("changes") \/ UNCHANGED spent
      PROVE  ReportsInductive'
  <2>1. spent' \in [evaluations : Nat, changes : Nat] /\ spent'.evaluations = spent.evaluations
    BY <1>1, SpendIs DEF ReportsInductive, ReportsType
  <2> QED BY <1>1, <2>1, FiledKeeps DEF ReportsInductive
<1>2. UNCHANGED calibration => CalibrationSound'
  BY DEF ReportsInductive, CalibrationSound
<1>3. CASE BeginFit
  BY <1>1, <1>2, <1>3 DEF BeginFit
<1>4. CASE SaveFit
  <2>1. CalibrationSound'
    BY <1>4, SaveFitInductive
  <2> QED BY <1>1, <1>4, <2>1 DEF SaveFit
<1>5. CASE \E split \in EvalSplits, asked \in Asked, samples \in SampleCounts, cap \in EvalCaps :
             BeginEvaluation(split, asked[1], asked[2], samples, cap)
  BY <1>5, BeginInductive
<1>6. CASE WriteReport
  BY <1>6, WriteInductive
<1>7. CASE StopEvaluation
  BY <1>7, StopInductive
<1>8. CASE \E seed \in AllSeeds : Train(seed)
  BY <1>1, <1>2, <1>8 DEF Train
<1>9. CASE \E choice \in ConfigChoices : EditConfig(choice)
  BY <1>1, <1>2, <1>9 DEF EditConfig
<1>10. CASE UNCHANGED reportVars
  BY <1>1, <1>2, <1>10 DEF reportVars
<1> QED BY <1>3, <1>4, <1>5, <1>6, <1>7, <1>8, <1>9, <1>10 DEF ReportsNext

\* Whatever is edited, refitted, retrained or killed, a report says how its scores
\* were made, and only curves fitted to the same statistic calibrate them (run_eval.py,
\* fit_calibration.py, calibrate.py).
THEOREM ReportsInvariant == ReportsSpec => []ReportsMeanWhatTheySay
<1>1. ReportsInit => ReportsInductive
  BY ReportsInitInductive
<1>2. ReportsInductive /\ [ReportsNext]_reportVars => ReportsInductive'
  BY ReportsNextInductive
<1> QED BY <1>1, <1>2, ReportsInductiveImplies, PTL DEF ReportsSpec

-----------------------------------------------------------------------------
(***************************************************************************)
(* Lead time.  The loops over the windows of a day are functions of the    *)
(* day; each is described by what it has found so far, the streak of hits, *)
(* the campaign, the first run of hits before an onset.                    *)
(***************************************************************************)
\* The episodes of a day follow one another, each of at least one window.
SpansSound ==
    /\ \E B \in Nat : episodes \subseteq [onset : Day, end : Day, stage : 0..B]
    /\ \A e \in episodes : e.onset <= e.end
    /\ \A e, f \in episodes : e.onset < f.onset => e.end < f.onset
    /\ \A e, f \in episodes : e.onset = f.onset => e = f

\* An attack follows each window of an episode but its last.
SpansReach ==
    \A e \in episodes : \A t \in Nat :
        e.onset <= t /\ t < e.end => \E a \in Attacked : t < a /\ a <= t + EpisodeGap + 1

LeadInv ==
    /\ stageAt \in [Day -> StageRanks] /\ hits \subseteq Day /\ missing \subseteq Day
    /\ SpansSound /\ SpansReach
    /\ \A t \in Day \ ScoredDay : t \in missing
    /\ \A t \in missing \cap ScoredDay : ~Positive(t) /\ ~PreOnsetRow(t)

\* The windows of a day are numbers.
LEMMA DayIs == LastT \in Nat /\ Streak \in Nat /\ Streak >= 1 /\ PreOnset \in Nat /\ Day = 1..LastT /\ CampaignGap \in Nat
BY LeadAssumption DEF LeadAssumption, Day

\* The windows that are scored are a stretch of the day.
LEMMA ScoredDayIs ==
    /\ OriginHorizon \in Nat /\ EpisodeGap \in Nat /\ ScoredDay \subseteq Day /\ ScoredDay \subseteq Nat
    /\ \A t, u \in ScoredDay : t .. u \subseteq ScoredDay
BY LeadAssumption DEF LeadAssumption, Day, ScoredDay

\* The stages of a day have a highest.
LEMMA StagesBounded ==
    ASSUME NEW f, \A t \in Day : f[t] \in Nat
    PROVE  \E B \in Nat : \A t \in Day : f[t] \in 0..B
<1>1. PICK T : T = {n \in Nat : n <= LastT => \E B \in Nat : \A t \in 1..n : f[t] <= B}
  OBVIOUS
<1>2. 0 \in T
  BY <1>1
<1>3. ASSUME NEW n \in Nat, n \in T PROVE n + 1 \in T
  <2>1. CASE n + 1 > LastT
    BY <1>1, <2>1, DayIs
  <2>2. CASE n + 1 <= LastT
    <3>1. PICK B \in Nat : \A t \in 1..n : f[t] <= B
      BY <1>1, <1>3, <2>2, DayIs
    <3>2. f[n + 1] \in Nat /\ \A t \in 1..n : f[t] \in Nat
      BY <2>2, DayIs
    <3>3. PICK x \in Nat : x = f[n + 1]
      BY <3>2
    <3>4. \A t \in 1..n + 1 : f[t] <= B + x
      <4>1. TAKE t \in 1..n + 1
      <4>2. PICK y \in Nat : y = f[t]
        BY <3>2
      <4>3. y <= B \/ y = x
        BY <3>1, <3>3, <4>2
      <4>4. QED
        BY <4>2, <4>3
    <3>5. QED
      BY <1>1, <3>4
  <2>3. QED
    BY <2>1, <2>2, DayIs
<1>4. LastT \in T
  BY <1>2, <1>3, ByInduction, DayIs
<1>5. PICK B \in Nat : \A t \in 1..LastT : f[t] <= B
  BY <1>1, <1>4
<1>6. ASSUME NEW t \in Day PROVE f[t] \in 0..B
  <2>1. f[t] \in Nat /\ f[t] <= B
    BY <1>5, DayIs
  <2>2. QED
    BY <2>1
<1>7. QED
  BY <1>6

\* The last window of the episode that opens at a.
OpensAt(t) == t \in Attacked /\ Attacked \cap (t - EpisodeGap - 1) .. (t - 1) = {}
Until(a) == {t \in Attacked : \A o \in Attacked : OpensAt(o) /\ o > a => t < o}

\* An episode spans the attacked windows from where it opens, at their top stage.
LEMMA SpansAre ==
    ASSUME NEW e \in episode_spans
    PROVE  /\ e = [onset |-> e.onset, end |-> e.end, stage |-> e.stage]
           /\ e.onset \in Day /\ OpensAt(e.onset)
           /\ e.end = Max(Until(e.onset))
           /\ e.stage = Max({stageAt[t] : t \in e.onset .. e.end})
<1>1. PICK a \in Day : /\ OpensAt(a)
                       /\ e = [onset |-> a, end |-> Max(Until(a)),
                               stage |-> Max({stageAt[t] : t \in a .. Max(Until(a))})]
  BY DEF episode_spans, OpensAt, Until
<1>2. PICK z, s : z = Max(Until(a)) /\ s = Max({stageAt[t] : t \in a .. z})
  OBVIOUS
<1>3. e = [onset |-> a, end |-> z, stage |-> s]
  BY <1>1, <1>2
<1>4. e.onset = a /\ e.end = z /\ e.stage = s
  BY <1>3
<1>5. QED
  BY <1>1, <1>2, <1>3, <1>4

\* The attacked windows from an opening end, with a window of the day.
LEMMA UntilIs ==
    ASSUME NEW a \in Day, OpensAt(a)
    PROVE  Max(Until(a)) \in Until(a) /\ Max(Until(a)) \in Day /\ a <= Max(Until(a))
<1>1. Until(a) \subseteq 0..LastT /\ Until(a) \subseteq Day
  BY DayIs DEF Until, Attacked
<1>2. a \in Until(a)
  BY DayIs DEF Until, OpensAt, Attacked
<1>3. QED
  BY <1>1, <1>2, MaxIsGreatest, DayIs

\* The episodes of a day are sound.
LEMMA SpansFollow ==
    ASSUME stageAt \in [Day -> StageRanks], episodes = episode_spans
    PROVE  SpansSound
<1>1. \A t \in Day : stageAt[t] \in Nat
  BY LeadAssumption DEF LeadAssumption
<1>2. PICK B \in Nat : \A t \in Day : stageAt[t] \in 0..B
  BY <1>1, StagesBounded
<1>3. ASSUME NEW e \in episodes
      PROVE  e.onset \in Day /\ e.end \in Day /\ e.onset <= e.end /\ e.end \in Until(e.onset) /\ OpensAt(e.onset)
  BY <1>3, SpansAre, UntilIs
<1>4. ASSUME NEW e \in episodes PROVE e.stage \in 0..B
  <2>1. PICK a \in Day, b \in Day : a = e.onset /\ b = e.end /\ a <= b
    BY <1>3
  <2>2. PICK S : S = {stageAt[t] : t \in a .. b}
    OBVIOUS
  <2>3. S \subseteq 0..B
    BY <1>2, <2>1, <2>2, DayIs
  <2>4. stageAt[a] \in S
    BY <2>1, <2>2, DayIs
  <2>5. Max(S) \in 0..B
    BY <2>3, <2>4, MaxIsGreatest
  <2>6. QED
    BY <2>1, <2>2, <2>5, SpansAre
<1>5. episodes \subseteq [onset : Day, end : Day, stage : 0..B]
  <2>1. SUFFICES ASSUME NEW e \in episodes PROVE e \in [onset : Day, end : Day, stage : 0..B]
    OBVIOUS
  <2>2. e \in episode_spans /\ e = [onset |-> e.onset, end |-> e.end, stage |-> e.stage]
    BY SpansAre
  <2>3. PICK a, b, c : a = e.onset /\ b = e.end /\ c = e.stage
    OBVIOUS
  <2>4. a \in Day /\ b \in Day /\ c \in 0..B
    BY <1>3, <1>4, <2>3
  <2>5. QED
    BY <2>2, <2>3, <2>4
<1>6. ASSUME NEW e \in episodes, NEW f \in episodes, e.onset < f.onset PROVE e.end < f.onset
  BY <1>3, <1>6 DEF Until, OpensAt
<1>7. ASSUME NEW e \in episodes, NEW f \in episodes, e.onset = f.onset PROVE e = f
  <2>1. e.end = f.end
    BY <1>7, SpansAre
  <2>2. e.stage = f.stage
    BY <1>7, <2>1, SpansAre
  <2>3. /\ e = [onset |-> e.onset, end |-> e.end, stage |-> e.stage]
        /\ f = [onset |-> f.onset, end |-> f.end, stage |-> f.stage]
    BY SpansAre
  <2>4. QED
    BY <1>7, <2>1, <2>2, <2>3
<1>8. QED
  BY <1>3, <1>5, <1>6, <1>7 DEF SpansSound

\* What comes later than a merge gap opens an episode of its own.
LEMMA SpansReachFar ==
    ASSUME stageAt \in [Day -> StageRanks], episodes = episode_spans
    PROVE  SpansReach
<1>1. SUFFICES ASSUME NEW e \in episodes, NEW t \in Nat, e.onset <= t, t < e.end
               PROVE  \E a \in Attacked : t < a /\ a <= t + EpisodeGap + 1
  BY DEF SpansReach
<1>2. e.onset \in Day /\ e.end \in Until(e.onset)
  BY SpansAre, UntilIs
<1>3. PICK S : S = {a \in Attacked : t < a}
  OBVIOUS
<1>4. S \subseteq Nat /\ e.end \in S
  BY <1>1, <1>2, <1>3, DayIs DEF Attacked, Until
<1>5. PICK n \in S : \A y \in S : n <= y
  BY <1>4, LeastNat
<1>6. n \in Attacked /\ t < n /\ n \in Nat
  BY <1>3, <1>4, <1>5
<1>7. ASSUME n > t + EpisodeGap + 1 PROVE FALSE
  <2>1. Attacked \cap (n - EpisodeGap - 1) .. (n - 1) = {}
    <3>1. SUFFICES ASSUME NEW b \in Attacked, b \in (n - EpisodeGap - 1) .. (n - 1) PROVE FALSE
      OBVIOUS
    <3>2. b \in Int /\ t < b /\ b < n
      BY <1>6, <1>7, <3>1, ScoredDayIs
    <3>3. n <= b
      BY <1>3, <1>5, <3>1, <3>2
    <3>4. QED
      BY <1>6, <3>2, <3>3
  <2>2. OpensAt(n)
    BY <1>6, <2>1 DEF OpensAt
  <2>3. e.onset \in Nat /\ e.onset < n
    BY <1>1, <1>2, <1>6, DayIs
  <2>4. e.end < n
    BY <1>2, <1>6, <2>2, <2>3 DEF Until
  <2>5. PICK z \in Nat : z = e.end /\ n <= z
    BY <1>4, <1>5
  <2>6. QED
    BY <1>6, <2>4, <2>5
<1>8. n <= t + EpisodeGap + 1
  BY <1>6, <1>7, ScoredDayIs
<1>9. QED
  BY <1>6, <1>8

\* An episode's windows are of the day.
LEMMA EpisodeFields ==
    ASSUME SpansSound, NEW e \in episodes
    PROVE  e.onset \in Nat /\ e.end \in Nat /\ e.stage \in Nat /\ e.onset \in Day /\ e.end \in Day /\ e.onset <= e.end
BY DayIs DEF SpansSound

-----------------------------------------------------------------------------
\* Campaigns, by the episode that begins them.
EpisodesBefore(e) == {f \in episodes : f.onset < e.onset}
PreviousTo(e) == CHOOSE f \in EpisodesBefore(e) : \A g \in EpisodesBefore(e) : g.onset <= f.onset
BeginsOne(e) == EpisodesBefore(e) = {} \/ e.onset - PreviousTo(e).end > CampaignGap
CampaignOf(b) ==
    {e \in episodes : /\ b.onset <= e.onset
                      /\ \A c \in episodes : BeginsOne(c) /\ b.onset < c.onset => e.onset < c.onset}

\* A campaign is what follows a first episode without a long gap.
LEMMA CampaignsAre == group_campaigns = {CampaignOf(b) : b \in {e \in episodes : BeginsOne(e)}}
BY DEF group_campaigns, CampaignOf, BeginsOne, PreviousTo, EpisodesBefore

\* Of some episodes one is the earliest and one the latest.
LEMMA EarliestIs ==
    ASSUME SpansSound, NEW S, S \subseteq episodes, S # {}
    PROVE  EarliestOf(S) \in S /\ \A f \in S : EarliestOf(S).onset <= f.onset
<1>1. PICK T : T = {e.onset : e \in S}
  OBVIOUS
<1>2. T \subseteq Nat /\ T # {}
  BY <1>1, EpisodeFields
<1>3. PICK x \in T : \A y \in T : x <= y
  BY <1>2, LeastNat
<1>4. PICK e \in S : e.onset = x
  BY <1>1
<1>5. \A f \in S : e.onset <= f.onset
  BY <1>1, <1>3, <1>4
<1>6. QED
  BY <1>5 DEF EarliestOf

\* Some episode of a set is the last.
LEMMA LatestIs ==
    ASSUME SpansSound, NEW S, S \subseteq episodes, S # {}
    PROVE  \E e \in S : \A f \in S : f.onset <= e.onset
<1>1. PICK T : T = {e.onset : e \in S}
  OBVIOUS
<1>2. T \subseteq 0..LastT /\ T # {}
  BY <1>1, EpisodeFields, DayIs
<1>3. PICK x \in T : \A y \in T : y <= x
  BY <1>2, GreatestNat, DayIs
<1>4. PICK e \in S : e.onset = x
  BY <1>1
<1>5. \A f \in S : f.onset <= e.onset
  BY <1>1, <1>3, <1>4
<1>6. QED
  BY <1>5

\* The episode before one that begins a campaign ended long before it.
LEMMA GapBefore ==
    ASSUME SpansSound, NEW b \in episodes, BeginsOne(b), NEW e \in episodes, e.onset < b.onset
    PROVE  b.onset - e.end > CampaignGap
<1>1. e \in EpisodesBefore(b) /\ EpisodesBefore(b) \subseteq episodes
  BY DEF EpisodesBefore
<1>2. PICK p : p = PreviousTo(b)
  OBVIOUS
<1>3. p \in EpisodesBefore(b) /\ \A g \in EpisodesBefore(b) : g.onset <= p.onset
  BY <1>1, <1>2, LatestIs DEF PreviousTo
<1>4. p \in episodes /\ e.onset <= p.onset
  BY <1>1, <1>3
<1>5. b.onset - p.end > CampaignGap
  BY <1>1, <1>2 DEF BeginsOne
<1>6. p.end \in Nat /\ p.onset \in Nat /\ e.end \in Nat /\ e.onset \in Nat /\ b.onset \in Nat /\ p.onset <= p.end
  BY <1>4, EpisodeFields
<1>7. e.end <= p.end
  <2>1. CASE e.onset = p.onset
    <3>1. e = p
      BY <2>1, <1>4 DEF SpansSound
    <3>2. QED
      BY <3>1, <1>6
  <2>2. CASE e.onset < p.onset
    <3>1. e.end < p.onset
      BY <2>2, <1>4 DEF SpansSound
    <3>2. QED
      BY <3>1, <1>6
  <2>3. QED
    BY <1>4, <1>6, <2>1, <2>2
<1>8. QED
  BY <1>5, <1>6, <1>7, DayIs

\* Every episode is in the campaign of the last that began by then.
LEMMA EveryEpisodeIsIn ==
    ASSUME SpansSound, NEW e \in episodes
    PROVE  \E b \in episodes : BeginsOne(b) /\ e \in CampaignOf(b)
<1>1. PICK S : S = {b \in episodes : BeginsOne(b) /\ b.onset <= e.onset}
  OBVIOUS
<1>2. S # {}
  <2>1. PICK f : f = EarliestOf(episodes)
    OBVIOUS
  <2>2. f \in episodes /\ \A g \in episodes : f.onset <= g.onset
    BY <2>1, EarliestIs
  <2>3. EpisodesBefore(f) = {}
    <3>1. \A g \in episodes : ~(g.onset < f.onset)
      BY <2>2, EpisodeFields
    <3>2. QED
      BY <3>1 DEF EpisodesBefore
  <2>4. QED
    BY <1>1, <2>2, <2>3 DEF BeginsOne
<1>3. PICK b \in S : \A f \in S : f.onset <= b.onset
  BY <1>1, <1>2, LatestIs
<1>4. b \in episodes /\ BeginsOne(b) /\ b.onset <= e.onset
  BY <1>1
<1>5. ASSUME NEW c \in episodes, BeginsOne(c), b.onset < c.onset PROVE e.onset < c.onset
  <2>1. c.onset \in Nat /\ b.onset \in Nat /\ e.onset \in Nat
    BY <1>4, EpisodeFields
  <2>2. c \notin S
    BY <1>3, <1>5, <2>1
  <2>3. QED
    BY <1>1, <1>5, <2>1, <2>2
<1>6. QED
  BY <1>4, <1>5 DEF CampaignOf

\* A campaign holds episodes, the one that begins it among them.
LEMMA CampaignHas ==
    ASSUME SpansSound, NEW c \in group_campaigns
    PROVE  c \subseteq episodes /\ c # {}
<1>1. PICK b \in episodes : BeginsOne(b) /\ c = CampaignOf(b)
  BY CampaignsAre
<1>2. b \in c
  BY <1>1, EpisodeFields DEF CampaignOf
<1>3. QED
  BY <1>1, <1>2 DEF CampaignOf

\* What a campaign is scored on is one of its episodes, of its highest stage.
LEMMA CompletingIs ==
    ASSUME SpansSound, NEW c, c \subseteq episodes, c # {}
    PROVE  completing_phase(c) \in c /\ \A e \in c : e.stage <= completing_phase(c).stage
<1>1. PICK B \in Nat : \A e \in c : e.stage \in 0..B
  BY DEF SpansSound
<1>2. PICK S : S = {e.stage : e \in c}
  OBVIOUS
<1>3. S \subseteq 0..B /\ S # {}
  BY <1>1, <1>2
<1>4. PICK top : top = Max(S)
  OBVIOUS
<1>5. top \in S /\ \A x \in S : x <= top
  BY <1>3, <1>4, MaxIsGreatest
<1>6. CASE Cardinality(S) = 1
  <2>1. PICK e \in c : \A f \in c : f.onset <= e.onset
    BY LatestIs
  <2>2. completing_phase(c) = LatestOf(c)
    BY <1>2, <1>6 DEF completing_phase
  <2>3. completing_phase(c) \in c
    BY <2>1, <2>2 DEF LatestOf
  <2>4. PICK x : S = {x}
    <3>1. IsFiniteSet(0..B)
      BY FS_Interval
    <3>2. IsFiniteSet(S)
      BY <1>3, <3>1, FS_Subset
    <3>3. QED
      BY <1>6, <3>2, FS_Singleton
  <2>5. \A y \in c : y.stage = x
    BY <1>2, <2>4
  <2>6. x \in Nat
    BY <1>3, <2>4
  <2>7. QED
    BY <2>3, <2>5, <2>6
<1>7. CASE Cardinality(S) # 1
  <2>1. PICK U : U = {e \in c : e.stage = top}
    OBVIOUS
  <2>2. completing_phase(c) = EarliestOf(U)
    BY <1>2, <1>4, <1>7, <2>1 DEF completing_phase
  <2>3. U # {} /\ U \subseteq episodes
    BY <1>2, <1>5, <2>1
  <2>4. completing_phase(c) \in U
    BY <2>2, <2>3, EarliestIs
  <2>5. QED
    BY <1>2, <1>5, <2>1, <2>4
<1>8. QED
  BY <1>6, <1>7

\* Campaigns share out the episodes.
LEMMA CampaignsHold ==
    ASSUME SpansSound
    PROVE  CampaignsPartition
<1>1. UNION group_campaigns = episodes
  <2>1. \A c \in group_campaigns : c \subseteq episodes
    BY CampaignHas
  <2>2. \A e \in episodes : \E c \in group_campaigns : e \in c
    BY EveryEpisodeIsIn, CampaignsAre
  <2>3. QED
    BY <2>1, <2>2
<1>2. ASSUME NEW c \in group_campaigns, NEW d \in group_campaigns, c # d,
             NEW e \in c, NEW f \in d
      PROVE  e.onset - f.end > CampaignGap \/ f.onset - e.end > CampaignGap
  <2>1. PICK b \in episodes : BeginsOne(b) /\ c = CampaignOf(b)
    BY CampaignsAre
  <2>2. PICK o \in episodes : BeginsOne(o) /\ d = CampaignOf(o)
    BY CampaignsAre
  <2>3. b # o
    BY <1>2, <2>1, <2>2
  <2>4. b.onset \in Nat /\ o.onset \in Nat /\ b.onset # o.onset
    BY <2>3, EpisodeFields DEF SpansSound
  <2>5. e \in episodes /\ f \in episodes
    BY <2>1, <2>2 DEF CampaignOf
  <2>6. e.onset \in Nat /\ f.onset \in Nat /\ e.end \in Nat /\ f.end \in Nat
    BY <2>5, EpisodeFields
  <2>7. CASE b.onset < o.onset
    <3>1. e.onset < o.onset /\ o.onset <= f.onset
      BY <2>1, <2>2, <2>7 DEF CampaignOf
    <3>2. o.onset - e.end > CampaignGap
      BY <2>2, <2>5, <3>1, GapBefore
    <3>3. QED
      BY <2>4, <2>6, <3>1, <3>2, DayIs
  <2>8. CASE o.onset < b.onset
    <3>1. f.onset < b.onset /\ b.onset <= e.onset
      BY <2>1, <2>2, <2>8 DEF CampaignOf
    <3>2. b.onset - f.end > CampaignGap
      BY <2>1, <2>5, <3>1, GapBefore
    <3>3. QED
      BY <2>4, <2>6, <3>1, <3>2, DayIs
  <2>9. QED
    BY <2>4, <2>7, <2>8
<1>3. ASSUME NEW c \in Scored PROVE \A e \in c : e.stage <= completing_phase(c).stage
  <2>1. c \in group_campaigns
    BY DEF Scored
  <2>2. QED
    BY <2>1, CampaignHas, CompletingIs
<1>4. QED
  BY <1>1, <1>2, <1>3 DEF CampaignsPartition

-----------------------------------------------------------------------------
\* Rows between which none is missing.
Unbroken(rows) == rows \subseteq Day /\ \A t, u \in rows : t .. u \subseteq rows

\* On unbroken rows a run of rows is a run of windows.
LEMMA UnbrokenRuns ==
    ASSUME NEW rows, Unbroken(rows), NEW t \in rows
    PROVE  (\E u \in rows : /\ t <= u /\ rows \cap t .. u \subseteq hits
                             /\ Cardinality(rows \cap t .. u) = Streak)
           <=> t + Streak - 1 \in rows /\ RunAt(t)
<1>1. t \in Nat /\ \A u \in rows : u \in Nat /\ rows \cap t .. u = t .. u
  BY DayIs DEF Unbroken
<1>2. \A u \in rows : t <= u => Cardinality(t .. u) = u - t + 1
  BY <1>1, FS_Interval
<1>3. \A u \in rows : t <= u /\ Cardinality(rows \cap t .. u) = Streak <=> u = t + Streak - 1
  <2>1. TAKE u \in rows
  <2>2. u \in Nat /\ rows \cap t .. u = t .. u /\ (t <= u => Cardinality(t .. u) = u - t + 1)
    BY <1>1, <1>2
  <2>3. PICK c : c = Cardinality(t .. u)
    OBVIOUS
  <2>4. t <= u /\ c = Streak <=> u = t + Streak - 1
    BY <1>1, <2>2, <2>3, DayIs
  <2>5. QED
    BY <2>2, <2>3, <2>4
<1>4. QED
  BY <1>1, <1>3 DEF RunAt

\* Where the rows are a stretch without holes, the first run of hits among them is
\* the first streak of hits of the day that lies within them.
LEMMA FirstRunIs ==
    ASSUME NEW rows, Unbroken(rows)
    PROVE  FirstRun(rows) = IF {t \in rows : t + Streak - 1 \in rows /\ RunAt(t)} = {} THEN NoStreak
                            ELSE Min({t \in rows : t + Streak - 1 \in rows /\ RunAt(t)})
<1>1. {t \in rows : \E u \in rows : /\ t <= u /\ rows \cap t .. u \subseteq hits
                                     /\ Cardinality(rows \cap t .. u) = Streak}
      = {t \in rows : t + Streak - 1 \in rows /\ RunAt(t)}
  BY UnbrokenRuns
<1>2. QED
  BY <1>1 DEF FirstRun

\* The counter of _first_timed_run, after each window.
CounterAt(streak, rows, t) == IF t \notin rows \cap hits THEN 0
                         ELSE IF t - 1 \in rows THEN streak[t - 1] + 1 ELSE 1
IsTimed(streak, rows, n) == streak = [t \in 0 .. n |-> CounterAt(streak, rows, t)]

\* The counter of consecutive hits exists up to any window.
LEMMA TimedExists ==
    ASSUME NEW rows, rows \subseteq Day, NEW n \in Nat
    PROVE  \E streak : IsTimed(streak, rows, n)
<1>1. PICK T : T = {m \in Nat : \E f : IsTimed(f, rows, m)}
  OBVIOUS
<1>2. 0 \in T
  <2>1. PICK f : f = [t \in 0..0 |-> 0]
    OBVIOUS
  <2>2. \A t \in 0..0 : CounterAt(f, rows, t) = 0
    BY DayIs DEF CounterAt
  <2>3. IsTimed(f, rows, 0)
    BY <2>1, <2>2 DEF IsTimed
  <2>4. QED
    BY <1>1, <2>3
<1>3. ASSUME NEW m \in Nat, m \in T PROVE m + 1 \in T
  <2>1. PICK f : IsTimed(f, rows, m)
    BY <1>1, <1>3
  <2>2. PICK g : g = [t \in 0..m + 1 |-> CounterAt(f, rows, t)]
    OBVIOUS
  <2>3. \A t \in 0..m : g[t] = f[t]
    BY <2>1, <2>2 DEF IsTimed
  <2>4. \A t \in 0..m + 1 : CounterAt(g, rows, t) = CounterAt(f, rows, t)
    <3>1. TAKE t \in 0..m + 1
    <3>2. t \in rows => t - 1 \in 0..m
      BY DayIs
    <3>3. QED
      BY <2>3, <3>2 DEF CounterAt
  <2>5. IsTimed(g, rows, m + 1)
    BY <2>2, <2>4 DEF IsTimed
  <2>6. QED
    BY <1>1, <2>5
<1>4. QED
  BY <1>1, <1>2, <1>3, ByInduction

\* The counter is the number of hits, one window after the other, that end there.
TimedAt(streak, rows, t) ==
    /\ streak[t] \in Nat
    /\ t - streak[t] + 1 .. t \subseteq rows \cap hits
    /\ \A k \in Nat : t - k + 1 .. t \subseteq rows \cap hits => k <= streak[t]

\* It counts, at each row, the hits that end there without a hole.
LEMMA TimedCounts ==
    ASSUME NEW rows, rows \subseteq Day, NEW streak, IsTimed(streak, rows, LastT)
    PROVE  \A t \in 0..LastT : TimedAt(streak, rows, t)
<1>1. PICK T : T = {n \in Nat : n <= LastT => TimedAt(streak, rows, n)}
  OBVIOUS
<1>2. \A t \in 0..LastT : streak[t] = CounterAt(streak, rows, t)
  BY DEF IsTimed
<1>3. \A t \in Nat : t \notin rows \cap hits => \A k \in Nat : t - k + 1 .. t \subseteq rows \cap hits => k = 0
  OBVIOUS
<1>4. ASSUME NEW t \in 0..LastT, t \notin rows \cap hits PROVE TimedAt(streak, rows, t)
  <2>1. streak[t] = 0
    BY <1>2, <1>4, DayIs DEF CounterAt
  <2>2. t - 0 + 1 .. t = {}
    BY DayIs
  <2>3. \A k \in Nat : t - k + 1 .. t \subseteq rows \cap hits => k <= 0
    BY <1>3, <1>4, DayIs
  <2>4. QED
    BY <2>1, <2>2, <2>3 DEF TimedAt
<1>5. 0 \in T
  BY <1>1, <1>4, DayIs
<1>6. ASSUME NEW n \in Nat, n \in T PROVE n + 1 \in T
  <2>1. CASE n + 1 > LastT
    BY <1>1, <2>1, DayIs
  <2>2. CASE n + 1 <= LastT /\ n + 1 \notin rows \cap hits
    BY <1>1, <1>4, <2>2, DayIs
  <2>3. CASE n + 1 <= LastT /\ n + 1 \in rows \cap hits
    <3>1. n + 1 \in 0..LastT /\ n \in 0..LastT
      BY <2>3, DayIs
    <3>2. TimedAt(streak, rows, n)
      BY <1>1, <1>6, <2>3, DayIs
    <3>3. PICK x \in Nat : x = streak[n]
      BY <3>2 DEF TimedAt
    <3>4. n - x + 1 .. n \subseteq rows \cap hits
      BY <3>2, <3>3 DEF TimedAt
    <3>5. \A k \in Nat : n - k + 1 .. n \subseteq rows \cap hits => k <= x
      BY <3>2, <3>3 DEF TimedAt
    <3>6. n \notin rows => x = 0
      BY <1>2, <3>1, <3>3 DEF CounterAt
    <3>7. streak[n + 1] = x + 1
      <4>1. n + 1 - 1 = n
        OBVIOUS
      <4>2. streak[n + 1] = IF n \in rows THEN streak[n] + 1 ELSE 1
        BY <1>2, <2>3, <3>1, <4>1 DEF CounterAt
      <4>3. QED
        BY <3>3, <3>6, <4>2
    <3>8. n + 1 - (x + 1) + 1 .. n + 1 \subseteq rows \cap hits
      BY <2>3, <3>4
    <3>9. ASSUME NEW k \in Nat, n + 1 - k + 1 .. n + 1 \subseteq rows \cap hits PROVE k <= x + 1
      <4>1. CASE k = 0
        BY <4>1
      <4>2. CASE k > 0
        <5>1. k - 1 \in Nat /\ n - (k - 1) + 1 .. n \subseteq rows \cap hits
          BY <3>9, <4>2
        <5>2. k - 1 <= x
          BY <3>5, <5>1
        <5>3. QED
          BY <5>2
      <4>3. QED
        BY <4>1, <4>2
    <3>10. TimedAt(streak, rows, n + 1)
      BY <3>7, <3>8, <3>9 DEF TimedAt
    <3>11. QED
      BY <1>1, <3>10
  <2>4. QED
    BY <2>1, <2>2, <2>3, DayIs
<1>7. \A t \in 0..LastT : t \in T
  BY <1>5, <1>6, ByInduction, DayIs
<1>8. QED
  BY <1>1, <1>7, DayIs

\* A run of windows that are all there.
WindowRun(rows, t) == t .. t + Streak - 1 \subseteq rows \cap hits

\* The first of Streak rows that end with a window is Streak - 1 windows before.
LEMMA RowsBack ==
    ASSUME NEW rows, rows \subseteq Day, NEW u \in Day, u - Streak + 1 .. u \subseteq rows
    PROVE  (CHOOSE t \in rows : Cardinality(rows \cap t .. u) = Streak) = u - Streak + 1
<1>1. u \in Nat /\ u - Streak + 1 \in rows /\ \A t \in rows : t \in Nat
  BY DayIs
<1>2. PICK s \in Nat : s = u - Streak + 1
  BY <1>1
<1>3. s .. u \subseteq rows /\ s <= u
  BY <1>1, <1>2, DayIs
<1>4. Cardinality(s .. u) = Streak /\ IsFiniteSet(s .. u)
  BY <1>1, <1>2, <1>3, FS_Interval, DayIs
<1>5. rows \cap s .. u = s .. u
  BY <1>3
<1>6. ASSUME NEW t \in rows, Cardinality(rows \cap t .. u) = Streak PROVE t = s
  <2>1. t \in Nat
    BY <1>1
  <2>2. CASE t > s
    <3>1. rows \cap t .. u = t .. u
      BY <1>1, <1>3, <2>1, <2>2
    <3>2. Cardinality(t .. u) = IF t > u THEN 0 ELSE u - t + 1
      BY <1>1, <2>1, FS_Interval
    <3>3. Cardinality(t .. u) = Streak
      BY <1>6, <3>1
    <3>4. QED
      BY <1>1, <1>2, <2>1, <2>2, <3>2, <3>3, DayIs
  <2>3. CASE t < s
    <3>1. IsFiniteSet(t .. u)
      BY <1>1, <2>1, FS_Interval
    <3>2. IsFiniteSet(rows \cap t .. u)
      BY <3>1, FS_Subset
    <3>3. s .. u \subseteq rows \cap t .. u /\ t \in rows \cap t .. u /\ t \notin s .. u
      BY <1>1, <1>3, <2>1, <2>3
    <3>4. Cardinality(s .. u) # Cardinality(rows \cap t .. u)
      BY <3>2, <3>3, FS_Subset
    <3>5. QED
      BY <1>4, <1>6, <3>4, DayIs
  <2>4. QED
    BY <2>1, <2>2, <2>3
<1>7. QED
  BY <1>1, <1>2, <1>4, <1>5, <1>6

\* What _first_timed_run finds is the first run of windows.
LEMMA TimedFirst ==
    ASSUME NEW rows, rows \subseteq Day
    PROVE  /\ _first_timed_run(rows) # NoStreak =>
                 /\ _first_timed_run(rows) \in rows
                 /\ WindowRun(rows, _first_timed_run(rows))
           /\ \A t \in Day : WindowRun(rows, t) =>
                 _first_timed_run(rows) # NoStreak /\ _first_timed_run(rows) <= t
<1>1. PICK streak : streak = CHOOSE f : IsTimed(f, rows, LastT)
  OBVIOUS
<1>2. IsTimed(streak, rows, LastT)
  BY <1>1, TimedExists, DayIs
<1>3. \A t \in 0..LastT : TimedAt(streak, rows, t)
  BY <1>2, TimedCounts
<1>4. PICK E : E = {t \in rows : streak[t] >= Streak}
  OBVIOUS
<1>5. _first_timed_run(rows) =
        IF E = {} THEN NoStreak ELSE CHOOSE t \in rows : Cardinality(rows \cap t .. Min(E)) = Streak
  BY <1>1, <1>4 DEF _first_timed_run, IsTimed, CounterAt
<1>6. E \subseteq Nat /\ E \subseteq Day
  <2>1. E \subseteq Day
    BY <1>4
  <2>2. Day \subseteq Nat
    BY DayIs
  <2>3. QED
    BY <2>1, <2>2
<1>7. ASSUME E # {}
      PROVE  /\ _first_timed_run(rows) \in rows /\ WindowRun(rows, _first_timed_run(rows))
             /\ _first_timed_run(rows) \in Nat
             /\ Min(E) = _first_timed_run(rows) + Streak - 1
  <2>1. PICK u \in E : u = Min(E)
    BY <1>6, <1>7, MinIsLeast
  <2>2. u \in Day /\ u \in Nat /\ u \in 0..LastT /\ streak[u] >= Streak
    BY <1>4, <1>6, DayIs
  <2>3. PICK x \in Nat : x = streak[u]
    BY <1>3, <2>2 DEF TimedAt
  <2>4. u - x + 1 .. u \subseteq rows \cap hits
    BY <1>3, <2>2, <2>3 DEF TimedAt
  <2>5. u - Streak + 1 .. u \subseteq rows \cap hits
    BY <2>2, <2>3, <2>4, DayIs
  <2>6. _first_timed_run(rows) = u - Streak + 1
    BY <1>5, <1>7, <2>1, <2>2, <2>5, RowsBack
  <2>7. u - Streak + 1 \in rows /\ u - Streak + 1 \in Nat
    BY <2>2, <2>5, DayIs
  <2>8. u - Streak + 1 + Streak - 1 = u
    BY <2>2, DayIs
  <2>9. QED
    BY <2>1, <2>5, <2>6, <2>7, <2>8 DEF WindowRun
<1>8. ASSUME NEW t \in Day, WindowRun(rows, t)
      PROVE  E # {} /\ Min(E) <= t + Streak - 1
  <2>1. PICK u : u = t + Streak - 1
    OBVIOUS
  <2>2. u \in rows /\ u \in 0..LastT /\ t \in Nat /\ u \in Nat
    BY <1>8, <2>1, DayIs DEF WindowRun
  <2>3. u - Streak + 1 .. u \subseteq rows \cap hits
    BY <1>8, <2>1, <2>2, DayIs DEF WindowRun
  <2>4. streak[u] \in Nat /\ Streak <= streak[u]
    BY <1>3, <2>2, <2>3, DayIs DEF TimedAt
  <2>5. u \in E
    BY <1>4, <2>2, <2>4, DayIs
  <2>6. QED
    BY <1>6, <2>1, <2>5, MinIsLeast
<1>9. \A t \in rows : t # NoStreak
  BY DayIs DEF NoStreak
<1>10. ASSUME NEW t \in Day, WindowRun(rows, t)
       PROVE  _first_timed_run(rows) # NoStreak /\ _first_timed_run(rows) <= t
  <2>1. E # {} /\ Min(E) <= t + Streak - 1
    BY <1>8, <1>10
  <2>2. PICK x \in Nat : x = _first_timed_run(rows)
    BY <1>7, <2>1
  <2>3. x + Streak - 1 <= t + Streak - 1 /\ t \in Nat
    BY <1>7, <2>1, <2>2, DayIs
  <2>4. QED
    BY <1>7, <1>9, <2>1, <2>2, <2>3, DayIs
<1>11. _first_timed_run(rows) # NoStreak => E # {}
  BY <1>5
<1>12. QED
  BY <1>7, <1>10, <1>11

-----------------------------------------------------------------------------
\* A missing window can only hide a flag.
LEMMA MissingHides ==
    ASSUME LeadInv
    PROVE  MissingOnlyHides
<1>1. SUFFICES ASSUME NEW c \in Scored,
                      NEW all, all = _score_campaign(c, Day),
                      NEW left, left = _score_campaign(c, Day \ missing),
                      left.flag # NoStreak
               PROVE  /\ RunAt(left.flag) /\ left.lead >= Streak
                      /\ all.flag # NoStreak /\ all.lead >= left.lead
  BY DEF MissingOnlyHides
<1>2. c \in group_campaigns /\ SpansSound
  BY DEF Scored, LeadInv
<1>3. completing_phase(c) \in episodes
  BY <1>2, CampaignHas, CompletingIs
<1>4. PICK o \in Nat : o = completing_phase(c).onset
  BY <1>2, <1>3, EpisodeFields
<1>5. PICK from : from = EarliestOf(c).onset - PreOnset
  OBVIOUS
<1>6. PICK A : A = {t \in Day : from <= t /\ t < o}
  OBVIOUS
<1>7. PICK R : R = {t \in Day \ missing : from <= t /\ t < o}
  OBVIOUS
<1>8. A \subseteq Day /\ R \subseteq A /\ R \subseteq Day
  BY <1>6, <1>7
<1>9. PICK x, y : x = _first_timed_run(A) /\ y = _first_timed_run(R)
  OBVIOUS
<1>10. all = [flag |-> x, lead |-> IF x = NoStreak THEN NoStreak ELSE o - x]
  BY <1>1, <1>4, <1>5, <1>6, <1>9 DEF _score_campaign
<1>11. left = [flag |-> y, lead |-> IF y = NoStreak THEN NoStreak ELSE o - y]
  BY <1>1, <1>4, <1>5, <1>7, <1>9 DEF _score_campaign
<1>12. y # NoStreak /\ left.lead = o - y /\ left.flag = y
  BY <1>1, <1>11
<1>13. y \in R /\ WindowRun(R, y)
  BY <1>8, <1>9, <1>12, TimedFirst
<1>14. y \in Day /\ y \in Nat /\ WindowRun(A, y) /\ RunAt(y) /\ y + Streak - 1 \in R
  BY <1>8, <1>13, DayIs DEF WindowRun, RunAt
<1>15. x # NoStreak /\ x <= y /\ x \in A
  BY <1>8, <1>9, <1>14, TimedFirst
<1>16. x \in Nat /\ all.flag = x /\ all.lead = o - x
  BY <1>8, <1>10, <1>15, DayIs
<1>17. y + Streak - 1 < o
  BY <1>7, <1>14
<1>18. o - y >= Streak /\ o - x >= o - y
  BY <1>14, <1>15, <1>16, <1>17, DayIs
<1>19. QED
  BY <1>12, <1>14, <1>15, <1>16, <1>18

-----------------------------------------------------------------------------
\* The next onset after a window is one, or lies beyond what is looked for.
LEMMA NextOnsetIs ==
    ASSUME SpansSound, NEW t \in Day
    PROVE  /\ \A f \in episodes : t < f.onset => NextOnset(t) <= f.onset
           /\ NextOnset(t) \in Nat
           /\ NextOnset(t) \in {f.onset : f \in {g \in episodes : t < g.onset}} \cup {LastT + PreOnset + 1}
<1>1. PICK S : S = {e.onset : e \in episodes} \cap (t + 1) .. LastT
  OBVIOUS
<1>2. S \subseteq Nat /\ t \in Nat
  BY <1>1, DayIs
<1>3. NextOnset(t) = IF S = {} THEN LastT + PreOnset + 1 ELSE Min(S)
  BY <1>1 DEF NextOnset
<1>4. \A f \in episodes : t < f.onset => f.onset \in S
  BY <1>1, <1>2, EpisodeFields, DayIs
<1>5. S # {} => Min(S) \in S /\ \A y \in S : Min(S) <= y
  BY <1>2, MinIsLeast
<1>6. \A y \in S : \E f \in episodes : f.onset = y /\ t < f.onset
  BY <1>1, <1>2
<1>7. PICK n : n = NextOnset(t)
  OBVIOUS
<1>8. CASE S = {}
  <2>1. n = LastT + PreOnset + 1 /\ n \in Nat
    BY <1>3, <1>7, <1>8, DayIs
  <2>2. \A f \in episodes : ~(t < f.onset)
    BY <1>4, <1>8
  <2>3. QED
    BY <1>7, <2>1, <2>2
<1>9. CASE S # {}
  <2>1. n \in S /\ n \in Nat /\ \A y \in S : n <= y
    BY <1>2, <1>3, <1>5, <1>7, <1>9
  <2>2. QED
    BY <1>4, <1>6, <1>7, <2>1
<1>10. QED
  BY <1>8, <1>9

\* The rows that per_episode_report looks for a warning in.
WarningRows(e) == {t \in Keyed(e, Day \ missing) : t < e.onset /\ t >= e.onset - PreOnset}
ClearTo(e, t) == \A u \in t .. e.onset - 1 : ~Inside(u)

\* Warnings are scored windows before the onset, after the horizon begins and outside attacks.
LEMMA WarningRowsAre ==
    ASSUME LeadInv, NEW e \in episodes, NEW t
    PROVE  t \in WarningRows(e) <=>
              t \in ScoredDay /\ t < e.onset /\ t >= e.onset - PreOnset /\ ClearTo(e, t)
<1>1. SpansSound /\ e.onset \in Nat /\ e.onset \in Day
  BY EpisodeFields DEF LeadInv
<1>2. ASSUME t \in WarningRows(e)
      PROVE  t \in ScoredDay /\ t < e.onset /\ t >= e.onset - PreOnset /\ ClearTo(e, t)
  <2>1. t \in Day /\ t \in ScoredDay /\ t < e.onset /\ t >= e.onset - PreOnset /\ t \in Nat
    BY <1>2, DayIs DEF WarningRows, Keyed, LeadInv
  <2>2. ~Inside(t) /\ NextOnset(t) = e.onset
    BY <1>1, <1>2, <2>1 DEF WarningRows, Keyed
  <2>3. ASSUME NEW u \in t .. e.onset - 1, NEW f \in episodes, f.onset <= u, u <= f.end PROVE FALSE
    <3>1. f.onset \in Nat /\ f.end \in Nat /\ u \in Nat
      BY <1>1, <2>1, EpisodeFields
    <3>2. CASE f.onset <= t
      <4>1. t <= f.end
        BY <2>1, <2>3, <3>1
      <4>2. QED
        BY <2>2, <3>2, <4>1 DEF Inside
    <3>3. CASE t < f.onset
      <4>1. e.onset <= f.onset
        BY <1>1, <2>1, <2>2, <3>3, NextOnsetIs
      <4>2. QED
        BY <1>1, <2>1, <2>3, <3>1, <4>1
    <3>4. QED
      BY <2>1, <3>1, <3>2, <3>3
  <2>4. QED
    BY <2>1, <2>3 DEF ClearTo, Inside
<1>3. ASSUME t \in ScoredDay, t < e.onset, t >= e.onset - PreOnset, ClearTo(e, t)
      PROVE  t \in WarningRows(e)
  <2>1. t \in Day /\ t \in Nat /\ t \in t .. e.onset - 1
    BY <1>1, <1>3, DayIs, ScoredDayIs
  <2>2. ~Inside(t)
    BY <1>3, <2>1 DEF ClearTo
  <2>3. PICK n \in Nat : n = NextOnset(t)
    BY <1>1, <2>1, NextOnsetIs
  <2>4. n <= e.onset
    BY <1>1, <1>3, <2>1, <2>3, NextOnsetIs
  <2>5. n = e.onset
    <3>1. CASE n = LastT + PreOnset + 1
      BY <1>1, <2>4, <3>1, DayIs
    <3>2. CASE n # LastT + PreOnset + 1
      <4>1. PICK f \in episodes : t < f.onset /\ n = f.onset
        BY <1>1, <2>1, <2>3, <3>2, NextOnsetIs
      <4>2. f.onset \in Nat /\ f.onset <= f.end
        BY <1>1, EpisodeFields
      <4>3. Inside(n)
        BY <4>1, <4>2 DEF Inside
      <4>4. ~(n \in t .. e.onset - 1)
        BY <1>3, <4>3 DEF ClearTo
      <4>5. QED
        BY <1>1, <2>1, <2>3, <2>4, <4>1, <4>4
    <3>3. QED
      BY <3>1, <3>2
  <2>6. t \notin missing
    <3>1. n - t <= PreOnset
      BY <1>1, <1>3, <2>1, <2>5, DayIs
    <3>2. PreOnsetRow(t)
      BY <2>2, <2>3, <3>1 DEF PreOnsetRow
    <3>3. QED
      BY <1>3, <3>2 DEF LeadInv
  <2>7. QED
    BY <1>3, <2>1, <2>2, <2>3, <2>5, <2>6 DEF WarningRows, Keyed
<1>4. QED
  BY <1>2, <1>3

\* The warnings of the report per episode are exact.
LEMMA EpisodeLeadsHold ==
    ASSUME LeadInv
    PROVE  EpisodeLeadsAreExact
<1>1. SUFFICES ASSUME NEW e \in episodes,
                      NEW W, W = {t \in e.onset - PreOnset .. e.onset - Streak :
                                    t .. t + Streak - 1 \subseteq ScoredDay /\ RunAt(t) /\ ClearTo(e, t)}
               PROVE  per_episode_report(e, Day \ missing).lead =
                         IF W = {} THEN NoStreak ELSE e.onset - Min(W)
  BY DEF EpisodeLeadsAreExact, ClearTo
<1>2. SpansSound
  BY DEF LeadInv
<1>3. PICK o \in Nat : o = e.onset /\ o \in Day
  BY <1>2, EpisodeFields
<1>4. PICK R : R = WarningRows(e)
  OBVIOUS
<1>5. \A t : t \in R <=> t \in ScoredDay /\ t < o /\ t >= o - PreOnset /\ ClearTo(e, t)
  BY <1>3, <1>4, WarningRowsAre
<1>6. ASSUME NEW t \in R, NEW u \in ScoredDay, t <= u, u < o PROVE u \in R
  <2>1. t \in Nat /\ u \in Nat /\ t < o /\ t >= o - PreOnset /\ ClearTo(e, t)
    BY <1>5, ScoredDayIs
  <2>2. u >= o - PreOnset
    BY <1>3, <1>6, <2>1, DayIs
  <2>3. ClearTo(e, u)
    BY <1>3, <1>6, <2>1 DEF ClearTo
  <2>4. QED
    BY <1>5, <1>6, <2>2, <2>3
<1>7. Unbroken(R)
  <2>1. R \subseteq Day
    BY <1>5, ScoredDayIs
  <2>2. ASSUME NEW t \in R, NEW u \in R, NEW v \in t .. u PROVE v \in R
    <3>1. u < o /\ u \in Nat /\ t \in Nat /\ t \in ScoredDay /\ u \in ScoredDay
      BY <1>5, ScoredDayIs
    <3>2. v \in ScoredDay /\ t <= v /\ v < o
      BY <1>3, <3>1, ScoredDayIs
    <3>3. QED
      BY <1>6, <3>2
  <2>3. QED
    BY <2>1, <2>2 DEF Unbroken
<1>8. W = {t \in R : t + Streak - 1 \in R /\ RunAt(t)}
  <2>1. ASSUME NEW t \in R, t + Streak - 1 \in R, RunAt(t) PROVE t \in W
    <3>1. t \in Nat /\ t \in ScoredDay /\ t >= o - PreOnset /\ ClearTo(e, t)
      BY <1>5, ScoredDayIs
    <3>2. t + Streak - 1 \in ScoredDay /\ t + Streak - 1 < o
      BY <1>5, <2>1
    <3>3. t \in o - PreOnset .. o - Streak
      BY <1>3, <3>1, <3>2, DayIs
    <3>4. t .. t + Streak - 1 \subseteq ScoredDay
      BY <3>1, <3>2, ScoredDayIs
    <3>5. QED
      BY <1>1, <1>3, <2>1, <3>1, <3>3, <3>4
  <2>2. ASSUME NEW t \in W PROVE t \in R /\ t + Streak - 1 \in R /\ RunAt(t)
    <3>1. /\ t \in o - PreOnset .. o - Streak /\ RunAt(t) /\ ClearTo(e, t)
          /\ t .. t + Streak - 1 \subseteq ScoredDay
      BY <1>1, <1>3
    <3>2. t \in Int /\ t >= o - PreOnset /\ t < o /\ t <= t + Streak - 1 /\ t + Streak - 1 < o
      BY <1>3, <3>1, DayIs
    <3>3. t \in ScoredDay /\ t + Streak - 1 \in ScoredDay
      BY <3>1, <3>2, DayIs
    <3>4. t \in R
      BY <1>5, <3>1, <3>2, <3>3
    <3>5. QED
      BY <1>6, <3>1, <3>2, <3>3, <3>4
  <2>3. QED
    BY <2>1, <2>2
<1>9. PICK x : x = FirstRun(R)
  OBVIOUS
<1>10. x = IF W = {} THEN NoStreak ELSE Min(W)
  BY <1>7, <1>8, <1>9, FirstRunIs
<1>11. per_episode_report(e, Day \ missing).lead = IF x = NoStreak THEN NoStreak ELSE o - x
  BY <1>3, <1>4, <1>9 DEF per_episode_report, WarningRows
<1>12. W # {} => Min(W) # NoStreak
  <2>1. W \subseteq Day
    BY <1>5, <1>8, ScoredDayIs
  <2>2. W \subseteq Nat /\ 0 \notin W
    BY <2>1, DayIs
  <2>3. QED
    BY <2>2, MinIsLeast DEF NoStreak
<1>13. QED
  BY <1>3, <1>10, <1>11, <1>12

\* The windows of an episode that are scored, those that no cap took, and the
\* runs of hits among them.
SpanRows(e) == (e.onset .. e.end) \cap ScoredDay
SeenRows(e) == IF e.end \in missing THEN SpanRows(e) \ {e.end} ELSE SpanRows(e)
RunsIn(rows) == {t \in rows : t .. t + Streak - 1 \subseteq rows /\ RunAt(t)}

\* Of an episode only the last window can be lost, and its latency is that of
\* the first run of the rest.
LEMMA EndsHide ==
    ASSUME LeadInv
    PROVE  OnlyTheEndIsHidden
<1>0. SUFFICES ASSUME EpisodeGap < OriginHorizon, NEW e \in episodes
               PROVE  /\ SpanRows(e) \ missing = SeenRows(e)
                      /\ per_episode_report(e, Day \ missing).latency =
                            IF RunsIn(SeenRows(e)) = {} THEN -1 ELSE Min(RunsIn(SeenRows(e))) - e.onset
  BY DEF OnlyTheEndIsHidden, SpanRows, SeenRows, RunsIn
<1>a. PICK A, F, W : A = SpanRows(e) /\ F = SeenRows(e) /\ W = RunsIn(SeenRows(e))
  OBVIOUS
<1>1. /\ EpisodeGap < OriginHorizon
      /\ A = (e.onset .. e.end) \cap ScoredDay
      /\ F = IF e.end \in missing THEN A \ {e.end} ELSE A
      /\ W = {t \in F : t .. t + Streak - 1 \subseteq F /\ RunAt(t)}
  BY <1>0, <1>a DEF SpanRows, SeenRows, RunsIn
<1>2. SpansSound /\ SpansReach
  BY DEF LeadInv
<1>3. PICK o \in Nat, z \in Nat : o = e.onset /\ z = e.end /\ o <= z
  BY <1>2, EpisodeFields
<1>4. ASSUME NEW t \in A, t < z PROVE t \notin missing
  <2>1. t \in ScoredDay /\ t \in Nat /\ o <= t
    BY <1>1, <1>3, ScoredDayIs
  <2>2. PICK a \in Attacked : t < a /\ a <= t + EpisodeGap + 1
    BY <1>2, <1>3, <1>4, <2>1 DEF SpansReach
  <2>3. a \in Nat
    BY DayIs DEF Attacked
  <2>4. a \in (t + 1) .. (t + OriginHorizon)
    BY <1>1, <2>1, <2>2, <2>3, ScoredDayIs
  <2>5. Positive(t)
    BY <2>4 DEF Positive
  <2>6. QED
    BY <2>1, <2>5 DEF LeadInv
<1>5. A \ missing = F
  <2>1. \A t \in A : t # z => t < z
    BY <1>1, <1>3
  <2>2. \A t \in A : t \in missing => t = z
    BY <1>4, <2>1
  <2>3. QED
    BY <1>1, <1>3, <2>2
<1>6. \A t \in Day : t \in A /\ t \notin missing <=> t \in Day \ missing /\ o <= t /\ t <= z
  BY <1>1, <1>3, DayIs DEF LeadInv
<1>7. {t \in Keyed(e, Day \ missing) : Inside(t)} = F
  <2>1. \A t \in Day : o <= t /\ t <= z => Inside(t)
    BY <1>3 DEF Inside
  <2>2. \A t : t \in Keyed(e, Day \ missing) /\ Inside(t) <=> t \in Day \ missing /\ o <= t /\ t <= z
    BY <1>3, <2>1 DEF Keyed
  <2>3. A \subseteq Day
    BY <1>1, ScoredDayIs
  <2>4. QED
    BY <1>5, <1>6, <2>2, <2>3
<1>8. \A t \in F, u \in F : t .. u \subseteq F
  <2>1. SUFFICES ASSUME NEW t \in F, NEW u \in F, NEW v \in t .. u PROVE v \in F
    OBVIOUS
  <2>2. t \in A /\ u \in A /\ t \in Nat /\ u \in Nat /\ v \in Nat
    BY <1>1, ScoredDayIs
  <2>3. v \in A
    BY <1>1, <1>3, <2>2, ScoredDayIs
  <2>4. v = z => u = z
    BY <1>1, <1>3, <2>2
  <2>5. QED
    BY <1>1, <1>3, <2>3, <2>4
<1>9. F \subseteq Day /\ F \subseteq Nat
  BY <1>1, ScoredDayIs
<1>10. Unbroken(F)
  BY <1>8, <1>9 DEF Unbroken
<1>11. W = {t \in F : t + Streak - 1 \in F /\ RunAt(t)}
  <2>1. \A t \in F : t + Streak - 1 \in t .. t + Streak - 1
    BY <1>9, DayIs
  <2>2. QED
    BY <1>1, <1>8, <2>1
<1>12. PICK x : x = FirstRun(F)
  OBVIOUS
<1>13. x = IF W = {} THEN NoStreak ELSE Min(W)
  BY <1>10, <1>11, <1>12, FirstRunIs
<1>14. per_episode_report(e, Day \ missing).latency = IF x = NoStreak THEN -1 ELSE x - o
  BY <1>3, <1>7, <1>12 DEF per_episode_report
<1>15. W # {} => Min(W) # NoStreak
  <2>1. W \subseteq Nat /\ W \subseteq Day
    BY <1>9, <1>11
  <2>2. 0 \notin W
    BY <2>1, DayIs
  <2>3. QED
    BY <2>1, <2>2, MinIsLeast DEF NoStreak
<1>16. QED
  BY <1>a, <1>3, <1>5, <1>13, <1>14, <1>15

\* A host's lead is that of a run before its first attack.
LEMMA HostLeadHolds ==
    ASSUME LeadInv
    PROVE  HostLead # NoStreak => HostLead >= Streak /\ RunAt(Min(Attacked) - HostLead)
<1>1. PICK o : o = Min(Attacked)
  OBVIOUS
<1>2. PICK R : R = {t \in ScoredDay : t < o}
  OBVIOUS
<1>3. PICK x : x = FirstRun(R)
  OBVIOUS
<1>4. HostLead = IF Attacked = {} \/ x = NoStreak THEN NoStreak ELSE o - x
  BY <1>1, <1>2, <1>3 DEF HostLead
<1>5. SUFFICES ASSUME Attacked # {}, x # NoStreak
               PROVE  o - x >= Streak /\ RunAt(o - (o - x))
  BY <1>1, <1>4
<1>6. o \in Nat
  <2>1. Attacked \subseteq Nat
    BY DayIs DEF Attacked
  <2>2. QED
    BY <1>1, <1>5, <2>1, MinIsLeast
<1>7. Unbroken(R)
  <2>1. R \subseteq Day
    BY <1>2, ScoredDayIs
  <2>2. ASSUME NEW t \in R, NEW u \in R, NEW v \in t .. u PROVE v \in R
    <3>1. t \in ScoredDay /\ u \in ScoredDay /\ t \in Nat /\ u \in Nat /\ u < o
      BY <1>2, ScoredDayIs
    <3>2. v \in ScoredDay /\ v < o
      BY <1>6, <3>1, ScoredDayIs
    <3>3. QED
      BY <1>2, <3>2
  <2>3. QED
    BY <2>1, <2>2 DEF Unbroken
<1>8. PICK W : W = {t \in R : t + Streak - 1 \in R /\ RunAt(t)}
  OBVIOUS
<1>9. x = IF W = {} THEN NoStreak ELSE Min(W)
  BY <1>3, <1>7, <1>8, FirstRunIs
<1>10. W \subseteq Nat /\ W # {}
  BY <1>2, <1>5, <1>8, <1>9, ScoredDayIs
<1>11. x \in W /\ x \in Nat
  BY <1>9, <1>10, MinIsLeast
<1>12. x + Streak - 1 < o /\ RunAt(x)
  BY <1>2, <1>8, <1>11
<1>13. o - (o - x) = x /\ o - x >= Streak
  BY <1>6, <1>11, <1>12, DayIs
<1>14. QED
  BY <1>12, <1>13

\* Every report is earned while windows are lost.
LEMMA LeadInitInductive == LeadInit => LeadInv
BY SpansFollow, SpansReachFar, ScoredDayIs DEF LeadInit, LeadInv

\* Losing a window changes none of it.
LEMMA LeadNextInductive == LeadInv /\ [LeadNext]_leadVars => LeadInv'
<1>1. SUFFICES ASSUME LeadInv, [LeadNext]_leadVars PROVE LeadInv'
  OBVIOUS
<1>2. CASE UNCHANGED leadVars
  BY <1>1, <1>2 DEF leadVars, LeadInv, SpansSound, SpansReach, Attacked, Positive, PreOnsetRow, Inside, NextOnset
<1>3. ASSUME NEW t \in Day, LoseWindow(t) PROVE LeadInv'
  <2>1. stageAt' = stageAt /\ episodes' = episodes /\ hits' = hits /\ missing' = missing \cup {t}
    BY <1>3 DEF LoseWindow
  <2>2. SpansSound' /\ SpansReach'
    BY <1>1, <2>1 DEF LeadInv, SpansSound, SpansReach, Attacked
  <2>3. \A u \in Day : Positive(u)' = Positive(u) /\ PreOnsetRow(u)' = PreOnsetRow(u)
    BY <2>1 DEF Inside, NextOnset, Positive, PreOnsetRow, Attacked
  <2>4. \A u \in missing' \cap ScoredDay : ~Positive(u) /\ ~PreOnsetRow(u)
    BY <1>1, <1>3, <2>1 DEF LeadInv, LoseWindow
  <2>5. missing' \subseteq Day /\ \A u \in Day \ ScoredDay : u \in missing'
    BY <1>1, <2>1 DEF LeadInv
  <2>6. (\A u \in missing \cap ScoredDay : ~Positive(u) /\ ~PreOnsetRow(u))'
    BY <1>1, <2>3, <2>4, <2>5, ScoredDayIs
  <2>7. QED
    BY <1>1, <2>1, <2>2, <2>5, <2>6 DEF LeadInv
<1>4. QED
  BY <1>1, <1>2, <1>3 DEF LeadNext

\* The inductive invariant gives each part of the property.
LEMMA LeadInvImplies == LeadInv => LeadsAreEarned
<1>1. SUFFICES ASSUME LeadInv PROVE LeadsAreEarned
  OBVIOUS
<1>2. CampaignsPartition
  BY <1>1, CampaignsHold DEF LeadInv
<1>3. QED
  BY <1>1, <1>2, MissingHides, EpisodeLeadsHold, EndsHide, HostLeadHolds DEF LeadsAreEarned

\* On every day and whichever windows are lost, a lead is that of a streak of hits
\* before its own onset and of the first such streak among the windows that have a full context
\* and horizon; and of an episode only the last window is ever overlooked, while the horizon
\* reaches across its pauses (episode_metrics.py, eval_set.py, lead_time_runner.py, campaign_metrics.py).
THEOREM LeadInvariant == LeadSpec => []LeadsAreEarned
<1>1. LeadInit => LeadInv
  BY LeadInitInductive
<1>2. LeadInv /\ [LeadNext]_leadVars => LeadInv'
  BY LeadNextInductive
<1>3. LeadInv => LeadsAreEarned
  BY LeadInvImplies
<1>4. QED
  BY <1>1, <1>2, <1>3, PTL DEF LeadSpec

-----------------------------------------------------------------------------
(***************************************************************************)
(* Experiments and their benchmark.  A copy of the artifacts of a label is *)
(* trained on by stages, each saves the weights of a member before its     *)
(* metadata; between the two the directory contradicts itself, and an      *)
(* experiment that is killed there leaves it so.                           *)
(***************************************************************************)
\* Whose scaler something is fitted behind, and what a head reads.
Fits == {LabelRegime[l] : l \in Labels} \cup {None}
Inputs == DOMAIN HeadWidth \cup {None}
MemberSet == [dynamics : Fits, heads : Fits \cup {"fresh"}, components : Inputs,
              dropped_features : Fits, risk_head_components : Inputs]
Directories == [scaler : Fits, member : [SeedSet -> MemberSet], onset : [SeedSet -> Fits],
                point : {<<>>} \cup {<<SelectedOn("val", p)>> : p \in Poolings}]
Places == {"idle", "copy", "copy metadata", "prepare", "train", "record dynamics", "record heads"}

ExperimentTyped ==
    experiment \in [at : Places, label : Labels \cup {None}, from : Labels \cup {None},
                    stages : {experiment.stages}, seeds : Seq(SeedSet), todo : Seq(SeedSet),
                    left : {experiment.left}, scaler : Fits]

\* The weights of a member are saved and their metadata are not, yet.
Halfway == experiment.at \in {"copy metadata", "record dynamics", "record heads"}
Pending(l, s) == Halfway /\ l = To /\ s = ThisSeed

\* What the metadata of a member say is so.
InStep(member) ==
    /\ member.dynamics # None => member.dropped_features = member.dynamics
    /\ member.dynamics # None /\ member.heads # "fresh" =>
          member.risk_head_components = member.components /\ member.components # None
OfRegime(l, member) ==
    member.dynamics # None => /\ member.dynamics = LabelRegime[l]
                              /\ member.heads \in {"fresh", LabelRegime[l]}

\* What a run relies on where it stands.
Standing ==
    /\ experiment.at # "idle" => To \in Labels
    /\ experiment.at \in {"copy", "copy metadata"} =>
          /\ experiment.from \in Labels /\ experiment.from # To
          /\ ~crossed => LabelRegime[experiment.from] = LabelRegime[To]
    /\ Halfway => experiment.todo # <<>>
    /\ experiment.at \in {"train", "record dynamics", "record heads"} => experiment.scaler = LabelRegime[To]
    /\ published # <<>> => experiment.at = "idle"

\* What is saved of a member whose metadata are to follow.
Unfinished ==
    /\ experiment.at = "copy metadata" =>
          /\ Mine.dynamics = Theirs.dynamics /\ Mine.heads = Theirs.heads
          /\ Mine.components = Theirs.components
    /\ experiment.at = "record dynamics" => Mine.dynamics = experiment.scaler /\ Mine.heads = "fresh"
    /\ experiment.at = "record heads" =>
          /\ Mine.components = LabelComponents[To]
          /\ To \notin unrecorded /\ Mine.dynamics # None => Mine.dropped_features = Mine.dynamics

Recorded ==
    /\ \A l \in Labels, s \in SeedSet :
          l \notin unrecorded /\ ~Pending(l, s) => InStep(artifacts[l].member[s])
    /\ ~crossed => \A l \in Labels, s \in SeedSet : OfRegime(l, artifacts[l].member[s])

EvaTyped == artifacts \in [Labels -> Directories] /\ ExperimentTyped

EvaInv == EvaTyped /\ Standing /\ Unfinished /\ Recorded /\ BenchmarkIsOfOneModel

-----------------------------------------------------------------------------
\* The current seed of a run is one of the ensemble's.
LEMMA SeedIs ==
    ASSUME EvaTyped, experiment.todo # <<>>
    PROVE  ThisSeed \in SeedSet /\ Tail(experiment.todo) \in Seq(SeedSet)
<1>1. experiment.todo \in Seq(SeedSet)
  BY DEF EvaTyped, ExperimentTyped
<1>2. QED
  BY <1>1 DEF ThisSeed

\* A member of a directory, taken out of it.
LEMMA MembersTyped ==
    ASSUME EvaTyped, NEW l \in Labels, NEW s \in SeedSet
    PROVE  artifacts[l].member[s] \in MemberSet
<1>1. artifacts[l] \in Directories
  BY DEF EvaTyped
<1>2. artifacts[l].member \in [SeedSet -> MemberSet]
  BY <1>1 DEF Directories
<1>3. QED
  BY <1>2

\* A member saved is the only thing that changes.
Saved(m) ==
    /\ artifacts' \in [Labels -> Directories]
    /\ artifacts'[To].member[ThisSeed] = m
    /\ \A l \in Labels, s \in SeedSet : l # To \/ s # ThisSeed => artifacts'[l].member[s] = artifacts[l].member[s]
    /\ \A l \in Labels : artifacts'[l].point = artifacts[l].point

\* Saving a member leaves all others as they are.
LEMMA SaveIs ==
    ASSUME EvaTyped, To \in Labels, ThisSeed \in SeedSet, NEW m \in MemberSet, Save(m)
    PROVE  Saved(m)
<1>1. artifacts \in [Labels -> Directories]
  BY DEF EvaTyped
<1>2. PICK d : d = artifacts[To]
  OBVIOUS
<1>3. d \in [scaler : Fits, member : [SeedSet -> MemberSet], onset : [SeedSet -> Fits],
             point : {<<>>} \cup {<<SelectedOn("val", p)>> : p \in Poolings}]
  BY <1>1, <1>2 DEF Directories
<1>4. PICK f : f = [d.member EXCEPT ![ThisSeed] = m]
  OBVIOUS
<1>5. f \in [SeedSet -> MemberSet] /\ f[ThisSeed] = m /\ \A s \in SeedSet : s # ThisSeed => f[s] = d.member[s]
  BY <1>3, <1>4
<1>6. PICK e : e = [d EXCEPT !.member = f]
  OBVIOUS
<1>7. e \in Directories /\ e.member = f /\ e.point = d.point
  BY <1>3, <1>5, <1>6 DEF Directories
<1>8. artifacts' = [artifacts EXCEPT ![To] = e]
  BY <1>2, <1>4, <1>6 DEF Save, Rewrite
<1>9. artifacts'[To] = e /\ \A l \in Labels : l # To => artifacts'[l] = artifacts[l]
  BY <1>1, <1>8
<1>10. artifacts' \in [Labels -> Directories]
  BY <1>1, <1>7, <1>8
<1>11. QED
  BY <1>2, <1>5, <1>7, <1>9, <1>10 DEF Saved

\* A directory rewritten without its members and its point.
Kept ==
    /\ artifacts' \in [Labels -> Directories]
    /\ \A l \in Labels : artifacts'[l].member = artifacts[l].member /\ artifacts'[l].point = artifacts[l].point

\* Rewriting something other than a member keeps all members.
LEMMA RewriteIs ==
    ASSUME EvaTyped, To \in Labels, NEW e \in Directories, Rewrite(e),
           e.member = artifacts[To].member, e.point = artifacts[To].point
    PROVE  Kept
BY DEF EvaTyped, Rewrite, Kept

\* Rewriting the scaler keeps all members.
LEMMA ScalerRewritten ==
    ASSUME EvaTyped, To \in Labels, NEW x \in Fits, Rewrite([artifacts[To] EXCEPT !.scaler = x])
    PROVE  Kept
<1>1. PICK d : d = artifacts[To]
  OBVIOUS
<1>2. d \in [scaler : Fits, member : [SeedSet -> MemberSet], onset : [SeedSet -> Fits],
             point : {<<>>} \cup {<<SelectedOn("val", p)>> : p \in Poolings}]
  BY <1>1 DEF EvaTyped, Directories
<1>3. PICK e : e = [d EXCEPT !.scaler = x]
  OBVIOUS
<1>4. e \in Directories /\ e.member = d.member /\ e.point = d.point
  BY <1>2, <1>3 DEF Directories
<1>5. Rewrite(e)
  BY <1>1, <1>3
<1>6. QED
  BY <1>1, <1>4, <1>5, RewriteIs

\* Rewriting the onset head of a seed keeps all members.
LEMMA OnsetRewritten ==
    ASSUME EvaTyped, To \in Labels, ThisSeed \in SeedSet, NEW x \in Fits,
           Rewrite([artifacts[To] EXCEPT !.onset = [artifacts[To].onset EXCEPT ![ThisSeed] = x]])
    PROVE  Kept
<1>1. PICK d : d = artifacts[To]
  OBVIOUS
<1>2. d \in [scaler : Fits, member : [SeedSet -> MemberSet], onset : [SeedSet -> Fits],
             point : {<<>>} \cup {<<SelectedOn("val", p)>> : p \in Poolings}]
  BY <1>1 DEF EvaTyped, Directories
<1>3. PICK f : f = [d.onset EXCEPT ![ThisSeed] = x]
  OBVIOUS
<1>4. f \in [SeedSet -> Fits]
  BY <1>2, <1>3
<1>5. PICK e : e = [d EXCEPT !.onset = f]
  OBVIOUS
<1>6. e \in Directories /\ e.member = d.member /\ e.point = d.point
  BY <1>2, <1>4, <1>5 DEF Directories
<1>7. Rewrite(e)
  BY <1>1, <1>3, <1>5
<1>8. QED
  BY <1>1, <1>6, <1>7, RewriteIs

\* Where a run goes, and what it takes along.
Went(at) ==
    /\ ExperimentTyped' /\ experiment'.at = at
    /\ experiment'.label = experiment.label /\ experiment'.from = experiment.from
    /\ experiment'.scaler = experiment.scaler

\* Going to a place keeps the seeds still to do.
LEMMA GoIs ==
    ASSUME EvaTyped, NEW at \in Places, Go(at)
    PROVE  Went(at) /\ experiment'.todo = experiment.todo
BY DEF EvaTyped, ExperimentTyped, Go, Went

\* After a stage comes the next one, or the next seed.
LEMMA AfterIs ==
    ASSUME EvaTyped, experiment.todo # <<>>, NEW now, After(now)
    PROVE  Went("train")
<1>1. Tail(experiment.todo) \in Seq(SeedSet)
  BY SeedIs
<1>2. CASE experiment.left = {now}
  <2>1. experiment' = [experiment EXCEPT !.at = "train", !.todo = Tail(experiment.todo),
                                         !.left = experiment.stages]
    BY <1>2 DEF After
  <2>2. experiment' = [at |-> "train", label |-> experiment.label, from |-> experiment.from,
                       stages |-> experiment.stages, seeds |-> experiment.seeds,
                       todo |-> Tail(experiment.todo), left |-> experiment.stages, scaler |-> experiment.scaler]
    BY <2>1 DEF EvaTyped, ExperimentTyped
  <2>3. QED
    BY <1>1, <2>2 DEF EvaTyped, ExperimentTyped, Went, Places
<1>3. CASE experiment.left # {now}
  <2>1. experiment' = [experiment EXCEPT !.at = "train", !.left = experiment.left \ {now}]
    BY <1>3 DEF After
  <2>2. experiment' = [at |-> "train", label |-> experiment.label, from |-> experiment.from,
                       stages |-> experiment.stages, seeds |-> experiment.seeds,
                       todo |-> experiment.todo, left |-> experiment.left \ {now}, scaler |-> experiment.scaler]
    BY <2>1 DEF EvaTyped, ExperimentTyped
  <2>3. QED
    BY <2>2 DEF EvaTyped, ExperimentTyped, Went, Places
<1>4. QED
  BY <1>2, <1>3

-----------------------------------------------------------------------------
\* After a member is saved the others are as they were.
LEMMA SavedRecords ==
    ASSUME Recorded, To \in Labels, ThisSeed \in SeedSet, NEW m, Saved(m),
           unrecorded \subseteq unrecorded', crossed' = crossed,
           To \notin unrecorded' /\ ~Halfway' => InStep(m),
           Halfway' => To' = To /\ ThisSeed' = ThisSeed,
           ~crossed => OfRegime(To, m)
    PROVE  Recorded'
<1>1. ASSUME NEW l \in Labels, NEW s \in SeedSet, l \notin unrecorded', ~Pending(l, s)'
      PROVE  InStep(artifacts'[l].member[s])
  <2>1. CASE l = To /\ s = ThisSeed
    <3>1. ~Halfway'
      BY <1>1, <2>1 DEF Pending
    <3>2. QED
      BY <1>1, <2>1, <3>1 DEF Saved
  <2>2. CASE l # To \/ s # ThisSeed
    <3>1. ~Pending(l, s) /\ l \notin unrecorded
      BY <1>1, <2>2 DEF Pending
    <3>2. InStep(artifacts[l].member[s])
      BY <3>1 DEF Recorded
    <3>3. QED
      BY <2>2, <3>2 DEF Saved
  <2>3. QED
    BY <2>1, <2>2
<1>2. ASSUME NEW l \in Labels, NEW s \in SeedSet, ~crossed PROVE OfRegime(l, artifacts'[l].member[s])
  <2>1. OfRegime(l, artifacts[l].member[s])
    BY <1>2 DEF Recorded
  <2>2. QED
    BY <1>2, <2>1 DEF Saved
<1>3. QED
  BY <1>1, <1>2 DEF Recorded, InStep, OfRegime

\* While an experiment runs there is no report.
LEMMA NoReportRuns ==
    ASSUME BenchmarkIsOfOneModel, published = <<>>, published' = <<>>, breakdown' = breakdown,
           \A l \in Labels : artifacts'[l].point = artifacts[l].point
    PROVE  BenchmarkIsOfOneModel'
<1>1. DOMAIN published' = {}
  OBVIOUS
<1>2. FedWhatItWasFittedOn' /\ OnsetReadsItsOwnEncoder'
  BY <1>1 DEF FedWhatItWasFittedOn, OnsetReadsItsOwnEncoder
<1>3. ChosenOnValidation'
  BY <1>1 DEF BenchmarkIsOfOneModel, ChosenOnValidation
<1>4. GroupsShareTheNegatives'
  BY DEF BenchmarkIsOfOneModel, GroupsShareTheNegatives
<1>5. QED
  BY <1>2, <1>3, <1>4 DEF BenchmarkIsOfOneModel

\* The kinds of things the fields of a member hold.
LEMMA RegimesAre ==
    /\ \A l \in Labels : LabelRegime[l] \in Fits /\ LabelComponents[l] \in Inputs /\ LabelComponents[l] # None
    /\ None \in Fits /\ None \in Inputs /\ None \notin Labels
BY EvaluationAssumption DEF EvaluationAssumption, Fits, Inputs

\* Copied weights stay ahead of their metadata until these are copied.
LEMMA CopyWeightsInductive ==
    ASSUME EvaInv, CopyWeights
    PROVE  EvaInv'
<1>1. /\ experiment.at = "copy" /\ experiment.todo # <<>> /\ Theirs.dynamics # None
      /\ Save([Mine EXCEPT !.dynamics = Theirs.dynamics, !.heads = Theirs.heads,
                           !.components = Theirs.components])
      /\ Go("copy metadata") /\ unrecorded' = unrecorded /\ crossed' = crossed
      /\ published' = published /\ breakdown' = breakdown
  BY DEF CopyWeights, Doing, Aside
<1>2. EvaTyped /\ Standing /\ Recorded /\ BenchmarkIsOfOneModel
  BY DEF EvaInv
<1>3. ThisSeed \in SeedSet
  BY <1>1, <1>2, SeedIs
<1>4. /\ To \in Labels /\ experiment.from \in Labels /\ experiment.from # To
      /\ ~crossed => LabelRegime[experiment.from] = LabelRegime[To]
      /\ published = <<>>
  BY <1>1, <1>2 DEF Standing
<1>5. PICK a \in MemberSet, b \in MemberSet : a = Mine /\ b = Theirs
  BY <1>2, <1>3, <1>4, MembersTyped DEF Mine, Theirs
<1>6. PICK m : m = [a EXCEPT !.dynamics = b.dynamics, !.heads = b.heads, !.components = b.components]
  OBVIOUS
<1>7. /\ m \in MemberSet /\ m.dynamics = b.dynamics /\ m.heads = b.heads /\ m.components = b.components
  BY <1>5, <1>6 DEF MemberSet
<1>8. Saved(m)
  BY <1>1, <1>2, <1>3, <1>4, <1>5, <1>6, <1>7, SaveIs
<1>9. Went("copy metadata") /\ experiment'.todo = experiment.todo
  BY <1>1, <1>2, GoIs DEF Places
<1>10. To' = To /\ ThisSeed' = ThisSeed
  BY <1>9 DEF Went, To, ThisSeed
<1>11. EvaTyped'
  BY <1>8, <1>9 DEF Saved, Went, EvaTyped
<1>12. Standing'
  BY <1>1, <1>4, <1>9, <1>10 DEF Standing, Went, Halfway
<1>13. Mine' = m /\ Theirs' = b
  BY <1>3, <1>4, <1>5, <1>8, <1>9, <1>10 DEF Mine, Theirs, Saved, Went
<1>14. Unfinished'
  BY <1>7, <1>9, <1>13 DEF Unfinished, Went
<1>15. ~crossed => OfRegime(To, m)
  <2>1. ~crossed => OfRegime(experiment.from, b)
    BY <1>2, <1>3, <1>4, <1>5 DEF Recorded, Theirs
  <2>2. QED
    BY <1>4, <1>7, <2>1 DEF OfRegime
<1>16. Halfway'
  BY <1>9 DEF Halfway, Went
<1>17. Recorded'
  BY <1>1, <1>2, <1>3, <1>4, <1>8, <1>10, <1>15, <1>16, SavedRecords
<1>18. BenchmarkIsOfOneModel'
  BY <1>1, <1>2, <1>4, <1>8, NoReportRuns DEF Saved
<1>19. QED
  BY <1>11, <1>12, <1>14, <1>17, <1>18 DEF EvaInv

\* Copied metadata say of the copy what they said of the original.
LEMMA CopyMetadataInductive ==
    ASSUME EvaInv, CopyMetadata
    PROVE  EvaInv'
<1>1. /\ experiment.at = "copy metadata" /\ experiment.todo # <<>>
      /\ Save([Mine EXCEPT !.dropped_features = Theirs.dropped_features,
                           !.risk_head_components = Theirs.risk_head_components])
      /\ unrecorded' = IF experiment.from \in unrecorded THEN unrecorded \cup {To} ELSE unrecorded
      /\ experiment' = [experiment EXCEPT !.at = "copy", !.todo = Tail(experiment.todo)]
      /\ crossed' = crossed /\ published' = published /\ breakdown' = breakdown
  BY DEF CopyMetadata, Doing, Aside
<1>2. EvaTyped /\ Standing /\ Recorded /\ BenchmarkIsOfOneModel /\ Unfinished
  BY DEF EvaInv
<1>3. ThisSeed \in SeedSet /\ Tail(experiment.todo) \in Seq(SeedSet)
  BY <1>1, <1>2, SeedIs
<1>4. /\ To \in Labels /\ experiment.from \in Labels /\ experiment.from # To
      /\ ~crossed => LabelRegime[experiment.from] = LabelRegime[To]
      /\ published = <<>>
  BY <1>1, <1>2 DEF Standing
<1>5. PICK a \in MemberSet, b \in MemberSet : a = Mine /\ b = Theirs
  BY <1>2, <1>3, <1>4, MembersTyped DEF Mine, Theirs
<1>6. PICK m : m = [a EXCEPT !.dropped_features = b.dropped_features,
                             !.risk_head_components = b.risk_head_components]
  OBVIOUS
<1>7. /\ m \in MemberSet /\ m.dynamics = a.dynamics /\ m.heads = a.heads /\ m.components = a.components
      /\ m.dropped_features = b.dropped_features /\ m.risk_head_components = b.risk_head_components
  BY <1>5, <1>6 DEF MemberSet
<1>8. Saved(m)
  BY <1>1, <1>2, <1>3, <1>4, <1>5, <1>6, <1>7, SaveIs
<1>9. Went("copy")
  BY <1>1, <1>2, <1>3 DEF EvaTyped, ExperimentTyped, Went, Places
<1>10. To' = To /\ ~Halfway'
  BY <1>9 DEF Went, To, Halfway
<1>11. EvaTyped'
  BY <1>8, <1>9 DEF Saved, Went, EvaTyped
<1>12. Standing'
  BY <1>1, <1>4, <1>9, <1>10 DEF Standing, Went
<1>13. Unfinished'
  BY <1>9 DEF Unfinished, Went
<1>14. a.dynamics = b.dynamics /\ a.heads = b.heads /\ a.components = b.components
  BY <1>1, <1>2, <1>5 DEF Unfinished
<1>15. ~crossed => OfRegime(To, m)
  <2>1. ~crossed => OfRegime(experiment.from, b)
    BY <1>2, <1>3, <1>4, <1>5 DEF Recorded, Theirs
  <2>2. QED
    BY <1>4, <1>7, <1>14, <2>1 DEF OfRegime
<1>16. To \notin unrecorded' => InStep(m)
  <2>1. SUFFICES ASSUME To \notin unrecorded' PROVE InStep(m)
    OBVIOUS
  <2>2. experiment.from \notin unrecorded
    BY <1>1, <2>1
  <2>3. ~Pending(experiment.from, ThisSeed)
    BY <1>4 DEF Pending
  <2>4. InStep(b)
    BY <1>2, <1>3, <1>4, <1>5, <2>2, <2>3 DEF Recorded, Theirs
  <2>5. QED
    BY <1>7, <1>14, <2>4 DEF InStep
<1>17. unrecorded \subseteq unrecorded'
  BY <1>1
<1>18. Recorded'
  BY <1>1, <1>2, <1>3, <1>4, <1>8, <1>10, <1>15, <1>16, <1>17, SavedRecords
<1>19. BenchmarkIsOfOneModel'
  BY <1>1, <1>2, <1>4, <1>8, NoReportRuns DEF Saved
<1>20. QED
  BY <1>11, <1>12, <1>13, <1>18, <1>19 DEF EvaInv

\* Where no member changes, those that were in step are.
LEMMA KeptRecords ==
    ASSUME Recorded, \A l \in Labels : artifacts'[l].member = artifacts[l].member,
           unrecorded \subseteq unrecorded', Halfway => To \in unrecorded', ~crossed' => ~crossed
    PROVE  Recorded'
<1>1. ASSUME NEW l \in Labels, NEW s \in SeedSet, l \notin unrecorded'
      PROVE  InStep(artifacts'[l].member[s])
  <2>1. ~Pending(l, s) /\ l \notin unrecorded
    BY <1>1 DEF Pending
  <2>2. QED
    BY <2>1 DEF Recorded
<1>2. ASSUME NEW l \in Labels, NEW s \in SeedSet, ~crossed' PROVE OfRegime(l, artifacts'[l].member[s])
  BY <1>2 DEF Recorded
<1>3. QED
  BY <1>1, <1>2 DEF Recorded, InStep, OfRegime

\* A copied scaler is of the regime of both labels, or the copy is recorded as crossed.
LEMMA CopyScalerInductive ==
    ASSUME EvaInv, CopyScaler
    PROVE  EvaInv'
<1>1. /\ experiment.at = "copy"
      /\ Rewrite([artifacts[To] EXCEPT !.scaler = artifacts[experiment.from].scaler])
      /\ experiment' = [experiment EXCEPT !.at = "prepare", !.todo = experiment.seeds]
      /\ unrecorded' = unrecorded /\ crossed' = crossed
      /\ published' = published /\ breakdown' = breakdown
  BY DEF CopyScaler, Aside
<1>2. EvaTyped /\ Standing /\ Recorded /\ BenchmarkIsOfOneModel
  BY DEF EvaInv
<1>3. To \in Labels /\ experiment.from \in Labels /\ published = <<>>
  BY <1>1, <1>2 DEF Standing
<1>4. PICK x \in Fits : x = artifacts[experiment.from].scaler
  BY <1>2, <1>3 DEF EvaTyped, Directories
<1>5. Kept
  BY <1>1, <1>2, <1>3, <1>4, ScalerRewritten
<1>6. Went("prepare")
  BY <1>1, <1>2 DEF EvaTyped, ExperimentTyped, Went, Places
<1>7. ~Halfway /\ ~Halfway' /\ To' = To
  BY <1>1, <1>6 DEF Went, To, Halfway
<1>8. EvaTyped'
  BY <1>5, <1>6 DEF Kept, Went, EvaTyped
<1>9. Standing'
  BY <1>1, <1>3, <1>6, <1>7 DEF Standing, Went
<1>10. Unfinished'
  BY <1>6 DEF Unfinished, Went
<1>11. Recorded'
  BY <1>1, <1>2, <1>5, <1>7, KeptRecords DEF Kept
<1>12. BenchmarkIsOfOneModel'
  BY <1>1, <1>2, <1>3, <1>5, NoReportRuns DEF Kept
<1>13. QED
  BY <1>8, <1>9, <1>10, <1>11, <1>12 DEF EvaInv

\* Prepared data bring a scaler of the label's own regime.
LEMMA PrepareInductive ==
    ASSUME EvaInv, PrepareData
    PROVE  EvaInv'
<1>1. /\ experiment.at = "prepare"
      /\ Rewrite([artifacts[To] EXCEPT !.scaler = LabelRegime[To]])
      /\ experiment' = [experiment EXCEPT !.at = "train", !.scaler = LabelRegime[To]]
      /\ unrecorded' = unrecorded /\ crossed' = crossed
      /\ published' = published /\ breakdown' = breakdown
  BY DEF PrepareData, Aside
<1>2. EvaTyped /\ Standing /\ Recorded /\ BenchmarkIsOfOneModel
  BY DEF EvaInv
<1>3. To \in Labels /\ published = <<>> /\ LabelRegime[To] \in Fits
  BY <1>1, <1>2, RegimesAre DEF Standing
<1>4. Kept
  BY <1>1, <1>2, <1>3, ScalerRewritten
<1>5. /\ ExperimentTyped' /\ experiment'.at = "train" /\ experiment'.label = experiment.label
      /\ experiment'.scaler = LabelRegime[To]
  BY <1>1, <1>2, <1>3 DEF EvaTyped, ExperimentTyped, Places
<1>6. ~Halfway /\ ~Halfway' /\ To' = To
  BY <1>1, <1>5 DEF To, Halfway
<1>7. EvaTyped'
  BY <1>4, <1>5 DEF Kept, EvaTyped
<1>8. Standing'
  BY <1>1, <1>3, <1>5, <1>6 DEF Standing
<1>9. Unfinished'
  BY <1>5 DEF Unfinished
<1>10. Recorded'
  BY <1>1, <1>2, <1>4, <1>6, KeptRecords DEF Kept
<1>11. BenchmarkIsOfOneModel'
  BY <1>1, <1>2, <1>3, <1>4, NoReportRuns DEF Kept
<1>12. QED
  BY <1>7, <1>8, <1>9, <1>10, <1>11 DEF EvaInv

\* What every step of the training of a seed may rely on.
LEMMA TrainingStands ==
    ASSUME EvaInv, experiment.at \in {"train", "record dynamics", "record heads"}, experiment.todo # <<>>
    PROVE  /\ EvaTyped /\ Standing /\ Recorded /\ BenchmarkIsOfOneModel /\ Unfinished
           /\ ThisSeed \in SeedSet /\ To \in Labels /\ Mine \in MemberSet /\ published = <<>>
           /\ experiment.scaler = LabelRegime[To] /\ experiment.scaler \in Fits
           /\ LabelComponents[To] \in Inputs /\ LabelComponents[To] # None
<1>1. EvaTyped /\ Standing /\ Recorded /\ BenchmarkIsOfOneModel /\ Unfinished
  BY DEF EvaInv
<1>2. ThisSeed \in SeedSet
  BY <1>1, SeedIs
<1>3. To \in Labels /\ published = <<>> /\ experiment.scaler = LabelRegime[To]
  BY <1>1 DEF Standing
<1>4. Mine \in MemberSet
  BY <1>1, <1>2, <1>3, MembersTyped DEF Mine
<1>5. QED
  BY <1>1, <1>2, <1>3, <1>4, RegimesAre

\* The steps of a seed's training keep what a run relies on.
LEMMA TrainingGoesOn ==
    ASSUME EvaInv, experiment.at \in {"train", "record dynamics", "record heads"}, experiment.todo # <<>>,
           NEW at, at \in {"train", "record dynamics", "record heads"}, Went(at),
           at # "train" => experiment'.todo = experiment.todo,
           unrecorded' = unrecorded, crossed' = crossed, published' = published
    PROVE  Standing' /\ To' = To /\ (Halfway' <=> at # "train")
<1>1. Standing /\ To \in Labels /\ published = <<>> /\ experiment.scaler = LabelRegime[To]
  BY TrainingStands
<1>2. To' = To /\ (Halfway' <=> at # "train")
  BY DEF Went, To, Halfway
<1>3. QED
  BY <1>1, <1>2 DEF Standing, Went

\* Trained dynamics are of the scaler in hand, ahead of their metadata.
LEMMA TrainDynamicsInductive ==
    ASSUME EvaInv, TrainDynamics
    PROVE  EvaInv'
<1>1. /\ experiment.at = "train" /\ experiment.todo # <<>>
      /\ Save([Mine EXCEPT !.dynamics = experiment.scaler, !.heads = "fresh",
                           !.components = LabelComponents[To]])
      /\ Go("record dynamics") /\ unrecorded' = unrecorded /\ crossed' = crossed
      /\ published' = published /\ breakdown' = breakdown
  BY DEF TrainDynamics, Now, Doing, Aside
<1>2. /\ EvaTyped /\ Recorded /\ BenchmarkIsOfOneModel
      /\ ThisSeed \in SeedSet /\ To \in Labels /\ Mine \in MemberSet /\ published = <<>>
      /\ experiment.scaler = LabelRegime[To] /\ experiment.scaler \in Fits
      /\ LabelComponents[To] \in Inputs
  BY <1>1, TrainingStands
<1>3. PICK a, x, c : a = Mine /\ x = experiment.scaler /\ c = LabelComponents[To]
  OBVIOUS
<1>4. PICK m : m = [a EXCEPT !.dynamics = x, !.heads = "fresh", !.components = c]
  OBVIOUS
<1>5. m \in MemberSet /\ m.dynamics = x /\ m.heads = "fresh" /\ m.components = c
  BY <1>2, <1>3, <1>4 DEF MemberSet
<1>6. Saved(m)
  BY <1>1, <1>2, <1>3, <1>4, <1>5, SaveIs
<1>7. Went("record dynamics") /\ experiment'.todo = experiment.todo
  BY <1>1, <1>2, GoIs DEF Places
<1>8. Standing' /\ To' = To /\ Halfway'
  BY <1>1, <1>7, TrainingGoesOn
<1>9. ThisSeed' = ThisSeed
  BY <1>7 DEF ThisSeed
<1>10. Mine' = m /\ experiment'.scaler = x
  BY <1>2, <1>3, <1>6, <1>7, <1>8, <1>9 DEF Mine, Saved, Went
<1>11. Unfinished'
  BY <1>5, <1>7, <1>10 DEF Unfinished, Went
<1>12. OfRegime(To, m)
  BY <1>2, <1>3, <1>5 DEF OfRegime
<1>13. Recorded'
  BY <1>1, <1>2, <1>6, <1>8, <1>9, <1>12, SavedRecords
<1>14. BenchmarkIsOfOneModel'
  BY <1>1, <1>2, <1>6, NoReportRuns DEF Saved
<1>15. EvaTyped'
  BY <1>6, <1>7 DEF Saved, Went, EvaTyped
<1>16. QED
  BY <1>8, <1>11, <1>13, <1>14, <1>15 DEF EvaInv

\* The metadata of the dynamics catch up with the weights.
LEMMA RecordDynamicsInductive ==
    ASSUME EvaInv, RecordDynamics
    PROVE  EvaInv'
<1>1. /\ experiment.at = "record dynamics" /\ experiment.todo # <<>>
      /\ Save([Mine EXCEPT !.dropped_features = experiment.scaler, !.risk_head_components = None])
      /\ After("dynamics") /\ unrecorded' = unrecorded /\ crossed' = crossed
      /\ published' = published /\ breakdown' = breakdown
  BY DEF RecordDynamics, Doing, Aside
<1>2. /\ EvaTyped /\ Recorded /\ BenchmarkIsOfOneModel /\ Unfinished
      /\ ThisSeed \in SeedSet /\ To \in Labels /\ Mine \in MemberSet /\ published = <<>>
      /\ experiment.scaler = LabelRegime[To] /\ experiment.scaler \in Fits
  BY <1>1, TrainingStands
<1>3. PICK a, x : a = Mine /\ x = experiment.scaler
  OBVIOUS
<1>4. PICK m : m = [a EXCEPT !.dropped_features = x, !.risk_head_components = None]
  OBVIOUS
<1>5. /\ m \in MemberSet /\ m.dynamics = a.dynamics /\ m.heads = a.heads
      /\ m.dropped_features = x
  BY <1>2, <1>3, <1>4, RegimesAre DEF MemberSet
<1>6. Saved(m)
  BY <1>1, <1>2, <1>3, <1>4, <1>5, SaveIs
<1>7. Went("train")
  BY <1>1, <1>2, AfterIs
<1>8. Standing' /\ To' = To /\ ~Halfway'
  BY <1>1, <1>7, TrainingGoesOn
<1>9. a.dynamics = x /\ a.heads = "fresh"
  BY <1>1, <1>2, <1>3 DEF Unfinished
<1>10. Unfinished'
  BY <1>7 DEF Unfinished, Went
<1>11. OfRegime(To, m) /\ InStep(m)
  BY <1>2, <1>3, <1>5, <1>9 DEF OfRegime, InStep
<1>12. Recorded'
  BY <1>1, <1>2, <1>6, <1>8, <1>11, SavedRecords
<1>13. BenchmarkIsOfOneModel'
  BY <1>1, <1>2, <1>6, NoReportRuns DEF Saved
<1>14. EvaTyped'
  BY <1>6, <1>7 DEF Saved, Went, EvaTyped
<1>15. QED
  BY <1>8, <1>10, <1>12, <1>13, <1>14 DEF EvaInv

\* Trained heads are of the scaler in hand, ahead of their metadata.
LEMMA TrainHeadsInductive ==
    ASSUME EvaInv, TrainHeads
    PROVE  EvaInv'
<1>1. /\ experiment.at = "train" /\ experiment.todo # <<>>
      /\ Save(WithTrainedHeads(Mine))
      /\ Go("record heads") /\ unrecorded' = unrecorded /\ crossed' = crossed
      /\ published' = published /\ breakdown' = breakdown
  BY DEF TrainHeads, Now, Doing, Aside
<1>2. /\ EvaTyped /\ Recorded /\ BenchmarkIsOfOneModel
      /\ ThisSeed \in SeedSet /\ To \in Labels /\ Mine \in MemberSet /\ published = <<>>
      /\ experiment.scaler = LabelRegime[To] /\ experiment.scaler \in Fits
      /\ LabelComponents[To] \in Inputs
  BY <1>1, TrainingStands
<1>3. PICK a, x, c : a = Mine /\ x = experiment.scaler /\ c = LabelComponents[To]
  OBVIOUS
<1>4. PICK m : m = [a EXCEPT !.heads = x, !.components = c]
  OBVIOUS
<1>5. /\ m \in MemberSet /\ m.dynamics = a.dynamics /\ m.heads = x /\ m.components = c
      /\ m.dropped_features = a.dropped_features
  BY <1>2, <1>3, <1>4 DEF MemberSet
<1>6. Saved(m)
  <2>1. Save(m)
    BY <1>1, <1>3, <1>4 DEF WithTrainedHeads
  <2>2. QED
    BY <1>2, <1>5, <2>1, SaveIs
<1>7. Went("record heads") /\ experiment'.todo = experiment.todo
  BY <1>1, <1>2, GoIs DEF Places
<1>8. Standing' /\ To' = To /\ Halfway'
  BY <1>1, <1>7, TrainingGoesOn
<1>9. ThisSeed' = ThisSeed
  BY <1>7 DEF ThisSeed
<1>10. Mine' = m /\ LabelComponents[To'] = c
  BY <1>2, <1>3, <1>6, <1>7, <1>8, <1>9 DEF Mine, Saved, Went
<1>11. To \notin unrecorded /\ a.dynamics # None => a.dropped_features = a.dynamics
  <2>1. ~Pending(To, ThisSeed)
    BY <1>1 DEF Pending, Halfway
  <2>2. To \notin unrecorded => InStep(a)
    BY <1>2, <1>3, <2>1 DEF Recorded, Mine
  <2>3. QED
    BY <2>2 DEF InStep
<1>12. Unfinished'
  BY <1>1, <1>5, <1>7, <1>8, <1>10, <1>11 DEF Unfinished, Went
<1>13. ~crossed => OfRegime(To, m)
  <2>1. ~crossed => OfRegime(To, a)
    BY <1>2, <1>3 DEF Recorded, Mine
  <2>2. QED
    BY <1>2, <1>3, <1>5, <2>1 DEF OfRegime
<1>14. Recorded'
  BY <1>1, <1>2, <1>6, <1>8, <1>9, <1>13, SavedRecords
<1>15. BenchmarkIsOfOneModel'
  BY <1>1, <1>2, <1>6, NoReportRuns DEF Saved
<1>16. EvaTyped'
  BY <1>6, <1>7 DEF Saved, Went, EvaTyped
<1>17. QED
  BY <1>8, <1>12, <1>14, <1>15, <1>16 DEF EvaInv

\* The metadata of the heads catch up with the weights.
LEMMA RecordHeadsInductive ==
    ASSUME EvaInv, RecordHeads
    PROVE  EvaInv'
<1>1. /\ experiment.at = "record heads" /\ experiment.todo # <<>>
      /\ Save([Mine EXCEPT !.risk_head_components = LabelComponents[To]])
      /\ After("heads") /\ unrecorded' = unrecorded /\ crossed' = crossed
      /\ published' = published /\ breakdown' = breakdown
  BY DEF RecordHeads, Doing, Aside
<1>2. /\ EvaTyped /\ Recorded /\ BenchmarkIsOfOneModel /\ Unfinished
      /\ ThisSeed \in SeedSet /\ To \in Labels /\ Mine \in MemberSet /\ published = <<>>
      /\ LabelComponents[To] \in Inputs /\ LabelComponents[To] # None
  BY <1>1, TrainingStands
<1>3. PICK a, c : a = Mine /\ c = LabelComponents[To]
  OBVIOUS
<1>4. PICK m : m = [a EXCEPT !.risk_head_components = c]
  OBVIOUS
<1>5. /\ m \in MemberSet /\ m.dynamics = a.dynamics /\ m.heads = a.heads /\ m.components = a.components
      /\ m.dropped_features = a.dropped_features /\ m.risk_head_components = c
  BY <1>2, <1>3, <1>4 DEF MemberSet
<1>6. Saved(m)
  BY <1>1, <1>2, <1>3, <1>4, <1>5, SaveIs
<1>7. Went("train")
  BY <1>1, <1>2, AfterIs
<1>8. Standing' /\ To' = To /\ ~Halfway'
  BY <1>1, <1>7, TrainingGoesOn
<1>9. a.components = c /\ (To \notin unrecorded /\ a.dynamics # None => a.dropped_features = a.dynamics)
  BY <1>1, <1>2, <1>3 DEF Unfinished
<1>10. Unfinished'
  BY <1>7 DEF Unfinished, Went
<1>11. To \notin unrecorded => InStep(m)
  BY <1>2, <1>3, <1>5, <1>9 DEF InStep
<1>12. ~crossed => OfRegime(To, m)
  <2>1. ~crossed => OfRegime(To, a)
    BY <1>2, <1>3 DEF Recorded, Mine
  <2>2. QED
    BY <1>5, <2>1 DEF OfRegime
<1>13. Recorded'
  BY <1>1, <1>2, <1>6, <1>8, <1>11, <1>12, SavedRecords
<1>14. BenchmarkIsOfOneModel'
  BY <1>1, <1>2, <1>6, NoReportRuns DEF Saved
<1>15. EvaTyped'
  BY <1>6, <1>7 DEF Saved, Went, EvaTyped
<1>16. QED
  BY <1>8, <1>10, <1>13, <1>14, <1>15 DEF EvaInv

\* An onset head is fitted behind the scaler in hand.
LEMMA TrainOnsetInductive ==
    ASSUME EvaInv, TrainOnset
    PROVE  EvaInv'
<1>1. /\ experiment.at = "train" /\ experiment.todo # <<>>
      /\ Rewrite([artifacts[To] EXCEPT !.onset = [artifacts[To].onset EXCEPT ![ThisSeed] = experiment.scaler]])
      /\ After("onset") /\ unrecorded' = unrecorded /\ crossed' = crossed
      /\ published' = published /\ breakdown' = breakdown
  BY DEF TrainOnset, Now, Doing, Aside
<1>2. /\ EvaTyped /\ Recorded /\ BenchmarkIsOfOneModel
      /\ ThisSeed \in SeedSet /\ To \in Labels /\ published = <<>> /\ experiment.scaler \in Fits
  BY <1>1, TrainingStands
<1>3. Kept
  BY <1>1, <1>2, OnsetRewritten
<1>4. Went("train")
  BY <1>1, <1>2, AfterIs
<1>5. Standing' /\ To' = To /\ ~Halfway' /\ ~Halfway
  BY <1>1, <1>4, TrainingGoesOn DEF Halfway
<1>6. Unfinished'
  BY <1>4 DEF Unfinished, Went
<1>7. Recorded'
  BY <1>1, <1>2, <1>3, <1>5, KeptRecords DEF Kept
<1>8. BenchmarkIsOfOneModel'
  BY <1>1, <1>2, <1>3, NoReportRuns DEF Kept
<1>9. EvaTyped'
  BY <1>3, <1>4 DEF Kept, Went, EvaTyped
<1>10. QED
  BY <1>5, <1>6, <1>7, <1>8, <1>9 DEF EvaInv

\* A run that begins, and one that is over.
LEMMA ExperimentInductive ==
    ASSUME EvaInv, NEW label \in Labels, NEW from \in Labels \cup {None}, NEW stages, NEW seeds \in SeedChoices,
           from # label, Experiment(label, from, stages, seeds)
    PROVE  EvaInv'
<1>1. /\ experiment.at = "idle" /\ published = <<>>
      /\ experiment' = [at |-> IF from = None THEN "prepare" ELSE "copy", label |-> label, from |-> from,
                        stages |-> stages, seeds |-> seeds, todo |-> seeds, left |-> stages,
                        scaler |-> None]
      /\ crossed' = (crossed \/ (from # None /\ LabelRegime[from] # LabelRegime[label]))
      /\ artifacts' = artifacts /\ unrecorded' = unrecorded /\ published' = published
      /\ breakdown' = breakdown
  BY DEF Experiment
<1>2. EvaTyped /\ Recorded /\ BenchmarkIsOfOneModel
  BY DEF EvaInv
<1>3. seeds \in Seq(SeedSet) /\ None \in Fits
  BY EvaluationAssumption, RegimesAre DEF EvaluationAssumption
<1>4. /\ ExperimentTyped' /\ To' = label /\ experiment'.from = from
      /\ experiment'.at = IF from = None THEN "prepare" ELSE "copy"
  BY <1>1, <1>3 DEF ExperimentTyped, Places, To
<1>5. ~Halfway /\ ~Halfway'
  BY <1>1, <1>4 DEF Halfway
<1>6. EvaTyped'
  BY <1>1, <1>2, <1>4 DEF EvaTyped
<1>7. Standing'
  BY <1>1, <1>4, <1>5 DEF Standing
<1>8. Unfinished'
  BY <1>4 DEF Unfinished
<1>9. Recorded'
  BY <1>1, <1>2, <1>5, KeptRecords
<1>10. BenchmarkIsOfOneModel'
  BY <1>1, <1>2, NoReportRuns
<1>11. QED
  BY <1>6, <1>7, <1>8, <1>9, <1>10 DEF EvaInv

\* An experiment may be over at once, unless it leaves weights without metadata unrecorded.
LEMMA OverInductive ==
    ASSUME EvaInv, experiment' = NoExperiment, experiment.at # "idle",
           artifacts' = artifacts, crossed' = crossed, published' = published, breakdown' = breakdown,
           unrecorded \subseteq unrecorded', Halfway => To \in unrecorded'
    PROVE  EvaInv'
<1>1. EvaTyped /\ Recorded /\ BenchmarkIsOfOneModel /\ published = <<>>
  BY DEF EvaInv, Standing
<1>2. ExperimentTyped' /\ experiment'.at = "idle"
  BY RegimesAre DEF ExperimentTyped, Places, NoExperiment
<1>3. EvaTyped'
  BY <1>1, <1>2 DEF EvaTyped
<1>4. Standing' /\ Unfinished'
  BY <1>2 DEF Standing, Unfinished, Halfway
<1>5. Recorded'
  BY <1>1, KeptRecords
<1>6. BenchmarkIsOfOneModel'
  BY <1>1, NoReportRuns
<1>7. QED
  BY <1>3, <1>4, <1>5, <1>6 DEF EvaInv

\* An experiment ends, or is killed wherever it stands.
LEMMA EndsInductive ==
    ASSUME EvaInv, ExperimentEnds \/ ExperimentKilled \/ CopyStops
    PROVE  EvaInv'
<1>1. CASE ExperimentEnds
  <2>1. experiment.at \in {"train", "copy"}
    BY <1>1 DEF ExperimentEnds, Doing, Now
  <2>2. QED
    BY <1>1, <2>1, OverInductive DEF ExperimentEnds, Halfway
<1>2. CASE ExperimentKilled
  BY <1>2, OverInductive DEF ExperimentKilled, Halfway
<1>3. CASE CopyStops
  <2>1. experiment.at = "copy metadata"
    BY <1>3 DEF CopyStops, Doing
  <2>2. QED
    BY <1>3, <2>1, OverInductive DEF CopyStops, Aside
<1>4. QED
  BY <1>1, <1>2, <1>3

-----------------------------------------------------------------------------
\* Of a finite set what is not in a part of it is counted by the difference.
LEMMA CountRest ==
    ASSUME NEW S, IsFiniteSet(S), NEW P, P \subseteq S, NEW R, R = S \ P
    PROVE  Cardinality(S) - Cardinality(P) = Cardinality(R)
<1>1. S \cap P = P
  OBVIOUS
<1>2. Cardinality(S \ P) = Cardinality(S) - Cardinality(S \cap P)
  BY FS_Difference
<1>3. QED
  BY <1>1, <1>2

\* What is counted of some rows of a table.
PositivesOf(rows, over) == {i \in over : rows[i].positive}
AlarmsOf(rows, over) == {i \in over : rows[i].alarm}
BenignOf(rows, over) ==
    {i \in over \ PositivesOf(rows, over) : rows[i].stratum \in {"active_negative", "pre_onset"}}

IsCount(c, rows, over) ==
    /\ c.hits = Cardinality(PositivesOf(rows, over) \cap AlarmsOf(rows, over))
    /\ c.positives = Cardinality(PositivesOf(rows, over))
    /\ c.alarms = Cardinality(AlarmsOf(rows, over)) /\ c.n = Cardinality(over)
    /\ c.active_benign = Cardinality(BenignOf(rows, over))
    /\ c.active_benign_alarms = Cardinality(BenignOf(rows, over) \cap AlarmsOf(rows, over))

\* Counting the rows of a table group by group is counting each group.
LEMMA CountsAre ==
    ASSUME NEW rows, NEW over
    PROVE  IsCount(Counts(rows, over), rows, over)
BY DEF IsCount, Counts, PositivesOf, AlarmsOf, BenignOf

NegativesOf(rows, over) == {i \in over : ~rows[i].positive}
NegativeAlarmsOf(rows, over) == {i \in over : ~rows[i].positive /\ rows[i].alarm}

\* What is counted of the negatives.
LEMMA NegativesCounted ==
    ASSUME NEW rows, NEW over, IsFiniteSet(over), NEW c, IsCount(c, rows, over)
    PROVE  /\ c.n - c.positives = Cardinality(NegativesOf(rows, over))
           /\ c.alarms - c.hits = Cardinality(NegativeAlarmsOf(rows, over))
           /\ c.active_benign <= c.n - c.positives
<1>1. PICK P, A, B : P = PositivesOf(rows, over) /\ A = AlarmsOf(rows, over) /\ B = BenignOf(rows, over)
  OBVIOUS
<1>2. PICK N, M : N = NegativesOf(rows, over) /\ M = NegativeAlarmsOf(rows, over)
  OBVIOUS
<1>3. P \subseteq over /\ A \subseteq over /\ P \cap A \subseteq A /\ N = over \ P /\ M = A \ (P \cap A)
      /\ B \subseteq N
  BY <1>1, <1>2 DEF PositivesOf, AlarmsOf, BenignOf, NegativesOf, NegativeAlarmsOf
<1>4. IsFiniteSet(A) /\ IsFiniteSet(N)
  BY <1>3, FS_Subset
<1>5. Cardinality(over) - Cardinality(P) = Cardinality(N)
  BY <1>3, CountRest
<1>6. Cardinality(A) - Cardinality(P \cap A) = Cardinality(M)
  BY <1>3, <1>4, CountRest
<1>7. Cardinality(B) <= Cardinality(N)
  BY <1>3, <1>4, FS_Subset
<1>8. QED
  BY <1>1, <1>2, <1>5, <1>6, <1>7 DEF IsCount

NumberedUnion(n, groups) == UNION {{g} \X (1..n[g]) : g \in groups}
Numbers(n, S, groups, group) == \A g \in groups : n[g] = Cardinality({i \in S : group[i] = g})

\* Numbered group by group, the members of disjoint groups are as many as all.
LEMMA GroupsCounted ==
    ASSUME NEW S, IsFiniteSet(S), NEW groups, NEW group, \A i \in S : group[i] \in groups,
           NEW n, Numbers(n, S, groups, group)
    PROVE  Cardinality(NumberedUnion(n, groups)) = Cardinality(S)
<1>1. PICK P : P = [g \in groups |-> {i \in S : group[i] = g}]
  OBVIOUS
<1>2. ASSUME NEW g \in groups PROVE \E f : f \in Bijection(P[g], 1..n[g])
  <2>1. P[g] \subseteq S /\ n[g] = Cardinality(P[g])
    BY <1>1 DEF Numbers
  <2>2. IsFiniteSet(P[g])
    BY <2>1, FS_Subset
  <2>3. n[g] \in Nat
    BY <2>1, <2>2, FS_CardinalityType
  <2>4. IsFiniteSet(1..n[g]) /\ Cardinality(1..n[g]) = n[g]
    <3>1. PICK x \in Nat : x = n[g]
      BY <2>3
    <3>2. IsFiniteSet(1..x) /\ Cardinality(1..x) = IF 1 > x THEN 0 ELSE x - 1 + 1
      BY FS_Interval
    <3>3. Cardinality(1..x) = x
      BY <3>2
    <3>4. QED
      BY <3>1, <3>2, <3>3
  <2>5. ExistsBijection(P[g], 1..n[g])
    BY <2>1, <2>2, <2>4, FS_SameCardinalityBij
  <2>6. QED
    BY <2>5 DEF ExistsBijection
<1>3. PICK F : F = [g \in groups |-> CHOOSE f : f \in Bijection(P[g], 1..n[g])]
  OBVIOUS
<1>4. \A g \in groups : F[g] \in Bijection(P[g], 1..n[g])
  BY <1>2, <1>3
<1>5. ASSUME NEW g \in groups
      PROVE  /\ F[g] \in [P[g] -> 1..n[g]]
             /\ \A a, b \in P[g] : F[g][a] = F[g][b] => a = b
             /\ \A k \in 1..n[g] : \E a \in P[g] : F[g][a] = k
  BY <1>4 DEF Bijection, Injection, Surjection, IsInjective
<1>6. PICK pairs : pairs = UNION {{g} \X (1..n[g]) : g \in groups} /\ pairs = NumberedUnion(n, groups)
  BY DEF NumberedUnion
<1>7. PICK h : h = [i \in S |-> <<group[i], F[group[i]][i]>>]
  OBVIOUS
<1>8. ASSUME NEW i \in S PROVE i \in P[group[i]] /\ group[i] \in groups /\ F[group[i]][i] \in 1..n[group[i]]
  <2>1. i \in P[group[i]] /\ group[i] \in groups
    BY <1>1
  <2>2. QED
    BY <1>5, <2>1
<1>9. \A g \in groups : \A k \in 1..n[g] : <<g, k>> \in pairs
  BY <1>6
<1>10. h \in [S -> pairs]
  BY <1>7, <1>8, <1>9
<1>11. ASSUME NEW i \in S, NEW j \in S, h[i] = h[j] PROVE i = j
  <2>1. group[i] = group[j] /\ F[group[i]][i] = F[group[j]][j]
    BY <1>7, <1>11
  <2>2. i \in P[group[i]] /\ j \in P[group[i]] /\ group[i] \in groups
    BY <1>8, <2>1
  <2>3. QED
    BY <1>5, <2>1, <2>2
<1>12. ASSUME NEW x \in pairs PROVE \E i \in S : h[i] = x
  <2>0. PICK g \in groups : x \in {g} \X (1..n[g])
    BY <1>6
  <2>1. PICK k \in 1..n[g] : x = <<g, k>>
    BY <2>0
  <2>2. PICK a \in P[g] : F[g][a] = k
    BY <1>5
  <2>3. a \in S /\ group[a] = g
    BY <1>1
  <2>4. h[a] = x
    BY <1>7, <2>1, <2>2, <2>3
  <2>5. QED
    BY <2>3, <2>4
<1>13. h \in Bijection(S, pairs)
  BY <1>10, <1>11, <1>12 DEF Bijection, Injection, Surjection, IsInjective
<1>14. QED
  BY <1>6, <1>13, FS_Bijection DEF ExistsBijection

\* What is published or tabulated is not what an experiment works on.
LEMMA FilesStay ==
    ASSUME EvaInv, artifacts' = artifacts, experiment' = experiment, unrecorded' = unrecorded,
           crossed' = crossed, published' \in {published, <<>>}
    PROVE  EvaTyped' /\ Standing' /\ Unfinished' /\ Recorded'
<1>1. To' = To /\ ThisSeed' = ThisSeed /\ (Halfway' <=> Halfway)
  BY DEF To, ThisSeed, Halfway
<1>2. Mine' = Mine /\ Theirs' = Theirs
  BY <1>1 DEF Mine, Theirs
<1>3. EvaTyped'
  BY DEF EvaInv, EvaTyped, ExperimentTyped
<1>4. Standing'
  BY <1>1 DEF EvaInv, Standing
<1>5. Unfinished'
  BY <1>1, <1>2 DEF EvaInv, Unfinished
<1>6. \A l, s : Pending(l, s)' <=> Pending(l, s)
  BY <1>1 DEF Pending
<1>7. Recorded'
  BY <1>6 DEF EvaInv, Recorded
<1>8. QED
  BY <1>3, <1>4, <1>5, <1>7

\* The table of a split and of its groups.
LEMMA TabulateInductive ==
    ASSUME EvaInv, NEW rows \in [1..TableSize -> ScoredRows], Tabulate(rows)
    PROVE  EvaInv'
<1>1. PICK N : N = 1..TableSize /\ DOMAIN rows = N
  OBVIOUS
<1>2. IsFiniteSet(N)
  BY <1>1, EvaluationAssumption, FS_Interval DEF EvaluationAssumption
<1>3. PICK named : named = {rows[i].group : i \in {j \in N : rows[j].group # None /\ rows[j].positive}}
  OBVIOUS
<1>4. PICK all : all = Counts(rows, N)
  OBVIOUS
<1>5. PICK count : count = [name \in named |-> Counts(rows, GroupRows(rows, name))]
  OBVIOUS
<1>6. PICK b : b = [rows |-> rows, all |-> all, group |-> count]
  OBVIOUS
<1>7. /\ breakdown' = <<b>> /\ published = <<>> /\ published' = published /\ artifacts' = artifacts
      /\ experiment' = experiment /\ unrecorded' = unrecorded /\ crossed' = crossed
  BY <1>1, <1>3, <1>4, <1>5, <1>6 DEF Tabulate
<1>8. IsCount(all, rows, N)
  BY <1>4, CountsAre
<1>9. ASSUME NEW g \in named
      PROVE  /\ count[g].n - count[g].positives = all.n - all.positives
             /\ count[g].alarms - count[g].hits = all.alarms - all.hits
             /\ count[g].active_benign_alarms = all.active_benign_alarms
             /\ count[g].active_benign <= count[g].n - count[g].positives
             /\ count[g].positives = Cardinality({i \in N : rows[i].positive /\ rows[i].group = g})
  <2>1. PICK c : c = count[g]
    OBVIOUS
  <2>2. PICK over : over = GroupRows(rows, g)
    OBVIOUS
  <2>3. over = {i \in N : ~rows[i].positive \/ rows[i].group = g}
    BY <1>1, <2>2 DEF GroupRows
  <2>4. IsCount(c, rows, over)
    BY <1>5, <2>1, <2>2, CountsAre
  <2>5. IsFiniteSet(over)
    BY <1>2, <2>3, FS_Subset
  <2>6. NegativesOf(rows, over) = NegativesOf(rows, N)
    BY <2>3 DEF NegativesOf
  <2>7. NegativeAlarmsOf(rows, over) = NegativeAlarmsOf(rows, N)
    BY <2>3 DEF NegativeAlarmsOf
  <2>8. BenignOf(rows, over) \cap AlarmsOf(rows, over) = BenignOf(rows, N) \cap AlarmsOf(rows, N)
    BY <2>3 DEF BenignOf, AlarmsOf, PositivesOf
  <2>9. PositivesOf(rows, over) = {i \in N : rows[i].positive /\ rows[i].group = g}
    BY <2>3 DEF PositivesOf
  <2>10. /\ c.n - c.positives = all.n - all.positives
         /\ c.alarms - c.hits = all.alarms - all.hits
         /\ c.active_benign <= c.n - c.positives
    BY <1>2, <1>8, <2>4, <2>5, <2>6, <2>7, NegativesCounted
  <2>11. c.active_benign_alarms = all.active_benign_alarms
    BY <1>8, <2>4, <2>8 DEF IsCount
  <2>12. c.positives = Cardinality({i \in N : rows[i].positive /\ rows[i].group = g})
    BY <2>4, <2>9 DEF IsCount
  <2>13. QED
    BY <2>1, <2>10, <2>11, <2>12
<1>10. PICK S : S = {i \in N : rows[i].positive /\ rows[i].group # None}
  OBVIOUS
<1>11. Cardinality(UNION {{g} \X (1..count[g].positives) : g \in named}) = Cardinality(S)
  <2>1. IsFiniteSet(S)
    BY <1>2, <1>10, FS_Subset
  <2>2. PICK group, n : /\ group = [i \in S |-> rows[i].group]
                        /\ n = [g \in named |-> count[g].positives]
    OBVIOUS
  <2>3. \A i \in S : group[i] \in named
    BY <1>3, <1>10, <2>2
  <2>4. ASSUME NEW g \in named PROVE n[g] = Cardinality({i \in S : group[i] = g})
    <3>1. g # None
      BY <1>3
    <3>2. {i \in S : group[i] = g} = {i \in N : rows[i].positive /\ rows[i].group = g}
      BY <1>10, <2>2, <3>1
    <3>3. QED
      BY <1>9, <2>2, <3>2
  <2>5. Numbers(n, S, named, group)
    BY <2>4 DEF Numbers
  <2>6. Cardinality(NumberedUnion(n, named)) = Cardinality(S)
    BY <2>1, <2>3, <2>5, GroupsCounted
  <2>7. NumberedUnion(n, named) = UNION {{g} \X (1..count[g].positives) : g \in named}
    BY <2>2 DEF NumberedUnion
  <2>8. QED
    BY <2>6, <2>7
<1>12. /\ DOMAIN breakdown' = {1} /\ breakdown'[1].all = all /\ breakdown'[1].group = count
       /\ DOMAIN breakdown'[1].group = named /\ breakdown'[1].rows = rows
  BY <1>5, <1>6, <1>7
<1>13. GroupsShareTheNegatives'
  <2>1. {i \in DOMAIN rows : rows[i].positive /\ rows[i].group # None} = S
    BY <1>1, <1>10
  <2>2. ASSUME NEW n \in DOMAIN breakdown', NEW d, d = breakdown'[n]
        PROVE  /\ d.all = all /\ d.group = count /\ DOMAIN d.group = named /\ d.rows = rows
    BY <1>12, <2>2
  <2>3. ASSUME NEW n \in DOMAIN breakdown', NEW d, d = breakdown'[n]
        PROVE  /\ \A g \in DOMAIN d.group :
                     /\ d.group[g].n - d.group[g].positives = d.all.n - d.all.positives
                     /\ d.group[g].alarms - d.group[g].hits = d.all.alarms - d.all.hits
                     /\ d.group[g].active_benign_alarms = d.all.active_benign_alarms
                     /\ d.group[g].active_benign <= d.group[g].n - d.group[g].positives
               /\ Cardinality(UNION {{g} \X (1..d.group[g].positives) : g \in DOMAIN d.group})
                     = Cardinality({i \in DOMAIN d.rows : d.rows[i].positive /\ d.rows[i].group # None})
    <3>1. d.all = all /\ d.group = count /\ DOMAIN d.group = named /\ d.rows = rows
      BY <2>2, <2>3
    <3>2. Cardinality({i \in DOMAIN d.rows : d.rows[i].positive /\ d.rows[i].group # None}) = Cardinality(S)
      BY <2>1, <3>1
    <3>3. Cardinality(UNION {{g} \X (1..d.group[g].positives) : g \in DOMAIN d.group}) = Cardinality(S)
      BY <1>11, <3>1
    <3>4. QED
      BY <1>9, <3>1, <3>2, <3>3
  <2>4. QED
    BY <2>3 DEF GroupsShareTheNegatives
<1>14. BenchmarkIsOfOneModel'
  <2>1. BenchmarkIsOfOneModel
    BY DEF EvaInv
  <2>2. FedWhatItWasFittedOn' /\ OnsetReadsItsOwnEncoder'
    BY <1>7, <2>1 DEF BenchmarkIsOfOneModel, FedWhatItWasFittedOn, OnsetReadsItsOwnEncoder
  <2>3. ChosenOnValidation'
    BY <1>7, <2>1 DEF BenchmarkIsOfOneModel, ChosenOnValidation
  <2>4. QED
    BY <1>13, <2>2, <2>3 DEF BenchmarkIsOfOneModel
<1>15. EvaTyped' /\ Standing' /\ Unfinished' /\ Recorded'
  BY <1>7, FilesStay
<1>16. QED
  BY <1>14, <1>15 DEF EvaInv

\* A report that is read leaves no claim.
LEMMA ReadInductive ==
    ASSUME EvaInv, ReadReport
    PROVE  EvaInv'
<1>1. /\ published # <<>> /\ published' = <<>> /\ artifacts' = artifacts /\ breakdown' = breakdown
      /\ experiment' = experiment /\ unrecorded' = unrecorded /\ crossed' = crossed
  BY DEF ReadReport
<1>2. EvaTyped' /\ Standing' /\ Unfinished' /\ Recorded'
  BY <1>1, FilesStay
<1>3. DOMAIN published' = {}
  BY <1>1
<1>4. BenchmarkIsOfOneModel'
  <2>1. BenchmarkIsOfOneModel
    BY DEF EvaInv
  <2>2. FedWhatItWasFittedOn' /\ OnsetReadsItsOwnEncoder'
    BY <1>3 DEF FedWhatItWasFittedOn, OnsetReadsItsOwnEncoder
  <2>3. ChosenOnValidation'
    BY <1>1, <1>3, <2>1 DEF BenchmarkIsOfOneModel, ChosenOnValidation
  <2>4. GroupsShareTheNegatives'
    BY <1>1, <2>1 DEF BenchmarkIsOfOneModel, GroupsShareTheNegatives
  <2>5. QED
    BY <2>2, <2>3, <2>4 DEF BenchmarkIsOfOneModel
<1>5. QED
  BY <1>2, <1>4 DEF EvaInv

\* The point a benchmark reads or selects.
PointSound(p) == p.selected_on = None => p = DefaultPoint

\* The operating point of a directory was selected on the validation split.
LEMMA PointsAre ==
    ASSUME EvaTyped, NEW l \in Labels
    PROVE  /\ \/ artifacts[l].point = <<>>
              \/ \E p \in Poolings : artifacts[l].point = <<SelectedOn("val", p)>>
           /\ PointSound(LoadedPoint(l))
<1>1. artifacts[l] \in Directories
  BY DEF EvaTyped
<1>2. \/ artifacts[l].point = <<>>
      \/ \E p \in Poolings : artifacts[l].point = <<SelectedOn("val", p)>>
  BY <1>1 DEF Directories
<1>3. CASE artifacts[l].point = <<>>
  BY <1>3 DEF LoadedPoint, PointSound
<1>4. CASE artifacts[l].point # <<>>
  <2>1. PICK p \in Poolings : artifacts[l].point = <<SelectedOn("val", p)>>
    BY <1>2, <1>4
  <2>2. LoadedPoint(l) = SelectedOn("val", p)
    BY <1>4, <2>1 DEF LoadedPoint
  <2>3. LoadedPoint(l).selected_on = "val"
    BY <2>2 DEF SelectedOn
  <2>4. QED
    BY <1>2, <2>3 DEF PointSound, None
<1>5. QED
  BY <1>2, <1>3, <1>4

\* Writing the point down changes nothing else.
LEMMA PointRewritten ==
    ASSUME EvaTyped, NEW l \in Labels, NEW p \in Poolings,
           artifacts' = [artifacts EXCEPT ![l] = [artifacts[l] EXCEPT !.point = <<SelectedOn("val", p)>>]]
    PROVE  artifacts' \in [Labels -> Directories] /\ \A k \in Labels : artifacts'[k].member = artifacts[k].member
<1>1. PICK d, q : d = artifacts[l] /\ q = <<SelectedOn("val", p)>>
  OBVIOUS
<1>2. d \in [scaler : Fits, member : [SeedSet -> MemberSet], onset : [SeedSet -> Fits],
             point : {<<>>} \cup {<<SelectedOn("val", x)>> : x \in Poolings}]
  BY <1>1 DEF EvaTyped, Directories
<1>3. q \in {<<>>} \cup {<<SelectedOn("val", x)>> : x \in Poolings}
  BY <1>1
<1>4. PICK e : e = [d EXCEPT !.point = q]
  OBVIOUS
<1>5. e \in Directories /\ e.member = d.member
  BY <1>2, <1>3, <1>4 DEF Directories
<1>6. artifacts' = [artifacts EXCEPT ![l] = e] /\ artifacts \in [Labels -> Directories]
  BY <1>1, <1>4 DEF EvaTyped
<1>7. QED
  BY <1>1, <1>5, <1>6

\* What one member of a benchmark was fitted on, once it has been let through.
LEMMA LetThrough ==
    ASSUME NEW l, NEW m, InStep(m), ~crossed => OfRegime(l, m), NEW scaler, NEW components,
           m.dynamics # None, assert_scaler_matches_checkpoint(m, scaler),
           assert_head_matches_checkpoint(m, components)
    PROVE  /\ m.dynamics = scaler
           /\ ~crossed => m.heads \in {"fresh", scaler}
           /\ m.heads # "fresh" => m.components = components
<1>1. m.dynamics = scaler
  BY DEF InStep, assert_scaler_matches_checkpoint
<1>2. ~crossed => m.heads \in {"fresh", scaler}
  BY <1>1 DEF OfRegime
<1>3. m.heads # "fresh" => m.components = components
  BY DEF InStep, assert_head_matches_checkpoint
<1>4. QED
  BY <1>1, <1>2, <1>3

\* A benchmark publishes what it loaded, or refuses.
LEMMA BenchmarkInductive ==
    ASSUME EvaInv, NEW weights \in Labels, NEW scalerOf \in Labels, NEW components, NEW seeds \in SeedChoices,
           NEW split, NEW select \in Poolings \cup {None}, NEW forced,
           Benchmark_(weights, scalerOf, components, seeds, split, select, forced)
    PROVE  EvaInv'
<1>1. PICK scaler : scaler = artifacts[scalerOf].scaler
  OBVIOUS
<1>2. PICK point : point = IF select # None THEN SelectedOn(split, select) ELSE LoadedPoint(weights)
  OBVIOUS
<1>3. PICK pooling : pooling = IF forced = None THEN point.pooling ELSE forced
  OBVIOUS
<1>4. PICK members : members = [i \in DOMAIN seeds |-> artifacts[weights].member[seeds[i]]]
  OBVIOUS
<1>5. PICK contexts : contexts = [s \in HasOnsetHead(weights, seeds) |-> _onset_context(weights, seeds, s)]
  OBVIOUS
<1>6. PICK r : r = [weights |-> weights, scaler |-> scaler, components |-> components, members |-> members,
                    point |-> point, pooling |-> pooling, pooling_forced |-> forced # None,
                    contexts |-> contexts]
  OBVIOUS
<1>7. /\ experiment.at = "idle" /\ published = <<>> /\ breakdown = <<>>
      /\ load_models(weights, scaler, components, seeds)
      /\ select # None => split = "val"
      /\ experiment' = experiment /\ unrecorded' = unrecorded /\ crossed' = crossed /\ breakdown' = breakdown
  BY <1>1 DEF Benchmark_
<1>8. artifacts' = IF select = None THEN artifacts
                   ELSE [artifacts EXCEPT ![weights] = [artifacts[weights] EXCEPT !.point = <<point>>]]
  BY <1>2 DEF Benchmark_
<1>9. published' = <<r>>
  BY <1>1, <1>2, <1>3, <1>4, <1>5, <1>6 DEF Benchmark_
<1>10. EvaTyped /\ Standing /\ Recorded /\ BenchmarkIsOfOneModel /\ Unfinished
  BY DEF EvaInv
<1>11. /\ artifacts' \in [Labels -> Directories]
       /\ \A k \in Labels : artifacts'[k].member = artifacts[k].member
  <2>1. CASE select = None
    BY <1>8, <1>10, <2>1 DEF EvaTyped
  <2>2. CASE select # None
    <3>1. select \in Poolings /\ point = SelectedOn("val", select)
      BY <1>2, <1>7, <2>2
    <3>2. artifacts' = [artifacts EXCEPT ![weights] =
                          [artifacts[weights] EXCEPT !.point = <<SelectedOn("val", select)>>]]
      BY <1>8, <2>2, <3>1
    <3>3. QED
      BY <1>10, <3>1, <3>2, PointRewritten
  <2>3. QED
    BY <2>1, <2>2
<1>12. EvaTyped'
  BY <1>7, <1>10, <1>11 DEF EvaTyped, ExperimentTyped
<1>13. Standing' /\ Unfinished'
  BY <1>7, <1>10 DEF Standing, Unfinished, Halfway, To
<1>14. ~Halfway
  BY <1>7 DEF Halfway
<1>15. Recorded'
  BY <1>7, <1>10, <1>11, <1>14, KeptRecords
<1>16. DOMAIN published' = {1} /\ published'[1] = r
  BY <1>9
<1>17. /\ r.weights = weights /\ r.scaler = scaler /\ r.components = components /\ r.members = members
       /\ r.point = point /\ r.pooling = pooling /\ (r.pooling_forced <=> forced # None)
       /\ r.contexts = contexts
  BY <1>6
<1>18. \A i \in DOMAIN seeds : seeds[i] \in SeedSet
  <2>1. seeds \in Seq(SeedSet)
    BY EvaluationAssumption DEF EvaluationAssumption
  <2>2. QED
    BY <2>1
<1>19. DOMAIN members = DOMAIN seeds
  BY <1>4
<1>20. ASSUME NEW i \in DOMAIN members, weights \notin unrecorded
       PROVE  /\ members[i].dynamics = scaler
              /\ ~crossed => members[i].heads \in {"fresh", scaler}
              /\ members[i].heads # "fresh" => members[i].components = components
  <2>1. PICK s \in SeedSet : s = seeds[i]
    BY <1>18, <1>19
  <2>2. PICK m : m = members[i]
    OBVIOUS
  <2>3. m = artifacts[weights].member[s]
    BY <1>4, <1>19, <2>1, <2>2
  <2>4. /\ m.dynamics # None /\ assert_scaler_matches_checkpoint(m, scaler)
        /\ assert_head_matches_checkpoint(m, components)
    BY <1>7, <1>19, <2>1, <2>3 DEF load_models
  <2>5. /\ m.dynamics = scaler
        /\ ~crossed => m.heads \in {"fresh", scaler}
        /\ m.heads # "fresh" => m.components = components
    <3>1. experiment.at = "idle"
      BY <1>7
    <3>2. ~Pending(weights, s)
      BY <3>1 DEF Pending, Halfway
    <3>3. InStep(m) /\ (~crossed => OfRegime(weights, m))
      BY <1>10, <1>20, <2>3, <3>2 DEF Recorded
    <3>4. QED
      BY <2>4, <3>3, LetThrough
  <2>6. QED
    BY <2>2, <2>5
<1>21. FedWhatItWasFittedOn'
  BY <1>7, <1>16, <1>17, <1>20 DEF FedWhatItWasFittedOn
<1>22. ASSUME NEW s \in DOMAIN contexts PROVE contexts[s] = s
  <2>1. s \in HasOnsetHead(weights, seeds)
    BY <1>5
  <2>2. \E i \in DOMAIN seeds : seeds[i] = s
    BY <2>1 DEF HasOnsetHead, ToSet
  <2>3. _onset_context(weights, seeds, s) = s
    BY <2>2 DEF _onset_context
  <2>4. QED
    BY <1>5, <2>1, <2>3
<1>23. OnsetReadsItsOwnEncoder'
  BY <1>16, <1>17, <1>22 DEF OnsetReadsItsOwnEncoder
<1>24. PointSound(point)
  <2>1. CASE select = None
    BY <1>2, <1>10, <2>1, PointsAre
  <2>2. CASE select # None
    <3>1. point.selected_on = "val"
      BY <1>2, <1>7, <2>2 DEF SelectedOn
    <3>2. QED
      BY <3>1 DEF PointSound, None
  <2>3. QED
    BY <2>1, <2>2
<1>25. \A l \in Labels : \A i \in DOMAIN artifacts'[l].point : artifacts'[l].point[i].selected_on = "val"
  <2>1. TAKE l \in Labels
  <2>2. artifacts'[l] \in Directories
    BY <1>11
  <2>3. \/ artifacts'[l].point = <<>>
        \/ \E p \in Poolings : artifacts'[l].point = <<SelectedOn("val", p)>>
    BY <2>2 DEF Directories
  <2>4. CASE artifacts'[l].point = <<>>
    BY <2>4
  <2>5. ASSUME NEW p \in Poolings, artifacts'[l].point = <<SelectedOn("val", p)>>
        PROVE  \A i \in DOMAIN artifacts'[l].point : artifacts'[l].point[i].selected_on = "val"
    <3>1. PICK q : q = SelectedOn("val", p)
      OBVIOUS
    <3>2. q.selected_on = "val"
      BY <3>1 DEF SelectedOn
    <3>3. artifacts'[l].point = <<q>>
      BY <2>5, <3>1
    <3>4. QED
      BY <3>2, <3>3
  <2>6. QED
    BY <2>3, <2>4, <2>5
<1>26. ChosenOnValidation'
  BY <1>3, <1>16, <1>17, <1>24, <1>25 DEF ChosenOnValidation, PointSound
<1>27. GroupsShareTheNegatives'
  BY <1>7, <1>10 DEF BenchmarkIsOfOneModel, GroupsShareTheNegatives
<1>28. QED
  BY <1>12, <1>13, <1>15, <1>21, <1>23, <1>26, <1>27 DEF EvaInv, BenchmarkIsOfOneModel

\* At first no label has artifacts.
LEMMA EvaluationInitInductive == EvaluationInit => EvaInv
<1>1. SUFFICES ASSUME EvaluationInit PROVE EvaInv
  OBVIOUS
<1>2. /\ artifacts = [l \in Labels |-> [scaler |-> None, member |-> [s \in SeedSet |-> NoMember],
                                        onset |-> [s \in SeedSet |-> None], point |-> <<>>]]
      /\ experiment = NoExperiment /\ published = <<>> /\ breakdown = <<>>
  BY <1>1 DEF EvaluationInit
<1>3. NoMember \in MemberSet
  BY RegimesAre DEF NoMember, MemberSet
<1>4. artifacts \in [Labels -> Directories]
  BY <1>2, <1>3, RegimesAre DEF Directories
<1>5. ExperimentTyped /\ experiment.at = "idle"
  BY <1>2, RegimesAre DEF ExperimentTyped, NoExperiment, Places
<1>6. Standing /\ Unfinished
  BY <1>2, <1>5 DEF Standing, Unfinished, Halfway
<1>7. \A l \in Labels, s \in SeedSet : artifacts[l].member[s] = NoMember
  BY <1>2
<1>8. Recorded
  BY <1>7 DEF Recorded, InStep, OfRegime, NoMember
<1>9. \A l \in Labels : artifacts[l].point = <<>>
  BY <1>2
<1>10. BenchmarkIsOfOneModel
  BY <1>2, <1>9 DEF BenchmarkIsOfOneModel, FedWhatItWasFittedOn, OnsetReadsItsOwnEncoder,
                    ChosenOnValidation, GroupsShareTheNegatives
<1>11. QED
  BY <1>4, <1>5, <1>6, <1>8, <1>10 DEF EvaInv, EvaTyped

\* Whatever is trained, copied, killed or published, it stays.
LEMMA EvaluationNextInductive == EvaInv /\ [EvaluationNext]_evaluationVars => EvaInv'
<1>1. SUFFICES ASSUME EvaInv, [EvaluationNext]_evaluationVars PROVE EvaInv'
  OBVIOUS
<1>2. CASE UNCHANGED evaluationVars
  <2>1. /\ published' = published /\ artifacts' = artifacts /\ breakdown' = breakdown
        /\ experiment' = experiment /\ unrecorded' = unrecorded /\ crossed' = crossed
    BY <1>2 DEF evaluationVars
  <2>2. EvaTyped' /\ Standing' /\ Unfinished' /\ Recorded'
    BY <1>1, <2>1, FilesStay
  <2>3. BenchmarkIsOfOneModel
    BY <1>1 DEF EvaInv
  <2>4. FedWhatItWasFittedOn' /\ OnsetReadsItsOwnEncoder'
    BY <2>1, <2>3 DEF BenchmarkIsOfOneModel, FedWhatItWasFittedOn, OnsetReadsItsOwnEncoder
  <2>5. ChosenOnValidation'
    BY <2>1, <2>3 DEF BenchmarkIsOfOneModel, ChosenOnValidation
  <2>6. GroupsShareTheNegatives'
    BY <2>1, <2>3 DEF BenchmarkIsOfOneModel, GroupsShareTheNegatives
  <2>7. QED
    BY <2>2, <2>4, <2>5, <2>6 DEF EvaInv, BenchmarkIsOfOneModel
<1>3. CASE \E label \in Labels, from \in Labels \cup {None}, stages \in Stages, seeds \in SeedChoices :
             from # label /\ Experiment(label, from, stages, seeds)
  BY <1>1, <1>3, ExperimentInductive
<1>4. CASE CopyWeights \/ CopyMetadata \/ CopyScaler \/ PrepareData
  BY <1>1, <1>4, CopyWeightsInductive, CopyMetadataInductive, CopyScalerInductive, PrepareInductive
<1>5. CASE TrainDynamics \/ RecordDynamics \/ TrainHeads \/ RecordHeads \/ TrainOnset
  BY <1>1, <1>5, TrainDynamicsInductive, RecordDynamicsInductive, TrainHeadsInductive, RecordHeadsInductive,
     TrainOnsetInductive
<1>6. CASE ExperimentEnds \/ ExperimentKilled \/ CopyStops
  BY <1>1, <1>6, EndsInductive
<1>7. CASE \E weights, scalerOf \in Labels, components \in DOMAIN HeadWidth, seeds \in SeedChoices,
              split \in Splits, select \in Poolings \cup {None}, forced \in {None, DefaultPooling} :
              Benchmark_(weights, scalerOf, components, seeds, split, select, forced)
  BY <1>1, <1>7, BenchmarkInductive
<1>8. CASE ReadReport
  BY <1>1, <1>8, ReadInductive
<1>9. CASE \E rows \in [1..TableSize -> ScoredRows] : Tabulate(rows)
  BY <1>1, <1>9, TabulateInductive
<1>10. QED
  BY <1>1, <1>2, <1>3, <1>4, <1>5, <1>6, <1>7, <1>8, <1>9 DEF EvaluationNext

\* Whatever experiments are run, copied or killed before it, a benchmark that is
\* published is of one model behind its own scaler, at an operating point selected on the
\* validation split, and its tables share their negatives (run_experiment.py, benchmark.py).
THEOREM EvaluationInvariant == EvaluationSpec => []BenchmarkIsOfOneModel
<1>1. EvaluationInit => EvaInv
  BY EvaluationInitInductive
<1>2. EvaInv /\ [EvaluationNext]_evaluationVars => EvaInv'
  BY EvaluationNextInductive
<1>3. EvaInv => BenchmarkIsOfOneModel
  BY DEF EvaInv
<1>4. QED
  BY <1>1, <1>2, <1>3, PTL DEF EvaluationSpec

-----------------------------------------------------------------------------
\* What an evaluation publishes is of what it names, for every value of the
\* constants: the three components share no state, each keeps its own promise.
THEOREM EvaluationIsSoundHolds == EvaluationPlaneSpec => []EvaluationIsSound
<1>1. ReportsSpec => []ReportsMeanWhatTheySay
  BY ReportsInvariant
<1>2. LeadSpec => []LeadsAreEarned
  BY LeadInvariant
<1>3. EvaluationSpec => []BenchmarkIsOfOneModel
  BY EvaluationInvariant
<1>4. QED
  BY <1>1, <1>2, <1>3, PTL DEF EvaluationPlaneSpec, EvaluationIsSound
==============================================================================
