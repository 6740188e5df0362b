---------------------------- MODULE EvalReports ----------------------------
(***************************************************************************)
(* Calibration and the evaluation harness: scripts/fit_calibration.py,     *)
(* eval/run_eval.py and what they call in eval/calibrate.py, baselines.py, *)
(* ablations.py, calibration.py and lead_time_runner.py of ml/nidra.       *)
(* With Evaluation and LeadTimes, which share no state with it, it is what *)
(* an evaluation publishes.                                                *)
(*                                                                         *)
(* Each is a process started by hand; the splits are evaluated one after   *)
(* the other while weights, configuration and calibration change; weights  *)
(* are told apart by their seed, so a fit outlives a retraining here.  A   *)
(* score is kept as what it was computed from, never as its number (the    *)
(* numbers are Rollout's); LeadTimes has what a lead-time report holds.    *)
(***************************************************************************)
EXTENDS Evaluation, LeadTimes

CONSTANTS
    EvalSplits,        \* the splits run_eval is started for
    SplitRows,         \* of each split and of "val": its windows
    BeforeFirstAttack, \* the windows of an attacked host before its first onset
    Future,            \* of a window: future_is_attack, one BOOLEAN per horizon
    ConfigChoices,     \* [rollout, K] that the configuration may have
    MemberSeeds,       \* ensemble.seeds, a sequence
    Asked,             \* pairs of --seed and the seeds that --use-ensemble loads
    SampleCounts,      \* --n-samples
    FixedSamples,      \* trajectories where the command line does not say
    EvalCaps,          \* max_eval_samples, NoCap for none
    Slopes,            \* that a logistic regression may come out with
    EarlierMetadata,   \* the metadata of a calibration some earlier version left
    MaxSpent           \* bound: evaluations, fits, trainings and edits

NoCap == 0
AllSeeds == ToSet(MemberSeeds)

ASSUME EvalReportsAssumption ==
    /\ EvalSplits \cup {"val"} \subseteq DOMAIN SplitRows
    /\ \A s \in DOMAIN SplitRows : SplitRows[s] \subseteq DOMAIN Future
    /\ EvalCaps \subseteq Nat /\ Slopes \subseteq Int
    /\ {FixedSamples, MaxSpent} \subseteq Nat
    /\ "risk_pooling_method" \notin DOMAIN EarlierMetadata

VARIABLES
    settings,        \* the configuration file: [rollout, K]
    trained,         \* the seeds that have weights
    calibration,     \* weights_dir/risk_calibration.json
    fitting,         \* the fit_calibration that runs
    evaluating,      \* the run_eval that runs
    reports,         \* metrics_dir/<split>/<file>
    spent            \* [evaluations, changes]: how many of them there were

reportVars == <<settings, trained, calibration, fitting, evaluating, reports, spent>>

Missing == [at |-> "none"]
ReportFiles == <<"baselines", "ablations", "calibration", "lead_time">>
ReportPaths == EvalSplits \X ToSet(ReportFiles)

-----------------------------------------------------------------------------
(* Pooling settings, as three places read them.                            *)
Get(section, key, default) == IF key \in DOMAIN section THEN section[key] ELSE default

resolve_pooling(cfg) ==
    [method |-> Get(cfg.rollout, "risk_pooling_method", "mean"),
     quantile |-> Get(cfg.rollout, "risk_pooling_quantile", 90),
     head_reduction |-> Get(cfg.rollout, "risk_pooling_head_reduction", "before_pooling")]

Signature(section) ==
    [risk_pooling_method |-> Get(section, "risk_pooling_method", "mean"),
     risk_pooling_quantile |-> Get(section, "risk_pooling_quantile", 90),
     risk_pooling_head_reduction |-> Get(section, "risk_pooling_head_reduction", "before_pooling")]
pooling_signature(cfg) == Signature(cfg.rollout)

\* A calibration that does not say is taken to fit (a mutation).
TrustsSilence(metadata, cfg) ==
    LET current == pooling_signature(cfg)
    IN  \E key \in DOMAIN metadata \cap DOMAIN current : metadata[key] # current[key]

calibration_pooling_mismatch(metadata, cfg) ==
    LET current == pooling_signature(cfg)
        fitted == Signature(metadata)
    IN  \/ fitted.risk_pooling_method # current.risk_pooling_method
        \/ /\ current.risk_pooling_method # "mean"
           /\ \/ fitted.risk_pooling_quantile # current.risk_pooling_quantile
              \/ fitted.risk_pooling_head_reduction # current.risk_pooling_head_reduction

\* What tells one pooled statistic from another: a mean is a mean.
Statistic(p) ==
    IF p.method = "mean" THEN [method |-> "mean", quantile |-> 0, head_reduction |-> "either"] ELSE p

-----------------------------------------------------------------------------
(* Scores.                                                                 *)
Mean == [method |-> "mean", quantile |-> 90, head_reduction |-> "before_pooling"]
Raw == <<>>

ScoreOf(members, pooling, samples, rows) ==
    [members |-> members, pooling |-> Statistic(pooling), samples |-> samples, on |-> rows, params |-> Raw]

\* One model has no heads to reduce.
OneHead(pooling) ==
    [method |-> pooling.method, quantile |-> pooling.quantile, head_reduction |-> "before_pooling"]
world_model_forecast(member, pooling, samples, rows) ==
    ScoreOf(<<member>>, OneHead(pooling), samples, rows)
ensemble_forecast(members, pooling, samples, rows) == ScoreOf(members, pooling, samples, rows)

\* The frozen heads read a state and roll nothing out.
HeadsOnly(members, rows) == ScoreOf(members, Mean, 0, rows)

apply_platt_by_horizon(score, params) ==
    [members |-> score.members, pooling |-> score.pooling, samples |-> score.samples, on |-> score.on,
     params |-> params]
Applicable(params, K) == params = Raw \/ Len(params) = K

\* At most cap windows, the attacked before the others.
AttackedRows(rows) == {r \in rows : \E k \in DOMAIN Future[r] : Future[r][k]}
subsample_stratified_by_risk(rows, cap) ==
    IF cap = NoCap \/ Cardinality(rows) <= cap THEN {rows}
    ELSE LET positives == AttackedRows(rows)
             n == Cardinality(positives)
         IN  IF n >= cap THEN kSubset(cap, positives)
             ELSE {positives \cup some : some \in kSubset(cap - n, rows \ positives)}

-----------------------------------------------------------------------------
(* fit_calibration.                                                        *)
Classes(rows, k) == {Future[r][k] : r \in rows}

\* fit_platt: identity where a fit is undefined or would turn the ranking over.
fit_platt(score, k, slope) ==
    IF Classes(score.on, k) # BOOLEAN \/ slope <= 0
    THEN [a |-> 1, degenerate |-> TRUE, of |-> Missing]
    ELSE [a |-> slope, degenerate |-> FALSE, of |-> score]

Spare == spent.evaluations + spent.changes < MaxSpent
Spend(what) == spent' = [spent EXCEPT ![what] = @ + 1]
HasWeights(seed) == seed \in trained

BeginFit ==
    /\ fitting = Missing /\ Spare
    /\ LET seeds == SelectSeq(MemberSeeds, HasWeights)
       IN  /\ seeds # <<>>
           /\ fitting' = [at |-> "rolling out", cfg |-> settings, members |-> seeds]
    /\ Spend("changes")
    /\ UNCHANGED <<settings, trained, calibration, evaluating, reports>>

\* The rest of fit_and_save: the statistic that is served, fitted on val.
SaveFit ==
    /\ fitting # Missing
    /\ LET cfg == fitting.cfg
           p == pooling_signature(cfg)
           pooled == [method |-> p.risk_pooling_method, quantile |-> p.risk_pooling_quantile,
                      head_reduction |-> p.risk_pooling_head_reduction]
       IN  \E cap \in EvalCaps : \E rows \in subsample_stratified_by_risk(SplitRows["val"], cap) :
           \E slopes \in [1..cfg.K -> Slopes] :
             LET score == ensemble_forecast(fitting.members, pooled, FixedSamples, rows)
             IN  calibration' = [at |-> "file",
                    params |-> [k \in 1..cfg.K |-> fit_platt(score, k, slopes[k])],
                    metadata |-> [risk_pooling_method |-> p.risk_pooling_method,
                                  risk_pooling_quantile |-> p.risk_pooling_quantile,
                                  risk_pooling_head_reduction |-> p.risk_pooling_head_reduction,
                                  seeds |-> MemberSeeds, n_ensemble_members |-> Len(fitting.members)]]
    /\ fitting' = Missing
    /\ UNCHANGED <<settings, trained, evaluating, reports, spent>>

-----------------------------------------------------------------------------
(* run_eval.                                                               *)
build_run_params(cfg, seed, split, samples, cap, seeds, rows) ==
    [split |-> split, seed |-> seed, n_samples |-> samples,
     n_trajectories |-> samples * (IF seeds = <<>> THEN 1 ELSE Len(seeds)),
     max_eval_samples |-> cap, n_eval_rows |-> Cardinality(rows),
     ensemble_seeds |-> seeds, risk_pooling |-> resolve_pooling(cfg)]

\* main and run up to the arrays: everything that is loaded is loaded here.
BeginEvaluation(split, seed, seeds, samples, cap) ==
    /\ evaluating = Missing /\ Spare
    /\ \A s \in ToSet(seeds) \cup {seed} : HasWeights(s)
    /\ SplitRows[split] # {}
    /\ \E rows \in subsample_stratified_by_risk(SplitRows[split], cap) :
         LET usable == calibration # Missing /\ ~calibration_pooling_mismatch(calibration.metadata, settings)
         IN  evaluating' =
               [at |-> "baselines", id |-> spent.evaluations, cfg |-> settings,
                model |-> seed, ensemble |-> seeds,
                params |-> IF usable THEN calibration.params ELSE Raw, rows |-> rows,
                stamp |-> build_run_params(settings, seed, split, samples, cap, seeds, rows)]
    /\ Spend("evaluations")
    /\ UNCHANGED <<settings, trained, calibration, fitting, reports>>

\* One key for each score, the calibrated beside the raw.
Named(name, score) == [name |-> name, score |-> score]
With(run, name, calibrated, score) ==
    {Named(name, score)}
    \cup IF run.params = Raw THEN {}
         ELSE {Named(calibrated, apply_platt_by_horizon(score, run.params))}
Pooled(run, rows) == ensemble_forecast(run.ensemble, run.stamp.risk_pooling, run.stamp.n_samples, rows)
World(run, samples, rows) == world_model_forecast(run.model, run.stamp.risk_pooling, samples, rows)

Baselines(run) ==
    LET alone == {Named(name, HeadsOnly(<<run.model>>, run.rows)) : name \in {"persistence", "oracle"}}
                 \cup With(run, "world_model", "world_model_calibrated",
                          World(run, run.stamp.n_samples, run.rows))
        together == {Named(name, HeadsOnly(run.ensemble, run.rows)) :
                        name \in {"ensemble_persistence", "ensemble_oracle"}}
                    \cup With(run, "ensemble_world_model", "ensemble_world_model_calibrated",
                             Pooled(run, run.rows))
    IN  IF run.ensemble = <<>> THEN alone ELSE alone \cup together

\* The first two ablations take their own number of trajectories, whatever the
\* stamp says.  Copying the last window forward is the persistence baseline.
persistence_ablation(run) ==
    {Named("persistence", HeadsOnly(<<run.model>>, run.rows)),
     Named("world", World(run, FixedSamples, run.rows))}

\* In the second the windows of every context are permuted; the labels stay.
time_shuffle_ablation(run) ==
    {Named(order, World(run, FixedSamples, run.rows)) : order \in {"normal_order", "shuffled_order"}}

horizon_curve(run) == {Named("horizon_curve", World(run, run.stamp.n_samples, run.rows))}

\* One step without noise.  A context whose horizon holds an attack is
\* "pre-attack", also where the context is attacked itself.
surprise_signal(run) ==
    LET once(rows) == world_model_forecast(run.model, Mean, 1, rows)
        ahead == AttackedRows(run.rows)
    IN  {Named("pre_attack", once(ahead)), Named("benign", once(run.rows \ ahead))}

Ablations(run) == persistence_ablation(run) \cup time_shuffle_ablation(run)
                  \cup horizon_curve(run) \cup surprise_signal(run)

\* It is given no pooling and takes the mean.
calibration_by_horizon(run) ==
    {Named("by_horizon", world_model_forecast(run.model, Mean, run.stamp.n_samples, run.rows))}

Reliability(run) ==
    LET score == World(run, run.stamp.n_samples, run.rows)
    IN  calibration_by_horizon(run)
        \cup IF run.params = Raw THEN {}
             ELSE {Named("recalibrated", apply_platt_by_horizon(score, run.params))}

\* Over every window of the split that precedes its host's attack, whatever
\* the cap.
Early(split) == SplitRows[split] \cap BeforeFirstAttack
LeadTimeRows(run) ==
    LET early == Early(run.stamp.split)
        alone == With(run, "raw", "calibrated", World(run, run.stamp.n_samples, early))
    IN  IF run.ensemble = <<>> THEN alone
        ELSE alone \cup With(run, "ensemble", "ensemble_calibrated", Pooled(run, early))

ReportRows(run, file) ==
    CASE file = "baselines" -> Baselines(run)
      [] file = "ablations" -> Ablations(run)
      [] file = "calibration" -> Reliability(run)
      [] file = "lead_time" -> LeadTimeRows(run)

Following(file) == LET i == CHOOSE j \in DOMAIN ReportFiles : ReportFiles[j] = file
                   IN  IF i = Len(ReportFiles) THEN "none" ELSE ReportFiles[i + 1]

\* Parameters of another horizon stop the run before it has written anything.
WriteReport ==
    LET run == evaluating IN
    /\ run # Missing
    /\ Applicable(run.params, run.cfg.K)
    /\ reports' = [reports EXCEPT ![<<run.stamp.split, run.at>>] =
                     [at |-> "file", id |-> run.id, stamp |-> run.stamp, rows |-> ReportRows(run, run.at)]]
    /\ evaluating' = IF Following(run.at) = "none" THEN Missing ELSE [run EXCEPT !.at = Following(@)]
    /\ UNCHANGED <<settings, trained, calibration, fitting, spent>>

\* It is killed (a large split is, when memory is short) or raises.
StopEvaluation ==
    /\ evaluating # Missing
    /\ evaluating' = Missing
    /\ UNCHANGED <<settings, trained, calibration, fitting, reports, spent>>

-----------------------------------------------------------------------------
(* What happens meanwhile.                                                 *)
Train(seed) ==
    /\ Spare /\ ~HasWeights(seed)
    /\ trained' = trained \cup {seed}
    /\ Spend("changes")
    /\ UNCHANGED <<settings, calibration, fitting, evaluating, reports>>

EditConfig(choice) ==
    /\ Spare
    /\ settings' = choice /\ settings' # settings
    /\ Spend("changes")
    /\ UNCHANGED <<trained, calibration, fitting, evaluating, reports>>

\* The earlier version knew one pooling, the mean, and recorded none.
ReportsInit ==
    /\ settings \in ConfigChoices
    /\ trained \in {AllSeeds, AllSeeds \ {Last(MemberSeeds)}}
    /\ calibration \in {Missing,
          [at |-> "file", metadata |-> EarlierMetadata,
           params |-> [k \in 1..settings.K |-> fit_platt(
               ensemble_forecast(SelectSeq(MemberSeeds, HasWeights), Mean,
                                             FixedSamples, SplitRows["val"]), k, 1)]]}
    /\ fitting = Missing /\ evaluating = Missing
    /\ reports = [w \in ReportPaths |-> Missing]
    /\ spent = [evaluations |-> 0, changes |-> 0]

ReportsNext ==
    \/ BeginFit \/ SaveFit
    \/ \E split \in EvalSplits, asked \in Asked, samples \in SampleCounts, cap \in EvalCaps :
         BeginEvaluation(split, asked[1], asked[2], samples, cap)
    \/ WriteReport \/ StopEvaluation
    \/ \E seed \in AllSeeds : Train(seed)
    \/ \E choice \in ConfigChoices : EditConfig(choice)

ReportsSpec == ReportsInit /\ [][ReportsNext]_reportVars

-----------------------------------------------------------------------------
(* Properties.                                                             *)
Written == {w \in ReportPaths : reports[w] # Missing}
Report(w) == reports[w]
ScoresIn(w) == {row.score : row \in Report(w).rows}
PartOf(w, name) == {row \in Report(w).rows : row.name = name}
Compared(w) == {row.score : row \in Report(w).rows \ (PartOf(w, "pre_attack") \cup PartOf(w, "benign"))}

\* A file lies under the split it was computed for and its provenance block
\* names the pooling of its scores; what pools the mean by itself is excepted.
StampedAsPooled ==
    \A w \in Written :
      LET p == Report(w).stamp.risk_pooling
          UsualMean(name) == name \in {"by_horizon", "pre_attack", "benign"}
      IN  /\ Report(w).stamp.split = w[1]
          /\ \A row \in Report(w).rows :
               LET s == row.score
               IN  s.samples > 0 /\ ~UsualMean(row.name) =>
                     \/ s.pooling = Statistic(p)
                     \/ Len(s.members) = 1 /\ s.pooling = Statistic(OneHead(p))
          /\ \A s \in ScoresIn(w) :
               /\ s.members \in {<<Report(w).stamp.seed>>, Report(w).stamp.ensemble_seeds}
               /\ s.samples > 0 /\ Len(s.members) > 1 =>
                    s.samples * Len(s.members) = Report(w).stamp.n_trajectories

\* A calibrated score went through curves that were fitted on val to the
\* statistic it is, horizon by horizon, where both classes were seen; of one
\* model they are those of the ensemble.  None turns the ranking over.
CalibratedAsFitted ==
    \A w \in Written : \A s \in ScoresIn(w) : s.params # Raw =>
      \A k \in DOMAIN s.params :
        LET fit == s.params[k]
        IN  /\ fit.a > 0
            /\ ~fit.degenerate =>
                 /\ fit.of.on \subseteq SplitRows["val"]
                 /\ Classes(fit.of.on, k) = BOOLEAN
                 /\ fit.of.params = Raw
                 /\ IF Len(s.members) > 1 THEN fit.of.pooling = s.pooling
                    ELSE <<fit.of.pooling.method, fit.of.pooling.quantile>>
                           = <<s.pooling.method, s.pooling.quantile>>

\* Scores of one file are of the same windows, as many as it says, and lead
\* time is of every window before an attack; the files of one run agree, and are calibrated together.
ComparedOnTheSameRows ==
    /\ \A w \in Written :
         /\ \A s \in Compared(w) : \A t \in Compared(w) : s.on = t.on
         /\ \A s \in Compared(w) :
              IF w[2] = "lead_time" THEN s.on = Early(w[1])
              ELSE /\ Cardinality(s.on) = Report(w).stamp.n_eval_rows
                   /\ AttackedRows(SplitRows[w[1]]) \subseteq s.on \/ s.on \subseteq AttackedRows(SplitRows[w[1]])
         /\ \A pre \in PartOf(w, "pre_attack"), benign \in PartOf(w, "benign") :
              /\ pre.score.on \cap benign.score.on = {}
              /\ \A s \in Compared(w) : pre.score.on \cup benign.score.on = s.on
    /\ \A v \in Written, w \in Written : Report(v).id = Report(w).id =>
         LET Calibrated(x) == \E s \in ScoresIn(x) : s.params # Raw
         IN  /\ Report(v).stamp = Report(w).stamp
             /\ "ablations" \notin {v[2], w[2]} => Calibrated(v) = Calibrated(w)

\* What the harness publishes is what its provenance block says: of this
\* split, these seeds, this pooling and these windows; and it is calibrated
\* only by a fit to the same statistic, whatever was edited, refitted,
\* retrained or killed between (run_eval.py, fit_calibration.py, calibrate.py).
ReportsMeanWhatTheySay == StampedAsPooled /\ CalibratedAsFitted /\ ComparedOnTheSameRows

-----------------------------------------------------------------------------
EvaluationPlaneSpec == ReportsSpec /\ LeadSpec /\ EvaluationSpec

\* What an evaluation publishes is of what it names: the benchmark of one
\* model and its own scaler, lead time of episodes that a warning preceded,
\* reports of the split, seeds and pooling in their provenance block
\* (run_experiment.py, benchmark.py, episode_metrics.py, run_eval.py).
EvaluationIsSound == BenchmarkIsOfOneModel /\ LeadsAreEarned /\ ReportsMeanWhatTheySay
=============================================================================
