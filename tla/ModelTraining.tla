---------------------------- MODULE ModelTraining ----------------------------
(***************************************************************************)
(* The two training stages of an ensemble and the files they leave for the *)
(* benchmark: ml/nidra/train/train_dynamics.py, train/train_heads.py,      *)
(* scripts/run_experiment.py and load_models of eval/benchmark.py.         *)
(*                                                                         *)
(* Configurations share the scaler directory and have a weights directory  *)
(* each.  Of a scaler, or of parameters fitted behind it, the input space  *)
(* is kept: the feature regime whose features the scaler drops.  A run may *)
(* be killed between two files; a file is written whole.                   *)
(***************************************************************************)
EXTENDS Integers, Sequences

CONSTANTS
    Configs,       \* configuration files
    RegimeOf,      \* feature_regime of each
    Members,       \* how many ensemble.seeds
    Scores,        \* validation scores of an epoch, lower is better, in tolerances
    Epochs,        \* how many epochs a stage may last
    Patience,      \* epochs without improvement before it stops
    MaxRuns,       \* bound: training runs
    MaxKills       \* bound: runs that are killed

Infinite == 1000    \* float("inf"): worse than any score, by more than the tolerance

ASSUME TrainingAssumption ==
    /\ Scores \subseteq 0..Infinite - 2
    /\ {Members, Epochs, Patience} \subseteq Nat \ {0} /\ {MaxRuns, MaxKills} \subseteq Nat

VARIABLES
    scalerDir,   \* the shared directory: parameters, metadata, SHAP background
    weightsDir,  \* model_seed_N.pt and its metadata, per configuration and seed
    run,         \* the training run under way
    fit,         \* the epoch loop of the seed in training
    runs, kills,
    torn,        \* a run was killed while it replaced the scaler
    report       \* the members of the last benchmark, and its scaler

trainingVars == <<scalerDir, weightsDir, run, fit, runs, kills, torn, report>>

Absent == "absent"
NaN == -1           \* neither better nor worse than any score
Seeds == 1..Members
NoRun == [pos |-> "idle", config |-> Absent, plan |-> <<>>, scaler |-> Absent]
NoFit == [scores |-> <<>>, best |-> Infinite, bestAt |-> 0,
          stageScores |-> <<>>, stageBest |-> Infinite, stageAt |-> 0, patience |-> Patience]

TrainingInit ==
    /\ scalerDir = [params |-> Absent, meta |-> Absent, background |-> Absent]
    /\ weightsDir = [c \in Configs |-> [s \in Seeds |->
                        [dynamics |-> Absent, heads |-> Absent, dropped |-> Absent]]]
    /\ run = NoRun /\ fit = NoFit
    /\ runs = 0 /\ kills = 0 /\ torn = FALSE /\ report = <<>>

-----------------------------------------------------------------------------
\* The stages of a run: those of train_dynamics, of train_heads, and of
\* run_experiment, which takes a seed through both.
Plans ==
    {[s \in Seeds |-> <<"dynamics", s>>], [s \in Seeds |-> <<"heads", s>>],
     [i \in 1..2 * Members |-> <<IF i % 2 = 1 THEN "dynamics" ELSE "heads", (i + 1) \div 2>>]}

StartRun(c, plan) ==
    /\ run.pos = "idle" /\ runs < MaxRuns
    /\ runs' = runs + 1
    /\ run' = [pos |-> "scaler", config |-> c, plan |-> plan, scaler |-> Absent]
    /\ UNCHANGED <<scalerDir, weightsDir, fit, kills, torn, report>>

\* Mutant: any scaler that is there is reused.
AnyScalerMatches(c) == scalerDir.meta # Absent

\* _scaler_matches_data: by the regime its metadata names.
scaler_matches_data(c) == scalerDir.meta = RegimeOf[c]

\* prepare_training_data: load the shared scaler, or fit another ...
LoadScaler ==
    /\ run.pos = "scaler"
    /\ scalerDir.params # Absent /\ scaler_matches_data(run.config)
    /\ run' = [run EXCEPT !.pos = "background", !.scaler = scalerDir.params]
    /\ UNCHANGED <<scalerDir, weightsDir, fit, runs, kills, torn, report>>

\* ... and write its parameters, then its metadata, and remove the
\* background that was built behind the scaler before it.
FitScaler ==
    /\ run.pos = "scaler"
    /\ ~(scalerDir.params # Absent /\ scaler_matches_data(run.config))
    /\ run' = [run EXCEPT !.pos = "metadata", !.scaler = RegimeOf[run.config]]
    /\ scalerDir' = [scalerDir EXCEPT !.params = RegimeOf[run.config]]
    /\ UNCHANGED <<weightsDir, fit, runs, kills, torn, report>>

SaveScalerMetadata ==
    /\ run.pos = "metadata"
    /\ run' = [run EXCEPT !.pos = "unlink"]
    /\ scalerDir' = [scalerDir EXCEPT !.meta = run.scaler]
    /\ UNCHANGED <<weightsDir, fit, runs, kills, torn, report>>

UnlinkBackground ==
    /\ run.pos = "unlink"
    /\ run' = [run EXCEPT !.pos = "background"]
    /\ scalerDir' = [scalerDir EXCEPT !.background = Absent]
    /\ UNCHANGED <<weightsDir, fit, runs, kills, torn, report>>

SaveBackground ==
    /\ run.pos = "background"
    /\ run' = [run EXCEPT !.pos = "seed"]
    /\ scalerDir' = [scalerDir EXCEPT !.background = IF @ = Absent THEN run.scaler ELSE @]
    /\ UNCHANGED <<weightsDir, fit, runs, kills, torn, report>>

-----------------------------------------------------------------------------
Stage == Head(run.plan)[1]
Seed == Head(run.plan)[2]
Trained == weightsDir[run.config][Seed]

\* The next stage of a seed.  train_heads wants the weights of stage 1, and
\* takes their dynamics only: its heads start fresh.
BeginSeed ==
    /\ run.pos = "seed" /\ run.plan # <<>>
    /\ Stage = "heads" => Trained.dynamics # Absent
    /\ run' = [run EXCEPT !.pos = "epoch"]
    /\ fit' = NoFit
    /\ UNCHANGED <<scalerDir, weightsDir, runs, kills, torn, report>>

Improves(score, best) == score # NaN /\ score < best - 1

\* Mutant: one selection for both heads.
StageFollowsRisk(score, stageScore) == Improves(score, fit.best)

StageImproves(score, stageScore) == Improves(stageScore, fit.stageBest)

\* One epoch.  Of the dynamics there is one score; of the heads two, and
\* the best stage head is kept apart from the best risk head.  The patience
\* is that of the first.
Epoch(score, stageScore) ==
    /\ run.pos = "epoch"
    /\ fit' = [fit EXCEPT
         !.scores = Append(@, score),
         !.best = IF Improves(score, @) THEN score ELSE @,
         !.bestAt = IF Improves(score, fit.best) THEN Len(fit.scores) + 1 ELSE @,
         !.patience = IF Improves(score, fit.best) THEN Patience ELSE @ - 1,
         !.stageScores = Append(@, stageScore),
         !.stageBest = IF StageImproves(score, stageScore) THEN stageScore ELSE @,
         !.stageAt = IF StageImproves(score, stageScore) THEN Len(fit.scores) + 1 ELSE @]
    /\ run' = IF fit'.patience = 0 \/ Len(fit'.scores) = Epochs
              THEN [run EXCEPT !.pos = "save"] ELSE run
    /\ UNCHANGED <<scalerDir, weightsDir, runs, kills, torn, report>>

\* The epoch whose parameters are saved: the best one, or for want of one
\* whatever the heads are at the end.
KeptEpoch(at) == IF at = 0 THEN Len(fit.scores) ELSE at

\* torch.save.  train_dynamics has nothing to save when no epoch scored; it
\* writes fresh heads beside the dynamics.
SaveWeights ==
    /\ run.pos = "save"
    /\ Stage = "dynamics" => fit.bestAt # 0
    /\ run' = [run EXCEPT !.pos = "model metadata"]
    /\ weightsDir' = [weightsDir EXCEPT ![run.config][Seed] =
         IF Stage = "dynamics" THEN [@ EXCEPT !.dynamics = run.scaler, !.heads = "fresh"]
         ELSE [@ EXCEPT !.heads = run.scaler]]
    /\ UNCHANGED <<scalerDir, fit, runs, kills, torn, report>>

\* Stage 1 writes the metadata anew, stage 2 adds to it.
SaveModelMetadata ==
    /\ run.pos = "model metadata"
    /\ run' = IF Len(run.plan) = 1 THEN NoRun
              ELSE [run EXCEPT !.pos = "seed", !.plan = Tail(@)]
    /\ weightsDir' = [weightsDir EXCEPT ![run.config][Seed].dropped =
                         IF Stage = "dynamics" THEN run.scaler ELSE @]
    /\ fit' = NoFit
    /\ UNCHANGED <<scalerDir, runs, kills, torn, report>>

\* A run that raises: no weights of stage 1, or no epoch with a score.
RunFails ==
    /\ \/ run.pos = "seed" /\ Stage = "heads" /\ Trained.dynamics = Absent
       \/ run.pos = "save" /\ Stage = "dynamics" /\ fit.bestAt = 0
    /\ run' = NoRun /\ fit' = NoFit
    /\ UNCHANGED <<scalerDir, weightsDir, runs, kills, torn, report>>

Killed ==
    /\ run.pos # "idle" /\ kills < MaxKills
    /\ kills' = kills + 1
    /\ torn' = (torn \/ run.pos \in {"metadata", "unlink"})
    /\ run' = NoRun /\ fit' = NoFit
    /\ UNCHANGED <<scalerDir, weightsDir, runs, report>>

-----------------------------------------------------------------------------
\* Mutant: the shapes match, so nothing is compared.
NothingCompared(m) == TRUE

\* assert_scaler_matches_checkpoint: checkpoints without the record pass.
ScalerMatches(m) == m.dropped \in {Absent, scalerDir.params}

\* load_models and run of eval/benchmark.py, between two training runs.
Benchmark(c) ==
    /\ run.pos = "idle"
    /\ scalerDir.params # Absent /\ scalerDir.meta # Absent
    /\ \A s \in Seeds : weightsDir[c][s].dynamics # Absent /\ ScalerMatches(weightsDir[c][s])
    /\ report' = <<[members |-> weightsDir[c], scaler |-> scalerDir.params]>>
    /\ UNCHANGED <<scalerDir, weightsDir, run, fit, runs, kills, torn>>

TrainingNext ==
    \/ \E c \in Configs, plan \in Plans : StartRun(c, plan)
    \/ LoadScaler \/ FitScaler \/ SaveScalerMetadata \/ UnlinkBackground \/ SaveBackground
    \/ BeginSeed
    \/ run.pos = "epoch" /\ \E score \in Scores \cup {NaN},
                              stageScore \in IF Stage = "heads" THEN Scores ELSE {0} :
                              Epoch(score, stageScore)
    \/ SaveWeights \/ SaveModelMetadata \/ RunFails \/ Killed
    \/ \E c \in Configs : Benchmark(c)

TrainingSpec == TrainingInit /\ [][TrainingNext]_trainingVars

-----------------------------------------------------------------------------
TrainedInItsRegime ==
    \A c \in Configs, s \in Seeds : weightsDir[c][s].dynamics \in {Absent, RegimeOf[c]}

HeadsFitTheirDynamics ==
    \A c \in Configs, s \in Seeds :
        weightsDir[c][s].heads \in {Absent, "fresh", weightsDir[c][s].dynamics}

BackgroundFitsTheScaler ==
    run.pos \notin {"metadata", "unlink"} => scalerDir.background \in {Absent, scalerDir.params}

EvaluatedInItsOwnSpace ==
    \A i \in DOMAIN report, s \in Seeds :
        report[i].members[s].dropped # Absent
            => report[i].members[s].dynamics = report[i].scaler

(* Unless a run died while it replaced the shared scaler, everything that  *)
(* was fitted behind it stays in one input space: dynamics in the regime   *)
(* of their configuration, heads in the space of their dynamics, the       *)
(* background in that of the scaler beside it; and a benchmark feeds a     *)
(* member whose record was written only what it was trained on.            *)
(* (train_dynamics.py:59 "reuse across a change to the data is silently    *)
(* wrong"; benchmark.py:225 "refuse to evaluate a model with a scaler      *)
(* fitted under a different feature regime".)                              *)
OneInputSpace ==
    ~torn => /\ TrainedInItsRegime
             /\ HeadsFitTheirDynamics
             /\ BackgroundFitsTheScaler
             /\ EvaluatedInItsOwnSpace

(* What is saved is the best epoch of all that were run, to within the     *)
(* tolerance, of the risk head and of the stage head each, however the     *)
(* loop ended.  (train_heads.py: "independent selection".)                 *)
KeptIsBest ==
    run.pos = "save" =>
        /\ fit.bestAt # 0 => \A i \in DOMAIN fit.scores :
              fit.scores[i] # NaN => fit.scores[i] >= fit.scores[KeptEpoch(fit.bestAt)] - 1
        /\ \A i \in DOMAIN fit.scores :
              fit.stageScores[i] >= fit.stageScores[KeptEpoch(fit.stageAt)] - 1

(* The files of a weights directory, whoever wrote them: of one input      *)
(* space, and each the best its loop had seen.                             *)
CheckpointsAreSound == OneInputSpace /\ KeptIsBest
=============================================================================
