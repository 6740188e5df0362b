----------------------------- MODULE Evaluation -----------------------------
(***************************************************************************)
(* Labelled experiments and the benchmark of what they leave behind:       *)
(* scripts/run_experiment.py, the ends of train/train_heads.py and         *)
(* train/train_onset.py, and eval/benchmark.py of ml/nidra.                *)
(*                                                                         *)
(* A label is a directory of artifacts and keeps its configuration.  Of    *)
(* everything fitted the feature regime of the scaler behind it is kept,   *)
(* and of a risk head the components it reads.  A scaler is replaced       *)
(* whole (ModelTraining has its files).                                    *)
(***************************************************************************)
EXTENDS Integers, Sequences, FiniteSets, SequencesExt

CONSTANTS
    Labels,                  \* experiments/runs/<label>
    LabelRegime,             \* the feature regime each is configured with
    LabelComponents,         \* model.risk_head.components of each
    HeadWidth,               \* input_dim of a head by its components
    OnsetReadsContext,       \* whether onset.components is more than the state
    EnsembleSeeds,           \* a sequence
    SeedChoices,             \* --seeds: the ensemble, or part of it
    Poolings,                \* the rules that may do best on a split
    TableSize,               \* bound: rows of a table
    MaxExperiments,          \* bound: experiments run
    MaxExperimentKills       \* bound: experiments killed

None == "none"
SeedSet == ToSet(EnsembleSeeds)

ASSUME EvaluationAssumption ==
    /\ None \notin Labels /\ LabelRegime \in [Labels -> STRING]
    /\ {LabelComponents[l] : l \in Labels} \subseteq DOMAIN HeadWidth
    /\ None \notin DOMAIN HeadWidth
    /\ SeedChoices \subseteq Seq(SeedSet)
    /\ {TableSize, MaxExperiments, MaxExperimentKills} \subseteq Nat
    /\ OnsetReadsContext \in BOOLEAN

VARIABLES
    artifacts,     \* of each label: scaler, checkpoints, onset heads, operating point
    experiment,    \* the one that runs, or NoExperiment
    begun, killed,
    unrecorded,    \* labels a run that stopped left with weights and not their metadata
    crossed,       \* a label was initialised from one of another regime
    published,     \* the benchmark.json just written, if any
    breakdown      \* of one table of scored rows

evaluationVars == <<artifacts, experiment, begun, killed, unrecorded, crossed, published, breakdown>>

NoExperiment == [at |-> "idle", label |-> None, from |-> None, stages |-> {}, seeds |-> <<>>,
                 todo |-> <<>>, left |-> {}, scaler |-> None]
NoMember == [dynamics |-> None, heads |-> None, components |-> None,
             dropped_features |-> None, risk_head_components |-> None]
Splits == {"val", "test", "holdout"}
DefaultPooling == "mean|q=-|max"

EvaluationInit ==
    /\ artifacts = [l \in Labels |-> [scaler |-> None, member |-> [s \in SeedSet |-> NoMember],
                                      onset |-> [s \in SeedSet |-> None], point |-> <<>>]]
    /\ experiment = NoExperiment /\ begun = 0 /\ killed = 0 /\ unrecorded = {} /\ crossed = FALSE
    /\ published = <<>> /\ breakdown = <<>>

-----------------------------------------------------------------------------
Stages == {{"dynamics"}, {"heads"}, {"onset"}, {"dynamics", "heads", "onset"}}
Earlier == [dynamics |-> {}, heads |-> {"dynamics"}, onset |-> {"dynamics", "heads"}]

\* main of run_experiment: the copies of --init-from, seed by seed, then the
\* stages, seed by seed.
Experiment(label, from, stages, seeds) ==
    /\ experiment.at = "idle" /\ published = <<>> /\ breakdown = <<>> /\ begun < MaxExperiments
    /\ begun' = begun + 1
    /\ experiment' = [at |-> IF from = None THEN "prepare" ELSE "copy", label |-> label, from |-> from,
                      stages |-> stages, seeds |-> seeds, todo |-> seeds, left |-> stages,
                      scaler |-> None]
    /\ crossed' = (crossed \/ (from # None /\ LabelRegime[from] # LabelRegime[label]))
    /\ UNCHANGED <<artifacts, killed, unrecorded, published, breakdown>>

To == experiment.label
ThisSeed == Head(experiment.todo)
Mine == artifacts[To].member[ThisSeed]
Theirs == artifacts[experiment.from].member[ThisSeed]
Rewrite(dir) == artifacts' = [artifacts EXCEPT ![To] = dir]
Save(member) ==
    Rewrite([artifacts[To] EXCEPT !.member = [artifacts[To].member EXCEPT ![ThisSeed] = member]])
Doing(place) == experiment.at = place /\ experiment.todo # <<>>
Go(place) == experiment' = [experiment EXCEPT !.at = place]
Aside == UNCHANGED <<begun, killed, crossed, published, breakdown>>

\* copy_run_artifacts: weights, then metadata, seed by seed, then the scaler.
CopyWeights ==
    /\ Doing("copy") /\ Theirs.dynamics # None
    /\ Save([Mine EXCEPT !.dynamics = Theirs.dynamics, !.heads = Theirs.heads,
                         !.components = Theirs.components])
    /\ Go("copy metadata") /\ Aside /\ UNCHANGED unrecorded

HasMetadata(member) == member.dropped_features # None \/ member.risk_head_components # None

CopyMetadata ==
    /\ Doing("copy metadata") /\ HasMetadata(Theirs)
    /\ Save([Mine EXCEPT !.dropped_features = Theirs.dropped_features,
                         !.risk_head_components = Theirs.risk_head_components])
    /\ unrecorded' = IF experiment.from \in unrecorded THEN unrecorded \cup {To} ELSE unrecorded
    /\ experiment' = [experiment EXCEPT !.at = "copy", !.todo = Tail(experiment.todo)]
    /\ Aside

\* It raises when the other label's run was killed before the metadata.
CopyStops ==
    /\ Doing("copy metadata") /\ ~HasMetadata(Theirs)
    /\ experiment' = NoExperiment /\ unrecorded' = unrecorded \cup {To}
    /\ UNCHANGED artifacts /\ Aside

CopyScaler ==
    /\ experiment.at = "copy" /\ experiment.todo = <<>>
    /\ Rewrite([artifacts[To] EXCEPT !.scaler = artifacts[experiment.from].scaler])
    /\ experiment' = [experiment EXCEPT !.at = "prepare", !.todo = experiment.seeds]
    /\ Aside /\ UNCHANGED unrecorded

\* prepare_training_data: the scaler beside the weights if it drops what this
\* configuration drops, or else another in its place.
PrepareData ==
    /\ experiment.at = "prepare"
    /\ Rewrite([artifacts[To] EXCEPT !.scaler = LabelRegime[To]])
    /\ experiment' = [experiment EXCEPT !.at = "train", !.scaler = LabelRegime[To]]
    /\ Aside /\ UNCHANGED unrecorded

\* The stages of a seed in their order; after the last of them the next seed.
Now(stage) == Doing("train") /\ stage \in experiment.left /\ experiment.left \cap Earlier[stage] = {}
After(stage) ==
    IF experiment.left = {stage}
    THEN experiment' = [experiment EXCEPT !.at = "train", !.todo = Tail(experiment.todo),
                                          !.left = experiment.stages]
    ELSE experiment' = [experiment EXCEPT !.at = "train", !.left = experiment.left \ {stage}]

\* train_one_seed: dynamics, and fresh heads.
TrainDynamics ==
    /\ Now("dynamics")
    /\ Save([Mine EXCEPT !.dynamics = experiment.scaler, !.heads = "fresh",
                         !.components = LabelComponents[To]])
    /\ Go("record dynamics") /\ Aside /\ UNCHANGED unrecorded

RecordDynamics ==
    /\ Doing("record dynamics")
    /\ Save([Mine EXCEPT !.dropped_features = experiment.scaler, !.risk_head_components = None])
    /\ After("dynamics") /\ Aside /\ UNCHANGED unrecorded

\* Mutant: the heads go on from what the checkpoint carries.
WithWholeCheckpoint(member) ==
    [member EXCEPT !.heads = IF @ = "fresh" THEN experiment.scaler ELSE @]

\* train_heads_for_seed: the dynamics of the checkpoint, fresh heads of this
\* configuration, saved over it.
WithTrainedHeads(member) ==
    [member EXCEPT !.heads = experiment.scaler, !.components = LabelComponents[To]]

TrainHeads ==
    /\ Now("heads") /\ Mine.dynamics # None
    /\ Save(WithTrainedHeads(Mine))
    /\ Go("record heads") /\ Aside /\ UNCHANGED unrecorded

\* The record of stage 1 stays, its heads' part is written anew.
RecordHeads ==
    /\ Doing("record heads")
    /\ Save([Mine EXCEPT !.risk_head_components = LabelComponents[To]])
    /\ After("heads") /\ Aside /\ UNCHANGED unrecorded

\* train_onset_head_for_seed, with the member that has the seed's encoder.
TrainOnset ==
    /\ Now("onset")
    /\ OnsetReadsContext => Mine.dynamics # None
    /\ Rewrite([artifacts[To] EXCEPT !.onset = [artifacts[To].onset EXCEPT ![ThisSeed] = experiment.scaler]])
    /\ After("onset") /\ Aside /\ UNCHANGED unrecorded

\* The last stage, or one that raises for want of a checkpoint.
ExperimentEnds ==
    /\ \/ experiment.at = "train" /\ experiment.todo = <<>>
       \/ Doing("copy") /\ Theirs.dynamics = None
       \/ Now("heads") /\ Mine.dynamics = None
       \/ Now("onset") /\ OnsetReadsContext /\ Mine.dynamics = None
    /\ experiment' = NoExperiment
    /\ UNCHANGED <<artifacts, begun, killed, unrecorded, crossed, published, breakdown>>

ExperimentKilled ==
    /\ experiment.at # "idle" /\ killed < MaxExperimentKills
    /\ killed' = killed + 1
    /\ unrecorded' = IF experiment.at \in {"copy metadata", "record dynamics", "record heads"}
                     THEN unrecorded \cup {To} ELSE unrecorded
    /\ experiment' = NoExperiment
    /\ UNCHANGED <<artifacts, begun, crossed, published, breakdown>>

-----------------------------------------------------------------------------
\* assert_scaler_matches_checkpoint: a checkpoint without the record passes.
assert_scaler_matches_checkpoint(member, scaler) == member.dropped_features \in {None, scaler}

\* assert_head_matches_checkpoint, likewise.
assert_head_matches_checkpoint(member, components) ==
    member.risk_head_components \in {None, components}

\* load_models; load_state_dict refuses another width.
load_models(weights, scaler, components, seeds) ==
    \A i \in DOMAIN seeds :
        LET member == artifacts[weights].member[seeds[i]]
        IN  /\ member.dynamics # None
            /\ assert_scaler_matches_checkpoint(member, scaler)
            /\ assert_head_matches_checkpoint(member, components)
            /\ HeadWidth[member.components] = HeadWidth[components]

HasOnsetHead(weights, seeds) == {s \in ToSet(seeds) : artifacts[weights].onset[s] # None}

\* _onset_context: the member whose head this is.
_onset_context(weights, seeds, s) == seeds[CHOOSE i \in DOMAIN seeds : seeds[i] = s]

\* select_operating_point, a pooling rule that does best on this split ...
SelectedOn(split, pooling) == [selected_on |-> split, pooling |-> pooling]
DefaultPoint == [selected_on |-> None, pooling |-> DefaultPooling]

\* ... or the file beside the weights, or for want of one the configuration.
LoadedPoint(weights) ==
    IF artifacts[weights].point = <<>> THEN DefaultPoint ELSE artifacts[weights].point[1]

\* run: the weights of one label under the scaler of a configuration that may
\* be another's; select is the pooling found best, forced the one read instead.
Benchmark_(weights, scalerOf, components, seeds, split, select, forced) ==
    /\ experiment.at = "idle" /\ published = <<>> /\ breakdown = <<>>
    /\ artifacts[scalerOf].scaler # None
    /\ load_models(weights, artifacts[scalerOf].scaler, components, seeds)
    /\ select # None => split = "val"
    /\ LET point == IF select # None THEN SelectedOn(split, select) ELSE LoadedPoint(weights)
       IN  /\ artifacts' = IF select = None THEN artifacts
                           ELSE [artifacts EXCEPT ![weights] =
                                   [artifacts[weights] EXCEPT !.point = <<point>>]]
           /\ published' = <<[weights |-> weights, scaler |-> artifacts[scalerOf].scaler,
                              components |-> components,
                              members |-> [i \in DOMAIN seeds |-> artifacts[weights].member[seeds[i]]],
                              point |-> point, pooling |-> IF forced = None THEN point.pooling ELSE forced,
                              pooling_forced |-> forced # None,
                              contexts |-> [s \in HasOnsetHead(weights, seeds) |->
                                              _onset_context(weights, seeds, s)]]>>
    /\ UNCHANGED <<experiment, begun, killed, unrecorded, crossed, breakdown>>

-----------------------------------------------------------------------------
\* Another command is given: the report is of the one before it.
ReadReport ==
    /\ published # <<>>
    /\ published' = <<>>
    /\ UNCHANGED <<artifacts, experiment, begun, killed, unrecorded, crossed, breakdown>>

\* Scored rows: is the published label set, the group of the attack a row
\* forecasts, its stratum, and whether the score reaches the threshold.
ScoredRows ==
    [positive : {TRUE}, group : {None, "bot", "scan"}, stratum : {"pre_onset"}, alarm : BOOLEAN]
    \cup [positive : {FALSE}, group : {None, "bot"},
          stratum : {"active_negative", "pre_onset", "silent_negative"}, alarm : BOOLEAN]

\* summarize_scores, as counts at the threshold over the rows given.
Counts(rows, over) ==
    LET Positive == {i \in over : rows[i].positive}
        Alarm == {i \in over : rows[i].alarm}
        Benign == {i \in over \ Positive : rows[i].stratum \in {"active_negative", "pre_onset"}}
    IN  [hits |-> Cardinality(Positive \cap Alarm), positives |-> Cardinality(Positive),
         alarms |-> Cardinality(Alarm), n |-> Cardinality(over),
         active_benign |-> Cardinality(Benign), active_benign_alarms |-> Cardinality(Benign \cap Alarm)]

\* The rows of a group: its positives and every negative of the split.
GroupRows(rows, name) == {i \in DOMAIN rows : ~rows[i].positive \/ rows[i].group = name}

\* _task_table of the split and _per_attack_group.
Tabulate(rows) ==
    /\ begun = 0 /\ breakdown = <<>> /\ published = <<>>
    /\ LET named == {rows[i].group : i \in {j \in DOMAIN rows : rows[j].group # None /\ rows[j].positive}}
       IN  breakdown' = <<[rows |-> rows, all |-> Counts(rows, DOMAIN rows),
                           group |-> [name \in named |-> Counts(rows, GroupRows(rows, name))]]>>
    /\ UNCHANGED <<artifacts, experiment, begun, killed, unrecorded, crossed, published>>

EvaluationNext ==
    \/ \E label \in Labels, from \in Labels \cup {None}, stages \in Stages, seeds \in SeedChoices :
           from # label /\ Experiment(label, from, stages, seeds)
    \/ CopyWeights \/ CopyMetadata \/ CopyStops \/ CopyScaler \/ PrepareData
    \/ TrainDynamics \/ RecordDynamics \/ TrainHeads \/ RecordHeads \/ TrainOnset
    \/ ExperimentEnds \/ ExperimentKilled
    \/ /\ experiment.at = "idle" /\ published = <<>> /\ breakdown = <<>>
       /\ \E weights, scalerOf \in Labels, components \in DOMAIN HeadWidth, seeds \in SeedChoices,
             split \in Splits, select \in Poolings \cup {None}, forced \in {None, DefaultPooling} :
             Benchmark_(weights, scalerOf, components, seeds, split, select, forced)
    \/ ReadReport
    \/ begun = 0 /\ breakdown = <<>> /\ \E rows \in [1..TableSize -> ScoredRows] : Tabulate(rows)

EvaluationSpec == EvaluationInit /\ [][EvaluationNext]_evaluationVars

-----------------------------------------------------------------------------
\* A member whose files are in step has the risk head the configuration builds
\* and dynamics that were fitted behind the scaler the benchmark feeds it from;
\* and so were its heads, as long as --init-from stays within a regime.  (The
\* record is of the dynamics alone, so that heads fitted elsewhere pass.)
FedWhatItWasFittedOn ==
    \A n \in DOMAIN published : \A i \in DOMAIN published[n].members :
        LET member == published[n].members[i]
        IN  published[n].weights \notin unrecorded =>
                /\ member.dynamics = published[n].scaler
                /\ ~crossed => member.heads \in {"fresh", published[n].scaler}
                /\ member.heads # "fresh" => member.components = published[n].components

\* An onset head reads the hidden state of its own seed's encoder.
OnsetReadsItsOwnEncoder ==
    \A n \in DOMAIN published : \A s \in DOMAIN published[n].contexts : published[n].contexts[s] = s

\* No label of the test or holdout split has a part in an operating point,
\* and a forced pooling is never written down as the selected one.
ChosenOnValidation ==
    /\ \A l \in Labels : \A i \in DOMAIN artifacts[l].point : artifacts[l].point[i].selected_on = "val"
    /\ \A n \in DOMAIN published :
          /\ published[n].point.selected_on = None => published[n].point = DefaultPoint
          /\ ~published[n].pooling_forced => published[n].pooling = published[n].point.pooling

\* Each group is compared against the same negatives as the whole split, no
\* positive counts against two groups, and none is a benign false alarm.  (The
\* groups' positives, numbered group by group, are as many as the named ones.)
GroupsShareTheNegatives ==
    \A n \in DOMAIN breakdown :
        LET all == breakdown[n].all
            groups == DOMAIN breakdown[n].group
            of(g) == breakdown[n].group[g]
            named == {i \in DOMAIN breakdown[n].rows :
                        breakdown[n].rows[i].positive /\ breakdown[n].rows[i].group # None}
        IN  /\ \A g \in groups :
                  /\ of(g).n - of(g).positives = all.n - all.positives
                  /\ of(g).alarms - of(g).hits = all.alarms - all.hits
                  /\ of(g).active_benign_alarms = all.active_benign_alarms
                  /\ of(g).active_benign <= of(g).n - of(g).positives
            /\ Cardinality(UNION {{g} \X (1..of(g).positives) : g \in groups}) = Cardinality(named)

(* A benchmark is of one model: what it feeds its members and their onset  *)
(* heads is what they were fitted on, its operating point was chosen on    *)
(* the validation split, and its tables share one set of negatives.        *)
(* (benchmark.py:216 "refuse to evaluate a model with a scaler fitted      *)
(* under a different feature regime"; 346 "member j's encoder state is not *)
(* an input member i's head was ever trained against"; 100 "each group     *)
(* here keeps every negative in the split and only that group's            *)
(* positives".)                                                            *)
BenchmarkIsOfOneModel ==
    /\ FedWhatItWasFittedOn
    /\ OnsetReadsItsOwnEncoder
    /\ ChosenOnValidation
    /\ GroupsShareTheNegatives
=============================================================================
