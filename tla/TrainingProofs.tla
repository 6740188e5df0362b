---------------------------- MODULE TrainingProofs ----------------------------
(***************************************************************************)
(* Proofs about the training plane, for any number of configurations,      *)
(* packets and epochs: the files that training runs leave for the models,  *)
(* the flows that the packets of a connection are cut into, the splits and *)
(* the evaluation set that the tables are made into, the state table, the  *)
(* scores of a forecast and the rollouts they are made of.                 *)
(***************************************************************************)
EXTENDS ModelTraining, FlowAssembly, StateTable, TrainingData, Simulation, FiniteSetTheorems,
        WellFoundedInduction, SequenceTheorems, TLAPS

-----------------------------------------------------------------------------
(***************************************************************************)
(* Training runs.  All configurations share one scaler; whose it is, and   *)
(* of whom the run under way takes it to be, is followed through the       *)
(* files a run writes one after the other.                                 *)
(***************************************************************************)
TrainingPositions ==
    {"idle", "scaler", "metadata", "unlink", "background", "seed", "epoch", "save", "model metadata"}

\* What a file may be said to be fitted in.
Spaces == {Absent, "fresh"} \union {RegimeOf[c] : c \in Configs}

StagePlans == Seq({"dynamics", "heads"} \X Seeds)

TrainingTypes ==
    /\ scalerDir \in [params : Spaces, meta : Spaces, background : Spaces]
    /\ weightsDir \in [Configs -> [Seeds -> [dynamics : Spaces, heads : Spaces, dropped : Spaces]]]
    /\ run \in [pos : TrainingPositions, config : Configs \union {Absent}, plan : StagePlans, scaler : Spaces]
    /\ torn \in BOOLEAN
    /\ run.pos # "idle" => run.config \in Configs /\ run.plan # <<>>

\* The scaler a run has loaded or fitted is of its configuration's regime, and
\* it is the one on disk; its metadata follow one step later.
ScalerInv ==
    /\ run.pos # "metadata" => scalerDir.meta = scalerDir.params
    /\ run.pos \notin {"idle", "scaler"} =>
          run.scaler = RegimeOf[run.config] /\ scalerDir.params = run.scaler

\* What is fitted for configuration c is of its regime.
MemberFits(m, c) ==
    /\ m.dynamics \in {Absent, RegimeOf[c]}
    /\ m.heads \in {Absent, "fresh", m.dynamics}
    /\ m.dropped \in {Absent, RegimeOf[c]}

\* The record of a member names the space of its configuration, and whoever
\* trains heads found the dynamics they go with.
MembersInv ==
    /\ \A c \in Configs, s \in Seeds : MemberFits(weightsDir[c][s], c)
    /\ run.pos \in {"epoch", "save"} /\ Stage = "heads" => Trained.dynamics # Absent

\* The epochs so far, and the best of each kind among them.
FitInv ==
    LET n == Len(fit.scores)
    IN  /\ fit.scores \in Seq(Int) /\ fit.stageScores \in Seq(Int) /\ Len(fit.stageScores) = n
        /\ fit.best \in Int /\ fit.stageBest \in Int
        /\ \A i \in 1..n : fit.scores[i] # NaN => fit.scores[i] >= fit.best - 1
        /\ \A i \in 1..n : fit.stageScores[i] >= fit.stageBest - 1
        /\ fit.bestAt # 0 => fit.bestAt \in 1..n /\ fit.scores[fit.bestAt] = fit.best
        /\ IF fit.stageAt = 0 THEN n = 0 /\ fit.stageBest = Infinite
           ELSE fit.stageAt \in 1..n /\ fit.stageScores[fit.stageAt] = fit.stageBest

FilesInv == ScalerInv /\ MembersInv /\ BackgroundFitsTheScaler /\ EvaluatedInItsOwnSpace

TrainingInv == TrainingTypes /\ FitInv /\ (~torn => FilesInv)

\* Every plan takes seeds through stages, and is not empty.
LEMMA PlansAreStages ==
    ASSUME NEW plan \in Plans
    PROVE  plan \in StagePlans /\ plan # <<>>
<1>1. Members \in Nat /\ Members > 0 /\ Seeds = 1..Members
  BY TrainingAssumption DEF TrainingAssumption, Seeds
<1>2. CASE plan = [s \in Seeds |-> <<"dynamics", s>>] \/ plan = [s \in Seeds |-> <<"heads", s>>]
  <2>1. \A s \in 1..Members : plan[s] \in {"dynamics", "heads"} \X Seeds
    BY <1>1, <1>2
  <2>2. plan \in StagePlans /\ Len(plan) = Members
    BY <1>1, <1>2, <2>1 DEF StagePlans
  <2>3. QED
    BY <1>1, <2>2 DEF StagePlans
<1>3. CASE plan = [i \in 1..2 * Members |->
                      <<IF i % 2 = 1 THEN "dynamics" ELSE "heads", (i + 1) \div 2>>]
  <2>1. \A i \in 1..2 * Members : (i + 1) \div 2 \in Seeds
    BY <1>1
  <2>2. \A i \in 1..2 * Members : (IF i % 2 = 1 THEN "dynamics" ELSE "heads") \in {"dynamics", "heads"}
    OBVIOUS
  <2>3. \A i \in 1..2 * Members : plan[i] \in {"dynamics", "heads"} \X Seeds
    BY <1>3, <2>1, <2>2
  <2>4. 2 * Members \in Nat /\ 2 * Members > 0
    BY <1>1
  <2>5. plan \in StagePlans /\ Len(plan) = 2 * Members
    BY <1>3, <2>3, <2>4 DEF StagePlans
  <2>6. QED
    BY <2>4, <2>5 DEF StagePlans
<1>4. QED
  BY <1>2, <1>3 DEF Plans

\* The stage at hand.
LEMMA AtStage ==
    ASSUME TrainingTypes, run.pos # "idle"
    PROVE  /\ Stage \in {"dynamics", "heads"} /\ Seed \in Seeds /\ run.config \in Configs
           /\ run.plan \in StagePlans /\ run.plan # <<>> /\ Tail(run.plan) \in StagePlans
           /\ Len(run.plan) # 1 => Tail(run.plan) # <<>>
           /\ Trained \in [dynamics : Spaces, heads : Spaces, dropped : Spaces]
<1>1. PICK plan : plan = run.plan
  OBVIOUS
<1>2. plan \in Seq({"dynamics", "heads"} \X Seeds) /\ plan # <<>> /\ run.config \in Configs
  BY <1>1 DEF TrainingTypes, StagePlans
<1>3. Head(plan) \in {"dynamics", "heads"} \X Seeds
  BY <1>2
<1>4. Stage \in {"dynamics", "heads"} /\ Seed \in Seeds
  BY <1>1, <1>3 DEF Stage, Seed
<1>5. Tail(plan) \in StagePlans /\ (Len(plan) # 1 => Tail(plan) # <<>>)
  <2>1. Tail(plan) \in StagePlans /\ Len(Tail(plan)) = Len(plan) - 1 /\ Len(plan) \in Nat
    BY <1>2 DEF StagePlans
  <2>2. Len(plan) # 1 => Len(Tail(plan)) # 0
    BY <2>1
  <2>3. QED
    BY <2>1, <2>2, EmptySeq DEF StagePlans
<1>6. Trained \in [dynamics : Spaces, heads : Spaces, dropped : Spaces]
  BY <1>2, <1>4 DEF Trained, TrainingTypes
<1>7. QED
  BY <1>1, <1>2, <1>4, <1>5, <1>6 DEF StagePlans

\* A loop that goes on, or starts over.
LEMMA FitStays ==
    ASSUME FitInv, fit' \in {fit, NoFit}
    PROVE  FitInv'
<1>1. CASE fit' = fit
  BY <1>1 DEF FitInv
<1>2. CASE fit' = NoFit
  <2>1. /\ fit'.scores = <<>> /\ fit'.stageScores = <<>> /\ fit'.best = Infinite
        /\ fit'.stageBest = Infinite /\ fit'.bestAt = 0 /\ fit'.stageAt = 0
    BY <1>2 DEF NoFit
  <2>2. Infinite \in Int
    BY DEF Infinite
  <2>3. QED
    BY <2>1, <2>2 DEF FitInv
<1>3. QED
  BY <1>1, <1>2

\* One epoch more: the best is replaced by what is better than it by more than
\* the tolerance, so nothing that was seen is better than it by more than that.
LEMMA EpochKeepsBest ==
    ASSUME FitInv, NEW score \in Scores \union {NaN}, NEW stageScore \in Scores \union {0},
           Epoch(score, stageScore)
    PROVE  FitInv'
<1>1. PICK n, S, T : n = Len(fit.scores) /\ S = fit.scores /\ T = fit.stageScores
  OBVIOUS
<1>2. /\ S \in Seq(Int) /\ T \in Seq(Int) /\ Len(S) = n /\ Len(T) = n /\ n \in Nat
      /\ fit.best \in Int /\ fit.stageBest \in Int
      /\ \A i \in 1..n : S[i] # NaN => S[i] >= fit.best - 1
      /\ \A i \in 1..n : T[i] >= fit.stageBest - 1
      /\ fit.bestAt # 0 => fit.bestAt \in 1..n /\ S[fit.bestAt] = fit.best
      /\ fit.stageAt = 0 => n = 0 /\ fit.stageBest = Infinite
      /\ fit.stageAt # 0 => fit.stageAt \in 1..n /\ T[fit.stageAt] = fit.stageBest
  BY <1>1 DEF FitInv
<1>3. score \in Int /\ stageScore \in Int /\ stageScore # NaN /\ stageScore < Infinite - 1
  BY TrainingAssumption DEF TrainingAssumption, NaN, Infinite
<1>4. PICK b, sb, at, sat :
        /\ b = IF Improves(score, fit.best) THEN score ELSE fit.best
        /\ at = IF Improves(score, fit.best) THEN n + 1 ELSE fit.bestAt
        /\ sb = IF Improves(stageScore, fit.stageBest) THEN stageScore ELSE fit.stageBest
        /\ sat = IF Improves(stageScore, fit.stageBest) THEN n + 1 ELSE fit.stageAt
  OBVIOUS
<1>5. /\ fit'.scores = Append(S, score) /\ fit'.stageScores = Append(T, stageScore)
      /\ fit'.best = b /\ fit'.bestAt = at /\ fit'.stageBest = sb /\ fit'.stageAt = sat
  BY <1>1, <1>4 DEF Epoch, StageImproves
<1>6. PICK S2, T2 : S2 = Append(S, score) /\ T2 = Append(T, stageScore)
  OBVIOUS
<1>7. /\ S2 \in Seq(Int) /\ T2 \in Seq(Int) /\ Len(S2) = n + 1 /\ Len(T2) = n + 1
      /\ \A i \in 1..n : S2[i] = S[i] /\ T2[i] = T[i]
      /\ S2[n + 1] = score /\ T2[n + 1] = stageScore
  BY <1>2, <1>3, <1>6
<1>8. \A i \in 1..n + 1 : i \in 1..n \/ i = n + 1
  BY <1>2
<1>9. /\ b \in Int /\ \A i \in 1..n + 1 : S2[i] # NaN => S2[i] >= b - 1
      /\ at # 0 => at \in 1..n + 1 /\ S2[at] = b
  <2>1. CASE Improves(score, fit.best)
    <3>1. b = score /\ at = n + 1 /\ score < fit.best - 1
      BY <1>4, <2>1 DEF Improves
    <3>2. ASSUME NEW i \in 1..n + 1, S2[i] # NaN PROVE S2[i] >= b - 1
      <4>1. CASE i \in 1..n
        <5>1. S2[i] = S[i] /\ S[i] >= fit.best - 1 /\ S[i] \in Int
          BY <1>2, <1>7, <3>2, <4>1
        <5>2. QED
          BY <1>2, <1>3, <3>1, <5>1
      <4>2. CASE i = n + 1
        BY <1>3, <1>7, <3>1, <4>2
      <4>3. QED
        BY <1>8, <4>1, <4>2
    <3>3. QED
      BY <1>2, <1>3, <1>7, <3>1, <3>2
  <2>2. CASE ~Improves(score, fit.best)
    <3>1. b = fit.best /\ at = fit.bestAt /\ (score # NaN => score >= fit.best - 1)
      BY <1>2, <1>3, <1>4, <2>2 DEF Improves
    <3>2. \A i \in 1..n + 1 : S2[i] # NaN => S2[i] >= b - 1
      BY <1>2, <1>7, <1>8, <3>1
    <3>3. QED
      BY <1>2, <1>7, <3>1, <3>2
  <2>3. QED
    BY <2>1, <2>2
<1>10. /\ sb \in Int /\ \A i \in 1..n + 1 : T2[i] >= sb - 1
       /\ sat \in 1..n + 1 /\ T2[sat] = sb /\ sat # 0
  <2>1. CASE Improves(stageScore, fit.stageBest)
    <3>1. sb = stageScore /\ sat = n + 1 /\ stageScore < fit.stageBest - 1
      BY <1>4, <2>1 DEF Improves
    <3>2. ASSUME NEW i \in 1..n + 1 PROVE T2[i] >= sb - 1
      <4>1. CASE i \in 1..n
        <5>1. T2[i] = T[i]
          BY <1>7, <4>1
        <5>2. T[i] >= fit.stageBest - 1
          BY <1>2, <4>1
        <5>3. T[i] \in Int /\ fit.stageBest \in Int
          BY <1>2, <4>1
        <5>4. QED
          BY <1>3, <3>1, <5>1, <5>2, <5>3
      <4>2. CASE i = n + 1
        BY <1>3, <1>7, <3>1, <4>2
      <4>3. QED
        BY <1>8, <4>1, <4>2
    <3>3. QED
      BY <1>2, <1>3, <1>7, <3>1, <3>2
  <2>2. CASE ~Improves(stageScore, fit.stageBest)
    <3>1. sb = fit.stageBest /\ sat = fit.stageAt /\ stageScore >= fit.stageBest - 1
      BY <1>2, <1>3, <1>4, <2>2 DEF Improves
    <3>2. fit.stageAt # 0
      <4>1. fit.stageAt = 0 => fit.stageBest = Infinite
        BY <1>2
      <4>2. QED
        BY <1>2, <1>3, <3>1, <4>1
    <3>3. \A i \in 1..n + 1 : T2[i] >= sb - 1
      BY <1>2, <1>7, <1>8, <3>1
    <3>4. QED
      BY <1>2, <1>7, <3>1, <3>2, <3>3
  <2>3. QED
    BY <2>1, <2>2
<1>11. QED
  BY <1>5, <1>6, <1>7, <1>9, <1>10 DEF FitInv

\* The steps before the first seed: whatever was there, the run ends up with a
\* scaler of its regime, which is the one on disk with nothing older beside it.
LEMMA ScalerSteps ==
    ASSUME TrainingTypes, ~torn => FilesInv,
           \/ \E c \in Configs, plan \in Plans : StartRun(c, plan)
           \/ LoadScaler \/ FitScaler \/ SaveScalerMetadata \/ UnlinkBackground \/ SaveBackground
    PROVE  TrainingTypes' /\ (~torn' => FilesInv')
<1>1. UNCHANGED <<weightsDir, torn, report>>
  BY DEF StartRun, LoadScaler, FitScaler, SaveScalerMetadata, UnlinkBackground, SaveBackground
<1>2. \A c \in Configs : RegimeOf[c] \in Spaces
  BY DEF Spaces
<1>3. Absent \in Spaces
  BY DEF Spaces
<1>4. /\ run \in [pos : TrainingPositions, config : Configs \union {Absent}, plan : StagePlans, scaler : Spaces]
      /\ scalerDir \in [params : Spaces, meta : Spaces, background : Spaces]
      /\ run.pos # "idle" => run.config \in Configs /\ run.plan # <<>>
  BY DEF TrainingTypes
<1>5. /\ run' \in [pos : TrainingPositions, config : Configs \union {Absent}, plan : StagePlans, scaler : Spaces]
      /\ scalerDir' \in [params : Spaces, meta : Spaces, background : Spaces]
      /\ run'.config \in Configs /\ run'.plan # <<>>
      /\ run'.pos \notin {"epoch", "save"}
  <2>1. ASSUME NEW c \in Configs, NEW plan \in Plans, StartRun(c, plan)
        PROVE  /\ run' \in [pos : TrainingPositions, config : Configs \union {Absent}, plan : StagePlans, scaler : Spaces]
               /\ scalerDir' \in [params : Spaces, meta : Spaces, background : Spaces]
               /\ run'.config \in Configs /\ run'.plan # <<>>
               /\ run'.pos \notin {"epoch", "save"}
    <3>1. plan \in StagePlans /\ plan # <<>>
      BY PlansAreStages
    <3>2. /\ run' = [pos |-> "scaler", config |-> c, plan |-> plan, scaler |-> Absent]
          /\ scalerDir' = scalerDir
      BY <2>1 DEF StartRun
    <3>3. QED
      BY <1>3, <1>4, <3>1, <3>2 DEF TrainingPositions
  <2>2. CASE LoadScaler
    BY <1>4, <2>2 DEF LoadScaler, TrainingPositions
  <2>3. CASE FitScaler
    BY <1>2, <1>4, <2>3 DEF FitScaler, TrainingPositions
  <2>4. CASE SaveScalerMetadata
    BY <1>4, <2>4 DEF SaveScalerMetadata, TrainingPositions
  <2>5. CASE UnlinkBackground
    BY <1>3, <1>4, <2>5 DEF UnlinkBackground, TrainingPositions
  <2>6. CASE SaveBackground
    BY <1>4, <2>6 DEF SaveBackground, TrainingPositions
  <2>7. QED
    BY <2>1, <2>2, <2>3, <2>4, <2>5, <2>6
<1>6. TrainingTypes'
  BY <1>1, <1>5 DEF TrainingTypes
<1>7. ASSUME ~torn' PROVE FilesInv'
  <2>1. ScalerInv /\ MembersInv /\ BackgroundFitsTheScaler /\ EvaluatedInItsOwnSpace
    BY <1>1, <1>7 DEF FilesInv
  <2>2. MembersInv' /\ EvaluatedInItsOwnSpace'
    BY <1>1, <1>5, <2>1 DEF MembersInv, EvaluatedInItsOwnSpace
  <2>3. ScalerInv' /\ BackgroundFitsTheScaler'
    <3>1. CASE \E c \in Configs, plan \in Plans : StartRun(c, plan)
      BY <2>1, <3>1 DEF StartRun, ScalerInv, BackgroundFitsTheScaler
    <3>2. CASE LoadScaler
      BY <1>4, <2>1, <3>2 DEF LoadScaler, scaler_matches_data, ScalerInv, BackgroundFitsTheScaler
    <3>3. CASE FitScaler
      BY <1>4, <2>1, <3>3 DEF FitScaler, ScalerInv, BackgroundFitsTheScaler
    <3>4. CASE SaveScalerMetadata
      BY <1>4, <2>1, <3>4 DEF SaveScalerMetadata, ScalerInv, BackgroundFitsTheScaler
    <3>5. CASE UnlinkBackground
      BY <1>4, <2>1, <3>5 DEF UnlinkBackground, ScalerInv, BackgroundFitsTheScaler
    <3>6. CASE SaveBackground
      BY <1>4, <2>1, <3>6 DEF SaveBackground, ScalerInv, BackgroundFitsTheScaler
    <3>7. QED
      BY <3>1, <3>2, <3>3, <3>4, <3>5, <3>6
  <2>4. QED
    BY <2>2, <2>3 DEF FilesInv
<1>8. QED
  BY <1>6, <1>7

\* The steps of a seed: what is trained is said to be of the run's scaler.
LEMMA SeedSteps ==
    ASSUME TrainingTypes, ~torn => FilesInv, BeginSeed \/ SaveWeights \/ SaveModelMetadata
    PROVE  TrainingTypes' /\ (~torn' => FilesInv')
<1>1. UNCHANGED <<scalerDir, torn, report>> /\ run.pos # "idle"
  BY DEF BeginSeed, SaveWeights, SaveModelMetadata
<1>2. PICK c, s, st, t :
        /\ c = run.config /\ s = Seed /\ st = Stage /\ t = Trained
  OBVIOUS
<1>3. /\ c \in Configs /\ s \in Seeds /\ st \in {"dynamics", "heads"}
      /\ run.plan \in StagePlans /\ run.plan # <<>> /\ Tail(run.plan) \in StagePlans
      /\ Len(run.plan) # 1 => Tail(run.plan) # <<>>
      /\ t \in [dynamics : Spaces, heads : Spaces, dropped : Spaces]
      /\ t = weightsDir[c][s]
  BY <1>1, <1>2, AtStage DEF Trained
<1>4. /\ run \in [pos : TrainingPositions, config : Configs \union {Absent}, plan : StagePlans, scaler : Spaces]
      /\ weightsDir \in [Configs -> [Seeds -> [dynamics : Spaces, heads : Spaces, dropped : Spaces]]]
      /\ "fresh" \in Spaces /\ Absent \in Spaces
  BY DEF TrainingTypes, Spaces
<1>5. CASE BeginSeed
  <2>1. /\ run' = [run EXCEPT !.pos = "epoch"] /\ weightsDir' = weightsDir
        /\ st = "heads" => t.dynamics # Absent
        /\ run.pos = "seed"
    BY <1>2, <1>5 DEF BeginSeed
  <2>2. run'.config = c /\ run'.plan = run.plan /\ run'.pos = "epoch" /\ run'.scaler = run.scaler
    BY <1>2, <1>4, <2>1
  <2>3. TrainingTypes'
    BY <1>1, <1>3, <1>4, <2>1 DEF TrainingTypes, TrainingPositions
  <2>4. ASSUME ~torn PROVE FilesInv'
    <3>1. ScalerInv' /\ BackgroundFitsTheScaler' /\ EvaluatedInItsOwnSpace'
      BY <1>1, <1>2, <2>1, <2>2, <2>4 DEF FilesInv, ScalerInv, BackgroundFitsTheScaler, EvaluatedInItsOwnSpace
    <3>2. Stage' = st /\ Seed' = s /\ Trained' = t
      BY <1>2, <1>3, <2>1, <2>2 DEF Stage, Seed, Trained
    <3>3. MembersInv'
      BY <1>1, <2>1, <2>4, <3>2 DEF FilesInv, MembersInv
    <3>4. QED
      BY <3>1, <3>3 DEF FilesInv
  <2>5. QED
    BY <1>1, <2>3, <2>4
<1>6. CASE SaveWeights
  <2>1. run.pos = "save" /\ run' = [run EXCEPT !.pos = "model metadata"]
    BY <1>6 DEF SaveWeights
  <2>2. PICK u : u = IF st = "dynamics" THEN [t EXCEPT !.dynamics = run.scaler, !.heads = "fresh"]
                     ELSE [t EXCEPT !.heads = run.scaler]
    OBVIOUS
  <2>3. weightsDir' = [weightsDir EXCEPT ![c][s] = u]
    BY <1>2, <1>3, <1>4, <1>6, <2>2 DEF SaveWeights
  <2>4. /\ u \in [dynamics : Spaces, heads : Spaces, dropped : Spaces]
        /\ st = "dynamics" => u.dynamics = run.scaler /\ u.heads = "fresh" /\ u.dropped = t.dropped
        /\ st = "heads" => u.dynamics = t.dynamics /\ u.heads = run.scaler /\ u.dropped = t.dropped
    <3>1. run.scaler \in Spaces
      BY <1>4
    <3>2. QED
      BY <1>3, <1>4, <2>2, <3>1
  <2>5. /\ weightsDir' \in [Configs -> [Seeds -> [dynamics : Spaces, heads : Spaces, dropped : Spaces]]]
        /\ weightsDir'[c][s] = u
        /\ \A d \in Configs, z \in Seeds : <<d, z>> # <<c, s>> => weightsDir'[d][z] = weightsDir[d][z]
    BY <1>3, <1>4, <2>3, <2>4
  <2>6. TrainingTypes'
    BY <1>1, <1>3, <1>4, <2>1, <2>5 DEF TrainingTypes, TrainingPositions
  <2>7. ASSUME ~torn PROVE FilesInv'
    <3>1. ScalerInv /\ MembersInv /\ BackgroundFitsTheScaler /\ EvaluatedInItsOwnSpace
      BY <2>7 DEF FilesInv
    <3>2. ScalerInv' /\ BackgroundFitsTheScaler' /\ EvaluatedInItsOwnSpace'
      BY <1>1, <1>4, <2>1, <3>1 DEF ScalerInv, BackgroundFitsTheScaler, EvaluatedInItsOwnSpace
    <3>3. run.scaler = RegimeOf[c]
      BY <1>2, <2>1, <3>1 DEF ScalerInv
    <3>4. MemberFits(u, c)
      <4>1. t.dynamics \in {Absent, RegimeOf[c]} /\ t.dropped \in {Absent, RegimeOf[c]}
            /\ (st = "heads" => t.dynamics # Absent)
        BY <1>2, <1>3, <2>1, <3>1 DEF MembersInv, MemberFits
      <4>2. QED
        BY <1>3, <2>4, <3>1, <3>3, <4>1 DEF MembersInv, MemberFits
    <3>5. MembersInv'
      <4>1. run'.pos = "model metadata"
        BY <1>4, <2>1
      <4>2. \A d \in Configs, z \in Seeds : MemberFits(weightsDir'[d][z], d)
        <5>1. ASSUME NEW d \in Configs, NEW z \in Seeds PROVE MemberFits(weightsDir'[d][z], d)
          <6>1. CASE d = c /\ z = s
            BY <2>5, <3>4, <6>1
          <6>2. CASE ~(d = c /\ z = s)
            <7>1. weightsDir'[d][z] = weightsDir[d][z]
              BY <2>5, <6>2
            <7>2. QED
              BY <3>1, <7>1 DEF MembersInv
          <6>3. QED
            BY <6>1, <6>2
        <5>2. QED
          BY <5>1
      <4>3. QED
        BY <4>1, <4>2 DEF MembersInv
    <3>6. QED
      BY <3>2, <3>5 DEF FilesInv
  <2>8. QED
    BY <1>1, <2>6, <2>7
<1>7. CASE SaveModelMetadata
  <2>1. /\ run.pos = "model metadata"
        /\ run' = IF Len(run.plan) = 1 THEN NoRun ELSE [run EXCEPT !.pos = "seed", !.plan = Tail(run.plan)]
    BY <1>4, <1>7 DEF SaveModelMetadata
  <2>2. /\ run' \in [pos : TrainingPositions, config : Configs \union {Absent}, plan : StagePlans, scaler : Spaces]
        /\ run'.pos # "idle" => run'.config \in Configs /\ run'.plan # <<>>
        /\ run'.pos \in {"idle", "seed"}
        /\ run'.pos = "seed" => run'.config = run.config /\ run'.scaler = run.scaler
    <3>1. CASE Len(run.plan) = 1
      <4>1. run' = [pos |-> "idle", config |-> Absent, plan |-> <<>>, scaler |-> Absent]
        BY <2>1, <3>1 DEF NoRun
      <4>2. <<>> \in StagePlans
        BY DEF StagePlans
      <4>3. QED
        BY <1>4, <4>1, <4>2 DEF TrainingPositions
    <3>2. CASE Len(run.plan) # 1
      BY <1>2, <1>3, <1>4, <2>1, <3>2 DEF TrainingPositions
    <3>3. QED
      BY <3>1, <3>2
  <2>3. PICK u : u = [t EXCEPT !.dropped = IF st = "dynamics" THEN run.scaler ELSE t.dropped]
    OBVIOUS
  <2>4. weightsDir' = [weightsDir EXCEPT ![c][s] = u]
    BY <1>2, <1>3, <1>4, <1>7, <2>3 DEF SaveModelMetadata
  <2>5. /\ u \in [dynamics : Spaces, heads : Spaces, dropped : Spaces]
        /\ u.dynamics = t.dynamics /\ u.heads = t.heads /\ u.dropped \in {t.dropped, run.scaler}
    <3>1. run.scaler \in Spaces
      BY <1>4
    <3>2. QED
      BY <1>3, <2>3, <3>1
  <2>6. /\ weightsDir' \in [Configs -> [Seeds -> [dynamics : Spaces, heads : Spaces, dropped : Spaces]]]
        /\ weightsDir'[c][s] = u
        /\ \A d \in Configs, z \in Seeds : <<d, z>> # <<c, s>> => weightsDir'[d][z] = weightsDir[d][z]
    BY <1>3, <1>4, <2>4, <2>5
  <2>7. TrainingTypes'
    BY <1>1, <2>2, <2>6 DEF TrainingTypes
  <2>8. ASSUME ~torn PROVE FilesInv'
    <3>1. ScalerInv /\ MembersInv /\ BackgroundFitsTheScaler /\ EvaluatedInItsOwnSpace
      BY <2>8 DEF FilesInv
    <3>2. ScalerInv' /\ BackgroundFitsTheScaler' /\ EvaluatedInItsOwnSpace'
      BY <1>1, <2>1, <2>2, <3>1 DEF ScalerInv, BackgroundFitsTheScaler, EvaluatedInItsOwnSpace
    <3>3. run.scaler = RegimeOf[c]
      BY <1>2, <2>1, <3>1 DEF ScalerInv
    <3>4. MembersInv'
      <4>1. \A d \in Configs, z \in Seeds : MemberFits(weightsDir'[d][z], d)
        <5>1. ASSUME NEW d \in Configs, NEW z \in Seeds PROVE MemberFits(weightsDir'[d][z], d)
          <6>1. MemberFits(weightsDir[d][z], d)
            BY <3>1 DEF MembersInv
          <6>2. CASE d = c /\ z = s
            BY <1>3, <2>5, <2>6, <3>3, <6>1, <6>2 DEF MemberFits
          <6>3. CASE ~(d = c /\ z = s)
            BY <2>6, <6>1, <6>3
          <6>4. QED
            BY <6>2, <6>3
        <5>2. QED
          BY <5>1
      <4>2. run'.pos \notin {"epoch", "save"}
        BY <2>2
      <4>3. QED
        BY <4>1, <4>2 DEF MembersInv
    <3>5. QED
      BY <3>2, <3>4 DEF FilesInv
  <2>9. QED
    BY <1>1, <2>7, <2>8
<1>8. QED
  BY <1>5, <1>6, <1>7

\* A run ends, finished or not; only one that is killed while it replaces the
\* scaler leaves it torn.
LEMMA RunEnds ==
    ASSUME TrainingTypes, ~torn => FilesInv, RunFails \/ Killed
    PROVE  TrainingTypes' /\ (~torn' => FilesInv')
<1>1. /\ UNCHANGED <<scalerDir, weightsDir, report>> /\ run' = NoRun
      /\ torn' \in BOOLEAN
      /\ ~torn' => ~torn /\ run.pos \notin {"metadata", "unlink"}
  <2>1. CASE RunFails
    BY <2>1 DEF RunFails, TrainingTypes
  <2>2. CASE Killed
    BY <2>2 DEF Killed, TrainingTypes
  <2>3. QED
    BY <2>1, <2>2
<1>2. /\ run' = [pos |-> "idle", config |-> Absent, plan |-> <<>>, scaler |-> Absent]
      /\ <<>> \in StagePlans /\ Absent \in Spaces
  BY <1>1 DEF NoRun, StagePlans, Spaces
<1>3. TrainingTypes'
  <2>1. run' \in [pos : TrainingPositions, config : Configs \union {Absent}, plan : StagePlans, scaler : Spaces]
    BY <1>2 DEF TrainingPositions
  <2>2. run'.pos = "idle"
    BY <1>2
  <2>3. QED
    BY <1>1, <2>1, <2>2 DEF TrainingTypes
<1>4. ASSUME ~torn' PROVE FilesInv'
  <2>1. ScalerInv /\ MembersInv /\ BackgroundFitsTheScaler /\ EvaluatedInItsOwnSpace
    BY <1>1, <1>4 DEF FilesInv
  <2>2. QED
    BY <1>1, <1>2, <1>4, <2>1 DEF FilesInv, ScalerInv, MembersInv, BackgroundFitsTheScaler,
       EvaluatedInItsOwnSpace
<1>5. QED
  BY <1>3, <1>4

\* An epoch touches no file.
LEMMA EpochSteps ==
    ASSUME TrainingTypes, ~torn => FilesInv, NEW score, NEW stageScore, Epoch(score, stageScore)
    PROVE  TrainingTypes' /\ (~torn' => FilesInv')
<1>1. /\ UNCHANGED <<scalerDir, weightsDir, torn, report>> /\ run.pos = "epoch"
      /\ run' \in {[run EXCEPT !.pos = "save"], run}
  BY DEF Epoch
<1>2. run \in [pos : TrainingPositions, config : Configs \union {Absent}, plan : StagePlans, scaler : Spaces]
  BY DEF TrainingTypes
<1>3. /\ run' \in [pos : TrainingPositions, config : Configs \union {Absent}, plan : StagePlans, scaler : Spaces]
      /\ run'.pos \in {"epoch", "save"} /\ run'.config = run.config /\ run'.plan = run.plan
      /\ run'.scaler = run.scaler
  BY <1>1, <1>2 DEF TrainingPositions
<1>4. TrainingTypes'
  BY <1>1, <1>3 DEF TrainingTypes
<1>5. ASSUME ~torn' PROVE FilesInv'
  <2>1. ScalerInv /\ MembersInv /\ BackgroundFitsTheScaler /\ EvaluatedInItsOwnSpace
    BY <1>1, <1>5 DEF FilesInv
  <2>2. Stage' = Stage /\ Trained' = Trained
    BY <1>1, <1>3 DEF Stage, Seed, Trained
  <2>3. QED
    BY <1>1, <1>3, <2>1, <2>2 DEF FilesInv, ScalerInv, MembersInv, BackgroundFitsTheScaler,
       EvaluatedInItsOwnSpace
<1>6. QED
  BY <1>4, <1>5

\* A benchmark of members whose record is that of the scaler, or missing, feeds
\* those that have one what they were trained on.
LEMMA BenchmarkSteps ==
    ASSUME TrainingTypes, ~torn => FilesInv, NEW c \in Configs, Benchmark(c)
    PROVE  TrainingTypes' /\ (~torn' => FilesInv')
<1>1. /\ UNCHANGED <<scalerDir, weightsDir, run, fit, torn>>
      /\ report' = <<[members |-> weightsDir[c], scaler |-> scalerDir.params]>>
      /\ \A s \in Seeds : /\ weightsDir[c][s].dynamics # Absent
                          /\ weightsDir[c][s].dropped \in {Absent, scalerDir.params}
  BY DEF Benchmark, ScalerMatches
<1>2. TrainingTypes'
  BY <1>1 DEF TrainingTypes
<1>3. ASSUME ~torn' PROVE FilesInv'
  <2>1. ScalerInv /\ MembersInv /\ BackgroundFitsTheScaler
    BY <1>1, <1>3 DEF FilesInv
  <2>2. ASSUME NEW s \in Seeds, weightsDir[c][s].dropped # Absent
        PROVE  weightsDir[c][s].dynamics = scalerDir.params
    BY <1>1, <2>1, <2>2 DEF MembersInv, MemberFits
  <2>3. EvaluatedInItsOwnSpace'
    <3>1. DOMAIN report' = {1} /\ report'[1].members = weightsDir[c] /\ report'[1].scaler = scalerDir.params
      BY <1>1
    <3>2. QED
      BY <2>2, <3>1 DEF EvaluatedInItsOwnSpace
  <2>4. Stage' = Stage /\ Trained' = Trained
    BY <1>1 DEF Stage, Seed, Trained
  <2>5. QED
    BY <1>1, <2>1, <2>3, <2>4 DEF FilesInv, ScalerInv, MembersInv, BackgroundFitsTheScaler
<1>4. QED
  BY <1>2, <1>3

\* Nothing is trained yet.
LEMMA TrainingBegins == TrainingInit => TrainingInv
<1> SUFFICES ASSUME TrainingInit PROVE TrainingInv
  OBVIOUS
<1>1. /\ scalerDir = [params |-> Absent, meta |-> Absent, background |-> Absent]
      /\ weightsDir = [c \in Configs |-> [s \in Seeds |->
                        [dynamics |-> Absent, heads |-> Absent, dropped |-> Absent]]]
      /\ run = [pos |-> "idle", config |-> Absent, plan |-> <<>>, scaler |-> Absent]
      /\ torn = FALSE /\ report = <<>>
  BY DEF TrainingInit, NoRun
<1>2. <<>> \in StagePlans /\ Absent \in Spaces
  BY DEF StagePlans, Spaces
<1>3. TrainingTypes
  BY <1>1, <1>2 DEF TrainingTypes, TrainingPositions
<1>4. FitInv
  <2>1. /\ fit.scores = <<>> /\ fit.stageScores = <<>> /\ fit.best = Infinite
        /\ fit.stageBest = Infinite /\ fit.bestAt = 0 /\ fit.stageAt = 0 /\ Infinite \in Int
    BY DEF TrainingInit, NoFit, Infinite
  <2>2. QED
    BY <2>1 DEF FitInv
<1>5. FilesInv
  BY <1>1 DEF FilesInv, ScalerInv, MembersInv, MemberFits, BackgroundFitsTheScaler, EvaluatedInItsOwnSpace
<1>6. QED
  BY <1>3, <1>4, <1>5 DEF TrainingInv

\* Every step keeps it.
LEMMA TrainingKeeps ==
    ASSUME TrainingInv, [TrainingNext]_trainingVars
    PROVE  TrainingInv'
<1>1. TrainingTypes /\ FitInv /\ (~torn => FilesInv)
  BY DEF TrainingInv
<1>2. CASE \/ \E c \in Configs, plan \in Plans : StartRun(c, plan)
           \/ LoadScaler \/ FitScaler \/ SaveScalerMetadata \/ UnlinkBackground \/ SaveBackground
  <2>1. fit' = fit
    BY <1>2 DEF StartRun, LoadScaler, FitScaler, SaveScalerMetadata, UnlinkBackground, SaveBackground
  <2>2. QED
    BY <1>1, <1>2, <2>1, ScalerSteps, FitStays DEF TrainingInv
<1>3. CASE BeginSeed \/ SaveWeights \/ SaveModelMetadata
  <2>1. fit' \in {fit, NoFit}
    BY <1>3 DEF BeginSeed, SaveWeights, SaveModelMetadata
  <2>2. QED
    BY <1>1, <1>3, <2>1, SeedSteps, FitStays DEF TrainingInv
<1>4. ASSUME NEW score \in Scores \union {NaN},
             NEW stageScore \in IF Stage = "heads" THEN Scores ELSE {0}, Epoch(score, stageScore)
      PROVE  TrainingInv'
  <2>1. stageScore \in Scores \union {0}
    OBVIOUS
  <2>2. QED
    BY <1>1, <1>4, <2>1, EpochSteps, EpochKeepsBest DEF TrainingInv
<1>5. CASE RunFails \/ Killed
  <2>1. fit' = NoFit
    BY <1>5 DEF RunFails, Killed
  <2>2. QED
    BY <1>1, <1>5, <2>1, RunEnds, FitStays DEF TrainingInv
<1>6. ASSUME NEW c \in Configs, Benchmark(c) PROVE TrainingInv'
  <2>1. fit' = fit
    BY <1>6 DEF Benchmark
  <2>2. QED
    BY <1>1, <1>6, <2>1, BenchmarkSteps, FitStays DEF TrainingInv
<1>7. CASE UNCHANGED trainingVars
  <2>1. TrainingTypes' /\ fit' = fit
    BY <1>1, <1>7 DEF TrainingTypes, trainingVars
  <2>2. ASSUME ~torn' PROVE FilesInv'
    BY <1>1, <1>7, <2>2 DEF trainingVars, FilesInv, ScalerInv, MembersInv, BackgroundFitsTheScaler,
       EvaluatedInItsOwnSpace, Stage, Seed, Trained
  <2>3. QED
    BY <1>1, <2>1, <2>2, FitStays DEF TrainingInv
<1>8. QED
  BY <1>2, <1>3, <1>4, <1>5, <1>6, <1>7 DEF TrainingNext

\* What the invariant says of the files is what the benchmark needs.
LEMMA TrainingIsSound == TrainingInv => CheckpointsAreSound
<1> SUFFICES ASSUME TrainingInv PROVE CheckpointsAreSound
  OBVIOUS
<1>1. OneInputSpace
  BY DEF TrainingInv, FilesInv, MembersInv, MemberFits, OneInputSpace, TrainedInItsRegime,
     HeadsFitTheirDynamics
<1>2. KeptIsBest
  <2>1. PICK n, S, T : n = Len(fit.scores) /\ S = fit.scores /\ T = fit.stageScores
    OBVIOUS
  <2>2. /\ S \in Seq(Int) /\ T \in Seq(Int) /\ Len(S) = n /\ Len(T) = n /\ n \in Nat
        /\ \A i \in 1..n : S[i] # NaN => S[i] >= fit.best - 1
        /\ \A i \in 1..n : T[i] >= fit.stageBest - 1
        /\ fit.bestAt # 0 => fit.bestAt \in 1..n /\ S[fit.bestAt] = fit.best
        /\ fit.stageAt = 0 => n = 0
        /\ fit.stageAt # 0 => T[fit.stageAt] = fit.stageBest
    BY <2>1 DEF TrainingInv, FitInv
  <2>3. DOMAIN S = 1..n
    BY <2>2
  <2>4. fit.bestAt # 0 => \A i \in DOMAIN S : S[i] # NaN => S[i] >= S[KeptEpoch(fit.bestAt)] - 1
    BY <2>2, <2>3 DEF KeptEpoch
  <2>5. \A i \in DOMAIN S : T[i] >= T[KeptEpoch(fit.stageAt)] - 1
    BY <2>2, <2>3 DEF KeptEpoch
  <2>6. QED
    BY <2>1, <2>4, <2>5 DEF KeptIsBest
<1>3. QED
  BY <1>1, <1>2 DEF CheckpointsAreSound

\* Unless a run died while it replaced the shared scaler, what was fitted behind
\* it is of one input space, and a benchmark feeds no member another one's; and
\* the heads that are saved are the best their loop had seen, each by its own score.
THEOREM CheckpointsAreSoundHolds == TrainingSpec => []CheckpointsAreSound
<1>1. TrainingInit => TrainingInv
  BY TrainingBegins
<1>2. TrainingInv /\ [TrainingNext]_trainingVars => TrainingInv'
  BY TrainingKeeps
<1>3. TrainingInv => CheckpointsAreSound
  BY TrainingIsSound
<1>4. QED
  BY <1>1, <1>2, <1>3, PTL DEF TrainingSpec

-----------------------------------------------------------------------------
(***************************************************************************)
(* Induction on the naturals, for a property given as the set of those     *)
(* that have it.                                                           *)
(***************************************************************************)
\* Some number of the set is the least.
LEMMA LeastNat ==
    ASSUME NEW T, T \subseteq Nat, T # {}
    PROVE  \E x \in T : \A y \in T : x <= y
<1>1. PICK U : U = {0 .. t : t \in T}
  OBVIOUS
<1>2. U # {} /\ \A u \in U : u \in FiniteSubsetsOf(Nat)
  <2>1. \A t \in T : 0 .. t \in SUBSET Nat /\ IsFiniteSet(0 .. t)
    BY FS_Interval
  <2>2. QED
    BY <1>1, <2>1 DEF FiniteSubsetsOf
<1>3. PICK u \in U : \A v \in U : ~ (<<v, u>> \in StrictSubsetOrdering(Nat))
  BY <1>2, FS_StrictSubsetOrderingWellFounded, WFMin
<1>4. \A v \in U : ~ (v \subseteq u /\ v # u)
  <2>1. TAKE v \in U
  <2>2. v \in SUBSET Nat /\ u \in SUBSET Nat
    BY <1>2 DEF FiniteSubsetsOf
  <2>3. <<v, u>> \in (SUBSET Nat) \X (SUBSET Nat) /\ <<v, u>>[1] = v /\ <<v, u>>[2] = u
    BY <2>2
  <2>4. QED
    BY <1>3, <2>3 DEF StrictSubsetOrdering
<1>5. PICK x \in T : u = 0 .. x
  BY <1>1, <1>3
<1>6. ASSUME NEW y \in T PROVE x <= y
  <2>1. SUFFICES ASSUME y < x PROVE FALSE
    OBVIOUS
  <2>2. 0 .. y \in U /\ 0 .. y \subseteq u /\ x \in u /\ x \notin 0 .. y
    BY <1>1, <1>5, <2>1
  <2>3. QED
    BY <1>4, <2>2
<1>7. QED
  BY <1>5, <1>6

\* What holds of 0, and of n + 1 when of n, holds of all.
LEMMA ByInduction ==
    ASSUME NEW T, 0 \in T, \A n \in Nat : n \in T => n + 1 \in T
    PROVE  \A n \in Nat : n \in T
<1>1. SUFFICES ASSUME Nat \ T # {} PROVE FALSE
  OBVIOUS
<1>2. PICK x \in Nat \ T : \A y \in Nat \ T : x <= y
  BY <1>1, LeastNat
<1>3. x # 0 /\ x - 1 \in Nat /\ x - 1 \in T
  BY <1>2
<1>4. QED
  BY <1>2, <1>3

-----------------------------------------------------------------------------
(***************************************************************************)
(* The packets of a connection.  The loop over them is a function that     *)
(* satisfies its own equation (SegmentsWalk); what it carries after packet *)
(* i describes the flow that i belongs to.                                 *)
(***************************************************************************)
Packet == [from : Ends, flag : Flags, time : Nat]

LoopState == [seg : Nat, epoch : Nat, start : Nat, fin_seen : Nat, closed : BOOLEAN]

\* The body of the loop, from what it has computed so far.
Opened(f, ps, i) == IF i = 1 THEN Fresh(1, ps, 0, 0) ELSE Cut(f[i - 1].after, ps, i)

LoopBody(f, ps, i) ==
    [seg |-> Opened(f, ps, i).seg, epoch |-> Opened(f, ps, i).epoch,
     after |-> Marked(Opened(f, ps, i), ps[i].flag)]

IsLoop(f, ps, n) == f = [i \in 1..n |-> LoopBody(f, ps, i)]

\* The loop runs over any number of packets.
LEMMA LoopExists ==
    ASSUME NEW ps, NEW n \in Nat
    PROVE  \E f : IsLoop(f, ps, n)
<1>1. PICK T : T = {m \in Nat : \E f : IsLoop(f, ps, m)}
  OBVIOUS
<1>2. 0 \in T
  <2>1. PICK f : f = [i \in 1..0 |-> i]
    OBVIOUS
  <2>2. IsLoop(f, ps, 0)
    BY <2>1 DEF IsLoop
  <2>3. QED
    BY <1>1, <2>2
<1>3. ASSUME NEW m \in Nat, m \in T PROVE m + 1 \in T
  <2>1. PICK f : IsLoop(f, ps, m)
    BY <1>1, <1>3
  <2>2. PICK g : g = [i \in 1..m + 1 |-> LoopBody(f, ps, i)]
    OBVIOUS
  <2>3. \A i \in 1..m : g[i] = f[i]
    BY <2>1, <2>2 DEF IsLoop
  <2>4. \A i \in 1..m + 1 : LoopBody(g, ps, i) = LoopBody(f, ps, i)
    <3>1. TAKE i \in 1..m + 1
    <3>2. i # 1 => i - 1 \in 1..m
      OBVIOUS
    <3>3. Opened(g, ps, i) = Opened(f, ps, i)
      BY <2>3, <3>2 DEF Opened
    <3>4. QED
      BY <3>3 DEF LoopBody
  <2>5. IsLoop(g, ps, m + 1)
    BY <2>2, <2>4 DEF IsLoop
  <2>6. QED
    BY <1>1, <2>5
<1>4. QED
  BY <1>1, <1>2, <1>3, ByInduction

\* segment_ids numbers the packets as its loop does.
LEMMA SegmentsLoop ==
    ASSUME NEW ps \in Seq(Packet)
    PROVE  \E f : /\ IsLoop(f, ps, Len(ps))
                  /\ segment_ids(ps) = [i \in 1..Len(ps) |-> [seg |-> f[i].seg, epoch |-> f[i].epoch]]
<1>1. PICK f : f = CHOOSE g : IsLoop(g, ps, Len(ps))
  OBVIOUS
<1>2. IsLoop(f, ps, Len(ps))
  BY <1>1, LoopExists
<1>3. segment_ids(ps) = [i \in 1..Len(ps) |-> [seg |-> f[i].seg, epoch |-> f[i].epoch]]
  BY <1>1 DEF segment_ids, IsLoop, LoopBody, Opened
<1>4. QED
  BY <1>2, <1>3

\* What the loop carries after each packet.
Entered(w, ps, i) == IF i = 1 THEN Fresh(1, ps, 0, 0) ELSE Cut(w[i - 1], ps, i)

IsWalk(w, ps, ids) ==
    /\ \A i \in 1..Len(ps) : w[i] \in LoopState /\ w[i] = Marked(Entered(w, ps, i), ps[i].flag)
    /\ \A i \in 1..Len(ps) : ids[i].seg = w[i].seg /\ ids[i].epoch = w[i].epoch

\* A mark leaves the numbers of a flow alone.
LEMMA MarkedState ==
    ASSUME NEW st \in LoopState, NEW flag \in Flags
    PROVE  /\ Marked(st, flag) \in LoopState
           /\ Marked(st, flag).seg = st.seg /\ Marked(st, flag).epoch = st.epoch
           /\ Marked(st, flag).start = st.start
           /\ flag = "fin" => Marked(st, flag).fin_seen = st.fin_seen + 1
           /\ flag # "fin" => Marked(st, flag).fin_seen = st.fin_seen
           /\ flag = "rst" => Marked(st, flag).closed = TRUE
           /\ flag = "fin" => Marked(st, flag).closed = (st.fin_seen + 1 >= FinCloses)
           /\ flag = "none" => Marked(st, flag).closed = st.closed
<1>1. CASE flag = "rst"
  BY <1>1 DEF Marked, LoopState
<1>2. CASE flag = "fin"
  <2>1. PICK c, m : c = (st.fin_seen + 1 >= FinCloses) /\ m = st.fin_seen + 1
    OBVIOUS
  <2>2. c \in BOOLEAN /\ m \in Nat
    <3>1. (st.fin_seen + 1 >= FinCloses) \in BOOLEAN
      OBVIOUS
    <3>2. QED
      BY <2>1, <3>1 DEF LoopState
  <2>3. Marked(st, flag) = [st EXCEPT !.fin_seen = m, !.closed = c]
    BY <1>2, <2>1 DEF Marked
  <2>4. QED
    BY <1>2, <2>1, <2>2, <2>3 DEF LoopState
<1>3. CASE flag = "none"
  <2>1. Marked(st, flag) = st
    BY <1>3 DEF Marked
  <2>2. QED
    BY <1>3, <2>1
<1>4. QED
  BY <1>1, <1>2, <1>3 DEF Flags

\* The fields of a packet.
LEMMA PacketFields ==
    ASSUME NEW ps \in Seq(Packet)
    PROVE  \A i \in 1..Len(ps) : ps[i].time \in Nat /\ ps[i].flag \in Flags /\ ps[i].from \in Ends
<1>1. \A i \in 1..Len(ps) : ps[i] \in Packet
  OBVIOUS
<1>2. QED
  BY <1>1 DEF Packet

\* A flow that is opened has the next number, and nothing of the one before.
LEMMA CutState ==
    ASSUME NEW ps \in Seq(Packet), NEW i \in 1..Len(ps), NEW st \in LoopState
    PROVE  /\ Cut(st, ps, i) \in LoopState
           /\ ~st.closed /\ ps[i].time - st.start <= FlowTimeout => Cut(st, ps, i) = st
           /\ st.closed \/ ps[i].time - st.start > FlowTimeout
                 => Cut(st, ps, i) = Fresh(i, ps, st.seg + 1, IF st.closed THEN st.epoch + 1 ELSE st.epoch)
<1>1. /\ ps[i].time \in Nat /\ st.start \in Nat /\ st.closed \in BOOLEAN
      /\ st.seg \in Nat /\ st.epoch \in Nat /\ FlowTimeout \in Nat
  BY PacketFields, AssemblyAssumption DEF LoopState, AssemblyAssumption
<1>2. CASE ~st.closed /\ ps[i].time - st.start <= FlowTimeout
  <2>1. ~(ps[i].time - st.start > FlowTimeout)
    BY <1>1, <1>2
  <2>2. QED
    BY <1>2, <2>1 DEF Cut
<1>3. CASE st.closed \/ ps[i].time - st.start > FlowTimeout
  <2>1. ~(~st.closed /\ ps[i].time - st.start <= FlowTimeout)
    BY <1>1, <1>3
  <2>2. PICK e \in Nat : e = IF st.closed THEN st.epoch + 1 ELSE st.epoch
    BY DEF LoopState
  <2>3. Cut(st, ps, i) = Fresh(i, ps, st.seg + 1, e)
    BY <1>3, <2>2 DEF Cut
  <2>4. Fresh(i, ps, st.seg + 1, e) \in LoopState
    BY <1>1 DEF Fresh, LoopState
  <2>5. QED
    BY <2>1, <2>2, <2>3, <2>4
<1>4. QED
  BY <1>1, <1>2, <1>3

\* segment_ids walks over the packets.
LEMMA SegmentsWalk ==
    ASSUME NEW ps \in Seq(Packet)
    PROVE  \E w : IsWalk(w, ps, segment_ids(ps))
<1>1. PICK f : /\ IsLoop(f, ps, Len(ps))
               /\ segment_ids(ps) = [i \in 1..Len(ps) |-> [seg |-> f[i].seg, epoch |-> f[i].epoch]]
  BY SegmentsLoop
<1>2. PICK n \in Nat : n = Len(ps)
  OBVIOUS
<1>3. PICK w : w = [i \in 1..n |-> f[i].after]
  OBVIOUS
<1>4. \A i \in 1..n : /\ f[i].seg = Entered(w, ps, i).seg /\ f[i].epoch = Entered(w, ps, i).epoch
                      /\ w[i] = Marked(Entered(w, ps, i), ps[i].flag)
  <2>1. TAKE i \in 1..n
  <2>2. i # 1 => i - 1 \in 1..n
    OBVIOUS
  <2>3. Opened(f, ps, i) = Entered(w, ps, i)
    BY <1>3, <2>2 DEF Opened, Entered
  <2>4. f[i] = LoopBody(f, ps, i)
    BY <1>1, <1>2 DEF IsLoop
  <2>5. f[i] = [seg |-> Entered(w, ps, i).seg, epoch |-> Entered(w, ps, i).epoch,
                after |-> Marked(Entered(w, ps, i), ps[i].flag)]
    BY <2>3, <2>4 DEF LoopBody
  <2>6. w[i] = f[i].after
    BY <1>3
  <2>7. QED
    BY <2>5, <2>6
<1>5. \A i \in 1..n : ps[i].time \in Nat /\ ps[i].flag \in Flags
  BY <1>2, PacketFields
<1>6. PICK T : T = {m \in Nat : \A i \in 1..n : i = m => w[i] \in LoopState /\ Entered(w, ps, i) \in LoopState}
  OBVIOUS
<1>7. 0 \in T
  BY <1>6
<1>8. ASSUME NEW m \in Nat, m \in T PROVE m + 1 \in T
  <2>1. SUFFICES ASSUME m + 1 \in 1..n PROVE w[m + 1] \in LoopState /\ Entered(w, ps, m + 1) \in LoopState
    BY <1>6
  <2>2. Entered(w, ps, m + 1) \in LoopState
    <3>1. CASE m = 0
      <4>1. Entered(w, ps, 1) = Fresh(1, ps, 0, 0)
        BY DEF Entered
      <4>2. ps[1].time \in Nat
        BY <1>5, <2>1, <3>1
      <4>3. Fresh(1, ps, 0, 0) \in LoopState
        BY <4>2 DEF Fresh, LoopState
      <4>4. QED
        BY <3>1, <4>1, <4>3
    <3>2. CASE m # 0
      <4>1. m \in 1..n /\ w[m] \in LoopState
        BY <1>6, <1>8, <2>1, <3>2
      <4>2. Entered(w, ps, m + 1) = Cut(w[m], ps, m + 1)
        BY <3>2 DEF Entered
      <4>3. QED
        BY <1>2, <2>1, <4>1, <4>2, CutState
    <3>3. QED
      BY <3>1, <3>2
  <2>3. QED
    BY <1>4, <1>5, <2>1, <2>2, MarkedState
<1>9. \A m \in Nat : m \in T
  BY <1>7, <1>8, ByInduction
<1>10. \A i \in 1..n : w[i] \in LoopState /\ Entered(w, ps, i) \in LoopState
  BY <1>6, <1>9
<1>11. \A i \in 1..n : w[i].seg = Entered(w, ps, i).seg /\ w[i].epoch = Entered(w, ps, i).epoch
  <2>1. TAKE i \in 1..n
  <2>2. Entered(w, ps, i) \in LoopState /\ ps[i].flag \in Flags
    BY <1>5, <1>10
  <2>3. /\ Marked(Entered(w, ps, i), ps[i].flag).seg = Entered(w, ps, i).seg
        /\ Marked(Entered(w, ps, i), ps[i].flag).epoch = Entered(w, ps, i).epoch
    BY <2>2, MarkedState
  <2>4. QED
    BY <1>4, <2>3
<1>12. \A i \in 1..n : segment_ids(ps)[i].seg = w[i].seg /\ segment_ids(ps)[i].epoch = w[i].epoch
  BY <1>1, <1>2, <1>4, <1>11
<1>13. QED
  BY <1>2, <1>4, <1>10, <1>12 DEF IsWalk

-----------------------------------------------------------------------------
\* The FINs among some packets, and their number with one packet more.
Fins(ps, s, i) == {k \in s..i : ps[k].flag = "fin"}

\* How the FINs from s on are counted after packet i.
FinStep(ps, s, i) ==
    /\ Cardinality(Fins(ps, s, i)) \in Nat
    /\ ps[i + 1].flag = "fin" => Cardinality(Fins(ps, s, i + 1)) = Cardinality(Fins(ps, s, i)) + 1
    /\ ps[i + 1].flag # "fin" => Cardinality(Fins(ps, s, i + 1)) = Cardinality(Fins(ps, s, i))
    /\ s = i + 1 => Cardinality(Fins(ps, s, i)) = 0

\* They are counted one by one.
LEMMA FinsCounted ==
    ASSUME NEW ps, NEW s \in Nat, NEW i \in Nat, s <= i + 1
    PROVE  FinStep(ps, s, i)
<1>1. IsFiniteSet(Fins(ps, s, i))
  <2>1. s \in Int /\ i \in Int /\ Fins(ps, s, i) \in SUBSET (s..i)
    BY DEF Fins
  <2>2. QED
    BY <2>1, FS_Interval, FS_Subset
<1>2. s..i + 1 = (s..i) \cup {i + 1} /\ i + 1 \notin s..i
  OBVIOUS
<1>3. ps[i + 1].flag = "fin" => Fins(ps, s, i + 1) = Fins(ps, s, i) \cup {i + 1}
  BY <1>2 DEF Fins
<1>4. ps[i + 1].flag # "fin" => Fins(ps, s, i + 1) = Fins(ps, s, i)
  BY <1>2 DEF Fins
<1>5. i + 1 \notin Fins(ps, s, i)
  BY <1>2 DEF Fins
<1>6. s = i + 1 => Fins(ps, s, i) = {}
  BY DEF Fins
<1>7. Cardinality(Fins(ps, s, i)) \in Nat
  BY <1>1, FS_CardinalityType
<1>8. Cardinality(Fins(ps, s, i) \cup {i + 1}) = Cardinality(Fins(ps, s, i)) + 1
  BY <1>1, <1>5, FS_AddElement
<1>9. QED
  BY <1>3, <1>4, <1>6, <1>7, <1>8, FS_EmptySet DEF FinStep

\* A packet opens a flow when it has a number of its own.
Opens(w, i) == i = 1 \/ w[i].seg # w[i - 1].seg

\* The packets from s to i are of one flow, which began at s.
Run(w, ps, s, i) ==
    /\ s \in 1..i /\ Opens(w, s) /\ \A k \in s + 1..i : ~Opens(w, k)
    /\ w[i].seg = w[s].seg /\ w[i].epoch = w[s].epoch
    /\ w[i].start = ps[s].time /\ w[i].fin_seen = Cardinality(Fins(ps, s, i))
    /\ \A k \in s..i - 1 : ps[k].flag # "rst"
    /\ Cardinality(Fins(ps, s, i - 1)) < FinCloses
    /\ w[i].closed <=> \/ ps[i].flag = "rst"
                       \/ ps[i].flag = "fin" /\ Cardinality(Fins(ps, s, i)) >= FinCloses

\* What opens a flow is a run of one.
LEMMA RunBegins ==
    ASSUME NEW ps \in Seq(Packet), NEW w, NEW i \in 1..Len(ps), Opens(w, i),
           w[i] \in LoopState, NEW seg \in Nat, NEW epoch \in Nat,
           w[i] = Marked(Fresh(i, ps, seg, epoch), ps[i].flag)
    PROVE  Run(w, ps, i, i) /\ w[i].seg = seg /\ w[i].epoch = epoch
<1>1. ps[i].flag \in Flags /\ ps[i].time \in Nat
  BY PacketFields
<1>2. PICK st : st = Fresh(i, ps, seg, epoch)
  OBVIOUS
<1>3. /\ st \in LoopState /\ st.seg = seg /\ st.epoch = epoch /\ st.start = ps[i].time
      /\ st.fin_seen = 0 /\ st.closed = FALSE
  BY <1>1, <1>2 DEF Fresh, LoopState
<1>4. FinCloses \in Nat /\ FinCloses > 0
  BY AssemblyAssumption DEF AssemblyAssumption
<1>5. /\ Cardinality(Fins(ps, i, i - 1)) = 0
      /\ ps[i].flag = "fin" => Cardinality(Fins(ps, i, i)) = 1
      /\ ps[i].flag # "fin" => Cardinality(Fins(ps, i, i)) = 0
  <2>1. PICK j \in Nat : j = i - 1
    OBVIOUS
  <2>2. i \in Nat /\ i <= j + 1 /\ i = j + 1
    BY <2>1
  <2>3. /\ ps[j + 1].flag = "fin" => Cardinality(Fins(ps, i, j + 1)) = Cardinality(Fins(ps, i, j)) + 1
        /\ ps[j + 1].flag # "fin" => Cardinality(Fins(ps, i, j + 1)) = Cardinality(Fins(ps, i, j))
        /\ Cardinality(Fins(ps, i, j)) = 0
    <3>1. FinStep(ps, i, j)
      BY <2>2, FinsCounted, Zenon
    <3>2. QED
      BY <2>2, <3>1, Zenon DEF FinStep
  <2>4. 0 + 1 = 1
    OBVIOUS
  <2>5. /\ ps[i].flag = "fin" => Cardinality(Fins(ps, i, i)) = 0 + 1
        /\ ps[i].flag # "fin" => Cardinality(Fins(ps, i, i)) = 0
    BY <2>2, <2>3, Zenon
  <2>6. Cardinality(Fins(ps, i, i - 1)) = 0
    BY <2>1, <2>3, Zenon
  <2>7. QED
    BY <2>4, <2>5, <2>6, Zenon
<1>6. /\ w[i].seg = seg /\ w[i].epoch = epoch /\ w[i].start = ps[i].time
      /\ w[i].fin_seen = IF ps[i].flag = "fin" THEN 1 ELSE 0
  <2>1. /\ Marked(st, ps[i].flag).seg = st.seg /\ Marked(st, ps[i].flag).epoch = st.epoch
        /\ Marked(st, ps[i].flag).start = st.start
        /\ ps[i].flag = "fin" => Marked(st, ps[i].flag).fin_seen = st.fin_seen + 1
        /\ ps[i].flag # "fin" => Marked(st, ps[i].flag).fin_seen = st.fin_seen
    BY <1>1, <1>3, MarkedState
  <2>2. QED
    BY <1>2, <1>3, <2>1
<1>7. w[i].closed <=> \/ ps[i].flag = "rst"
                      \/ ps[i].flag = "fin" /\ Cardinality(Fins(ps, i, i)) >= FinCloses
  <2>1. /\ ps[i].flag = "rst" => Marked(st, ps[i].flag).closed = TRUE
        /\ ps[i].flag = "fin" => Marked(st, ps[i].flag).closed = (st.fin_seen + 1 >= FinCloses)
        /\ ps[i].flag = "none" => Marked(st, ps[i].flag).closed = st.closed
    BY <1>1, <1>3, MarkedState
  <2>2. CASE ps[i].flag = "rst"
    BY <1>2, <2>1, <2>2
  <2>3. CASE ps[i].flag = "fin"
    <3>1. st.fin_seen + 1 = 1
      BY <1>3
    <3>2. w[i].closed = (1 >= FinCloses)
      BY <1>2, <2>1, <2>3, <3>1
    <3>3. QED
      BY <1>5, <2>3, <3>2
  <2>4. CASE ps[i].flag = "none"
    BY <1>2, <1>3, <2>1, <2>4
  <2>5. QED
    BY <1>1, <2>2, <2>3, <2>4 DEF Flags
<1>8. QED
  BY <1>4, <1>5, <1>6, <1>7 DEF Run

\* What neither closes nor times out goes on.
LEMMA RunGoesOn ==
    ASSUME NEW ps \in Seq(Packet), NEW w, NEW i \in 1..Len(ps), i + 1 \in 1..Len(ps), NEW s,
           Run(w, ps, s, i), w[i] \in LoopState, ~w[i].closed,
           w[i + 1] = Marked(w[i], ps[i + 1].flag)
    PROVE  Run(w, ps, s, i + 1) /\ ~Opens(w, i + 1) /\ w[i + 1].epoch = w[i].epoch
<1>1. PICK j \in Nat : j = i + 1
  OBVIOUS
<1>2. ps[j].flag \in Flags /\ ps[i].flag \in Flags
  BY <1>1, PacketFields
<1>3. /\ w[j].seg = w[i].seg /\ w[j].epoch = w[i].epoch /\ w[j].start = w[i].start
      /\ w[j].fin_seen = IF ps[j].flag = "fin" THEN w[i].fin_seen + 1 ELSE w[i].fin_seen
  <2>1. /\ Marked(w[i], ps[j].flag).seg = w[i].seg /\ Marked(w[i], ps[j].flag).epoch = w[i].epoch
        /\ Marked(w[i], ps[j].flag).start = w[i].start
        /\ ps[j].flag = "fin" => Marked(w[i], ps[j].flag).fin_seen = w[i].fin_seen + 1
        /\ ps[j].flag # "fin" => Marked(w[i], ps[j].flag).fin_seen = w[i].fin_seen
    BY <1>2, MarkedState
  <2>2. QED
    BY <1>1, <2>1
<1>4. /\ ps[j].flag = "rst" => w[j].closed = TRUE
      /\ ps[j].flag = "fin" => w[j].closed = (w[i].fin_seen + 1 >= FinCloses)
      /\ ps[j].flag = "none" => w[j].closed = w[i].closed
  <2>1. /\ ps[j].flag = "rst" => Marked(w[i], ps[j].flag).closed = TRUE
        /\ ps[j].flag = "fin" => Marked(w[i], ps[j].flag).closed = (w[i].fin_seen + 1 >= FinCloses)
        /\ ps[j].flag = "none" => Marked(w[i], ps[j].flag).closed = w[i].closed
    BY <1>2, MarkedState
  <2>2. QED
    BY <1>1, <2>1
<1>5. /\ s \in 1..i /\ Opens(w, s) /\ \A k \in s + 1..i : ~Opens(w, k)
      /\ w[i].seg = w[s].seg /\ w[i].epoch = w[s].epoch
      /\ w[i].start = ps[s].time /\ w[i].fin_seen = Cardinality(Fins(ps, s, i))
      /\ \A k \in s..i - 1 : ps[k].flag # "rst"
      /\ Cardinality(Fins(ps, s, i - 1)) < FinCloses
      /\ ps[i].flag # "rst" /\ ~(ps[i].flag = "fin" /\ Cardinality(Fins(ps, s, i)) >= FinCloses)
  BY DEF Run
<1>6. FinCloses \in Nat /\ FinCloses > 0
  BY AssemblyAssumption DEF AssemblyAssumption
<1>7. /\ Cardinality(Fins(ps, s, i)) \in Nat
      /\ ps[j].flag = "fin" => Cardinality(Fins(ps, s, j)) = Cardinality(Fins(ps, s, i)) + 1
      /\ ps[j].flag # "fin" => Cardinality(Fins(ps, s, j)) = Cardinality(Fins(ps, s, i))
  <2>1. s \in Nat /\ i \in Nat /\ s <= i + 1
    BY <1>5
  <2>2. QED
    BY <1>1, <2>1, FinsCounted DEF FinStep
<1>8. Cardinality(Fins(ps, s, i)) < FinCloses
  <2>1. PICK h \in Nat : h = i - 1 /\ s <= h + 1 /\ h + 1 = i
    BY <1>5
  <2>2. /\ Cardinality(Fins(ps, s, h)) \in Nat
        /\ ps[h + 1].flag # "fin" => Cardinality(Fins(ps, s, h + 1)) = Cardinality(Fins(ps, s, h))
    <3>1. s \in Nat
      BY <1>5
    <3>2. QED
      BY <2>1, <3>1, FinsCounted DEF FinStep
  <2>3. CASE ps[i].flag = "fin"
    BY <1>5, <1>6, <1>7, <2>3
  <2>4. CASE ps[i].flag # "fin"
    BY <1>5, <2>1, <2>2, <2>4
  <2>5. QED
    BY <2>3, <2>4
<1>9. w[j].fin_seen = Cardinality(Fins(ps, s, j))
  BY <1>3, <1>5, <1>7
<1>10. w[j].closed <=> \/ ps[j].flag = "rst"
                       \/ ps[j].flag = "fin" /\ Cardinality(Fins(ps, s, j)) >= FinCloses
  <2>1. CASE ps[j].flag = "rst"
    BY <1>4, <2>1
  <2>2. CASE ps[j].flag = "fin"
    <3>1. w[i].fin_seen + 1 = Cardinality(Fins(ps, s, j))
      BY <1>5, <1>7, <2>2
    <3>2. w[j].closed = (Cardinality(Fins(ps, s, j)) >= FinCloses)
      BY <1>4, <2>2, <3>1
    <3>3. QED
      BY <2>2, <3>2
  <2>3. CASE ps[j].flag = "none"
    BY <1>4, <2>3
  <2>4. QED
    BY <1>2, <2>1, <2>2, <2>3 DEF Flags
<1>11. ~Opens(w, j)
  BY <1>1, <1>3 DEF Opens
<1>12. /\ s \in 1..j /\ j - 1 = i
       /\ \A k \in s + 1..j : ~Opens(w, k)
       /\ \A k \in s..i : ps[k].flag # "rst"
  <2>1. \A k \in s + 1..j : k \in s + 1..i \/ k = j
    BY <1>1
  <2>2. \A k \in s..i : k \in s..i - 1 \/ k = i
    BY <1>5
  <2>3. QED
    BY <1>1, <1>5, <1>11, <2>1, <2>2
<1>13. Run(w, ps, s, j)
  BY <1>3, <1>5, <1>8, <1>9, <1>10, <1>12 DEF Run
<1>14. QED
  BY <1>1, <1>3, <1>11, <1>13

\* Whether the packets from s on stay one flow up to i.
Stays(ps, s, i) ==
    /\ ps[i].time - ps[s].time <= FlowTimeout
    /\ \A k \in s .. i - 1 : ps[k].flag # "rst"
    /\ Cardinality(Fins(ps, s, i - 1)) < FinCloses

\* A run is closed by its last packet or not at all.
LEMMA RunClosed ==
    ASSUME NEW ps \in Seq(Packet), NEW w, NEW i \in 1..Len(ps), NEW s, Run(w, ps, s, i)
    PROVE  /\ w[i].closed <=> \/ \E k \in s..i : ps[k].flag = "rst"
                              \/ Cardinality(Fins(ps, s, i)) >= FinCloses
           /\ w[i].closed <=> \/ ps[i].flag = "rst"
                              \/ ps[i].flag = "fin" /\ Cardinality(Fins(ps, s, i)) = FinCloses
<1>1. /\ s \in 1..i /\ \A k \in s..i - 1 : ps[k].flag # "rst"
      /\ Cardinality(Fins(ps, s, i - 1)) < FinCloses
      /\ w[i].closed <=> \/ ps[i].flag = "rst"
                         \/ ps[i].flag = "fin" /\ Cardinality(Fins(ps, s, i)) >= FinCloses
  BY DEF Run
<1>2. FinCloses \in Nat
  BY AssemblyAssumption DEF AssemblyAssumption
<1>3. PICK h \in Nat : h = i - 1 /\ s <= h + 1 /\ h + 1 = i /\ s \in Nat
  BY <1>1
<1>4. /\ Cardinality(Fins(ps, s, h)) \in Nat
      /\ ps[h + 1].flag = "fin" => Cardinality(Fins(ps, s, h + 1)) = Cardinality(Fins(ps, s, h)) + 1
      /\ ps[h + 1].flag # "fin" => Cardinality(Fins(ps, s, h + 1)) = Cardinality(Fins(ps, s, h))
  BY <1>3, FinsCounted DEF FinStep
<1>5. PICK a, b : a = Cardinality(Fins(ps, s, h)) /\ b = Cardinality(Fins(ps, s, i))
  OBVIOUS
<1>6. /\ a \in Nat /\ a < FinCloses
      /\ ps[i].flag = "fin" => b = a + 1
      /\ ps[i].flag # "fin" => b = a
  BY <1>1, <1>3, <1>4, <1>5
<1>7. b >= FinCloses => ps[i].flag = "fin" /\ b = FinCloses
  BY <1>2, <1>6
<1>8. b = FinCloses => b >= FinCloses
  BY <1>2
<1>9. \A k \in s..i : ps[k].flag = "rst" => k = i
  <2>1. \A k \in s..i : k \in s..i - 1 \/ k = i
    BY <1>1
  <2>2. QED
    BY <1>1, <2>1
<1>10. i \in s..i
  BY <1>1
<1>11. QED
  BY <1>1, <1>5, <1>7, <1>8, <1>9, <1>10

\* The packet after a run opens a flow just when the run does not stay open.
LEMMA NextPacket ==
    ASSUME NEW ps \in Seq(Packet), NEW w, NEW ids, IsWalk(w, ps, ids),
           NEW i \in 1..Len(ps), i + 1 \in 1..Len(ps), NEW s, Run(w, ps, s, i)
    PROVE  /\ Opens(w, i + 1) <=> ~Stays(ps, s, i + 1)
           /\ ~Opens(w, i + 1) => Run(w, ps, s, i + 1)
           /\ Opens(w, i + 1) => Run(w, ps, i + 1, i + 1)
           /\ w[i].seg <= w[i + 1].seg
           /\ w[i + 1].epoch # w[i].epoch <=> Opens(w, i + 1) /\ w[i].closed
<1>1. PICK j \in 1..Len(ps) : j = i + 1 /\ j - 1 = i /\ j # 1
  OBVIOUS
<1>2. /\ w[i] \in LoopState /\ w[j] \in LoopState
      /\ w[j] = Marked(Cut(w[i], ps, j), ps[j].flag)
  BY <1>1 DEF IsWalk, Entered
<1>3. /\ s \in 1..i /\ w[i].start = ps[s].time /\ w[i].start \in Nat /\ ps[j].time \in Nat
      /\ w[i].seg \in Nat /\ w[i].epoch \in Nat /\ FlowTimeout \in Nat /\ FinCloses \in Nat
  <2>1. s \in 1..i /\ w[i].start = ps[s].time
    BY DEF Run
  <2>2. w[i].start \in Nat /\ w[i].seg \in Nat /\ w[i].epoch \in Nat
    BY <1>2 DEF LoopState
  <2>3. QED
    BY <2>1, <2>2, PacketFields, AssemblyAssumption DEF AssemblyAssumption
<1>4. Cardinality(Fins(ps, s, i)) \in Nat
  <2>1. s \in Nat /\ i \in Nat /\ s <= i + 1
    BY <1>3
  <2>2. QED
    BY <2>1, FinsCounted DEF FinStep
<1>5. w[i].closed \/ ps[j].time - w[i].start > FlowTimeout <=> ~Stays(ps, s, j)
  <2>1. w[i].closed <=> \/ \E k \in s..i : ps[k].flag = "rst"
                        \/ Cardinality(Fins(ps, s, i)) >= FinCloses
    BY RunClosed
  <2>2. w[i].closed <=> ~ /\ \A k \in s .. j - 1 : ps[k].flag # "rst"
                          /\ Cardinality(Fins(ps, s, j - 1)) < FinCloses
    BY <1>1, <1>3, <1>4, <2>1
  <2>3. ps[j].time - w[i].start > FlowTimeout <=> ~(ps[j].time - ps[s].time <= FlowTimeout)
    <3>1. PICK a \in Nat, b \in Nat : a = ps[j].time /\ b = w[i].start /\ b = ps[s].time
      BY <1>3
    <3>2. a - b > FlowTimeout <=> ~(a - b <= FlowTimeout)
      BY <1>3
    <3>3. QED
      BY <3>1, <3>2
  <2>4. QED
    BY <2>2, <2>3 DEF Stays
<1>6. CASE w[i].closed \/ ps[j].time - w[i].start > FlowTimeout
  <2>1. PICK e \in Nat : e = IF w[i].closed THEN w[i].epoch + 1 ELSE w[i].epoch
    BY <1>3
  <2>2. Cut(w[i], ps, j) = Fresh(j, ps, w[i].seg + 1, e)
    BY <1>2, <1>6, <2>1, CutState
  <2>3. PICK g \in Nat : g = w[i].seg + 1 /\ w[j] = Marked(Fresh(j, ps, g, e), ps[j].flag)
    BY <1>2, <1>3, <2>2
  <2>4. w[j].seg = g /\ w[j].epoch = e
    <3>1. ps[j].flag \in Flags /\ ps[j].time \in Nat
      BY PacketFields
    <3>2. Fresh(j, ps, g, e) \in LoopState /\ Fresh(j, ps, g, e).seg = g /\ Fresh(j, ps, g, e).epoch = e
      BY <3>1 DEF Fresh, LoopState
    <3>3. /\ Marked(Fresh(j, ps, g, e), ps[j].flag).seg = Fresh(j, ps, g, e).seg
          /\ Marked(Fresh(j, ps, g, e), ps[j].flag).epoch = Fresh(j, ps, g, e).epoch
      BY <3>1, <3>2, MarkedState
    <3>4. QED
      BY <2>3, <3>2, <3>3
  <2>5. Opens(w, j)
    BY <1>1, <1>3, <2>3, <2>4 DEF Opens
  <2>6. Run(w, ps, j, j)
    BY <1>2, <2>3, <2>5, RunBegins
  <2>7. w[j].epoch # w[i].epoch <=> w[i].closed
    BY <1>3, <2>1, <2>4
  <2>8. w[i].seg <= w[j].seg
    BY <1>3, <2>3, <2>4
  <2>9. ~Stays(ps, s, j)
    BY <1>5, <1>6
  <2>10. QED
    BY <1>1, <2>5, <2>6, <2>7, <2>8, <2>9
<1>7. CASE ~(w[i].closed \/ ps[j].time - w[i].start > FlowTimeout)
  <2>1. ~w[i].closed /\ ps[j].time - w[i].start <= FlowTimeout
    BY <1>3, <1>7
  <2>2. Cut(w[i], ps, j) = w[i]
    BY <1>2, <2>1, CutState
  <2>3. w[j] = Marked(w[i], ps[j].flag)
    BY <1>2, <2>2
  <2>4. Run(w, ps, s, j) /\ ~Opens(w, j) /\ w[j].epoch = w[i].epoch
    BY <1>1, <1>2, <2>1, <2>3, RunGoesOn
  <2>5. w[j].seg = w[i].seg
    BY <1>1, <2>4 DEF Opens
  <2>6. Stays(ps, s, j) /\ w[i].seg <= w[j].seg
    BY <1>3, <1>5, <1>7, <2>5
  <2>7. QED
    BY <1>1, <2>4, <2>6
<1>8. QED
  BY <1>6, <1>7

\* Every packet ends a run.
LEMMA RunsCover ==
    ASSUME NEW ps \in Seq(Packet), NEW w, NEW ids, IsWalk(w, ps, ids)
    PROVE  \A i \in 1..Len(ps) : \E s \in 1..i : Run(w, ps, s, i)
<1>1. PICK n \in Nat : n = Len(ps)
  OBVIOUS
<1>2. PICK T : T = {m \in Nat : m \in 1..n => \E s \in 1..m : Run(w, ps, s, m)}
  OBVIOUS
<1>3. 0 \in T
  BY <1>2
<1>4. ASSUME NEW m \in Nat, m \in T PROVE m + 1 \in T
  <2>1. SUFFICES ASSUME m + 1 \in 1..n PROVE \E s \in 1..m + 1 : Run(w, ps, s, m + 1)
    BY <1>2
  <2>2. CASE m = 0
    <3>1. PICK first \in 1..Len(ps), zero \in Nat : first = 1 /\ zero = 0
      BY <1>1, <2>1, <2>2
    <3>2. /\ w[first] \in LoopState /\ Opens(w, first)
          /\ w[first] = Marked(Fresh(first, ps, zero, zero), ps[first].flag)
      BY <3>1 DEF IsWalk, Entered, Opens
    <3>3. Run(w, ps, first, first)
      BY <3>2, RunBegins
    <3>4. QED
      BY <2>2, <3>1, <3>3
  <2>3. CASE m # 0
    <3>1. m \in 1..Len(ps) /\ m + 1 \in 1..Len(ps)
      BY <1>1, <2>1, <2>3
    <3>2. PICK s \in 1..m : Run(w, ps, s, m)
      BY <1>1, <1>2, <1>4, <3>1
    <3>3. Run(w, ps, s, m + 1) \/ Run(w, ps, m + 1, m + 1)
      BY <3>1, <3>2, NextPacket
    <3>4. s \in 1..m + 1 /\ m + 1 \in 1..m + 1
      BY <3>1
    <3>5. QED
      BY <3>3, <3>4
  <2>4. QED
    BY <2>2, <2>3
<1>5. \A m \in Nat : m \in T
  BY <1>3, <1>4, ByInduction
<1>6. QED
  BY <1>1, <1>2, <1>5

\* The numbers of the flows never go back.
LEMMA NumbersGrow ==
    ASSUME NEW ps \in Seq(Packet), NEW w, NEW ids, IsWalk(w, ps, ids)
    PROVE  \A i, j \in 1..Len(ps) : i <= j => w[i].seg <= w[j].seg
<1>1. PICK n \in Nat : n = Len(ps)
  OBVIOUS
<1>2. \A i \in 1..n : w[i].seg \in Nat
  BY <1>1 DEF IsWalk, LoopState
<1>3. \A i \in 1..n : i + 1 \in 1..n => w[i].seg <= w[i + 1].seg
  <2>1. TAKE i \in 1..n
  <2>2. PICK s \in 1..i : Run(w, ps, s, i)
    BY <1>1, RunsCover
  <2>3. QED
    BY <1>1, <2>2, NextPacket
<1>4. SUFFICES ASSUME NEW i \in 1..n PROVE \A j \in 1..n : i <= j => w[i].seg <= w[j].seg
  BY <1>1
<1>5. PICK T : T = {d \in Nat : i + d \in 1..n => w[i].seg <= w[i + d].seg}
  OBVIOUS
<1>6. 0 \in T
  BY <1>2, <1>5
<1>7. ASSUME NEW d \in Nat, d \in T PROVE d + 1 \in T
  <2>1. SUFFICES ASSUME i + (d + 1) \in 1..n PROVE w[i].seg <= w[i + (d + 1)].seg
    BY <1>5
  <2>2. PICK k \in 1..n : k = i + d /\ k + 1 = i + (d + 1)
    BY <2>1
  <2>3. w[i].seg <= w[k].seg
    BY <1>5, <1>7, <2>2
  <2>4. w[k].seg <= w[k + 1].seg /\ k + 1 \in 1..n
    BY <1>3, <2>1, <2>2
  <2>5. w[i].seg \in Nat /\ w[k].seg \in Nat /\ w[k + 1].seg \in Nat
    BY <1>2, <2>4
  <2>6. w[i].seg <= w[k + 1].seg
    BY <2>3, <2>4, <2>5
  <2>7. QED
    BY <2>2, <2>6
<1>8. \A d \in Nat : d \in T
  BY <1>6, <1>7, ByInduction
<1>9. ASSUME NEW j \in 1..n, i <= j PROVE w[i].seg <= w[j].seg
  <2>1. j - i \in Nat /\ i + (j - i) = j
    BY <1>9
  <2>2. QED
    BY <1>5, <1>8, <2>1
<1>10. QED
  BY <1>9

-----------------------------------------------------------------------------
\* The packets that open a flow, and the one that opened the flow of i.
Starts(ids, n) == {i \in 1 .. n : i = 1 \/ ids[i].seg # ids[i - 1].seg}
StartOf(ids, n, i) == CHOOSE s \in Starts(ids, n) : s <= i /\ \A t \in Starts(ids, n) : t <= i => t <= s

\* They are the packets that open a flow.
LEMMA StartsAreOpens ==
    ASSUME NEW ps \in Seq(Packet), NEW w, NEW ids, IsWalk(w, ps, ids)
    PROVE  \A i \in 1..Len(ps) : i \in Starts(ids, Len(ps)) <=> Opens(w, i)
<1>1. TAKE i \in 1..Len(ps)
<1>2. i # 1 => i - 1 \in 1..Len(ps)
  OBVIOUS
<1>3. QED
  BY <1>2 DEF IsWalk, Starts, Opens

\* A run begins where the flow of its last packet was opened.
LEMMA RunStart ==
    ASSUME NEW ps \in Seq(Packet), NEW w, NEW ids, IsWalk(w, ps, ids),
           NEW i \in 1..Len(ps), NEW s, Run(w, ps, s, i)
    PROVE  StartOf(ids, Len(ps), i) = s /\ s \in Starts(ids, Len(ps)) /\ s \in 1..i
<1>1. PICK S : S = Starts(ids, Len(ps))
  OBVIOUS
<1>2. /\ s \in 1..i /\ Opens(w, s) /\ \A k \in s + 1..i : ~Opens(w, k)
  BY DEF Run
<1>3. S \subseteq 1..Len(ps) /\ \A k \in 1..Len(ps) : k \in S <=> Opens(w, k)
  BY <1>1, StartsAreOpens DEF Starts
<1>4. s \in S /\ s <= i /\ \A t \in S : t <= i => t <= s
  <2>1. \A t \in S : t <= i /\ ~(t <= s) => t \in s + 1..i
    BY <1>2, <1>3
  <2>2. QED
    BY <1>2, <1>3, <2>1
<1>5. \A t \in S : t <= i /\ (\A r \in S : r <= i => r <= t) => t = s
  BY <1>2, <1>3, <1>4
<1>6. (CHOOSE t \in S : t <= i /\ \A r \in S : r <= i => r <= t) = s
  BY <1>4, <1>5
<1>7. QED
  BY <1>1, <1>2, <1>4, <1>6 DEF StartOf

\* A flow is opened just where the one before does not stay open; a new epoch
\* begins where it was closed.
LEMMA FlowsAreCut ==
    ASSUME NEW ps \in Seq(Packet), NEW w, NEW ids, IsWalk(w, ps, ids),
           NEW i \in 2..Len(ps), NEW s, s = StartOf(ids, Len(ps), i - 1)
    PROVE  /\ ids[i].seg = ids[i - 1].seg <=> Stays(ps, s, i)
           /\ ids[i].epoch # ids[i - 1].epoch <=>
                 /\ i \in Starts(ids, Len(ps))
                 /\ \/ ps[i - 1].flag = "rst"
                    \/ ps[i - 1].flag = "fin" /\ Cardinality(Fins(ps, s, i - 1)) = FinCloses
<1>1. PICK h \in 1..Len(ps) : h = i - 1 /\ h + 1 = i /\ h + 1 \in 1..Len(ps) /\ i # 1
  OBVIOUS
<1>2. PICK r \in 1..h : Run(w, ps, r, h)
  BY RunsCover
<1>3. r = s
  BY <1>1, <1>2, RunStart
<1>4. /\ Opens(w, h + 1) <=> ~Stays(ps, s, h + 1)
      /\ w[h + 1].epoch # w[h].epoch <=> Opens(w, h + 1) /\ w[h].closed
  BY <1>1, <1>2, <1>3, NextPacket
<1>5. w[h].closed <=> \/ ps[h].flag = "rst"
                      \/ ps[h].flag = "fin" /\ Cardinality(Fins(ps, s, h)) = FinCloses
  BY <1>2, <1>3, RunClosed
<1>6. /\ ids[i].seg = w[i].seg /\ ids[i].epoch = w[i].epoch
      /\ ids[h].seg = w[h].seg /\ ids[h].epoch = w[h].epoch
  BY <1>1 DEF IsWalk
<1>7. Opens(w, i) <=> ids[i].seg # ids[h].seg
  BY <1>1, <1>6 DEF Opens
<1>8. i \in Starts(ids, Len(ps)) <=> Opens(w, i)
  BY StartsAreOpens, <1>1
<1>9. QED
  BY <1>1, <1>4, <1>5, <1>6, <1>7, <1>8

\* The packets of a number are those whose flow was opened by the first of them.
LEMMA FlowsAreRuns ==
    ASSUME NEW ps \in Seq(Packet), NEW w, NEW ids, IsWalk(w, ps, ids), NEW s \in 1..Len(ps),
           \A i \in 1..Len(ps) : ids[i].seg = ids[s].seg => s <= i
    PROVE  /\ s \in Starts(ids, Len(ps))
           /\ {i \in 1..Len(ps) : ids[i].seg = ids[s].seg} = {i \in s..Len(ps) : StartOf(ids, Len(ps), i) = s}
<1>1. PICK n \in Nat : n = Len(ps)
  OBVIOUS
<1>2. \A i \in 1..n : ids[i].seg = w[i].seg /\ w[i].seg \in Nat
  BY <1>1 DEF IsWalk, LoopState
<1>3. s \in Starts(ids, n)
  <2>1. CASE s = 1
    BY <1>1, <2>1 DEF Starts
  <2>2. CASE s # 1
    <3>1. s - 1 \in 1..n /\ ~(s <= s - 1)
      BY <1>1, <2>2
    <3>2. QED
      BY <1>1, <3>1 DEF Starts
  <2>3. QED
    BY <2>1, <2>2
<1>4. ASSUME NEW i \in 1..n, ids[i].seg = ids[s].seg
      PROVE  i \in s..n /\ StartOf(ids, n, i) = s
  <2>1. i \in s..n
    BY <1>1, <1>4
  <2>2. PICK r \in 1..i : Run(w, ps, r, i)
    BY <1>1, RunsCover
  <2>3. w[i].seg = w[r].seg /\ r \in 1..n
    BY <1>1, <2>2 DEF Run
  <2>4. s <= r
    BY <1>1, <1>2, <1>4, <2>3
  <2>5. ~(s < r)
    <3>1. SUFFICES ASSUME s < r PROVE FALSE
      OBVIOUS
    <3>2. r - 1 \in 1..n /\ s <= r - 1 /\ r - 1 <= i /\ r # 1
      BY <2>1, <2>3, <3>1
    <3>3. w[s].seg <= w[r - 1].seg /\ w[r - 1].seg <= w[i].seg
      BY <1>1, <1>4, <3>2, NumbersGrow
    <3>4. w[r].seg = w[r - 1].seg
      BY <1>2, <1>4, <2>3, <3>2, <3>3
    <3>5. Opens(w, r)
      BY <2>2 DEF Run
    <3>6. QED
      BY <3>2, <3>4, <3>5 DEF Opens
  <2>6. r = s
    BY <2>4, <2>5
  <2>7. QED
    BY <1>1, <2>1, <2>2, <2>6, RunStart
<1>5. ASSUME NEW i \in s..n, StartOf(ids, n, i) = s
      PROVE  i \in 1..n /\ ids[i].seg = ids[s].seg
  <2>1. i \in 1..n
    OBVIOUS
  <2>2. PICK r \in 1..i : Run(w, ps, r, i)
    BY <1>1, <2>1, RunsCover
  <2>3. r = s
    BY <1>1, <1>5, <2>1, <2>2, RunStart
  <2>4. w[i].seg = w[s].seg
    BY <2>2, <2>3 DEF Run
  <2>5. QED
    BY <1>1, <1>2, <2>1, <2>4
<1>6. QED
  BY <1>1, <1>3, <1>4, <1>5

\* The first packet of the direction epoch of i, among those that open a flow.
EpochStart(ids, n, i) ==
    CHOOSE e \in Starts(ids, n) : /\ ids[e].epoch = ids[i].epoch
                                  /\ \A t \in Starts(ids, n) : ids[t].epoch = ids[i].epoch => e <= t

\* The first packet of a direction epoch opens a flow.
LEMMA EpochsBeginWithFlows ==
    ASSUME NEW ps \in Seq(Packet), NEW w, NEW ids, IsWalk(w, ps, ids), NEW s \in 1..Len(ps)
    PROVE  Source(ps, ids, s) = ps[EpochStart(ids, Len(ps), s)].from
<1>1. PICK n \in Nat : n = Len(ps)
  OBVIOUS
<1>2. PICK S : S = Starts(ids, n)
  OBVIOUS
<1>3. PICK E : E = {j \in 1..s : ids[j].epoch = ids[s].epoch}
  OBVIOUS
<1>4. PICK first \in E : \A j \in E : first <= j
  <2>1. E \subseteq Nat /\ s \in E
    BY <1>3
  <2>2. QED
    BY <2>1, LeastNat
<1>5. /\ first \in 1..s /\ first \in 1..n /\ ids[first].epoch = ids[s].epoch
      /\ \A k \in 1..first - 1 : ids[k].epoch # ids[first].epoch
  BY <1>1, <1>3, <1>4
<1>6. \A j \in 1..s : ids[j].epoch = ids[s].epoch /\ (\A k \in 1..j - 1 : ids[k].epoch # ids[j].epoch)
                        => j = first
  <2>1. SUFFICES ASSUME NEW j \in 1..s, ids[j].epoch = ids[s].epoch,
                        \A k \in 1..j - 1 : ids[k].epoch # ids[j].epoch
                 PROVE  j = first
    OBVIOUS
  <2>2. first <= j
    BY <1>3, <1>4, <2>1
  <2>3. first \notin 1..j - 1
    BY <1>5, <2>1
  <2>4. QED
    BY <1>5, <2>2, <2>3
<1>7. Source(ps, ids, s) = ps[first].from
  <2>1. (CHOOSE j \in 1..s : ids[j].epoch = ids[s].epoch
                             /\ \A k \in 1..j - 1 : ids[k].epoch # ids[j].epoch) = first
    BY <1>5, <1>6
  <2>2. QED
    BY <2>1 DEF Source
<1>8. first \in S
  <2>1. CASE first = 1
    BY <1>1, <1>2, <1>5, <2>1 DEF Starts
  <2>2. CASE first # 1
    <3>1. first \in 2..Len(ps) /\ first - 1 \in 1..first - 1
      BY <1>1, <1>5, <2>2
    <3>2. ids[first].epoch # ids[first - 1].epoch
      BY <1>5, <3>1
    <3>3. QED
      BY <1>1, <1>2, <3>1, <3>2, FlowsAreCut
  <2>3. QED
    BY <2>1, <2>2
<1>9. S \subseteq 1..n /\ \A t \in S : ids[t].epoch = ids[s].epoch => first <= t
  <2>1. S \subseteq 1..n
    BY <1>2 DEF Starts
  <2>2. ASSUME NEW t \in S, ids[t].epoch = ids[s].epoch PROVE first <= t
    <3>1. CASE t <= s
      BY <1>3, <1>4, <2>1, <2>2, <3>1
    <3>2. CASE ~(t <= s)
      BY <1>5, <2>1, <3>2
    <3>3. QED
      BY <3>1, <3>2
  <2>3. QED
    BY <2>1, <2>2
<1>10. (CHOOSE e \in S : ids[e].epoch = ids[s].epoch /\ \A t \in S : ids[t].epoch = ids[s].epoch => e <= t)
          = first
  <2>1. \A e \in S : ids[e].epoch = ids[s].epoch /\ (\A t \in S : ids[t].epoch = ids[s].epoch => e <= t)
                        => e = first
    BY <1>5, <1>8, <1>9
  <2>2. QED
    BY <1>5, <1>8, <1>9, <2>1
<1>11. EpochStart(ids, n, s) = first
  BY <1>2, <1>10 DEF EpochStart
<1>12. QED
  BY <1>1, <1>7, <1>11

\* What an assembled flow says, as an operator of the packets' numbers.
FlowOf(f, ps, ids, s) ==
    /\ f.packets = {i \in s..Len(ps) : StartOf(ids, Len(ps), i) = s}
    /\ Cardinality(f.packets) >= MinPackets /\ f.timestamp = ps[s].time
    /\ f.src = ps[EpochStart(ids, Len(ps), s)].from

\* The packets of a number, and the first of them.
Numbered(ps, ids, seg) == {i \in 1..Len(ps) : ids[i].seg = seg}
FirstNumbered(P) == CHOOSE i \in P : \A j \in P : i <= j

\* The row of a number.
RowOf(ps, ids, seg) ==
    [packets |-> Numbered(ps, ids, seg), src |-> Source(ps, ids, FirstNumbered(Numbered(ps, ids, seg))),
     timestamp |-> ps[FirstNumbered(Numbered(ps, ids, seg))].time,
     fwd |-> Cardinality({i \in Numbered(ps, ids, seg) : ps[i].from = Source(ps, ids, i)})]

\* An assembled flow is the row of one number.
LEMMA FlowsAreNumbered ==
    ASSUME NEW ps \in Seq(Packet), NEW ids, ids = segment_ids(ps), NEW f \in assemble_flows(ps)
    PROVE  \E h \in 1..Len(ps) :
              /\ f.packets = Numbered(ps, ids, ids[h].seg)
              /\ Cardinality(f.packets) >= MinPackets
              /\ f.src = Source(ps, ids, FirstNumbered(f.packets))
              /\ f.timestamp = ps[FirstNumbered(f.packets)].time
<1>1. assemble_flows(ps) =
         {RowOf(ps, segment_ids(ps), seg) :
             seg \in {s \in {segment_ids(ps)[i].seg : i \in 1..Len(ps)} :
                        Cardinality(Numbered(ps, segment_ids(ps), s)) >= MinPackets}}
  BY Zenon DEF assemble_flows, RowOf, Numbered, FirstNumbered
<1>2. PICK seg \in {s \in {ids[i].seg : i \in 1..Len(ps)} : Cardinality(Numbered(ps, ids, s)) >= MinPackets} :
         f = RowOf(ps, ids, seg)
  BY <1>1
<1>3. PICK h \in 1..Len(ps) : seg = ids[h].seg
  BY <1>2
<1>4. Cardinality(Numbered(ps, ids, seg)) >= MinPackets
  BY <1>2
<1>5. /\ f.packets = Numbered(ps, ids, seg)
      /\ f.src = Source(ps, ids, FirstNumbered(Numbered(ps, ids, seg)))
      /\ f.timestamp = ps[FirstNumbered(Numbered(ps, ids, seg))].time
  BY <1>2 DEF RowOf
<1>6. QED
  BY <1>3, <1>4, <1>5

\* Every assembled flow is a run from its start.
LEMMA FlowsAreOfTheirStart ==
    ASSUME NEW ps \in Seq(Packet), NEW w, NEW ids, ids = segment_ids(ps), IsWalk(w, ps, ids),
           NEW f \in assemble_flows(ps)
    PROVE  \E s \in Starts(ids, Len(ps)) : FlowOf(f, ps, ids, s)
<1>1. PICK h \in 1..Len(ps) :
              /\ f.packets = Numbered(ps, ids, ids[h].seg)
              /\ Cardinality(f.packets) >= MinPackets
              /\ f.src = Source(ps, ids, FirstNumbered(f.packets))
              /\ f.timestamp = ps[FirstNumbered(f.packets)].time
  BY FlowsAreNumbered
<1>2. PICK P : P = f.packets
  OBVIOUS
<1>3. P = {i \in 1..Len(ps) : ids[i].seg = ids[h].seg}
  BY <1>1, <1>2 DEF Numbered
<1>4. PICK s \in P : \A j \in P : s <= j
  <2>1. P \subseteq Nat /\ h \in P
    BY <1>3
  <2>2. QED
    BY <2>1, LeastNat
<1>5. s \in 1..Len(ps) /\ ids[s].seg = ids[h].seg
  BY <1>3, <1>4
<1>6. FirstNumbered(P) = s
  <2>1. \A i \in P : (\A j \in P : i <= j) => i = s
    BY <1>3, <1>4
  <2>2. QED
    BY <1>4, <2>1 DEF FirstNumbered
<1>7. \A i \in 1..Len(ps) : ids[i].seg = ids[s].seg => s <= i
  BY <1>3, <1>4, <1>5
<1>8. /\ s \in Starts(ids, Len(ps))
      /\ {i \in 1..Len(ps) : ids[i].seg = ids[s].seg} = {i \in s..Len(ps) : StartOf(ids, Len(ps), i) = s}
  BY <1>5, <1>7, FlowsAreRuns
<1>9. Source(ps, ids, s) = ps[EpochStart(ids, Len(ps), s)].from
  BY <1>5, EpochsBeginWithFlows
<1>10. FlowOf(f, ps, ids, s)
  BY <1>1, <1>2, <1>3, <1>5, <1>6, <1>8, <1>9 DEF FlowOf
<1>11. QED
  BY <1>8, <1>10

\* A sequence of packets is assembled into its maximal runs.
LEMMA PacketsMakeMaximalRuns ==
    ASSUME packets \in Seq(Packet)
    PROVE  FlowsAreMaximalRuns
<1> DEFINE ids == segment_ids(packets)
           n == Len(packets)
<1> HIDE DEF ids, n
<1>1. PICK w : IsWalk(w, packets, ids)
  BY SegmentsWalk DEF ids
<1>2. n \in Nat /\ n = Len(packets)
  BY DEF n
<1>3. ASSUME NEW i \in 2..n
      PROVE  /\ ids[i].seg = ids[i - 1].seg <=> StaysOpen(StartOf(ids, n, i - 1), i)
             /\ ids[i].epoch # ids[i - 1].epoch <=>
                   /\ i \in Starts(ids, n)
                   /\ \/ packets[i - 1].flag = "rst"
                      \/ /\ packets[i - 1].flag = "fin"
                         /\ Cardinality(Fins(packets, StartOf(ids, n, i - 1), i - 1)) = FinCloses
  <2>1. PICK s : s = StartOf(ids, n, i - 1)
    OBVIOUS
  <2>2. Stays(packets, s, i) <=> StaysOpen(s, i)
    BY Zenon DEF Stays, StaysOpen, Fins
  <2>3. QED
    BY <1>1, <1>2, <2>1, <2>2, FlowsAreCut
<1>4. ASSUME NEW f \in assemble_flows(packets)
      PROVE  \E s \in Starts(ids, n) : FlowOf(f, packets, ids, s)
  BY <1>1, <1>2, FlowsAreOfTheirStart DEF ids
<1>5. QED
  BY <1>3, <1>4, Zenon DEF FlowsAreMaximalRuns, Starts, StartOf, FlowOf, EpochStart, Fins, ids, n

\* What is captured are packets.
THEOREM PacketsAreCaptured == AssemblySpec => [](packets \in Seq(Packet))
<1>1. AssemblyInit => packets \in Seq(Packet)
  BY DEF AssemblyInit
<1>2. packets \in Seq(Packet) /\ [AssemblyNext]_assemblyVars => (packets \in Seq(Packet))'
  <2>1. SUFFICES ASSUME packets \in Seq(Packet), [AssemblyNext]_assemblyVars
                 PROVE  packets' \in Seq(Packet)
    OBVIOUS
  <2>2. CASE Capture
    <3>1. PICK gap \in 0 .. MaxGap, flag \in Flags, from \in Ends :
          packets' = Append(packets, [from |-> from, flag |-> flag,
                        time |-> IF packets = <<>> THEN 0 ELSE packets[Len(packets)].time + gap])
      BY <2>2 DEF Capture
    <3>2. PICK time : time = IF packets = <<>> THEN 0 ELSE packets[Len(packets)].time + gap
      OBVIOUS
    <3>3. time \in Nat
      <4>1. CASE packets = <<>>
        BY <3>2, <4>1
      <4>2. CASE packets # <<>>
        <5>1. Len(packets) \in 1..Len(packets)
          BY <2>1, <4>2, EmptySeq
        <5>2. packets[Len(packets)].time \in Nat
          BY <2>1, <5>1, PacketFields
        <5>3. gap \in Nat
          BY AssemblyAssumption
        <5>4. QED
          BY <3>2, <4>2, <5>2, <5>3
      <4>3. QED
        BY <4>1, <4>2
    <3>4. QED
      BY <2>1, <3>1, <3>2, <3>3 DEF Packet
  <2>3. CASE UNCHANGED assemblyVars
    BY <2>1, <2>3 DEF assemblyVars
  <2>4. QED
    BY <2>1, <2>2, <2>3 DEF AssemblyNext
<1>3. QED
  BY <1>1, <1>2, PTL DEF AssemblySpec

\* The flows of a connection are its maximal runs, however it is captured.
THEOREM FlowsAreMaximalRunsHolds == AssemblySpec => []FlowsAreMaximalRuns
<1>1. packets \in Seq(Packet) => FlowsAreMaximalRuns
  BY PacketsMakeMaximalRuns
<1>2. QED
  BY <1>1, PacketsAreCaptured, PTL

-----------------------------------------------------------------------------
\* Some number of a bounded set is the greatest.
LEMMA GreatestNat ==
    ASSUME NEW T, NEW n \in Nat, T \subseteq 0..n, T # {}
    PROVE  \E x \in T : \A y \in T : y <= x
<1>1. PICK U : U = {n - t : t \in T}
  OBVIOUS
<1>2. U \subseteq Nat /\ U # {}
  <2>1. \A t \in T : t \in Nat /\ n - t \in Nat
    OBVIOUS
  <2>2. QED
    BY <1>1, <2>1
<1>3. PICK u \in U : \A v \in U : u <= v
  BY <1>2, LeastNat
<1>4. PICK x \in T : u = n - x
  BY <1>1
<1>5. ASSUME NEW y \in T PROVE y <= x
  <2>1. n - y \in U /\ x \in Nat /\ y \in Nat
    BY <1>1
  <2>2. u <= n - y
    BY <1>3, <2>1
  <2>3. QED
    BY <1>4, <2>1, <2>2
<1>6. QED
  BY <1>5

\* Min of numbers is the least of them.
LEMMA MinIsLeast ==
    ASSUME NEW T, T \subseteq Nat, T # {}
    PROVE  Min(T) \in T /\ \A y \in T : Min(T) <= y
BY LeastNat DEF Min

\* Max of bounded numbers is the greatest.
LEMMA MaxIsGreatest ==
    ASSUME NEW T, NEW n \in Nat, T \subseteq 0..n, T # {}
    PROVE  Max(T) \in T /\ \A y \in T : y <= Max(T)
<1>1. PICK x \in T : \A y \in T : y <= x
  BY GreatestNat
<1>2. \A y \in T : x >= y
  BY <1>1
<1>3. Max(T) \in T /\ \A y \in T : Max(T) >= y
  BY <1>2 DEF Max
<1>4. QED
  BY <1>3

-----------------------------------------------------------------------------
(***************************************************************************)
(* Runs.  Intervals of the hosts that do not meet, a relation that links   *)
(* some of them to later ones and, with two, to all in between; a run is   *)
(* what RunsFrom makes of those nothing links to and those linked to       *)
(* nothing.  Episodes are runs of rows, merged episodes runs of episodes.  *)
(***************************************************************************)
LastHead == NoOnset - 1

Chain(I) ==
    /\ I \subseteq [host : TrainHost, start : 0..LastHead, end : 0..LastHead]
    /\ \A e \in I : e.start <= e.end
    /\ \A e, f \in I : e.host = f.host /\ e.start < f.start => e.end < f.start
    /\ \A e, f \in I : e.host = f.host /\ e.start = f.start => e = f

Links(I, link) ==
    /\ \A e, f \in I : <<e, f>> \in link => e.host = f.host /\ e.start < f.start
    /\ \A e, f, g \in I : /\ <<e, g>> \in link /\ f.host = e.host
                          /\ e.start < f.start /\ f.start < g.start
                          => <<e, f>> \in link /\ <<f, g>> \in link

OpensOf(I, link) == {e \in I : ~\E d \in I : <<d, e>> \in link}
ClosesOf(I, link) == {e \in I : ~\E f \in I : <<e, f>> \in link}

\* There are windows.
LEMMA LastIsNat == LastHead \in Nat /\ NoOnset \in Nat /\ NoOnset = LastHead + 1
<1>1. Span \in Nat /\ Captures \in Nat /\ GapWindows \in Nat
  BY TrainingDataAssumption DEF TrainingDataAssumption
<1>2. PICK a \in Nat, b \in Nat : a = Span * Captures /\ b = GapWindows * Captures
  BY <1>1
<1>3. QED
  BY <1>2 DEF LastHead, NoOnset

\* An interval ends where a closing one ends.
LEMMA SomethingCloses ==
    ASSUME NEW I, NEW link, Chain(I), Links(I, link), NEW a \in I
    PROVE  \E b \in ClosesOf(I, link) : b.host = a.host /\ b.end >= a.start
<1>1. PICK T : T = {f.start : f \in {f \in I : f.host = a.host}}
  OBVIOUS
<1>2. T \subseteq 0..LastHead /\ a.start \in T
  BY <1>1 DEF Chain
<1>3. PICK t \in T : \A u \in T : u <= t
  BY <1>2, GreatestNat, LastIsNat
<1>4. PICK b \in I : b.host = a.host /\ b.start = t
  BY <1>1
<1>5. ASSUME NEW f \in I, <<b, f>> \in link PROVE FALSE
  <2>1. f.host = a.host /\ b.start < f.start
    BY <1>4, <1>5 DEF Links
  <2>2. f.start \in T /\ f.start \in Nat
    BY <1>1, <1>2, <2>1
  <2>3. QED
    BY <1>2, <1>3, <1>4, <2>1, <2>2
<1>6. b \in ClosesOf(I, link)
  BY <1>5 DEF ClosesOf
<1>7. b.start <= b.end /\ b.end \in Nat /\ b.start \in Nat /\ a.start \in Nat
  BY DEF Chain
<1>8. a.start <= b.start
  BY <1>2, <1>3, <1>4
<1>9. b.end >= a.start
  BY <1>7, <1>8
<1>10. QED
  BY <1>4, <1>6, <1>9

\* The last interval before an opening one closes.
LEMMA ClosedBefore ==
    ASSUME NEW I, NEW link, Chain(I), Links(I, link), NEW a \in I, NEW d \in OpensOf(I, link),
           a.host = d.host, a.start < d.start
    PROVE  \E p \in ClosesOf(I, link) :
              p.host = d.host /\ a.start <= p.start /\ p.end < d.start /\ <<p, d>> \notin link
<1>1. d \in I /\ \A e \in I : <<e, d>> \notin link
  BY DEF OpensOf
<1>2. PICK T : T = {f.start : f \in {f \in I : f.host = d.host /\ f.start < d.start}}
  OBVIOUS
<1>3. T \subseteq 0..LastHead /\ a.start \in T
  BY <1>2 DEF Chain
<1>4. PICK t \in T : \A u \in T : u <= t
  BY <1>3, GreatestNat, LastIsNat
<1>5. PICK p \in I : p.host = d.host /\ p.start < d.start /\ p.start = t
  BY <1>2
<1>6. ASSUME NEW f \in I, <<p, f>> \in link PROVE FALSE
  <2>1. f.host = d.host /\ p.start < f.start
    BY <1>5, <1>6 DEF Links
  <2>2. f.start \in Nat /\ p.start \in Nat /\ d.start \in Nat
    BY <1>1 DEF Chain
  <2>3. ~(f.start < d.start)
    <3>1. SUFFICES ASSUME f.start < d.start PROVE FALSE
      OBVIOUS
    <3>2. f.start \in T
      BY <1>2, <2>1, <3>1
    <3>3. QED
      BY <1>4, <1>5, <2>1, <2>2, <3>2
  <2>4. CASE f.start = d.start
    <3>1. f = d
      BY <1>1, <2>1, <2>4 DEF Chain
    <3>2. QED
      BY <1>1, <1>6, <3>1
  <2>5. CASE d.start < f.start
    <3>1. <<p, d>> \in link
      BY <1>1, <1>5, <1>6, <2>5 DEF Links
    <3>2. QED
      BY <1>1, <3>1
  <2>6. QED
    BY <2>2, <2>3, <2>4, <2>5
<1>7. p \in ClosesOf(I, link)
  BY <1>6 DEF ClosesOf
<1>8. p.end < d.start
  BY <1>1, <1>5 DEF Chain
<1>9. a.start <= p.start
  BY <1>3, <1>4, <1>5
<1>10. QED
  BY <1>1, <1>5, <1>7, <1>8, <1>9

\* The last opening interval that is not after e.
LEMMA OpenedBefore ==
    ASSUME NEW I, NEW link, Chain(I), Links(I, link), NEW e \in I
    PROVE  \E o \in OpensOf(I, link) :
              /\ o.host = e.host /\ o.start <= e.start
              /\ \A d \in OpensOf(I, link) : d.host = e.host /\ d.start <= e.start => d.start <= o.start
<1>1. PICK A : A = {f.start : f \in {f \in I : f.host = e.host}}
  OBVIOUS
<1>2. A \subseteq Nat /\ e.start \in A
  BY <1>1 DEF Chain
<1>3. PICK t \in A : \A u \in A : t <= u
  BY <1>2, LeastNat
<1>4. PICK h \in I : h.host = e.host /\ h.start = t
  BY <1>1
<1>5. ASSUME NEW d \in I, <<d, h>> \in link PROVE FALSE
  <2>1. d.host = e.host /\ d.start < h.start
    BY <1>4, <1>5 DEF Links
  <2>2. d.start \in A
    BY <1>1, <1>4, <2>1
  <2>3. t <= d.start /\ d.start < t /\ t \in Nat /\ d.start \in Nat
    BY <1>2, <1>3, <1>4, <2>1, <2>2
  <2>4. QED
    BY <2>3
<1>6. h \in OpensOf(I, link) /\ h.start <= e.start
  BY <1>2, <1>3, <1>4, <1>5 DEF OpensOf
<1>7. PICK T : T = {f.start : f \in {f \in OpensOf(I, link) : f.host = e.host /\ f.start <= e.start}}
  OBVIOUS
<1>8. T \subseteq 0..LastHead /\ h.start \in T
  <2>1. OpensOf(I, link) \subseteq I
    BY DEF OpensOf
  <2>2. QED
    BY <1>4, <1>6, <1>7, <2>1 DEF Chain
<1>9. PICK u \in T : \A v \in T : v <= u
  BY <1>8, GreatestNat, LastIsNat
<1>10. PICK o \in OpensOf(I, link) : o.host = e.host /\ o.start <= e.start /\ o.start = u
  BY <1>7
<1>11. ASSUME NEW d \in OpensOf(I, link), d.host = e.host /\ d.start <= e.start
       PROVE  d.start <= o.start
  BY <1>7, <1>9, <1>10, <1>11
<1>12. QED
  BY <1>10, <1>11

\* A run from an opening interval, and where it ends.
LEMMA WhereRunsEnd ==
    ASSUME NEW I, NEW link, Chain(I), Links(I, link),
           NEW x \in RunsFrom(OpensOf(I, link), ClosesOf(I, link))
    PROVE  /\ \E a \in OpensOf(I, link) : x.host = a.host /\ x.start = a.start
           /\ x = [host |-> x.host, start |-> x.start, end |-> x.end]
           /\ \E c \in ClosesOf(I, link) : c.host = x.host /\ c.end >= x.start /\ x.end = c.end
           /\ \A c \in ClosesOf(I, link) : c.host = x.host /\ c.end >= x.start => x.end <= c.end
           /\ x.end \in 0..LastHead
<1>1. PICK a \in OpensOf(I, link) :
         x = [host |-> a.host, start |-> a.start,
              end |-> Min({b.end : b \in {b \in ClosesOf(I, link) : b.host = a.host /\ b.end >= a.start}})]
  BY DEF RunsFrom
<1>2. PICK T : T = {b.end : b \in {b \in ClosesOf(I, link) : b.host = a.host /\ b.end >= a.start}}
  OBVIOUS
<1>3. a \in I /\ ClosesOf(I, link) \subseteq I
  BY DEF OpensOf, ClosesOf
<1>4. T \subseteq 0..LastHead /\ T # {}
  <2>1. T \subseteq 0..LastHead
    BY <1>2, <1>3 DEF Chain
  <2>2. QED
    BY <1>2, <1>3, <2>1, SomethingCloses
<1>5. Min(T) \in T /\ \A t \in T : Min(T) <= t
  <2>1. T \subseteq Nat
    BY <1>4
  <2>2. QED
    BY <1>4, <2>1, MinIsLeast
<1>6. x = [host |-> a.host, start |-> a.start, end |-> Min(T)]
  BY <1>1, <1>2
<1>7. x.host = a.host /\ x.start = a.start /\ x.end = Min(T)
  BY <1>6
<1>8. \E c \in ClosesOf(I, link) : c.host = x.host /\ c.end >= x.start /\ x.end = c.end
  BY <1>2, <1>5, <1>7
<1>9. \A c \in ClosesOf(I, link) : c.host = x.host /\ c.end >= x.start => x.end <= c.end
  BY <1>2, <1>5, <1>7
<1>10. x.end \in 0..LastHead
  BY <1>4, <1>5, <1>7
<1>11. QED
  BY <1>6, <1>7, <1>8, <1>9, <1>10

\* Runs do not meet: between two lies the end of one interval, and the start
\* of another that nothing links it to.
LEMMA RunsApart ==
    ASSUME NEW I, NEW link, Chain(I), Links(I, link),
           NEW x \in RunsFrom(OpensOf(I, link), ClosesOf(I, link)),
           NEW y \in RunsFrom(OpensOf(I, link), ClosesOf(I, link)), x.host = y.host, x.start < y.start
    PROVE  \E p, d \in I : /\ p.host = x.host /\ d.host = x.host /\ d.start = y.start
                           /\ x.end <= p.end /\ p.end < d.start /\ <<p, d>> \notin link
<1>1. PICK a \in OpensOf(I, link) : x.host = a.host /\ x.start = a.start
  BY WhereRunsEnd
<1>2. PICK d \in OpensOf(I, link) : y.host = d.host /\ y.start = d.start
  BY WhereRunsEnd
<1>3. a \in I /\ d \in I /\ ClosesOf(I, link) \subseteq I
  BY DEF OpensOf, ClosesOf
<1>4. PICK p \in ClosesOf(I, link) :
         p.host = d.host /\ a.start <= p.start /\ p.end < d.start /\ <<p, d>> \notin link
  BY <1>1, <1>2, <1>3, ClosedBefore
<1>5. p.start <= p.end /\ p.start \in Nat /\ p.end \in Nat /\ a.start \in Nat
  BY <1>3 DEF Chain
<1>6. p.end >= x.start
  BY <1>1, <1>4, <1>5
<1>7. x.end <= p.end
  BY <1>2, <1>4, <1>6, WhereRunsEnd
<1>8. QED
  BY <1>2, <1>3, <1>4, <1>7

\* The runs of a chain are a chain.
LEMMA RunsAreChain ==
    ASSUME NEW I, NEW link, Chain(I), Links(I, link), NEW R,
           R = RunsFrom(OpensOf(I, link), ClosesOf(I, link))
    PROVE  Chain(R)
<1>1. ASSUME NEW x \in R
      PROVE  /\ x \in [host : TrainHost, start : 0..LastHead, end : 0..LastHead]
             /\ x.start <= x.end /\ \E a \in I : x.host = a.host /\ x.start = a.start
  <2>1. PICK a \in OpensOf(I, link) : x.host = a.host /\ x.start = a.start
    BY WhereRunsEnd
  <2>2. a \in I
    BY DEF OpensOf
  <2>3. a.host \in TrainHost /\ a.start \in 0..LastHead
    BY <2>2 DEF Chain
  <2>4. x = [host |-> x.host, start |-> x.start, end |-> x.end] /\ x.end \in 0..LastHead
    BY WhereRunsEnd
  <2>5. PICK c \in ClosesOf(I, link) : c.host = x.host /\ c.end >= x.start /\ x.end = c.end
    BY WhereRunsEnd
  <2>6. x.start <= x.end
    BY <2>1, <2>3, <2>4, <2>5
  <2>7. QED
    BY <2>1, <2>2, <2>3, <2>4, <2>6
<1>2. ASSUME NEW x \in R, NEW y \in R, x.host = y.host, x.start < y.start PROVE x.end < y.start
  <2>1. PICK p \in I, d \in I : /\ p.host = x.host /\ d.host = x.host /\ d.start = y.start
                             /\ x.end <= p.end /\ p.end < d.start /\ <<p, d>> \notin link
    BY <1>2, RunsApart
  <2>2. x.end \in Nat /\ p.end \in Nat /\ d.start \in Nat
    BY <1>1, <2>1 DEF Chain
  <2>3. QED
    BY <2>1, <2>2
<1>3. ASSUME NEW x \in R, NEW y \in R, x.host = y.host, x.start = y.start PROVE x = y
  <2>1. PICK c \in ClosesOf(I, link) : c.host = x.host /\ c.end >= x.start /\ x.end = c.end
    BY WhereRunsEnd
  <2>2. PICK e \in ClosesOf(I, link) : e.host = y.host /\ e.end >= y.start /\ y.end = e.end
    BY WhereRunsEnd
  <2>3. x.end <= y.end /\ y.end <= x.end
    BY <1>3, <2>1, <2>2, WhereRunsEnd
  <2>4. x.end = y.end
    BY <1>1, <2>3
  <2>5. x = [host |-> x.host, start |-> x.start, end |-> x.end]
        /\ y = [host |-> y.host, start |-> y.start, end |-> y.end]
    BY WhereRunsEnd
  <2>6. QED
    BY <1>3, <2>4, <2>5
<1>4. QED
  BY <1>1, <1>2, <1>3 DEF Chain

\* Every interval is within a run.
LEMMA RunsCoverIntervals ==
    ASSUME NEW I, NEW link, Chain(I), Links(I, link), NEW R,
           R = RunsFrom(OpensOf(I, link), ClosesOf(I, link)), NEW e \in I
    PROVE  \E x \in R : x.host = e.host /\ x.start <= e.start /\ e.end <= x.end
<1>1. PICK o \in OpensOf(I, link) :
              /\ o.host = e.host /\ o.start <= e.start
              /\ \A d \in OpensOf(I, link) : d.host = e.host /\ d.start <= e.start => d.start <= o.start
  BY OpenedBefore
<1>2. PICK x \in R : x.host = o.host /\ x.start = o.start
  <2>1. PICK x : x = [host |-> o.host, start |-> o.start,
           end |-> Min({b.end : b \in {b \in ClosesOf(I, link) : b.host = o.host /\ b.end >= o.start}})]
    OBVIOUS
  <2>2. x \in R
    BY <2>1, Zenon DEF RunsFrom
  <2>3. x.host = o.host /\ x.start = o.start
    BY <2>1
  <2>4. QED
    BY <2>2, <2>3
<1>3. PICK c \in ClosesOf(I, link) : c.host = x.host /\ c.end >= x.start /\ x.end = c.end
  BY WhereRunsEnd
<1>4. o \in I /\ c \in I /\ \A f \in I : <<c, f>> \notin link
  BY DEF OpensOf, ClosesOf
<1>5. /\ o.start \in Nat /\ e.start \in Nat /\ e.end \in Nat /\ c.start \in Nat /\ c.end \in Nat
      /\ e.start <= e.end /\ c.start <= c.end
  BY <1>4 DEF Chain
<1>6. ASSUME c.end < e.end PROVE FALSE
  <2>1. c.start < e.start
    <3>1. c.start = e.start => c = e
      BY <1>1, <1>2, <1>3, <1>4 DEF Chain
    <3>2. e.start < c.start => e.end < c.start
      BY <1>1, <1>2, <1>3, <1>4 DEF Chain
    <3>3. QED
      BY <1>5, <1>6, <3>1, <3>2
  <2>2. PICK T : T = {f.start : f \in {f \in I : f.host = c.host /\ c.start < f.start}}
    OBVIOUS
  <2>3. T \subseteq Nat /\ e.start \in T
    BY <1>1, <1>2, <1>3, <2>1, <2>2 DEF Chain
  <2>4. PICK t \in T : \A u \in T : t <= u
    BY <2>3, LeastNat
  <2>5. PICK d \in I : d.host = c.host /\ c.start < d.start /\ d.start = t
    BY <2>2
  <2>6. d.start \in Nat /\ d.start <= e.start /\ c.end < d.start
    BY <1>4, <2>3, <2>4, <2>5 DEF Chain
  <2>7. d \notin OpensOf(I, link)
    BY <1>1, <1>2, <1>3, <1>5, <2>5, <2>6
  <2>8. PICK p \in I : <<p, d>> \in link
    BY <2>7 DEF OpensOf
  <2>9. p.host = d.host /\ p.start < d.start /\ p.start \in Nat
    BY <2>8 DEF Links, Chain
  <2>10. p.start <= c.start
    <3>1. SUFFICES ASSUME c.start < p.start PROVE FALSE
      BY <1>5, <2>9
    <3>2. p.start \in T
      BY <2>2, <2>5, <2>9, <3>1
    <3>3. QED
      BY <2>4, <2>5, <2>6, <2>9, <3>2
  <2>11. CASE p.start = c.start
    BY <1>4, <2>5, <2>8, <2>9, <2>11 DEF Chain
  <2>12. CASE p.start < c.start
    <3>1. <<c, d>> \in link
      BY <1>4, <2>5, <2>8, <2>9, <2>12 DEF Links
    <3>2. QED
      BY <1>4, <3>1
  <2>13. QED
    BY <1>5, <2>9, <2>10, <2>11, <2>12
<1>7. e.end <= x.end
  BY <1>3, <1>5, <1>6
<1>8. QED
  BY <1>1, <1>2, <1>7

-----------------------------------------------------------------------------
\* Rows of the hosts, and those of them under attack as intervals of one row.
AreRows(S) == S \subseteq TrainHost \X (0..LastHead)

Hits(S) == {[host |-> HostOf(r), start |-> At(r), end |-> At(r)] : r \in S \cap attack}

\* One row under attack is linked to another that is the next row of its host.
Adjacent(S) ==
    {p \in Hits(S) \X Hits(S) :
        /\ p[1].host = p[2].host /\ p[1].start < p[2].start
        /\ ~\E s \in S : HostOf(s) = p[1].host /\ p[1].start < At(s) /\ At(s) < p[2].start}

\* Merging links episodes that are close to each other.
Near(I) == {p \in I \X I : Linked(p[1], p[2])}

\* A row is its host and its window.
LEMMA RowFields ==
    ASSUME NEW S, AreRows(S)
    PROVE  /\ \A r \in S : HostOf(r) \in TrainHost /\ At(r) \in 0..LastHead /\ r = <<HostOf(r), At(r)>>
           /\ \A r, s \in S : HostOf(r) = HostOf(s) /\ At(r) = At(s) => r = s
BY DEF AreRows, HostOf, At

\* What a hit is.
LEMMA HitFields ==
    ASSUME NEW S, AreRows(S)
    PROVE  /\ \A e \in Hits(S) : /\ e \in [host : TrainHost, start : 0..LastHead, end : 0..LastHead]
                                 /\ e.start = e.end /\ <<e.host, e.start>> \in S \cap attack
                                 /\ HostOf(<<e.host, e.start>>) = e.host /\ At(<<e.host, e.start>>) = e.start
           /\ \A r \in S \cap attack : \E e \in Hits(S) : e.host = HostOf(r) /\ e.start = At(r)
<1>1. ASSUME NEW e \in Hits(S)
      PROVE  /\ e \in [host : TrainHost, start : 0..LastHead, end : 0..LastHead]
             /\ e.start = e.end /\ <<e.host, e.start>> \in S \cap attack
             /\ HostOf(<<e.host, e.start>>) = e.host /\ At(<<e.host, e.start>>) = e.start
  <2>1. PICK r \in S \cap attack : e = [host |-> HostOf(r), start |-> At(r), end |-> At(r)]
    BY DEF Hits
  <2>2. HostOf(r) \in TrainHost /\ At(r) \in 0..LastHead /\ r = <<HostOf(r), At(r)>>
    BY RowFields
  <2>3. e.host = HostOf(r) /\ e.start = At(r) /\ e.end = At(r)
    BY <2>1
  <2>4. HostOf(<<e.host, e.start>>) = e.host /\ At(<<e.host, e.start>>) = e.start
    BY DEF HostOf, At
  <2>5. QED
    BY <2>1, <2>2, <2>3, <2>4
<1>2. ASSUME NEW r \in S \cap attack
      PROVE  \E e \in Hits(S) : e.host = HostOf(r) /\ e.start = At(r)
  <2>1. PICK e : e = [host |-> HostOf(r), start |-> At(r), end |-> At(r)]
    OBVIOUS
  <2>2. e \in Hits(S) /\ e.host = HostOf(r) /\ e.start = At(r)
    BY <2>1 DEF Hits
  <2>3. QED
    BY <2>2
<1>3. QED
  BY <1>1, <1>2

\* The rows under attack are a chain, and being next to each other links them.
LEMMA HitsAreChain ==
    ASSUME NEW S, AreRows(S)
    PROVE  Chain(Hits(S)) /\ Links(Hits(S), Adjacent(S))
<1>1. PICK I : I = Hits(S)
  OBVIOUS
<1>2. \A e \in I : /\ e \in [host : TrainHost, start : 0..LastHead, end : 0..LastHead]
                   /\ e.start = e.end /\ <<e.host, e.start>> \in S
                   /\ HostOf(<<e.host, e.start>>) = e.host /\ At(<<e.host, e.start>>) = e.start
  BY <1>1, HitFields
<1>3. Chain(I)
  <2>1. ASSUME NEW e \in I, NEW f \in I, e.host = f.host, e.start = f.start PROVE e = f
    <3>1. e.end = f.end
      BY <1>2, <2>1
    <3>2. e \in [host : TrainHost, start : 0..LastHead, end : 0..LastHead]
          /\ f \in [host : TrainHost, start : 0..LastHead, end : 0..LastHead]
      BY <1>2
    <3>3. QED
      BY <2>1, <3>1, <3>2
  <2>2. ASSUME NEW e \in I PROVE e.start <= e.end
    <3>1. e.start = e.end /\ e \in [host : TrainHost, start : 0..LastHead, end : 0..LastHead]
      BY <1>2
    <3>2. e.start \in Nat
      BY <3>1
    <3>3. QED
      BY <3>1, <3>2
  <2>3. ASSUME NEW e \in I, NEW f \in I, e.start < f.start PROVE e.end < f.start
    <3>1. e.start = e.end
      BY <1>2
    <3>2. QED
      BY <2>3, <3>1
  <2>4. I \subseteq [host : TrainHost, start : 0..LastHead, end : 0..LastHead]
    BY <1>2
  <2>5. QED
    BY <2>1, <2>2, <2>3, <2>4 DEF Chain
<1>4. ASSUME NEW e \in I, NEW f \in I, <<e, f>> \in Adjacent(S)
      PROVE  /\ e.host = f.host /\ e.start < f.start
             /\ ~\E s \in S : HostOf(s) = e.host /\ e.start < At(s) /\ At(s) < f.start
  BY <1>4 DEF Adjacent
<1>5. ASSUME NEW e \in I, NEW f \in I, NEW g \in I, <<e, g>> \in Adjacent(S), f.host = e.host,
             e.start < f.start, f.start < g.start
      PROVE  FALSE
  <2>1. PICK s \in S : HostOf(s) = f.host /\ At(s) = f.start
    BY <1>2
  <2>2. ~\E u \in S : HostOf(u) = e.host /\ e.start < At(u) /\ At(u) < g.start
    BY <1>4, <1>5
  <2>3. QED
    BY <1>5, <2>1, <2>2
<1>6. Links(I, Adjacent(S))
  BY <1>4, <1>5 DEF Links
<1>7. QED
  BY <1>1, <1>3, <1>6

\* Closeness links the intervals of a chain.
LEMMA NearLinks ==
    ASSUME NEW I, Chain(I)
    PROVE  Links(I, Near(I))
<1>1. MergeGap \in Nat
  BY TrainingDataAssumption DEF TrainingDataAssumption
<1>2. \A e \in I : e.start \in Nat /\ e.end \in Nat /\ e.start <= e.end
  BY DEF Chain
<1>3. \A e, f \in I : <<e, f>> \in Near(I) <=>
         e.host = f.host /\ e.end < f.start /\ f.start - e.end - 1 <= MergeGap
  BY DEF Near, Linked
<1>4. ASSUME NEW e \in I, NEW f \in I, <<e, f>> \in Near(I) PROVE e.host = f.host /\ e.start < f.start
  BY <1>2, <1>3, <1>4
<1>5. ASSUME NEW e \in I, NEW f \in I, NEW g \in I, <<e, g>> \in Near(I), f.host = e.host,
             e.start < f.start, f.start < g.start
      PROVE  <<e, f>> \in Near(I) /\ <<f, g>> \in Near(I)
  <2>1. e.host = g.host /\ e.end < g.start /\ g.start - e.end - 1 <= MergeGap
    BY <1>3, <1>5
  <2>2. e.end < f.start /\ f.end < g.start
    BY <1>5, <2>1 DEF Chain
  <2>3. f.start - e.end - 1 <= MergeGap /\ g.start - f.end - 1 <= MergeGap
    BY <1>1, <1>2, <1>5, <2>1, <2>2
  <2>4. QED
    BY <1>3, <1>5, <2>1, <2>2, <2>3
<1>6. QED
  BY <1>4, <1>5 DEF Links

\* The row just before another.
LEMMA JustBefore ==
    ASSUME NEW S, AreRows(S), NEW e \in Hits(S)
    PROVE  Just(S, <<e.host, e.start>>) \cap attack = {} <=> ~\E d \in Hits(S) : <<d, e>> \in Adjacent(S)
<1>1. /\ e.start \in Nat
      /\ HostOf(<<e.host, e.start>>) = e.host /\ At(<<e.host, e.start>>) = e.start
  BY HitFields
<1>2. PICK r : r = <<e.host, e.start>> /\ HostOf(r) = e.host /\ At(r) = e.start
  BY <1>1
<1>3. \A s : s \in Just(S, r) <=> /\ s \in S /\ HostOf(s) = e.host /\ At(s) < e.start
                                  /\ \A u \in S : HostOf(u) = e.host /\ At(u) < e.start => At(u) <= At(s)
  BY <1>2 DEF Just, Behind, Own
<1>4. ASSUME NEW s \in Just(S, r), s \in attack PROVE \E d \in Hits(S) : <<d, e>> \in Adjacent(S)
  <2>1. s \in S \cap attack
    BY <1>3, <1>4
  <2>2. PICK d \in Hits(S) : d.host = HostOf(s) /\ d.start = At(s)
    BY <2>1, HitFields
  <2>3. d.start < e.start /\ d.host = e.host
    BY <1>3, <2>2
  <2>4. ~\E u \in S : HostOf(u) = d.host /\ d.start < At(u) /\ At(u) < e.start
    <3>1. \A u \in S : HostOf(u) = e.host /\ At(u) < e.start => At(u) <= At(s)
      BY <1>3
    <3>2. \A u \in S : At(u) \in Nat
      BY RowFields
    <3>3. At(s) \in Nat
      BY <2>1, <3>2
    <3>4. QED
      BY <2>2, <2>3, <3>1, <3>2, <3>3
  <2>5. <<d, e>> \in Adjacent(S)
    BY <2>3, <2>4 DEF Adjacent
  <2>6. QED
    BY <2>5
<1>5. ASSUME NEW d \in Hits(S), <<d, e>> \in Adjacent(S) PROVE \E s \in Just(S, r) : s \in attack
  <2>1. /\ d.host = e.host /\ d.start < e.start
        /\ ~\E s \in S : HostOf(s) = d.host /\ d.start < At(s) /\ At(s) < e.start
    BY <1>5 DEF Adjacent
  <2>2. PICK s : s = <<d.host, d.start>>
    OBVIOUS
  <2>3. s \in S \cap attack /\ HostOf(s) = d.host /\ At(s) = d.start /\ d.start \in Nat
    BY <2>2, HitFields
  <2>4. \A u \in S : HostOf(u) = e.host /\ At(u) < e.start => At(u) <= At(s)
    <3>1. \A u \in S : At(u) \in Nat
      BY RowFields
    <3>2. QED
      BY <2>1, <2>3, <3>1
  <2>5. s \in Just(S, r)
    BY <1>3, <2>1, <2>3, <2>4
  <2>6. QED
    BY <2>3, <2>5
<1>6. QED
  BY <1>2, <1>4, <1>5

\* The rows of a host are finitely many.
LEMMA OwnIsFinite ==
    ASSUME NEW S, AreRows(S), NEW h \in TrainHost
    PROVE  IsFiniteSet(Own(S, h))
<1>1. IsFiniteSet({h}) /\ IsFiniteSet(0..LastHead)
  <2>1. IsFiniteSet({h})
    BY FS_Singleton, Zenon
  <2>2. 0 \in Int /\ LastHead \in Int
    BY LastIsNat
  <2>3. QED
    BY <2>1, <2>2, FS_Interval
<1>2. IsFiniteSet({h} \X (0..LastHead))
  BY <1>1, FS_Product
<1>3. Own(S, h) \in SUBSET ({h} \X (0..LastHead))
  BY DEF Own, AreRows, HostOf
<1>4. QED
  BY <1>2, <1>3, FS_Subset

\* The row just after another.
LEMMA NextRow ==
    ASSUME NEW S, AreRows(S), NEW r, HostOf(r) \in TrainHost, At(r) \in Nat, NEW s
    PROVE  s \in Ahead(S, r, 1) <=>
              /\ s \in S /\ HostOf(s) = HostOf(r) /\ At(s) > At(r)
              /\ \A u \in S : HostOf(u) = HostOf(r) /\ At(u) > At(r) => At(s) <= At(u)
<1>1. PICK later : later = Later(S, r)
  OBVIOUS
<1>2. \A u : u \in later <=> u \in S /\ HostOf(u) = HostOf(r) /\ At(u) > At(r)
  BY <1>1 DEF Later, Own
<1>3. \A u \in later : At(u) \in Nat
  BY <1>2, RowFields
<1>4. SUFFICES ASSUME s \in later
               PROVE  Cardinality({u \in later : At(u) <= At(s)}) <= 1 <=> \A u \in later : At(s) <= At(u)
  BY <1>1, <1>2 DEF Ahead
<1>5. PICK U : U = {u \in later : At(u) <= At(s)}
  OBVIOUS
<1>6. IsFiniteSet(U) /\ Cardinality(U) \in Nat
  <2>1. U \in SUBSET Own(S, HostOf(r))
    BY <1>1, <1>5 DEF Later
  <2>2. QED
    BY <2>1, OwnIsFinite, FS_Subset, FS_CardinalityType
<1>7. s \in U
  BY <1>3, <1>4, <1>5
<1>8. ASSUME \A u \in later : At(s) <= At(u) PROVE Cardinality(U) <= 1
  <2>1. ASSUME NEW u \in U PROVE u = s
    <3>1. u \in later /\ At(u) <= At(s) /\ At(s) <= At(u)
      BY <1>5, <1>8
    <3>2. At(u) = At(s)
      BY <1>3, <1>4, <3>1
    <3>3. QED
      BY <1>2, <1>4, <3>1, <3>2, RowFields
  <2>2. U = {s}
    BY <1>7, <2>1
  <2>3. Cardinality(U) = 1
    BY <2>2, FS_Singleton, Zenon
  <2>4. QED
    BY <2>3
<1>9. ASSUME Cardinality(U) <= 1, NEW u \in later PROVE At(s) <= At(u)
  <2>1. SUFFICES ASSUME At(u) < At(s) PROVE FALSE
    BY <1>3, <1>4
  <2>2. u \in U /\ u # s
    BY <1>3, <1>4, <1>5, <2>1
  <2>3. IsFiniteSet({s}) /\ Cardinality({s}) = 1
    BY FS_Singleton
  <2>4. {s} \in SUBSET U /\ {s} # U
    BY <1>7, <2>2
  <2>5. Cardinality({s}) <= Cardinality(U) /\ Cardinality(U) # Cardinality({s})
    BY <1>6, <2>4, FS_Subset
  <2>6. QED
    BY <1>6, <1>9, <2>3, <2>5
<1>10. QED
  BY <1>5, <1>8, <1>9

\* The row just after another, among those under attack.
LEMMA JustAfter ==
    ASSUME NEW S, AreRows(S), NEW e \in Hits(S)
    PROVE  Ahead(S, <<e.host, e.start>>, 1) \cap attack = {} <=> ~\E f \in Hits(S) : <<e, f>> \in Adjacent(S)
<1>1. /\ e.start \in Nat /\ e.host \in TrainHost
      /\ HostOf(<<e.host, e.start>>) = e.host /\ At(<<e.host, e.start>>) = e.start
  BY HitFields
<1>2. PICK r : r = <<e.host, e.start>> /\ HostOf(r) = e.host /\ At(r) = e.start
  BY <1>1
<1>3. \A s : s \in Ahead(S, r, 1) <=> /\ s \in S /\ HostOf(s) = e.host /\ At(s) > e.start
                                      /\ \A u \in S : HostOf(u) = e.host /\ At(u) > e.start => At(s) <= At(u)
  BY <1>1, <1>2, NextRow
<1>4. \A u \in S : At(u) \in Nat
  BY RowFields
<1>5. ASSUME NEW s \in Ahead(S, r, 1), s \in attack PROVE \E f \in Hits(S) : <<e, f>> \in Adjacent(S)
  <2>1. s \in S \cap attack /\ HostOf(s) = e.host /\ At(s) > e.start
    BY <1>3, <1>5
  <2>2. PICK f \in Hits(S) : f.host = HostOf(s) /\ f.start = At(s)
    BY <2>1, HitFields
  <2>3. e.start < f.start /\ f.host = e.host
    BY <1>1, <1>4, <2>1, <2>2
  <2>4. ~\E u \in S : HostOf(u) = e.host /\ e.start < At(u) /\ At(u) < f.start
    <3>1. \A u \in S : HostOf(u) = e.host /\ At(u) > e.start => At(s) <= At(u)
      BY <1>3
    <3>2. QED
      BY <1>1, <1>4, <2>1, <2>2, <3>1
  <2>5. <<e, f>> \in Adjacent(S)
    BY <2>3, <2>4 DEF Adjacent
  <2>6. QED
    BY <2>5
<1>6. ASSUME NEW f \in Hits(S), <<e, f>> \in Adjacent(S) PROVE \E s \in Ahead(S, r, 1) : s \in attack
  <2>1. /\ e.host = f.host /\ e.start < f.start
        /\ ~\E s \in S : HostOf(s) = e.host /\ e.start < At(s) /\ At(s) < f.start
    BY <1>6 DEF Adjacent
  <2>2. PICK s : s = <<f.host, f.start>>
    OBVIOUS
  <2>3. s \in S \cap attack /\ HostOf(s) = f.host /\ At(s) = f.start /\ f.start \in Nat
    BY <2>2, HitFields
  <2>4. \A u \in S : HostOf(u) = e.host /\ At(u) > e.start => At(s) <= At(u)
    BY <1>1, <1>4, <2>1, <2>3
  <2>5. s \in Ahead(S, r, 1)
    BY <1>1, <1>3, <2>1, <2>3, <2>4
  <2>6. QED
    BY <2>3, <2>5
<1>7. QED
  BY <1>2, <1>5, <1>6

\* Episodes are the runs of rows under attack.
LEMMA EpisodesAreRuns ==
    ASSUME NEW S, AreRows(S)
    PROVE  EpisodesIn(S) = RunsFrom(OpensOf(Hits(S), Adjacent(S)), ClosesOf(Hits(S), Adjacent(S)))
<1>1. EpisodesIn(S) = RunsFrom({e \in Hits(S) : Just(S, <<e.host, e.start>>) \cap attack = {}},
                               {e \in Hits(S) : Ahead(S, <<e.host, e.start>>, 1) \cap attack = {}})
  BY Zenon DEF EpisodesIn, Hits
<1>2. {e \in Hits(S) : Just(S, <<e.host, e.start>>) \cap attack = {}} = OpensOf(Hits(S), Adjacent(S))
  BY JustBefore DEF OpensOf
<1>3. {e \in Hits(S) : Ahead(S, <<e.host, e.start>>, 1) \cap attack = {}} = ClosesOf(Hits(S), Adjacent(S))
  BY JustAfter DEF ClosesOf
<1>4. QED
  BY <1>1, <1>2, <1>3

\* Merging makes the runs of episodes that are close to each other.
LEMMA MergedAreRuns ==
    ASSUME NEW S, NEW I, I = EpisodesIn(S)
    PROVE  Merged(S) = RunsFrom(OpensOf(I, Near(I)), ClosesOf(I, Near(I)))
<1>1. \A e, f \in I : <<e, f>> \in Near(I) <=> Linked(e, f)
  BY DEF Near
<1>2. {e \in I : ~\E d \in I : Linked(d, e)} = OpensOf(I, Near(I))
  BY <1>1 DEF OpensOf
<1>3. {e \in I : ~\E f \in I : Linked(e, f)} = ClosesOf(I, Near(I))
  BY <1>1 DEF ClosesOf
<1>4. Merged(S) = RunsFrom({e \in I : ~\E d \in I : Linked(d, e)}, {e \in I : ~\E f \in I : Linked(e, f)})
  BY Zenon DEF Merged
<1>5. QED
  BY <1>2, <1>3, <1>4

\* What merging makes of a table: a chain that covers every row under attack,
\* of episodes that lie more than the gap apart.
LEMMA MergedEpisodes ==
    ASSUME NEW S, AreRows(S), NEW M, M = Merged(S)
    PROVE  /\ Chain(M)
           /\ \A r \in S \cap attack :
                 \E e \in M : e.host = HostOf(r) /\ e.start <= At(r) /\ At(r) <= e.end
           /\ \A e, f \in M : e.host = f.host /\ e.start < f.start => f.start - e.end - 1 > MergeGap
<1>1. PICK H, I : H = Hits(S) /\ I = EpisodesIn(S)
  OBVIOUS
<1>2. Chain(H) /\ Links(H, Adjacent(S)) /\ I = RunsFrom(OpensOf(H, Adjacent(S)), ClosesOf(H, Adjacent(S)))
  BY <1>1, HitsAreChain, EpisodesAreRuns
<1>3. Chain(I) /\ Links(I, Near(I)) /\ M = RunsFrom(OpensOf(I, Near(I)), ClosesOf(I, Near(I)))
  BY <1>1, <1>2, RunsAreChain, NearLinks, MergedAreRuns
<1>4. Chain(M)
  BY <1>3, RunsAreChain
<1>5. ASSUME NEW r \in S \cap attack
      PROVE  \E e \in M : e.host = HostOf(r) /\ e.start <= At(r) /\ At(r) <= e.end
  <2>1. PICK h \in H : h.host = HostOf(r) /\ h.start = At(r)
    BY <1>1, HitFields
  <2>2. h.start = h.end /\ h.start \in Nat
    <3>1. h.start = h.end /\ h \in [host : TrainHost, start : 0..LastHead, end : 0..LastHead]
      BY <1>1, HitFields
    <3>2. QED
      BY <3>1
  <2>3. PICK i \in I : i.host = h.host /\ i.start <= h.start /\ h.end <= i.end
    BY <1>2, RunsCoverIntervals
  <2>4. PICK e \in M : e.host = i.host /\ e.start <= i.start /\ i.end <= e.end
    BY <1>3, RunsCoverIntervals
  <2>5. i.start \in Nat /\ i.end \in Nat /\ e.start \in Nat /\ e.end \in Nat
    BY <1>3, <1>4 DEF Chain
  <2>6. QED
    BY <2>1, <2>2, <2>3, <2>4, <2>5
<1>6. ASSUME NEW e \in M, NEW f \in M, e.host = f.host, e.start < f.start
      PROVE  f.start - e.end - 1 > MergeGap
  <2>1. PICK p \in I, d \in I : /\ p.host = e.host /\ d.host = e.host /\ d.start = f.start
                                /\ e.end <= p.end /\ p.end < d.start /\ <<p, d>> \notin Near(I)
    BY <1>3, <1>6, RunsApart
  <2>2. ~(d.start - p.end - 1 <= MergeGap)
    BY <2>1 DEF Near, Linked
  <2>3. d.start \in Nat /\ p.end \in Nat /\ e.end \in Nat /\ MergeGap \in Nat
    BY <1>3, <1>4, TrainingDataAssumption DEF Chain, TrainingDataAssumption
  <2>4. QED
    BY <2>1, <2>2, <2>3
<1>7. QED
  BY <1>4, <1>5, <1>6

-----------------------------------------------------------------------------
(***************************************************************************)
(* The loop over the episodes of a host.  After i of them it has the       *)
(* place of the row among the i that start first (Placed).                 *)
(***************************************************************************)
Around(e, r) == e.start <= At(r) /\ At(r) <= e.end

\* What g says of r is its place among the episodes of P.
Placed(g, P, r) ==
    /\ g.inside \in BOOLEAN /\ g.wait \in Nat
    /\ g.inside <=> \E e \in P : Around(e, r)
    /\ \A f \in P : f.start > At(r) => g.wait <= f.start - At(r)
    /\ \/ g.wait = NoOnset /\ \A f \in P : f.start <= At(r)
       \/ \E f \in P : f.start > At(r) /\ g.wait = f.start - At(r)
    /\ \/ \E e \in P : Around(e, r) /\ g.key = e.start
       \/ ~g.inside /\ g.key = NoOnset /\ g.wait = NoOnset /\ \A f \in P : f.start <= At(r)
       \/ ~g.inside /\ \E f \in P : f.start > At(r) /\ g.wait = f.start - At(r) /\ g.key = f.start

\* One turn of the loop.
Turn(was, e, r) ==
    LET within == e.start <= At(r) /\ At(r) <= e.end
        before == At(r) < e.start /\ e.start - At(r) < was.wait
    IN  [inside |-> was.inside \/ within,
         wait   |-> IF before THEN e.start - At(r) ELSE was.wait,
         key    |-> IF within \/ KeyBefore(before, was.inside) THEN e.start ELSE was.key]

\* A turn takes the next episode into account.
LEMMA TurnPlaces ==
    ASSUME NEW P, NEW e, NEW r, NEW was, Placed(was, P, r), At(r) \in Nat,
           \A f \in P \cup {e} : f.start \in 0..LastHead /\ f.end \in 0..LastHead,
           \A f \in P : f.start < e.start
    PROVE  Placed(Turn(was, e, r), P \cup {e}, r)
<1>1. PICK t, Q : t \in Nat /\ t = At(r) /\ Q = P \cup {e}
  OBVIOUS
<1>2. PICK g : g = Turn(was, e, r)
  OBVIOUS
<1>3. /\ g.inside = (was.inside \/ (e.start <= t /\ t <= e.end))
      /\ g.wait = IF t < e.start /\ e.start - t < was.wait THEN e.start - t ELSE was.wait
      /\ g.key = IF (e.start <= t /\ t <= e.end) \/ (t < e.start /\ e.start - t < was.wait /\ ~was.inside)
                 THEN e.start ELSE was.key
  BY <1>1, <1>2 DEF Turn, KeyBefore
<1>4. /\ was.inside \in BOOLEAN /\ was.wait \in Nat
      /\ was.inside <=> \E f \in P : f.start <= t /\ t <= f.end
      /\ \A f \in P : f.start > t => was.wait <= f.start - t
  BY <1>1 DEF Placed, Around
<1>5. \/ was.wait = NoOnset /\ \A f \in P : f.start <= t
      \/ \E f \in P : f.start > t /\ was.wait = f.start - t
  BY <1>1 DEF Placed
<1>6. \/ \E f \in P : f.start <= t /\ t <= f.end /\ was.key = f.start
      \/ ~was.inside /\ was.key = NoOnset /\ was.wait = NoOnset /\ \A f \in P : f.start <= t
      \/ ~was.inside /\ \E f \in P : f.start > t /\ was.wait = f.start - t /\ was.key = f.start
  BY <1>1 DEF Placed, Around
<1>7. /\ t \in Nat /\ e.start \in Nat /\ e.end \in Nat /\ e.start <= LastHead
      /\ \A f \in P : f.start \in Nat /\ f.end \in Nat /\ f.start < e.start
  BY <1>1, LastIsNat
<1>8. g.inside \in BOOLEAN /\ (g.inside <=> \E f \in Q : f.start <= t /\ t <= f.end)
  BY <1>1, <1>3, <1>4
<1>9. e \in Q /\ P \subseteq Q /\ \A f \in Q : f \in P \/ f = e
  BY <1>1
<1>10. CASE t < e.start /\ \A f \in P : f.start <= t
  <2>1. was.wait = NoOnset /\ e.start - t < was.wait
    BY <1>5, <1>7, <1>10, LastIsNat
  <2>2. g.wait = e.start - t /\ g.wait \in Nat
    BY <1>3, <1>7, <1>10, <2>1
  <2>3. \A f \in Q : f.start > t => g.wait <= f.start - t
    BY <1>7, <1>9, <1>10, <2>2
  <2>4. ~(e.start <= t /\ t <= e.end)
    BY <1>7, <1>10
  <2>5. CASE was.inside
    <3>1. g.key = was.key /\ \E f \in P : f.start <= t /\ t <= f.end /\ was.key = f.start
      BY <1>3, <1>6, <2>4, <2>5
    <3>2. \E f \in Q : f.start <= t /\ t <= f.end /\ g.key = f.start
      BY <1>9, <3>1
    <3>3. \E f \in Q : f.start > t /\ g.wait = f.start - t
      BY <1>7, <1>9, <1>10, <2>2
    <3>4. QED
      BY <1>1, <1>2, <1>8, <2>2, <2>3, <3>2, <3>3 DEF Placed, Around
  <2>6. CASE ~was.inside
    <3>1. g.key = e.start /\ ~g.inside
      BY <1>3, <1>10, <2>1, <2>4, <2>6
    <3>2. \E f \in Q : f.start > t /\ g.wait = f.start - t /\ g.key = f.start
      BY <1>7, <1>9, <1>10, <2>2, <3>1
    <3>3. QED
      BY <1>1, <1>2, <1>8, <2>2, <2>3, <3>1, <3>2 DEF Placed, Around
  <2>7. QED
    BY <1>4, <2>5, <2>6
<1>11. CASE t < e.start /\ \E f \in P : f.start > t
  <2>1. PICK h \in P : h.start > t /\ was.wait = h.start - t
    BY <1>5, <1>7, <1>11
  <2>2. was.wait <= e.start - t /\ ~(e.start - t < was.wait) /\ ~(e.start <= t /\ t <= e.end)
    BY <1>4, <1>7, <1>11, <2>1
  <2>3. g.wait = was.wait /\ g.key = was.key /\ g.inside = was.inside
    BY <1>3, <1>4, <2>2
  <2>4. \A f \in Q : f.start > t => g.wait <= f.start - t
    BY <1>4, <1>9, <2>2, <2>3
  <2>5. \E f \in Q : f.start > t /\ g.wait = f.start - t
    BY <1>9, <2>1, <2>3
  <2>6. \/ \E f \in P : f.start <= t /\ t <= f.end /\ was.key = f.start
        \/ ~was.inside /\ \E f \in P : f.start > t /\ was.wait = f.start - t /\ was.key = f.start
    BY <1>6, <1>7, <1>11
  <2>7. \/ \E f \in Q : f.start <= t /\ t <= f.end /\ g.key = f.start
        \/ ~g.inside /\ \E f \in Q : f.start > t /\ g.wait = f.start - t /\ g.key = f.start
    BY <1>9, <2>3, <2>6
  <2>8. g.wait \in Nat
    BY <1>4, <2>3
  <2>9. QED
    BY <1>1, <1>2, <1>8, <2>4, <2>5, <2>7, <2>8 DEF Placed, Around
<1>12. CASE e.start <= t
  <2>1. \A f \in Q : f.start <= t /\ ~(f.start > t)
    BY <1>7, <1>9, <1>12
  <2>2. was.wait = NoOnset
    BY <1>5, <1>9, <2>1
  <2>3. g.wait = NoOnset /\ ~(t < e.start)
    BY <1>3, <1>7, <1>12, <2>2
  <2>4. CASE t <= e.end
    <3>1. g.key = e.start
      BY <1>3, <1>12, <2>4
    <3>2. \E f \in Q : f.start <= t /\ t <= f.end /\ g.key = f.start
      BY <1>9, <1>12, <2>4, <3>1
    <3>3. QED
      BY <1>1, <1>2, <1>8, <2>1, <2>3, <3>2, LastIsNat DEF Placed, Around
  <2>5. CASE ~(t <= e.end)
    <3>1. g.key = was.key /\ g.inside = was.inside
      BY <1>3, <1>4, <2>3, <2>5
    <3>2. \/ \E f \in Q : f.start <= t /\ t <= f.end /\ g.key = f.start
          \/ ~g.inside /\ g.key = NoOnset /\ g.wait = NoOnset
      BY <1>6, <1>9, <2>1, <2>3, <3>1
    <3>3. QED
      BY <1>1, <1>2, <1>8, <2>1, <2>3, <3>2, LastIsNat DEF Placed, Around
  <2>6. QED
    BY <2>4, <2>5
<1>13. QED
  BY <1>7, <1>10, <1>11, <1>12

\* The loop itself: the i-th episode of a host, and a function of its turns.
Nth(own, i) == CHOOSE e \in own : Cardinality({f \in own : f.start < e.start}) = i - 1

Nowhere == [inside |-> FALSE, wait |-> NoOnset, key |-> NoOnset]

IsTurns(f, own, r, n) ==
    f = [i \in 0..n |-> IF i = 0 THEN Nowhere ELSE Turn(f[i - 1], Nth(own, i), r)]

\* The loop runs over any number of episodes.
LEMMA TurnsExist ==
    ASSUME NEW own, NEW r, NEW n \in Nat
    PROVE  \E f : IsTurns(f, own, r, n)
<1>1. PICK T : T = {m \in Nat : \E f : IsTurns(f, own, r, m)}
  OBVIOUS
<1>2. 0 \in T
  <2>1. PICK f : f = [i \in 0..0 |-> Nowhere]
    OBVIOUS
  <2>2. f = [i \in 0..0 |-> IF i = 0 THEN Nowhere ELSE Turn(f[i - 1], Nth(own, i), r)]
    BY <2>1
  <2>3. QED
    BY <1>1, <2>2 DEF IsTurns
<1>3. ASSUME NEW m \in Nat, m \in T PROVE m + 1 \in T
  <2>1. PICK f : IsTurns(f, own, r, m)
    BY <1>1, <1>3
  <2>2. PICK g : g = [i \in 0..m + 1 |-> IF i = 0 THEN Nowhere ELSE Turn(f[i - 1], Nth(own, i), r)]
    OBVIOUS
  <2>3. \A i \in 0..m : g[i] = f[i]
    BY <2>1, <2>2 DEF IsTurns
  <2>4. \A i \in 0..m + 1 : i # 0 => f[i - 1] = g[i - 1]
    <3>1. TAKE i \in 0..m + 1
    <3>2. i # 0 => i - 1 \in 0..m
      OBVIOUS
    <3>3. QED
      BY <2>3, <3>2
  <2>5. IsTurns(g, own, r, m + 1)
    BY <2>2, <2>4 DEF IsTurns
  <2>6. QED
    BY <1>1, <2>5
<1>4. \A m \in Nat : m \in T
  BY <1>2, <1>3, ByInduction
<1>5. QED
  BY <1>1, <1>4

\* Geometry is what the loop ends with.
LEMMA GeometryIsLoop ==
    ASSUME NEW M, NEW r, NEW own, own = {e \in M : e.host = HostOf(r)}, Cardinality(own) \in Nat
    PROVE  \E f : IsTurns(f, own, r, Cardinality(own)) /\ Geometry(M, r) = f[Cardinality(own)]
<1>1. PICK f : f = CHOOSE g : IsTurns(g, own, r, Cardinality(own))
  OBVIOUS
<1>2. IsTurns(f, own, r, Cardinality(own))
  BY <1>1, TurnsExist
<1>3. Geometry(M, r) = f[Cardinality(own)]
  BY <1>1 DEF Geometry, IsTurns, Nowhere, Turn, Nth
<1>4. QED
  BY <1>2, <1>3

\* The episodes of a host are finitely many.
LEMMA ChainIsFinite ==
    ASSUME NEW M, Chain(M), NEW h, NEW own, own = {e \in M : e.host = h}
    PROVE  IsFiniteSet(own)
<1>1. PICK f : f = [e \in own |-> e.start]
  OBVIOUS
<1>2. f \in Injection(own, 0..LastHead)
  <2>1. f \in [own -> 0..LastHead]
    BY <1>1 DEF Chain
  <2>2. \A a, b \in own : f[a] = f[b] => a = b
    BY <1>1 DEF Chain
  <2>3. QED
    BY <2>1, <2>2 DEF Injection, IsInjective
<1>3. IsFiniteSet(0..LastHead)
  <2>1. 0 \in Int /\ LastHead \in Int
    BY LastIsNat
  <2>2. QED
    BY <2>1, FS_Interval
<1>4. QED
  BY <1>2, <1>3, FS_Injection

\* The next of the episodes of a host, after those of P that start first.
LEMMA NextEpisode ==
    ASSUME NEW own, IsFiniteSet(own), \A e \in own : e.start \in Nat,
           \A e, f \in own : e.start = f.start => e = f,
           NEW P, P \subseteq own, P # own, \A e \in P, f \in own : f.start < e.start => f \in P
    PROVE  /\ Cardinality(P) \in Nat
           /\ \E e \in own : /\ e \notin P /\ Nth(own, Cardinality(P) + 1) = e
                             /\ \A f \in P : f.start < e.start
                             /\ \A f \in own \ P : e.start <= f.start
                             /\ Cardinality(P \cup {e}) = Cardinality(P) + 1
<1>1. IsFiniteSet(P) /\ Cardinality(P) \in Nat
  BY FS_Subset, FS_CardinalityType
<1>2. PICK T : T = {f.start : f \in own \ P}
  OBVIOUS
<1>3. T \subseteq Nat /\ T # {}
  BY <1>2
<1>4. PICK t \in T : \A u \in T : t <= u
  BY <1>3, LeastNat
<1>5. PICK e \in own \ P : e.start = t
  BY <1>2
<1>6. \A f \in own \ P : e.start <= f.start
  BY <1>2, <1>4, <1>5
<1>7. \A f \in P : f.start < e.start
  <2>1. SUFFICES ASSUME NEW f \in P, ~(f.start < e.start) PROVE FALSE
    OBVIOUS
  <2>2. f \in own /\ e \in own /\ e \notin P
    BY <1>5
  <2>3. f.start = e.start \/ e.start < f.start
    BY <2>1, <2>2
  <2>4. QED
    BY <2>1, <2>2, <2>3
<1>8. {f \in own : f.start < e.start} = P
  <2>1. \A f \in own : f.start < e.start => f \in P
    BY <1>5, <1>6
  <2>2. QED
    BY <1>7, <2>1
<1>9. ASSUME NEW d \in own, d # e
      PROVE  Cardinality({f \in own : f.start < d.start}) # Cardinality(P)
  <2>1. PICK D : D = {f \in own : f.start < d.start}
    OBVIOUS
  <2>2. IsFiniteSet(D)
    BY <2>1, FS_Subset
  <2>3. d.start # e.start
    BY <1>5, <1>9
  <2>4. CASE d.start < e.start
    <3>1. d \in P /\ d \notin D /\ D \subseteq P
      <4>1. d \in P
        BY <1>8, <2>4
      <4>2. QED
        BY <1>8, <2>1, <2>4, <4>1
    <3>2. QED
      BY <1>1, <2>1, <3>1, FS_Subset
  <2>5. CASE e.start < d.start
    <3>1. e \in D /\ e \notin P /\ P \subseteq D
      <4>1. \A f \in P : f.start < d.start
        BY <1>5, <1>7, <2>5
      <4>2. QED
        BY <1>5, <2>1, <2>5, <4>1
    <3>2. QED
      BY <2>1, <2>2, <3>1, FS_Subset
  <2>6. QED
    BY <1>5, <2>3, <2>4, <2>5
<1>10. Nth(own, Cardinality(P) + 1) = e
  <2>1. PICK c : c = Cardinality(P) /\ (c + 1) - 1 = c
    BY <1>1
  <2>2. Cardinality({f \in own : f.start < e.start}) = c
    BY <1>8, <2>1
  <2>3. \A d \in own : Cardinality({f \in own : f.start < d.start}) = c => d = e
    BY <1>9, <2>1
  <2>4. (CHOOSE d \in own : Cardinality({f \in own : f.start < d.start}) = c) = e
    BY <1>5, <2>2, <2>3
  <2>5. QED
    BY <2>1, <2>4 DEF Nth
<1>11. Cardinality(P \cup {e}) = Cardinality(P) + 1
  BY <1>1, <1>5, FS_AddElement
<1>12. QED
  BY <1>1, <1>5, <1>6, <1>7, <1>10, <1>11

\* The loop gives a row its place among all the episodes of its host.
LEMMA GeometryPlaces ==
    ASSUME NEW M, Chain(M), NEW r, At(r) \in Nat, NEW own, own = {e \in M : e.host = HostOf(r)}
    PROVE  Placed(Geometry(M, r), own, r)
<1>1. IsFiniteSet(own) /\ Cardinality(own) \in Nat
  BY ChainIsFinite, FS_CardinalityType
<1>2. PICK n \in Nat : n = Cardinality(own)
  BY <1>1
<1>3. PICK f : IsTurns(f, own, r, n) /\ Geometry(M, r) = f[n]
  BY <1>1, <1>2, GeometryIsLoop
<1>4. /\ \A e \in own : e.start \in 0..LastHead /\ e.end \in 0..LastHead
      /\ \A e \in own : e.start \in Nat
      /\ \A e, d \in own : e.start = d.start => e = d
  BY DEF Chain
<1>5. PICK Down : Down = {P \in SUBSET own : \A e \in P, d \in own : d.start < e.start => d \in P}
  OBVIOUS
<1>6. PICK T : T = {i \in Nat : i <= n => \E P \in Down : Cardinality(P) = i /\ Placed(f[i], P, r)}
  OBVIOUS
<1>7. 0 \in T
  <2>1. {} \in Down /\ Cardinality({}) = 0
    BY <1>5, FS_EmptySet
  <2>2. f[0] = Nowhere
    BY <1>3 DEF IsTurns
  <2>3. Placed(Nowhere, {}, r)
    BY LastIsNat DEF Placed, Nowhere
  <2>4. \E P \in Down : Cardinality(P) = 0 /\ Placed(f[0], P, r)
    BY <2>1, <2>2, <2>3
  <2>5. QED
    BY <1>6, <2>4
<1>8. ASSUME NEW m \in Nat, m \in T PROVE m + 1 \in T
  <2>1. SUFFICES ASSUME m + 1 <= n PROVE \E P \in Down : Cardinality(P) = m + 1 /\ Placed(f[m + 1], P, r)
    BY <1>6
  <2>2. PICK P \in Down : Cardinality(P) = m /\ Placed(f[m], P, r)
    BY <1>6, <1>8, <2>1
  <2>3. P \subseteq own /\ P # own /\ \A e \in P, d \in own : d.start < e.start => d \in P
    <3>1. m # n
      BY <2>1
    <3>2. P # own
      BY <1>2, <2>2, <3>1
    <3>3. QED
      BY <1>5, <3>2
  <2>4. PICK e \in own : /\ e \notin P /\ Nth(own, Cardinality(P) + 1) = e
                         /\ \A d \in P : d.start < e.start
                         /\ \A d \in own \ P : e.start <= d.start
                         /\ Cardinality(P \cup {e}) = Cardinality(P) + 1
    BY <1>1, <1>4, <2>3, NextEpisode
  <2>5. PICK k \in 0..n : k = m + 1 /\ k # 0 /\ k - 1 = m
    BY <2>1
  <2>6. f[k] = Turn(f[m], e, r)
    <3>1. f[k] = Turn(f[k - 1], Nth(own, k), r)
      BY <1>3, <2>5 DEF IsTurns
    <3>2. Nth(own, k) = e
      BY <2>2, <2>4, <2>5
    <3>3. QED
      BY <2>5, <3>1, <3>2
  <2>7. \A d \in P \cup {e} : d.start \in 0..LastHead /\ d.end \in 0..LastHead
    BY <1>4, <2>3
  <2>8. Placed(f[k], P \cup {e}, r)
    BY <2>2, <2>4, <2>6, <2>7, TurnPlaces
  <2>9. P \cup {e} \in Down
    <3>1. P \cup {e} \subseteq own
      BY <2>3
    <3>2. ASSUME NEW d \in own, d.start < e.start PROVE d \in P
      <4>1. d \notin own \ P
        BY <1>4, <2>4, <3>2
      <4>2. QED
        BY <4>1
    <3>3. \A a \in P \cup {e}, d \in own : d.start < a.start => d \in P \cup {e}
      BY <2>3, <3>2
    <3>4. QED
      BY <1>5, <3>1, <3>3
  <2>10. QED
    BY <2>2, <2>4, <2>5, <2>8, <2>9
<1>9. \A i \in Nat : i \in T
  BY <1>7, <1>8, ByInduction
<1>10. PICK P \in Down : Cardinality(P) = n /\ Placed(f[n], P, r)
  <2>1. n \in T
    BY <1>9
  <2>2. QED
    BY <1>6, <2>1
<1>11. P = own
  BY <1>1, <1>2, <1>5, <1>10, FS_Subset
<1>12. QED
  BY <1>3, <1>10, <1>11

\* The place of a row, said without the loop.
Says(g, r, around, ahead, first) ==
    /\ g.inside <=> around # {}
    /\ g.wait = IF ahead = {} THEN NoOnset ELSE first - At(r)
    /\ g.key \in IF around = {} THEN {first} ELSE around
    /\ g.wait \in Nat \ {0} /\ g.inside \in BOOLEAN

IsExact(g, M, r) ==
    \A own, around, ahead, first :
        /\ own = {e \in M : e.host = HostOf(r)}
        /\ around = {e.start : e \in {e \in own : At(r) \in e.start..e.end}}
        /\ ahead = {e.start : e \in {e \in own : e.start > At(r)}}
        /\ first = IF ahead = {} THEN NoOnset ELSE Min(ahead)
        => Says(g, r, around, ahead, first)

\* It is what the loop finds.
LEMMA PlaceIsExact ==
    ASSUME NEW M, Chain(M), NEW r, At(r) \in Nat, NEW g, Placed(g, {e \in M : e.host = HostOf(r)}, r)
    PROVE  IsExact(g, M, r)
<1> SUFFICES ASSUME NEW own, own = {e \in M : e.host = HostOf(r)},
                    NEW around, around = {e.start : e \in {e \in own : At(r) \in e.start..e.end}},
                    NEW ahead, ahead = {e.start : e \in {e \in own : e.start > At(r)}},
                    NEW first, first = IF ahead = {} THEN NoOnset ELSE Min(ahead)
             PROVE  Says(g, r, around, ahead, first)
  BY Zenon DEF IsExact
<1>1. \A e \in own : e.start \in Nat /\ e.end \in Nat
  BY DEF Chain
<1>2. \A e \in own : At(r) \in e.start..e.end <=> Around(e, r)
  BY <1>1 DEF Around
<1>3. g.inside \in BOOLEAN /\ (g.inside <=> \E e \in own : Around(e, r)) /\ g.wait \in Nat
  BY DEF Placed
<1>4. g.inside <=> around # {}
  BY <1>2, <1>3
<1>5. ahead \subseteq Nat /\ \A x \in ahead : x > At(r)
  BY <1>1
<1>6. /\ \A f \in own : f.start > At(r) => g.wait <= f.start - At(r)
      /\ \/ g.wait = NoOnset /\ \A f \in own : f.start <= At(r)
         \/ \E f \in own : f.start > At(r) /\ g.wait = f.start - At(r)
  BY DEF Placed
<1>7. /\ ahead = {} => g.wait = NoOnset /\ ~\E f \in own : f.start > At(r)
      /\ ahead # {} => first \in ahead /\ g.wait = first - At(r)
  <2>1. CASE ahead = {}
    <3>1. ~\E f \in own : f.start > At(r)
      BY <2>1
    <3>2. QED
      BY <1>6, <2>1, <3>1
  <2>2. CASE ahead # {}
    <3>1. first \in ahead /\ \A y \in ahead : first <= y
      BY <1>5, <2>2, MinIsLeast
    <3>2. PICK h \in own : h.start > At(r) /\ h.start = first
      BY <3>1
    <3>3. ~(h.start <= At(r))
      <4>1. PICK t \in Nat, u \in Nat : t = At(r) /\ u = h.start
        BY <1>1
      <4>2. u > t
        BY <3>2, <4>1
      <4>3. ~(u <= t)
        BY <4>2
      <4>4. QED
        BY <4>1, <4>3
    <3>4. PICK f \in own : f.start > At(r) /\ g.wait = f.start - At(r)
      BY <1>6, <3>2, <3>3
    <3>5. f.start \in ahead /\ first <= f.start
      BY <3>1, <3>4
    <3>6. g.wait <= h.start - At(r)
      BY <1>6, <3>2
    <3>7. f.start = first
      <4>1. PICK t \in Nat, u \in Nat, v \in Nat : t = At(r) /\ u = h.start /\ v = f.start
        BY <1>1
      <4>2. v - t <= u - t /\ u <= v
        BY <3>2, <3>4, <3>5, <3>6, <4>1
      <4>3. v = u
        BY <4>2
      <4>4. QED
        BY <3>2, <4>1, <4>3
    <3>8. QED
      BY <2>2, <3>1, <3>4, <3>7
  <2>3. QED
    BY <2>1, <2>2
<1>8. g.wait \in Nat \ {0}
  <2>1. CASE ahead = {}
    <3>1. g.wait = NoOnset /\ NoOnset = LastHead + 1 /\ LastHead \in Nat
      BY <1>7, <2>1, LastIsNat
    <3>2. QED
      BY <3>1
  <2>2. CASE ahead # {}
    <3>1. first \in Nat /\ first > At(r) /\ g.wait = first - At(r)
      BY <1>5, <1>7, <2>2
    <3>2. PICK t \in Nat, u \in Nat : t = At(r) /\ u = first
      BY <3>1
    <3>3. u > t /\ g.wait = u - t
      BY <3>1, <3>2
    <3>4. QED
      BY <3>3
  <2>3. QED
    BY <2>1, <2>2
<1>9. g.key \in IF around = {} THEN {first} ELSE around
  <2>1. \/ \E e \in own : Around(e, r) /\ g.key = e.start
        \/ ~g.inside /\ g.key = NoOnset /\ g.wait = NoOnset /\ \A f \in own : f.start <= At(r)
        \/ ~g.inside /\ \E f \in own : f.start > At(r) /\ g.wait = f.start - At(r) /\ g.key = f.start
    BY DEF Placed
  <2>2. CASE \E e \in own : Around(e, r) /\ g.key = e.start
    <3>1. g.key \in around
      BY <1>2, <2>2
    <3>2. QED
      BY <3>1
  <2>3. CASE ~g.inside /\ g.key = NoOnset /\ g.wait = NoOnset /\ \A f \in own : f.start <= At(r)
    <3>1. around = {}
      BY <1>4, <2>3
    <3>2. ahead = {}
      <4>1. \A f \in own : ~(f.start > At(r))
        BY <1>1, <2>3
      <4>2. QED
        BY <4>1
    <3>3. QED
      BY <2>3, <3>1, <3>2
  <2>4. CASE ~g.inside /\ \E f \in own : f.start > At(r) /\ g.wait = f.start - At(r) /\ g.key = f.start
    <3>1. PICK f \in own : f.start > At(r) /\ g.wait = f.start - At(r) /\ g.key = f.start
      BY <2>4
    <3>2. around = {} /\ f.start \in ahead
      BY <1>4, <2>4, <3>1
    <3>3. first \in Nat /\ g.wait = first - At(r)
      BY <1>5, <1>7, <3>2
    <3>4. f.start = first
      <4>1. PICK t \in Nat, u \in Nat, v \in Nat : t = At(r) /\ u = first /\ v = f.start
        BY <1>1, <3>3
      <4>2. v - t = u - t
        BY <3>1, <3>3, <4>1
      <4>3. v = u
        BY <4>2
      <4>4. QED
        BY <4>1, <4>3
    <3>5. QED
      BY <3>1, <3>2, <3>4
  <2>5. QED
    BY <2>1, <2>2, <2>3, <2>4
<1>10. QED
  BY <1>3, <1>4, <1>7, <1>8, <1>9 DEF Says

\* The windows of the captures lie before NoOnset.
LEMMA WindowsFit ==
    ASSUME NEW c \in 1..Captures, NEW t \in Int, t - FirstOf(c) < Span
    PROVE  t <= LastHead
<1>1. Span \in Nat /\ Captures \in Nat /\ GapWindows \in Nat /\ c \in Nat
  BY TrainingDataAssumption DEF TrainingDataAssumption
<1>2. PICK w \in Nat, d \in Nat : w = Span + GapWindows /\ d = Captures - c
  BY <1>1
<1>3. d * w \in Nat /\ c * w \in Nat /\ (c - 1) * w \in Int
  BY <1>1, <1>2
<1>4. Captures * w = c * w + d * w /\ (c - 1) * w = c * w - w
  BY <1>1, <1>2
<1>5. Span * Captures + GapWindows * Captures = Captures * w
  BY <1>1, <1>2
<1>6. LastHead = Captures * w
  <2>1. PICK x \in Nat : x = Captures * w
    BY <1>1, <1>2
  <2>2. NoOnset = x + 1
    BY <1>5, <2>1 DEF NoOnset
  <2>3. QED
    BY <2>1, <2>2 DEF LastHead
<1>7. FirstOf(c) = (c - 1) * w
  BY <1>2 DEF FirstOf
<1>8. QED
  BY <1>1, <1>2, <1>3, <1>4, <1>6, <1>7

-----------------------------------------------------------------------------
\* The lower edge of a bucket is 0 or the horizon before.
LEMMA LowerEdge ==
    ASSUME NEW h \in Horizons
    PROVE  /\ h \in Nat /\ Lower(h) \in Nat
           /\ \A i \in Horizons : i < h => i <= Lower(h)
           /\ Lower(h) = 0 \/ (Lower(h) \in Horizons /\ Lower(h) < h)
<1>1. Horizons \subseteq Nat \ {0}
  BY TrainingDataAssumption DEF TrainingDataAssumption
<1>2. PICK T : T = {0} \cup {i \in Horizons : i < h}
  OBVIOUS
<1>3. h \in Nat /\ T \subseteq 0..h /\ 0 \in T
  <2>1. \A i \in Horizons : i < h => i \in 0..h
    BY <1>1
  <2>2. h \in Nat /\ 0 \in 0..h
    BY <1>1
  <2>3. QED
    BY <1>2, <2>1, <2>2
<1>4. Max(T) \in T /\ \A y \in T : y <= Max(T)
  BY <1>3, MaxIsGreatest
<1>5. Lower(h) = Max(T)
  BY <1>2 DEF Lower
<1>6. QED
  BY <1>1, <1>2, <1>3, <1>4, <1>5

\* An onset lies within a horizon when one of its buckets holds it.
LEMMA BucketsMatch ==
    ASSUME NEW g, g.wait \in Nat \ {0}, g.inside \in BOOLEAN, NEW h \in Horizons
    PROVE  /\ OnsetWithin(g, h) <=> \E i \in Horizons : i <= h /\ Event(g, i)
           /\ Event(g, h) => \A i \in Horizons : AtRisk(g, i) <=> i <= h
<1>1. Horizons \subseteq Nat /\ h \in Nat
  BY TrainingDataAssumption DEF TrainingDataAssumption
<1>2. PICK w \in Nat : w = g.wait /\ w # 0
  OBVIOUS
<1>3. \A i : OnsetWithin(g, i) <=> ~g.inside /\ w <= i
  BY <1>2 DEF OnsetWithin
<1>4. \A i : /\ AtRisk(g, i) <=> ~g.inside /\ w > Lower(i)
             /\ Event(g, i) <=> ~g.inside /\ w > Lower(i) /\ w <= i
  BY <1>2 DEF Event, AtRisk
<1>5. ASSUME OnsetWithin(g, h) PROVE \E i \in Horizons : i <= h /\ Event(g, i)
  <2>1. PICK T : T = {i \in Horizons : w <= i}
    OBVIOUS
  <2>2. T \subseteq Nat /\ h \in T
    BY <1>1, <1>3, <1>5, <2>1
  <2>3. PICK i \in T : \A j \in T : i <= j
    BY <2>2, LeastNat
  <2>4. i \in Horizons /\ w <= i /\ i <= h /\ i \in Nat
    BY <1>1, <2>1, <2>2, <2>3
  <2>5. Lower(i) \in Nat /\ (Lower(i) = 0 \/ (Lower(i) \in Horizons /\ Lower(i) < i))
    BY <2>4, LowerEdge
  <2>6. w > Lower(i)
    <3>1. SUFFICES ASSUME w <= Lower(i) PROVE FALSE
      BY <2>5
    <3>2. Lower(i) \in Horizons /\ Lower(i) < i
      BY <1>2, <2>5, <3>1
    <3>3. Lower(i) \in T
      BY <2>1, <3>1, <3>2
    <3>4. QED
      BY <2>3, <2>4, <2>5, <3>2, <3>3
  <2>7. QED
    BY <1>3, <1>4, <1>5, <2>4, <2>6
<1>6. ASSUME NEW i \in Horizons, i <= h, Event(g, i) PROVE OnsetWithin(g, h)
  BY <1>1, <1>3, <1>4, <1>6
<1>7. ASSUME Event(g, h), NEW i \in Horizons PROVE AtRisk(g, i) <=> i <= h
  <2>1. ~g.inside /\ w > Lower(h) /\ w <= h
    BY <1>4, <1>7
  <2>2. i \in Nat /\ Lower(i) \in Nat /\ Lower(h) \in Nat
    BY <1>1, LowerEdge
  <2>3. CASE i <= h
    <3>1. Lower(i) <= Lower(h)
      <4>1. Lower(i) = 0 \/ (Lower(i) \in Horizons /\ Lower(i) < i)
        BY LowerEdge
      <4>2. Lower(i) \in Horizons /\ Lower(i) < h => Lower(i) <= Lower(h)
        BY LowerEdge
      <4>3. QED
        BY <1>1, <2>2, <2>3, <4>1, <4>2
    <3>2. QED
      BY <1>4, <2>1, <2>2, <2>3, <3>1
  <2>4. CASE h < i
    <3>1. h <= Lower(i)
      BY <2>4, LowerEdge
    <3>2. QED
      BY <1>1, <1>4, <2>1, <2>2, <2>4, <3>1
  <2>5. QED
    BY <1>1, <2>2, <2>3, <2>4
<1>8. QED
  BY <1>5, <1>6, <1>7

-----------------------------------------------------------------------------
\* In the rows of a capture no host has a gap (windowize.py fills them).
Gapless(S) ==
    \A c \in 1..Captures : \A r, s \in Block(S, c) :
        HostOf(r) = HostOf(s) =>
            \A t \in At(r)..At(s) : <<HostOf(r), t>> \in Block(S, c)

\* No window is of two captures.
LEMMA CapturesApart ==
    ASSUME NEW c \in 1..Captures, NEW d \in 1..Captures, NEW t \in Int,
           t \in WindowsOfCapture(c), t \in WindowsOfCapture(d)
    PROVE  c = d
<1>1. Span \in Nat \ {0} /\ GapWindows \in Nat /\ c \in Nat /\ d \in Nat
  BY TrainingDataAssumption DEF TrainingDataAssumption
<1>2. PICK w \in Nat : w = Span + GapWindows /\ w >= Span
  BY <1>1
<1>3. /\ (c - 1) * w <= t /\ t < (c - 1) * w + w
      /\ (d - 1) * w <= t /\ t < (d - 1) * w + w
  BY <1>1, <1>2 DEF WindowsOfCapture, FirstOf
<1>4. ASSUME NEW x \in 1..Captures, NEW y \in 1..Captures, x < y,
             (x - 1) * w <= t, t < (x - 1) * w + w, (y - 1) * w <= t, t < (y - 1) * w + w
      PROVE  FALSE
  <2>1. x \in Nat /\ y \in Nat /\ y - 1 >= x
    BY <1>1, <1>4
  <2>2. (y - 1) * w >= x * w
    <3>1. PICK k \in Nat : y - 1 = x + k
      <4>1. y - 1 - x \in Nat /\ y - 1 = x + (y - 1 - x)
        BY <2>1
      <4>2. QED
        BY <4>1
    <3>2. (x + k) * w = x * w + k * w /\ k * w \in Nat /\ x * w \in Nat
      BY <1>2, <2>1, <3>1
    <3>3. QED
      BY <3>1, <3>2
  <2>3. x * w = (x - 1) * w + w /\ (x - 1) * w \in Int /\ x * w \in Int /\ (y - 1) * w \in Int
    BY <1>2, <2>1
  <2>4. QED
    BY <1>2, <1>4, <2>2, <2>3
<1>5. QED
  BY <1>1, <1>3, <1>4

\* How many rows of a host lie in an interval of windows.
LEMMA WindowsCounted ==
    ASSUME NEW h, NEW a \in Nat, NEW b \in Nat, a <= b, NEW U, U \subseteq {h} \X (a + 1..b)
    PROVE  /\ IsFiniteSet(U) /\ Cardinality(U) \in Nat /\ Cardinality(U) <= b - a
           /\ {h} \X (a + 1..b) \subseteq U => Cardinality(U) = b - a
<1>1. IsFiniteSet({h}) /\ Cardinality({h}) = 1
  BY FS_Singleton, Zenon
<1>2. IsFiniteSet(a + 1..b) /\ Cardinality(a + 1..b) = b - a
  <2>1. a + 1 \in Int /\ b \in Int
    OBVIOUS
  <2>2. IsFiniteSet(a + 1..b) /\ Cardinality(a + 1..b) = IF a + 1 > b THEN 0 ELSE b - (a + 1) + 1
    BY <2>1, FS_Interval
  <2>3. QED
    BY <2>2
<1>3. IsFiniteSet({h} \X (a + 1..b)) /\ Cardinality({h} \X (a + 1..b)) = b - a
  <2>1. PICK H, I : H = {h} /\ I = a + 1..b
    OBVIOUS
  <2>2. IsFiniteSet(H) /\ IsFiniteSet(I) /\ Cardinality(H) = 1 /\ Cardinality(I) = b - a
    BY <1>1, <1>2, <2>1
  <2>3. IsFiniteSet(H \X I) /\ Cardinality(H \X I) = Cardinality(H) * Cardinality(I)
    BY <2>2, FS_Product
  <2>4. Cardinality(H \X I) = b - a
    BY <2>2, <2>3
  <2>5. QED
    BY <2>1, <2>3, <2>4
<1>4. U \in SUBSET ({h} \X (a + 1..b))
  OBVIOUS
<1>5. IsFiniteSet(U) /\ Cardinality(U) <= Cardinality({h} \X (a + 1..b))
  BY <1>3, <1>4, FS_Subset
<1>6. Cardinality(U) \in Nat
  BY <1>5, FS_CardinalityType
<1>7. {h} \X (a + 1..b) \subseteq U => U = {h} \X (a + 1..b)
  OBVIOUS
<1>8. QED
  BY <1>3, <1>5, <1>6, <1>7

\* The rows counted by Ahead lie between a row and the one it reaches.
LEMMA AheadIsNear ==
    ASSUME NEW S, AreRows(S), NEW r \in S, NEW s \in Later(S, r),
           NEW U, U = {u \in Later(S, r) : At(u) <= At(s)}
    PROVE  /\ s \in Ahead(S, r, K) <=> Cardinality(U) <= K
           /\ U \subseteq {HostOf(r)} \X (At(r) + 1..At(s))
           /\ At(r) \in Nat /\ At(s) \in Nat /\ At(r) < At(s)
<1>1. /\ s \in S /\ HostOf(s) = HostOf(r) /\ At(s) > At(r)
      /\ At(r) \in Nat /\ At(s) \in Nat
  BY RowFields DEF Later, Own
<1>2. ASSUME NEW u \in U PROVE u \in {HostOf(r)} \X (At(r) + 1..At(s))
  <2>1. u \in S /\ HostOf(u) = HostOf(r) /\ At(u) > At(r) /\ At(u) <= At(s)
    BY DEF Later, Own
  <2>2. u = <<HostOf(r), At(u)>> /\ At(u) \in Nat
    BY <2>1, RowFields
  <2>3. QED
    BY <1>1, <2>1, <2>2
<1>3. QED
  BY <1>1, <1>2 DEF Ahead

\* An attack within K windows labels a row of its side.
LEMMA SoonIsLabelled ==
    ASSUME NEW P, AreRows(P), NEW r \in P, NEW s \in P \cap attack,
           HostOf(s) = HostOf(r), At(s) > At(r), At(s) - At(r) <= K
    PROVE  r \in RiskLabels(P)
<1>1. s \in Later(P, r)
  BY DEF Later, Own
<1>2. PICK U : U = {u \in Later(P, r) : At(u) <= At(s)}
  OBVIOUS
<1>3. /\ s \in Ahead(P, r, K) <=> Cardinality(U) <= K
      /\ U \subseteq {HostOf(r)} \X (At(r) + 1..At(s))
      /\ At(r) \in Nat /\ At(s) \in Nat /\ At(r) < At(s)
  BY <1>1, <1>2, AheadIsNear
<1>4. Cardinality(U) \in Nat /\ Cardinality(U) <= At(s) - At(r)
  <2>1. At(r) <= At(s)
    BY <1>3
  <2>2. QED
    BY <1>3, <2>1, WindowsCounted
<1>5. K \in Nat
  BY TrainingDataAssumption DEF TrainingDataAssumption
<1>6. s \in Ahead(P, r, K)
  BY <1>3, <1>4, <1>5
<1>7. QED
  BY <1>6 DEF RiskLabels

\* Where a side holds all rows of a capture between two of a host, the K rows
\* ahead of the first are the K windows ahead of it.
LEMMA AheadIsSoon ==
    ASSUME NEW T, AreRows(T), Gapless(T), NEW P, P \subseteq T, NEW c \in 1..Captures,
           NEW r \in P, r \in Block(T, c), NEW s \in Ahead(P, r, K), s \in Block(T, c),
           \A u \in Block(T, c) : At(r) <= At(u) /\ At(u) <= At(s) => u \in P
    PROVE  At(s) - At(r) <= K
<1>1. s \in Later(P, r) /\ AreRows(P)
  BY DEF Ahead, AreRows
<1>2. PICK U : U = {u \in Later(P, r) : At(u) <= At(s)}
  OBVIOUS
<1>3. /\ s \in Ahead(P, r, K) <=> Cardinality(U) <= K
      /\ U \subseteq {HostOf(r)} \X (At(r) + 1..At(s))
      /\ At(r) \in Nat /\ At(s) \in Nat /\ At(r) < At(s)
  BY <1>1, <1>2, AheadIsNear
<1>4. HostOf(s) = HostOf(r)
  BY <1>1 DEF Later, Own
<1>5. ASSUME NEW t \in At(r) + 1..At(s) PROVE <<HostOf(r), t>> \in U
  <2>1. t \in At(r)..At(s) /\ t > At(r) /\ t <= At(s)
    BY <1>3
  <2>2. PICK u : u = <<HostOf(r), t>>
    OBVIOUS
  <2>3. u \in Block(T, c)
    BY <1>4, <2>1, <2>2 DEF Gapless
  <2>4. HostOf(u) = HostOf(r) /\ At(u) = t
    BY <2>2 DEF HostOf, At
  <2>5. u \in P
    BY <1>3, <2>1, <2>3, <2>4
  <2>6. u \in Later(P, r)
    BY <2>1, <2>4, <2>5 DEF Later, Own
  <2>7. QED
    BY <1>2, <2>1, <2>2, <2>4, <2>6
<1>6. {HostOf(r)} \X (At(r) + 1..At(s)) \subseteq U
  BY <1>5
<1>7. Cardinality(U) = At(s) - At(r)
  <2>1. At(r) <= At(s)
    BY <1>3
  <2>2. QED
    BY <1>3, <1>6, <2>1, WindowsCounted
<1>8. QED
  BY <1>3, <1>7

\* The validation rows of a capture are those from its cut on.
LEMMA SidesOfCapture ==
    ASSUME NEW T, AreRows(T), NEW c \in 1..Captures, NEW r \in Block(T, c)
    PROVE  r \in Validation(T) <=> At(r) >= Cutoff(Block(T, c))
<1>1. r \in T /\ At(r) \in Int /\ At(r) \in WindowsOfCapture(c)
  BY RowFields DEF Block
<1>2. \A d \in 1..Captures : r \in Block(T, d) => d = c
  BY <1>1, CapturesApart DEF Block
<1>3. r \in Validation(T) <=>
          \E d \in 1..Captures : r \in Block(T, d) /\ At(r) >= Cutoff(Block(T, d))
  BY DEF Validation
<1>4. QED
  BY <1>2, <1>3

\* The episodes of a table are a chain.
LEMMA EpisodesAreChain ==
    ASSUME NEW S, AreRows(S)
    PROVE  Chain(EpisodesIn(S))
<1>1. Chain(Hits(S)) /\ Links(Hits(S), Adjacent(S))
  BY HitsAreChain
<1>2. EpisodesIn(S) = RunsFrom(OpensOf(Hits(S), Adjacent(S)), ClosesOf(Hits(S), Adjacent(S)))
  BY EpisodesAreRuns
<1>3. QED
  BY <1>1, <1>2, RunsAreChain

\* The greater of two integers.
LEMMA MaxOfTwo ==
    ASSUME NEW a \in Int, NEW b \in Int
    PROVE  Max({a, b}) \in Int /\ Max({a, b}) = IF a >= b THEN a ELSE b
<1>1. \E x \in {a, b} : \A y \in {a, b} : x >= y
  OBVIOUS
<1>2. Max({a, b}) \in {a, b} /\ \A y \in {a, b} : Max({a, b}) >= y
  BY <1>1 DEF Max
<1>3. QED
  BY <1>2

\* Not all windows of a capture lie before the first place of its last part.
LEMMA TrailingPart ==
    ASSUME NEW n \in Nat \ {0}, NEW v \in Nat \ {0}
    PROVE  (n * (v - 1)) \div v \in Nat /\ (n * (v - 1)) \div v < n
<1>1. PICK a \in Nat : a = n * (v - 1) /\ a < n * v
  <2>1. PICK u \in Nat : v = u + 1
    <3>1. v - 1 \in Nat /\ v = (v - 1) + 1
      OBVIOUS
    <3>2. QED
      BY <3>1
  <2>2. n * u \in Nat /\ n * (u + 1) = n * u + n /\ v - 1 = u
    BY <2>1
  <2>3. QED
    BY <2>1, <2>2
<1>2. PICK q : q = a \div v
  OBVIOUS
<1>3. q \in Nat /\ q * v <= a
  BY <1>2
<1>4. ~(q >= n)
  <2>1. SUFFICES ASSUME q >= n PROVE FALSE
    OBVIOUS
  <2>2. PICK k \in Nat : q = n + k
    <3>1. q - n \in Nat /\ q = n + (q - n)
      BY <1>3, <2>1
    <3>2. QED
      BY <3>1
  <2>3. (n + k) * v = n * v + k * v /\ k * v \in Nat /\ n * v \in Nat
    BY <2>2
  <2>4. QED
    BY <1>1, <1>3, <2>2, <2>3
<1>5. QED
  BY <1>1, <1>2, <1>3, <1>4

\* The cut of a capture: one that no episode is near, or the margin before the
\* first of those near it, or the first window of the capture.
LEMMA CutoffIs ==
    ASSUME NEW B, AreRows(B), B # {}
    PROVE  /\ Cutoff(B) \in Int
           /\ \E cut \in Nat :
                 \/ NearCut(B, cut) = {} /\ Cutoff(B) = cut
                 \/ \A r \in B : Cutoff(B) <= At(r)
                 \/ \E f \in NearCut(B, cut) : /\ Cutoff(B) = f.start - MarginWindows
                                               /\ \A e \in NearCut(B, cut) : f.start <= e.start
<1>1. PICK times, n : times = {At(r) : r \in B} /\ n = Cardinality(times)
  OBVIOUS
<1>2. times # {} /\ times \subseteq 0..LastHead /\ times \subseteq Nat /\ LastHead \in Nat
  BY <1>1, RowFields, LastIsNat
<1>3. IsFiniteSet(times) /\ n \in Nat
  <2>1. \A t \in times : t <= LastHead
    BY <1>2
  <2>2. IsFiniteSet(times)
    BY <1>2, <2>1, FS_BoundedSetOfNaturals
  <2>3. QED
    BY <1>1, <2>2, FS_CardinalityType
<1>4. PICK p, late : /\ p = (n * (ValOneIn - 1)) \div ValOneIn
                     /\ late = {t \in times : Cardinality({u \in times : u < t}) >= p}
  OBVIOUS
<1>5. late # {}
  <2>1. PICK x \in times : \A y \in times : y <= x
    BY <1>2, GreatestNat
  <2>2. {u \in times : u < x} = times \ {x}
    <3>1. \A u \in times : u < x <=> u # x
      BY <1>2, <2>1
    <3>2. QED
      BY <3>1
  <2>3. Cardinality(times \ {x}) = n - 1
    BY <1>1, <1>3, FS_RemoveElement
  <2>4. n # 0
    <3>1. Cardinality(times \ {x}) \in Nat
      BY <1>3, FS_RemoveElement, FS_CardinalityType
    <3>2. QED
      BY <1>3, <2>3, <3>1
  <2>5. ValOneIn \in Nat \ {0}
    BY TrainingDataAssumption DEF TrainingDataAssumption
  <2>6. p \in Nat /\ p < n
    BY <1>3, <1>4, <2>4, <2>5, TrailingPart
  <2>7. x \in late
    BY <1>3, <1>4, <2>2, <2>3, <2>6
  <2>8. QED
    BY <2>7
<1>6. PICK cut : cut = Min(late)
  OBVIOUS
<1>7. cut \in Nat
  <2>1. late \subseteq Nat
    BY <1>2, <1>4
  <2>2. cut \in late
    BY <1>5, <1>6, <2>1, MinIsLeast
  <2>3. QED
    BY <2>1, <2>2
<1>8. PICK starts : starts = {e.start : e \in NearCut(B, cut)}
  OBVIOUS
<1>9. Cutoff(B) = IF NearCut(B, cut) = {} THEN cut
                  ELSE Max({Min(starts) - MarginWindows, Min(times)})
  BY <1>1, <1>4, <1>6, <1>8 DEF Cutoff
<1>10. CASE NearCut(B, cut) = {}
  BY <1>7, <1>9, <1>10
<1>11. CASE NearCut(B, cut) # {}
  <2>1. starts \subseteq Nat /\ starts # {}
    <3>1. \A e \in EpisodesIn(B) : e.start \in Nat
      BY EpisodesAreChain DEF Chain
    <3>2. QED
      BY <1>8, <1>11, <3>1 DEF NearCut
  <2>2. PICK a, b : a = Min(starts) - MarginWindows /\ b = Min(times)
    OBVIOUS
  <2>3. b \in times /\ \A t \in times : b <= t
    BY <1>2, <2>2, MinIsLeast
  <2>4. Min(starts) \in starts /\ \A t \in starts : Min(starts) <= t
    BY <2>1, MinIsLeast
  <2>5. MarginWindows \in Nat
    BY TrainingDataAssumption DEF TrainingDataAssumption
  <2>6. a \in Int /\ b \in Int
    BY <1>2, <2>1, <2>2, <2>3, <2>4, <2>5
  <2>7. Cutoff(B) = (IF a >= b THEN a ELSE b) /\ Cutoff(B) \in Int
    BY <1>9, <1>11, <2>2, <2>6, MaxOfTwo
  <2>8. CASE a >= b
    <3>1. PICK f \in NearCut(B, cut) : f.start = Min(starts)
      BY <1>8, <2>4
    <3>2. \A e \in NearCut(B, cut) : f.start <= e.start
      BY <1>8, <2>4, <3>1
    <3>3. Cutoff(B) = f.start - MarginWindows
      BY <2>2, <2>7, <2>8, <3>1
    <3>4. QED
      BY <1>7, <2>7, <3>2, <3>3
  <2>9. CASE ~(a >= b)
    <3>1. \A r \in B : At(r) \in times
      BY <1>1
    <3>2. \A r \in B : Cutoff(B) <= At(r)
      BY <2>3, <2>7, <2>9, <3>1
    <3>3. QED
      BY <1>7, <2>7, <3>2
  <2>10. QED
    BY <2>8, <2>9
<1>12. QED
  BY <1>10, <1>11

\* An episode with rows on both sides of the cut is one the cut was moved into.
LEMMA OnlyNudged ==
    ASSUME NEW B, AreRows(B), NEW e \in EpisodesIn(B), NEW r \in B, NEW s \in B,
           At(s) >= Cutoff(B), ~(At(r) >= Cutoff(B)),
           At(r) >= e.start - MarginWindows, At(s) <= e.end
    PROVE  \E f \in EpisodesIn(B) : /\ e.start < f.start /\ e.end < f.end
                                    /\ f.start - MarginWindows <= e.end
<1>1. /\ \A f \in EpisodesIn(B) : f.start \in Nat /\ f.end \in Nat
      /\ At(r) \in Nat /\ At(s) \in Nat /\ MarginWindows \in Nat
  <2>1. Chain(EpisodesIn(B))
    BY EpisodesAreChain
  <2>2. QED
    BY <2>1, RowFields, TrainingDataAssumption DEF Chain, TrainingDataAssumption
<1>2. Cutoff(B) \in Int
  BY CutoffIs
<1>3. e.start - MarginWindows < Cutoff(B) /\ e.end >= Cutoff(B)
  BY <1>1, <1>2
<1>4. PICK cut \in Nat :
         \/ NearCut(B, cut) = {} /\ Cutoff(B) = cut
         \/ \A u \in B : Cutoff(B) <= At(u)
         \/ \E f \in NearCut(B, cut) : /\ Cutoff(B) = f.start - MarginWindows
                                       /\ \A d \in NearCut(B, cut) : f.start <= d.start
  BY CutoffIs
<1>5. CASE NearCut(B, cut) = {} /\ Cutoff(B) = cut
  BY <1>3, <1>5 DEF NearCut
<1>6. CASE \A u \in B : Cutoff(B) <= At(u)
  BY <1>1, <1>2, <1>6
<1>7. CASE \E f \in NearCut(B, cut) : /\ Cutoff(B) = f.start - MarginWindows
                                     /\ \A d \in NearCut(B, cut) : f.start <= d.start
  <2>1. PICK f \in NearCut(B, cut) : /\ Cutoff(B) = f.start - MarginWindows
                                     /\ \A d \in NearCut(B, cut) : f.start <= d.start
    BY <1>7
  <2>2. f \in EpisodesIn(B) /\ f.start - MarginWindows < cut /\ f.end >= cut
    BY DEF NearCut
  <2>3. e.start < f.start /\ f.start - MarginWindows <= e.end
    BY <1>1, <1>3, <2>1, <2>2
  <2>4. e \notin NearCut(B, cut)
    BY <1>1, <2>1, <2>2, <2>3
  <2>5. e.start - MarginWindows < cut
    BY <1>1, <2>2, <2>3
  <2>6. ~(e.end >= cut)
    BY <2>4, <2>5 DEF NearCut
  <2>7. e.end < f.end
    BY <1>1, <2>2, <2>6
  <2>8. QED
    BY <2>2, <2>3, <2>7
<1>8. QED
  BY <1>4, <1>5, <1>6, <1>7

\* The attacks ahead of a row on its side, and what is said of its label.
SideAhead(T, V, r) ==
    {s \in attack \cap Own(T, HostOf(r)) : At(s) > At(r) /\ (s \in V <=> r \in V)}
SideSoon(T, V, r) == {s \in SideAhead(T, V, r) : At(s) - At(r) <= K}

WellLabelled(T, V, R, r) ==
    /\ SideSoon(T, V, r) # {} => r \in R
    /\ r \in R /\ SideSoon(T, V, r) = {} =>
          \E s \in SideAhead(T, V, r) : \A c \in 1..Captures :
              r \in Block(T, c) => s \notin Block(T, c)

\* The labels of the two sides.
LEMMA LabelsOfSides ==
    ASSUME NEW T, AreRows(T), Gapless(T), NEW V, V = Validation(T),
           NEW R, R = SplitLabels(T, V), NEW r \in T
    PROVE  WellLabelled(T, V, R, r)
<1>0. PICK ahead, soon : ahead = SideAhead(T, V, r) /\ soon = SideSoon(T, V, r)
  OBVIOUS
<1>1. PICK P : P = IF r \in V THEN V ELSE T \ V
  OBVIOUS
<1>2. V \subseteq T
  BY DEF Validation, Block
<1>3. r \in P /\ P \subseteq T /\ AreRows(P) /\ \A s \in T : s \in P <=> (s \in V <=> r \in V)
  BY <1>1, <1>2 DEF AreRows
<1>4. r \in R <=> r \in RiskLabels(P)
  <2>1. \A S : RiskLabels(S) \subseteq S
    BY DEF RiskLabels
  <2>2. R = RiskLabels(T \ V) \cup RiskLabels(V)
    BY DEF SplitLabels
  <2>3. QED
    BY <1>1, <2>1, <2>2
<1>5. \A s : s \in ahead <=> s \in P \cap attack /\ HostOf(s) = HostOf(r) /\ At(s) > At(r)
  BY <1>0, <1>3 DEF SideAhead, Own
<1>6. ASSUME soon # {} PROVE r \in R
  <2>1. PICK s \in soon : s \in ahead /\ At(s) - At(r) <= K
    BY <1>0, <1>6 DEF SideSoon
  <2>2. s \in P \cap attack /\ HostOf(s) = HostOf(r) /\ At(s) > At(r) /\ At(s) - At(r) <= K
    BY <1>5, <2>1
  <2>3. QED
    BY <1>3, <1>4, <2>2, SoonIsLabelled
<1>7. ASSUME r \in R, soon = {}
      PROVE  \E s \in ahead : \A c \in 1..Captures : r \in Block(T, c) => s \notin Block(T, c)
  <2>1. PICK s \in Ahead(P, r, K) : s \in attack
    BY <1>4, <1>7 DEF RiskLabels
  <2>2. s \in P /\ HostOf(s) = HostOf(r) /\ At(s) > At(r)
    BY <2>1 DEF Ahead, Later, Own
  <2>3. s \in ahead
    BY <1>5, <2>1, <2>2
  <2>4. ~(At(s) - At(r) <= K)
    BY <1>0, <1>7, <2>3 DEF SideSoon
  <2>5. ASSUME NEW c \in 1..Captures, r \in Block(T, c), s \in Block(T, c) PROVE FALSE
    <3>1. PICK cut : cut = Cutoff(Block(T, c))
      OBVIOUS
    <3>2. \A u \in Block(T, c) : u \in T /\ (u \in V <=> At(u) >= cut)
      <4>1. \A u \in Block(T, c) : u \in T
        BY DEF Block
      <4>2. \A u \in Block(T, c) : u \in Validation(T) <=> At(u) >= cut
        BY <3>1, SidesOfCapture
      <4>3. QED
        BY <4>1, <4>2
    <3>3. cut \in Int
      BY <2>5, <3>1, CutoffIs DEF Block, AreRows
    <3>4. \A u \in Block(T, c) : At(u) \in Nat
      BY <3>2, RowFields
    <3>5. s \in V <=> r \in V
      BY <1>3, <2>2
    <3>6. ASSUME NEW u \in Block(T, c), At(r) <= At(u), At(u) <= At(s) PROVE u \in P
      <4>1. At(u) >= cut <=> At(r) >= cut
        BY <2>5, <3>2, <3>3, <3>4, <3>5, <3>6
      <4>2. QED
        BY <1>3, <2>5, <3>2, <4>1
    <3>7. At(s) - At(r) <= K
      BY <1>3, <2>1, <2>5, <3>6, AheadIsSoon
    <3>8. QED
      BY <2>4, <3>7
  <2>6. QED
    BY <2>3, <2>5
<1>8. QED
  BY <1>0, <1>6, <1>7 DEF WellLabelled

-----------------------------------------------------------------------------
\* What is known of the evaluation set once it is built.
DrawnRight ==
    /\ place = [r \in Origins(val) |-> Geometry(Merged(val), r)]
    /\ \A r \in DOMAIN place : StratumOf(r, place[r]) = "positive" => r \in drawn["positive"]
    /\ \A r \in DOMAIN place : StratumOf(r, place[r]) = "pre_onset" => r \in drawn["pre_onset"]

\* The inductive invariant of the preparation.
DataInv ==
    /\ AreRows(table) /\ val \subseteq table
    /\ stage \in {"raw", "split", "sampled"}
    /\ Gapless(table)
    /\ LabelsStayOnTheirSide /\ OnlyTheNudgeStraddles
    /\ IF stage = "sampled" THEN DrawnRight ELSE place = <<>>

\* At first there are the rows of the captures.
LEMMA DataInitInv == DataInit => DataInv
<1> SUFFICES ASSUME DataInit PROVE DataInv
  OBVIOUS
<1>1. PICK p \in [TrainHost \X (1..Captures) -> Presence] :
         table = {r \in TrainHost \X (0..NoOnset) :
                     \E c \in 1..Captures : At(r) - FirstOf(c) \in p[<<HostOf(r), c>>]}
  BY DEF DataInit
<1>2. ASSUME NEW r \in table PROVE r \in TrainHost \X (0..LastHead)
  <2>1. r \in TrainHost \X (0..NoOnset)
    BY <1>1
  <2>2. PICK c \in 1..Captures : At(r) - FirstOf(c) \in p[<<HostOf(r), c>>]
    BY <1>1
  <2>3. HostOf(r) \in TrainHost /\ At(r) \in 0..NoOnset /\ r = <<HostOf(r), At(r)>>
    BY <2>1 DEF HostOf, At
  <2>4. p[<<HostOf(r), c>>] \in Presence
    BY <2>3
  <2>5. Span \in Nat /\ NoOnset \in Nat
    BY TrainingDataAssumption, LastIsNat DEF TrainingDataAssumption
  <2>6. p[<<HostOf(r), c>>] \subseteq 0..(Span - 1)
    BY <2>4, <2>5 DEF Presence
  <2>7. At(r) - FirstOf(c) < Span /\ At(r) \in Nat
    BY <2>2, <2>3, <2>5, <2>6
  <2>8. At(r) <= LastHead
    BY <2>7, WindowsFit
  <2>9. At(r) \in 0..LastHead
    BY <2>7, <2>8, LastIsNat
  <2>10. QED
    BY <2>3, <2>9
<1>3. AreRows(table)
  BY <1>2 DEF AreRows
<1>4. stage = "raw" /\ risk = {} /\ val = {} /\ place = <<>>
  BY DEF DataInit
<1>5. LabelsStayOnTheirSide /\ OnlyTheNudgeStraddles
  BY <1>4 DEF LabelsStayOnTheirSide, OnlyTheNudgeStraddles
<1>6. ASSUME NEW c \in 1..Captures, NEW r \in Block(table, c)
      PROVE  /\ r \in table /\ HostOf(r) \in TrainHost /\ At(r) \in Nat
             /\ At(r) - FirstOf(c) \in p[<<HostOf(r), c>>]
  <2>1. r \in table /\ At(r) \in WindowsOfCapture(c)
    BY DEF Block
  <2>2. HostOf(r) \in TrainHost /\ At(r) \in Nat
    BY <1>3, <2>1, RowFields, LastIsNat
  <2>3. PICK d \in 1..Captures : At(r) - FirstOf(d) \in p[<<HostOf(r), d>>]
    BY <1>1, <2>1
  <2>4. p[<<HostOf(r), d>>] \subseteq 0..(Span - 1)
    <3>1. p[<<HostOf(r), d>>] \in Presence
      BY <2>2
    <3>2. Span \in Nat
      BY TrainingDataAssumption DEF TrainingDataAssumption
    <3>3. QED
      BY <3>1, <3>2 DEF Presence
  <2>5. FirstOf(d) \in Int /\ Span \in Int
    <3>1. Span \in Int /\ GapWindows \in Int /\ d \in Int
      BY TrainingDataAssumption DEF TrainingDataAssumption
    <3>2. PICK w \in Int : w = Span + GapWindows
      BY <3>1
    <3>3. (d - 1) * w \in Int
      BY <3>1, <3>2
    <3>4. QED
      BY <3>1, <3>2, <3>3 DEF FirstOf
  <2>6. At(r) \in WindowsOfCapture(d)
    BY <2>2, <2>3, <2>4, <2>5 DEF WindowsOfCapture
  <2>7. d = c
    BY <2>1, <2>2, <2>6, CapturesApart
  <2>8. QED
    BY <2>1, <2>2, <2>3, <2>7
<1>7. Gapless(table)
  <2>1. SUFFICES ASSUME NEW c \in 1..Captures, NEW r \in Block(table, c), NEW s \in Block(table, c),
                        HostOf(r) = HostOf(s), NEW t \in At(r)..At(s)
                 PROVE  <<HostOf(r), t>> \in Block(table, c)
    BY DEF Gapless
  <2>2. PICK h, f : h = HostOf(r) /\ f = FirstOf(c)
    OBVIOUS
  <2>3. /\ At(r) \in Nat /\ At(s) \in Nat /\ h \in TrainHost
        /\ At(r) - f \in p[<<h, c>>] /\ At(s) - f \in p[<<h, c>>]
    BY <1>6, <2>1, <2>2
  <2>4. Span \in Nat /\ f \in Int
    <3>1. Span \in Nat /\ GapWindows \in Int /\ c \in Int
      BY TrainingDataAssumption DEF TrainingDataAssumption
    <3>2. PICK w \in Int : w = Span + GapWindows
      BY <3>1
    <3>3. (c - 1) * w \in Int
      BY <3>1, <3>2
    <3>4. QED
      BY <2>2, <3>1, <3>2, <3>3 DEF FirstOf
  <2>5. p[<<h, c>>] \in {{}, 0..(Span - 1), 1..(Span - 1)}
    BY <2>3 DEF Presence
  <2>6. t \in Nat /\ t - f \in p[<<h, c>>] /\ t <= At(s)
    BY <2>3, <2>4, <2>5
  <2>7. t \in WindowsOfCapture(c)
    BY <2>2, <2>4, <2>5, <2>6 DEF WindowsOfCapture
  <2>8. t \in 0..NoOnset
    <3>1. s \in table
      BY DEF Block
    <3>2. At(s) \in 0..LastHead
      BY <1>3, <3>1, RowFields
    <3>3. QED
      BY <2>3, <2>6, <3>2, LastIsNat
  <2>9. HostOf(<<h, t>>) = h /\ At(<<h, t>>) = t
    BY DEF HostOf, At
  <2>10. <<h, t>> \in TrainHost \X (0..NoOnset)
    BY <2>3, <2>8
  <2>11. <<h, t>> \in table
    BY <1>1, <2>2, <2>6, <2>9, <2>10
  <2>12. QED
    BY <2>2, <2>7, <2>9, <2>11 DEF Block
<1>8. QED
  BY <1>3, <1>4, <1>5, <1>7 DEF DataInv

\* Dropping the hosts of a capture with few rows leaves the others whole.
LEMMA FilterIsGapless ==
    ASSUME NEW S, AreRows(S), Gapless(S), NEW T, T = LongEnough(S)
    PROVE  Gapless(T)
<1>1. SUFFICES ASSUME NEW c \in 1..Captures, NEW r \in Block(T, c), NEW s \in Block(T, c),
                      HostOf(r) = HostOf(s), NEW t \in At(r)..At(s)
               PROVE  <<HostOf(r), t>> \in Block(T, c)
  BY DEF Gapless
<1>2. T \subseteq S
  BY DEF LongEnough
<1>3. r \in S /\ s \in S /\ r \in Block(S, c) /\ s \in Block(S, c) /\ r \in T
  BY <1>2 DEF Block
<1>4. PICK u : u = <<HostOf(r), t>>
  OBVIOUS
<1>5. u \in Block(S, c) /\ HostOf(u) = HostOf(r) /\ At(u) = t
  BY <1>1, <1>3, <1>4 DEF Gapless, HostOf, At
<1>6. PICK d \in 1..Captures : r \in Block(S, d) /\ Cardinality(Own(Block(S, d), HostOf(r))) >= L + K
  BY <1>3 DEF LongEnough
<1>7. d = c
  <2>1. At(r) \in Int
    BY <1>3, RowFields
  <2>2. QED
    BY <1>3, <1>6, <2>1, CapturesApart DEF Block
<1>8. u \in T
  BY <1>5, <1>6, <1>7 DEF LongEnough, Block
<1>9. QED
  BY <1>4, <1>5, <1>8 DEF Block

\* The split: labels are made of what each part holds.
LEMMA SplitInv ==
    ASSUME DataInv, BuildAllSplits
    PROVE  DataInv'
<1>1. /\ stage = "raw" /\ stage' = "split" /\ place' = place /\ attack' = attack
      /\ table' = LongEnough(table) /\ val' = Validation(table') /\ risk' = SplitLabels(table', val')
  BY DEF BuildAllSplits
<1>2. table' \subseteq table
  BY <1>1 DEF LongEnough
<1>3. AreRows(table)' /\ val' \subseteq table'
  <2>1. val' \subseteq table'
    BY <1>1 DEF Validation, Block
  <2>2. AreRows(table')
    BY <1>2 DEF AreRows, DataInv
  <2>3. QED
    BY <2>1, <2>2 DEF AreRows
<1>4. PICK T, V, R : T = table' /\ V = val' /\ R = risk'
  OBVIOUS
<1>5. AreRows(T) /\ Gapless(T) /\ V = Validation(T) /\ R = SplitLabels(T, V)
  <2>1. AreRows(T)
    BY <1>3, <1>4 DEF AreRows
  <2>2. Gapless(T)
    BY <1>1, <1>4, FilterIsGapless DEF DataInv
  <2>3. QED
    BY <1>1, <1>4, <2>1, <2>2
<1>6. LabelsStayOnTheirSide'
  <2>1. \A r \in T : WellLabelled(T, V, R, r)
    BY <1>5, LabelsOfSides
  <2>2. attack' = attack /\ T = table' /\ V = val' /\ R = risk'
    BY <1>1, <1>4
  <2>3. LabelsStayOnTheirSide' <=> (stage' # "raw" => \A r \in T : WellLabelled(T, V, R, r))
    <3>1. LabelsStayOnTheirSide'
             <=> (stage # "raw" => \A r \in table : WellLabelled(table, val, risk, r))'
      BY Zenon DEF LabelsStayOnTheirSide, WellLabelled, SideAhead, SideSoon
    <3>2. ASSUME NEW r PROVE WellLabelled(table, val, risk, r)' <=> WellLabelled(T, V, R, r)
      <4>1. SideAhead(table, val, r)' = SideAhead(T, V, r)
        BY <2>2 DEF SideAhead, Own
      <4>2. SideSoon(table, val, r)' = SideSoon(T, V, r)
        BY <4>1 DEF SideSoon
      <4>3. \A c : Block(table, c)' = Block(T, c)
        BY <2>2 DEF Block
      <4>4. QED
        BY <2>2, <4>1, <4>2, <4>3, Zenon DEF WellLabelled
    <3>3. QED
      BY <2>2, <3>1, <3>2
  <2>4. QED
    BY <2>1, <2>3
<1>7. OnlyTheNudgeStraddles'
  <2>1. SUFFICES ASSUME NEW c \in 1..Captures, NEW B, B = Block(T, c), NEW e \in EpisodesIn(B),
                        NEW r \in B, At(r) \in (e.start - MarginWindows)..e.end, r \notin V,
                        NEW s \in B, At(s) \in (e.start - MarginWindows)..e.end, s \in V
                 PROVE  \E f \in EpisodesIn(B) : /\ e.start < f.start /\ e.end < f.end
                                                 /\ f.start - MarginWindows <= e.end
    BY <1>1, <1>4 DEF OnlyTheNudgeStraddles, EpisodesIn
  <2>2. At(s) >= Cutoff(B) /\ ~(At(r) >= Cutoff(B))
    BY <1>5, <2>1, SidesOfCapture
  <2>3. AreRows(B)
    BY <1>5, <2>1 DEF AreRows, Block
  <2>4. At(r) >= e.start - MarginWindows /\ At(s) <= e.end
    <3>1. Chain(EpisodesIn(B)) /\ MarginWindows \in Nat
      BY <2>3, EpisodesAreChain, TrainingDataAssumption DEF TrainingDataAssumption
    <3>2. e.start \in Nat /\ e.end \in Nat
      BY <3>1 DEF Chain
    <3>3. QED
      BY <2>1, <3>1, <3>2
  <2>5. QED
    BY <2>1, <2>2, <2>3, <2>4, OnlyNudged
<1>8. place = <<>>
  BY <1>1 DEF DataInv
<1>9. Gapless(table)'
  BY <1>4, <1>5 DEF Gapless, Block
<1>10. QED
  BY <1>1, <1>3, <1>6, <1>7, <1>8, <1>9 DEF DataInv

\* The evaluation set: every candidate gets its place, the rare are all drawn.
LEMMA SampleInv ==
    ASSUME DataInv, BuildEvalSet
    PROVE  DataInv'
<1>1. /\ stage = "split" /\ stage' = "sampled" /\ table' = table /\ attack' = attack
      /\ risk' = risk /\ val' = val
      /\ place' = [r \in Origins(val) |-> Geometry(Merged(val), r)]
  BY DEF BuildEvalSet
<1>2. Merged(val)' = Merged(val)
  <2>1. EpisodesIn(val)' = EpisodesIn(val)
    BY <1>1 DEF EpisodesIn
  <2>2. QED
    BY <2>1 DEF Merged
<1>3. place' = [r \in Origins(val) |-> Geometry(Merged(val), r)]'
  BY <1>1, <1>2
<1>4. PICK p \in Draws("positive", {r \in DOMAIN place' : StratumOf(r, place'[r]) = "positive"}),
           q \in Draws("pre_onset", {r \in DOMAIN place' : StratumOf(r, place'[r]) = "pre_onset"}),
           n \in Draws("negative", {r \in DOMAIN place' : StratumOf(r, place'[r]) = "negative"}) :
         drawn' = [positive |-> p, pre_onset |-> q, negative |-> n]
  BY DEF BuildEvalSet
<1>5. /\ p = {r \in DOMAIN place' : StratumOf(r, place'[r]) = "positive"}
      /\ q = {r \in DOMAIN place' : StratumOf(r, place'[r]) = "pre_onset"}
  BY <1>4 DEF Draws
<1>6. drawn'["positive"] = p /\ drawn'["pre_onset"] = q
  BY <1>4
<1>7. \A r \in DOMAIN place' : StratumOf(r, place[r])' = StratumOf(r, place'[r])
  BY <1>1 DEF StratumOf
<1>8. DrawnRight'
  BY <1>3, <1>5, <1>6, <1>7 DEF DrawnRight
<1>9. (LabelsStayOnTheirSide /\ OnlyTheNudgeStraddles)'
  <2>1. LabelsStayOnTheirSide /\ OnlyTheNudgeStraddles
    BY DEF DataInv
  <2>2. LabelsStayOnTheirSide'
    BY <1>1, <2>1 DEF LabelsStayOnTheirSide
  <2>3. \A c \in 1..Captures : EpisodesIn(Block(table, c))' = EpisodesIn(Block(table, c))
    BY <1>1 DEF EpisodesIn
  <2>4. OnlyTheNudgeStraddles'
    BY <1>1, <2>1, <2>3 DEF OnlyTheNudgeStraddles
  <2>5. QED
    BY <2>2, <2>4
<1>10. Gapless(table)'
  BY <1>1 DEF Gapless, Block, DataInv
<1>11. QED
  BY <1>1, <1>8, <1>9, <1>10 DEF DataInv, AreRows

\* The invariant says that the splits are sound.
LEMMA DataInvImplies ==
    ASSUME DataInv
    PROVE  SplitsAreSound
<1>1. AreRows(val)
  BY DEF DataInv, AreRows
<1>2. PICK M : M = Merged(val)
  OBVIOUS
<1>3. /\ Chain(M)
      /\ \A r \in val \cap attack : \E e \in M : e.host = HostOf(r) /\ e.start <= At(r) /\ At(r) <= e.end
      /\ \A e, f \in M : e.host = f.host /\ e.start < f.start => f.start - e.end - 1 > MergeGap
  BY <1>1, <1>2, MergedEpisodes
<1>4. ASSUME NEW r \in DOMAIN place
      PROVE  /\ stage = "sampled" /\ r \in val /\ At(r) \in Nat /\ place[r] = Geometry(M, r)
  <2>1. stage = "sampled"
    <3>1. SUFFICES ASSUME stage # "sampled" PROVE FALSE
      OBVIOUS
    <3>2. place = <<>>
      BY <3>1 DEF DataInv
    <3>3. QED
      BY <1>4, <3>2
  <2>2. place = [s \in Origins(val) |-> Geometry(Merged(val), s)]
    BY <2>1 DEF DataInv, DrawnRight
  <2>3. r \in val
    BY <1>4, <2>2 DEF Origins
  <2>4. QED
    BY <1>1, <1>2, <1>4, <2>1, <2>2, <2>3, RowFields
<1>5. ASSUME NEW r \in DOMAIN place PROVE IsExact(place[r], Merged(val), r)
  <2>1. PICK g : g = place[r]
    OBVIOUS
  <2>2. Placed(g, {e \in M : e.host = HostOf(r)}, r) /\ At(r) \in Nat
    BY <1>3, <1>4, <1>5, <2>1, GeometryPlaces
  <2>3. IsExact(g, M, r)
    BY <1>3, <2>2, PlaceIsExact
  <2>4. QED
    BY <1>2, <2>1, <2>3
<1>6. \A r \in DOMAIN place : place[r].wait \in Nat \ {0} /\ place[r].inside \in BOOLEAN
  <2>1. ASSUME NEW r \in DOMAIN place
        PROVE  \E around, ahead, first : Says(place[r], r, around, ahead, first)
    BY <1>5, <2>1, Zenon DEF IsExact
  <2>2. QED
    BY <2>1 DEF Says
<1>7. \A r \in DOMAIN place \cap attack : place[r].inside
  <2>1. TAKE r \in DOMAIN place \cap attack
  <2>2. PICK around : around = {e.start : e \in {e \in {e \in Merged(val) : e.host = HostOf(r)} :
                                                    At(r) \in e.start..e.end}}
    OBVIOUS
  <2>3. PICK e \in M : e.host = HostOf(r) /\ e.start <= At(r) /\ At(r) <= e.end
    BY <1>3, <1>4
  <2>4. At(r) \in e.start..e.end
    BY <1>3, <1>4, <2>3 DEF Chain
  <2>5. around # {}
    BY <1>2, <2>2, <2>3, <2>4
  <2>6. place[r].inside <=> around # {}
    <3>1. \E ahead, first : Says(place[r], r, around, ahead, first)
      BY <1>5, <2>2, Zenon DEF IsExact
    <3>2. QED
      BY <3>1 DEF Says
  <2>7. QED
    BY <2>5, <2>6
<1>8. GeometryIsExact
  <2>1. ASSUME NEW r \in DOMAIN place
        PROVE  LET own == {e \in Merged(val) : e.host = HostOf(r)}
                   around == {e.start : e \in {e \in own : At(r) \in e.start..e.end}}
                   ahead == {e.start : e \in {e \in own : e.start > At(r)}}
                   first == IF ahead = {} THEN NoOnset ELSE Min(ahead)
               IN  /\ place[r].inside <=> around # {}
                   /\ place[r].wait = IF ahead = {} THEN NoOnset ELSE first - At(r)
                   /\ place[r].key \in IF around = {} THEN {first} ELSE around
    <3>1. PICK own, around, ahead, first :
             /\ own = {e \in Merged(val) : e.host = HostOf(r)}
             /\ around = {e.start : e \in {e \in own : At(r) \in e.start..e.end}}
             /\ ahead = {e.start : e \in {e \in own : e.start > At(r)}}
             /\ first = IF ahead = {} THEN NoOnset ELSE Min(ahead)
      OBVIOUS
    <3>2. Says(place[r], r, around, ahead, first)
      BY <1>5, <2>1, <3>1, Zenon DEF IsExact
    <3>3. QED
      BY <3>1, <3>2 DEF Says
  <2>2. \A e, f \in Merged(val) :
           e.host = f.host /\ e.start < f.start => f.start - e.end - 1 > MergeGap
    BY <1>2, <1>3
  <2>3. QED
    BY <1>7, <2>1, <2>2, Zenon DEF GeometryIsExact
<1>9. HazardsMatchOnsets
  BY <1>6, BucketsMatch DEF HazardsMatchOnsets
<1>10. RareIsNeverSampledAway
  <2>1. SUFFICES ASSUME stage = "sampled", NEW r \in DOMAIN place,
                        r \in risk \/ (~place[r].inside /\ place[r].wait <= Max(Horizons))
                 PROVE  \E s \in Strata : r \in drawn[s]
    BY DEF RareIsNeverSampledAway
  <2>2. /\ StratumOf(r, place[r]) = "positive" => r \in drawn["positive"]
        /\ StratumOf(r, place[r]) = "pre_onset" => r \in drawn["pre_onset"]
    BY <2>1 DEF DataInv, DrawnRight
  <2>3. CASE r \in risk
    <3>1. StratumOf(r, place[r]) = "positive"
      BY <2>3 DEF StratumOf
    <3>2. QED
      BY <2>2, <3>1 DEF Strata
  <2>4. CASE r \notin risk
    <3>1. ~place[r].inside /\ place[r].wait <= Max(Horizons) /\ r \notin attack
      BY <1>7, <2>1, <2>4
    <3>2. StratumOf(r, place[r]) = "pre_onset"
      BY <2>4, <3>1 DEF StratumOf
    <3>3. QED
      BY <2>2, <3>2 DEF Strata
  <2>5. QED
    BY <2>3, <2>4
<1>11. LabelsStayOnTheirSide /\ OnlyTheNudgeStraddles
  BY DEF DataInv
<1>12. QED
  BY <1>8, <1>9, <1>10, <1>11 DEF SplitsAreSound, EvalSetIsSound

\* From any captures, what is trained and what is measured on is sound.
THEOREM SplitsAreSoundHolds == DataSpec => []SplitsAreSound
<1>1. DataInit => DataInv
  BY DataInitInv
<1>2. DataInv /\ [DataNext]_dataVars => DataInv'
  <2>1. SUFFICES ASSUME DataInv, [DataNext]_dataVars PROVE DataInv'
    OBVIOUS
  <2>2. CASE BuildAllSplits
    BY <2>1, <2>2, SplitInv
  <2>3. CASE BuildEvalSet
    BY <2>1, <2>3, SampleInv
  <2>4. CASE UNCHANGED dataVars
    <3>1. /\ table' = table /\ attack' = attack /\ stage' = stage /\ risk' = risk /\ val' = val
          /\ place' = place /\ drawn' = drawn
      BY <2>4 DEF dataVars
    <3>2. Merged(val)' = Merged(val)
      <4>1. EpisodesIn(val)' = EpisodesIn(val)
        BY <3>1 DEF EpisodesIn
      <4>2. QED
        BY <4>1 DEF Merged
    <3>3. \A r : StratumOf(r, place[r])' = StratumOf(r, place[r])
      BY <3>1 DEF StratumOf
    <3>4. DrawnRight => DrawnRight'
      BY <3>1, <3>2, <3>3 DEF DrawnRight
    <3>5. LabelsStayOnTheirSide' = LabelsStayOnTheirSide
      BY <3>1 DEF LabelsStayOnTheirSide
    <3>6. OnlyTheNudgeStraddles => OnlyTheNudgeStraddles'
      <4>1. \A c \in 1..Captures : EpisodesIn(Block(table, c))' = EpisodesIn(Block(table, c))
        BY <3>1 DEF EpisodesIn
      <4>2. QED
        BY <3>1, <4>1 DEF OnlyTheNudgeStraddles
    <3>7. Gapless(table)' = Gapless(table)
      BY <3>1 DEF Gapless, Block
    <3>8. QED
      BY <2>1, <3>1, <3>4, <3>5, <3>6, <3>7 DEF DataInv, AreRows
  <2>5. QED
    BY <2>1, <2>2, <2>3, <2>4 DEF DataNext
<1>3. DataInv => SplitsAreSound
  BY DataInvImplies
<1>4. QED
  BY <1>1, <1>2, <1>3, PTL DEF DataSpec

-----------------------------------------------------------------------------
(***************************************************************************)
(* The state table.  A day and the same day cut off after a window w.      *)
(***************************************************************************)
Slots == 0 .. LastDayWindow
DayFlows == SUBSET (Slots \X Peers \X Peers)
DayPackets == SUBSET (Slots \X Peers)

\* The windows in which a host was seen.
SeenAt(rows, h) == {k[1] : k \in {a \in rows : a[2] = h}}

\* The row of a host's window, before the dynamics.
BaseRow(flows, rows, v, h) ==
    IF v \in SeenAt(rows, h) THEN Row(Tracker(flows, Passed(rows, v)), flows, v, h) ELSE EmptyRow

\* A row with its dynamics, of a host first seen at lo.
WithDynamics(flows, rows, lo, v, h) ==
    [row |-> BaseRow(flows, rows, v, h),
     d |-> IF v = lo THEN 0
           ELSE BaseRow(flows, rows, v, h).degree - BaseRow(flows, rows, v - 1, h).degree,
     slope |-> IF v - 2 < lo THEN 0
               ELSE BaseRow(flows, rows, v, h).degree - BaseRow(flows, rows, v - 2, h).degree]

\* A set of windows has a first and a last one.
LEMMA EndsOfSlots ==
    ASSUME NEW S \in SUBSET Slots, S # {}
    PROVE  /\ LowestOf(S) \in S /\ \A x \in S : LowestOf(S) <= x
           /\ HighestOf(S) \in S /\ \A x \in S : x <= HighestOf(S)
<1>1. LastDayWindow \in Nat /\ S \subseteq Nat /\ S \subseteq 0 .. LastDayWindow
  BY TableAssumption DEF Slots
<1>2. \E x \in S : \A y \in S : x <= y
  BY <1>1, LeastNat
<1>3. \E x \in S : \A y \in S : y <= x
  BY <1>1, GreatestNat
<1>4. QED
  BY <1>2, <1>3 DEF LowestOf, HighestOf

\* Who is in the table is in the day.
LEMMA FusedIsOfTheDay ==
    ASSUME NEW flows \in DayFlows, NEW sent \in DayPackets
    PROVE  /\ Fused(flows, sent) \in SUBSET (Slots \X Peers)
           /\ FlowWindows(flows) \in SUBSET Slots /\ FlowSources(flows) \in SUBSET Peers
           /\ \A h \in FlowSources(flows) : SeenAt(Fused(flows, sent), h) # {}
           /\ \A h : SeenAt(Fused(flows, sent), h) \in SUBSET Slots
<1>1. \A f \in flows : f[1] \in Slots /\ f[2] \in Peers /\ f[3] \in Peers /\ f = <<f[1], f[2], f[3]>>
  BY DEF DayFlows
<1>2. \A p \in sent : p[1] \in Slots /\ p[2] \in Peers /\ p = <<p[1], p[2]>>
  BY DEF DayPackets
<1>3. FlowWindows(flows) \in SUBSET Slots /\ FlowSources(flows) \in SUBSET Peers
  BY <1>1 DEF FlowWindows, FlowSources
<1>4. Fused(flows, sent) \in SUBSET (Slots \X Peers)
  BY <1>1, <1>2 DEF Fused
<1>5. ASSUME NEW h \in FlowSources(flows) PROVE SeenAt(Fused(flows, sent), h) # {}
  <2>1. PICK f \in flows : f[2] = h
    BY DEF FlowSources
  <2>2. <<f[1], h>> \in Fused(flows, sent)
    BY <2>1 DEF Fused
  <2>3. f[1] \in SeenAt(Fused(flows, sent), h)
    BY <2>2 DEF SeenAt
  <2>4. QED
    BY <2>3
<1>6. \A h : SeenAt(Fused(flows, sent), h) \in SUBSET Slots
  BY <1>4 DEF SeenAt
<1>7. QED
  BY <1>3, <1>4, <1>5, <1>6

\* The ends of an interval.
LEMMA EndsOfRange ==
    ASSUME NEW lo \in Int, NEW hi \in Int, lo <= hi
    PROVE  LowestOf(lo .. hi) = lo /\ HighestOf(lo .. hi) = hi
<1>1. \A x \in lo .. hi : (\A y \in lo .. hi : x <= y) <=> x = lo
  OBVIOUS
<1>2. \A x \in lo .. hi : (\A y \in lo .. hi : y <= x) <=> x = hi
  OBVIOUS
<1>3. lo \in lo .. hi /\ hi \in lo .. hi
  OBVIOUS
<1>4. QED
  BY <1>1, <1>2, <1>3 DEF LowestOf, HighestOf

\* The rows of a host: from where it is first seen to where it is last.
LEMMA RowsAre ==
    ASSUME NEW flows \in DayFlows, NEW sent \in DayPackets, flows # {},
           NEW h \in FlowSources(flows), NEW rows, rows = Fused(flows, sent),
           NEW lo, lo = LowestOf(SeenAt(rows, h)), NEW hi, hi = HighestOf(SeenAt(rows, h))
    PROVE  /\ DOMAIN build_state_rows(flows, sent) = FlowSources(flows)
           /\ DOMAIN build_state_rows(flows, sent)[h] = lo .. hi
           /\ \A v \in lo .. hi : build_state_rows(flows, sent)[h][v] = WithDynamics(flows, rows, lo, v, h)
<1>1. PICK active : active = [r \in rows |-> Row(Tracker(flows, Passed(rows, r[1])), flows, r[1], r[2])]
  OBVIOUS
<1>2. build_state_rows(flows, sent) = [g \in FlowSources(flows) |-> HostRows(active, g)]
  BY <1>1 DEF build_state_rows
<1>3. {k[1] : k \in {a \in DOMAIN active : a[2] = h}} = SeenAt(rows, h)
  BY <1>1 DEF SeenAt
<1>4. PICK base : base = [v \in lo .. hi |-> IF v \in SeenAt(rows, h) THEN active[<<v, h>>] ELSE EmptyRow]
  OBVIOUS
<1>5. PICK degree : degree = [v \in lo .. hi |-> base[v].degree]
  OBVIOUS
<1>6. HostRows(active, h) = [v \in lo .. hi |-> [row |-> base[v], d |-> Diff(degree, lo, v),
                                                slope |-> TwiceSlope3(degree, lo, hi, v)]]
  BY <1>3, <1>4, <1>5, Zenon DEF HostRows
<1>7. SeenAt(rows, h) \in SUBSET Slots /\ SeenAt(rows, h) # {} /\ rows \in SUBSET (Slots \X Peers)
  BY FusedIsOfTheDay
<1>8. lo \in Int /\ hi \in Int /\ lo <= hi
  BY <1>7, EndsOfSlots DEF Slots
<1>9. \A v \in SeenAt(rows, h) : <<v, h>> \in rows
  BY <1>7 DEF SeenAt
<1>10. \A v \in lo .. hi : base[v] = BaseRow(flows, rows, v, h)
  <2>1. TAKE v \in lo .. hi
  <2>2. CASE v \in SeenAt(rows, h)
    <3>1. <<v, h>> \in rows
      BY <1>9, <2>2
    <3>2. active[<<v, h>>] = Row(Tracker(flows, Passed(rows, v)), flows, v, h)
      BY <1>1, <3>1
    <3>3. QED
      BY <1>4, <2>2, <3>2 DEF BaseRow
  <2>3. CASE v \notin SeenAt(rows, h)
    BY <1>4, <2>3 DEF BaseRow
  <2>4. QED
    BY <2>2, <2>3
<1>11. \A v \in lo .. hi : degree[v] = BaseRow(flows, rows, v, h).degree
  BY <1>5, <1>10
<1>12. \A v \in lo .. hi : Diff(degree, lo, v)
          = IF v = lo THEN 0 ELSE BaseRow(flows, rows, v, h).degree - BaseRow(flows, rows, v - 1, h).degree
  <2>1. TAKE v \in lo .. hi
  <2>2. CASE v = lo
    BY <2>2 DEF Diff
  <2>3. CASE v # lo
    <3>1. v - 1 \in lo .. hi
      BY <1>8, <2>3
    <3>2. degree[v] = BaseRow(flows, rows, v, h).degree /\ degree[v - 1] = BaseRow(flows, rows, v - 1, h).degree
      BY <1>11, <3>1
    <3>3. QED
      BY <2>3, <3>2 DEF Diff
  <2>4. QED
    BY <2>2, <2>3
<1>13. \A v \in lo .. hi : TwiceSlope3(degree, lo, hi, v)
          = IF v - 2 < lo THEN 0 ELSE BaseRow(flows, rows, v, h).degree - BaseRow(flows, rows, v - 2, h).degree
  <2>1. TAKE v \in lo .. hi
  <2>2. CASE v - 2 < lo
    BY <2>2 DEF TwiceSlope3
  <2>3. CASE ~(v - 2 < lo)
    <3>1. v - 2 \in lo .. hi
      BY <1>8, <2>3
    <3>2. degree[v] = BaseRow(flows, rows, v, h).degree /\ degree[v - 2] = BaseRow(flows, rows, v - 2, h).degree
      BY <1>11, <3>1
    <3>3. QED
      BY <2>3, <3>2 DEF TwiceSlope3
  <2>4. QED
    BY <2>2, <2>3
<1>14. \A v \in lo .. hi : HostRows(active, h)[v] = WithDynamics(flows, rows, lo, v, h)
  <2>1. TAKE v \in lo .. hi
  <2>2. HostRows(active, h)[v] = [row |-> base[v], d |-> Diff(degree, lo, v),
                                  slope |-> TwiceSlope3(degree, lo, hi, v)]
    BY <1>6
  <2>3. QED
    BY <1>10, <1>12, <1>13, <2>2, Zenon DEF WithDynamics
<1>15. QED
  BY <1>2, <1>6, <1>14

\* Up to the cut, a window's flows are all there.
LEMMA CutKeepsWindows ==
    ASSUME NEW flows \in DayFlows, NEW w \in Slots, NEW v \in Int, v <= w
    PROVE  /\ \A h : out_peers(UpTo(flows, w), v, h) = out_peers(flows, v, h)
           /\ GraphHosts(UpTo(flows, w), v) = GraphHosts(flows, v)
           /\ out_degree(UpTo(flows, w), v) = out_degree(flows, v)
<1>1. {g \in UpTo(flows, w) : g[1] = v} = {g \in flows : g[1] = v}
  BY DEF UpTo
<1>2. \A h : {g \in UpTo(flows, w) : g[1] = v /\ g[2] = h} = {g \in flows : g[1] = v /\ g[2] = h}
  BY DEF UpTo
<1>3. \A h : out_peers(UpTo(flows, w), v, h) = out_peers(flows, v, h)
  BY <1>2 DEF out_peers
<1>4. GraphHosts(UpTo(flows, w), v) = GraphHosts(flows, v)
  BY <1>1 DEF GraphHosts
<1>5. QED
  BY <1>3, <1>4 DEF out_degree

\* A table cut off is part of the table, and of its hosts, up to where they
\* are last seen in it, nothing is missing.
LEMMA CutRows ==
    ASSUME NEW flows \in DayFlows, NEW sent \in DayPackets, NEW w \in Slots,
           NEW h \in FlowSources(UpTo(flows, w)),
           NEW rows, rows = Fused(flows, sent),
           NEW cut, cut = Fused(UpTo(flows, w), UpTo(sent, w)),
           NEW hi, hi = HighestOf(SeenAt(cut, h))
    PROVE  /\ h \in FlowSources(flows) /\ cut \subseteq rows
           /\ LowestOf(SeenAt(cut, h)) = LowestOf(SeenAt(rows, h))
           /\ hi <= HighestOf(SeenAt(rows, h)) /\ hi <= w
           /\ \A v \in Int : v <= hi => (v \in SeenAt(cut, h) <=> v \in SeenAt(rows, h))
<1>1. UpTo(flows, w) \in DayFlows /\ UpTo(sent, w) \in DayPackets
  BY DEF UpTo, DayFlows, DayPackets
<1>2. PICK F \in DayFlows, P \in DayPackets : F = UpTo(flows, w) /\ P = UpTo(sent, w)
  BY <1>1
<1>3. /\ \A f \in flows : f[1] \in Slots /\ (f \in F <=> f[1] <= w)
      /\ \A p \in sent : p[1] \in Slots /\ (p \in P <=> p[1] <= w)
      /\ F \subseteq flows /\ P \subseteq sent
  BY <1>2 DEF UpTo, DayFlows, DayPackets
<1>4. h \in FlowSources(F) /\ FlowSources(F) \subseteq FlowSources(flows)
  BY <1>2, <1>3 DEF FlowSources
<1>5. PICK own \in F : own[2] = h
  BY <1>4 DEF FlowSources
<1>6. FlowWindows(F) # {} /\ FlowWindows(flows) # {} /\ FlowWindows(F) \subseteq FlowWindows(flows)
  BY <1>3, <1>5 DEF FlowWindows
<1>7. FlowWindows(F) \in SUBSET Slots /\ FlowWindows(flows) \in SUBSET Slots
  BY <1>2, FusedIsOfTheDay
<1>8. PICK first \in Slots, last \in Slots :
         first = LowestOf(FlowWindows(flows)) /\ last = HighestOf(FlowWindows(flows))
  BY <1>6, <1>7, EndsOfSlots
<1>9. PICK firstF \in Slots, lastF \in Slots :
         firstF = LowestOf(FlowWindows(F)) /\ lastF = HighestOf(FlowWindows(F))
  BY <1>6, <1>7, EndsOfSlots
<1>10. /\ first \in FlowWindows(flows) /\ \A x \in FlowWindows(flows) : first <= x /\ x <= last
       /\ firstF \in FlowWindows(F) /\ lastF \in FlowWindows(F)
       /\ \A x \in FlowWindows(F) : firstF <= x /\ x <= lastF
  BY <1>6, <1>7, <1>8, <1>9, EndsOfSlots
<1>11. \A x \in Slots : x \in Int
  BY DEF Slots
<1>12. lastF <= last /\ lastF <= w /\ \A x \in FlowWindows(F) : x <= w
  BY <1>3, <1>6, <1>10, <1>11 DEF FlowWindows
<1>13. firstF = first
  <2>1. firstF <= w /\ first <= firstF
    BY <1>6, <1>10, <1>12
  <2>2. first <= w
    BY <1>11, <2>1
  <2>3. PICK f \in flows : f[1] = first
    BY <1>10 DEF FlowWindows
  <2>4. first \in FlowWindows(F)
    BY <1>3, <2>2, <2>3 DEF FlowWindows
  <2>5. QED
    BY <1>10, <1>11, <2>1, <2>4
<1>14. cut = {<<f[1], f[2]>> : f \in F} \cup
             {p \in P : p[2] \in FlowSources(F) /\ p[1] >= first /\ p[1] <= lastF}
  BY <1>2, <1>9, <1>13 DEF Fused
<1>15. rows = {<<f[1], f[2]>> : f \in flows} \cup
              {p \in sent : p[2] \in FlowSources(flows) /\ p[1] >= first /\ p[1] <= last}
  BY <1>8 DEF Fused
<1>16. cut \subseteq rows
  <2>1. {<<f[1], f[2]>> : f \in F} \subseteq rows
    BY <1>3, <1>15
  <2>2. ASSUME NEW p \in P, p[2] \in FlowSources(F), p[1] >= first, p[1] <= lastF PROVE p \in rows
    <3>1. p \in sent /\ p[1] \in Int /\ p[2] \in FlowSources(flows)
      BY <1>3, <1>4, <1>11, <2>2
    <3>2. p[1] <= last
      BY <1>11, <1>12, <2>2, <3>1
    <3>3. QED
      BY <1>15, <2>2, <3>1, <3>2
  <2>3. QED
    BY <1>14, <2>1, <2>2
<1>17. SeenAt(cut, h) \in SUBSET Slots /\ SeenAt(cut, h) # {}
  BY <1>2, <1>4, FusedIsOfTheDay
<1>18. SeenAt(rows, h) \in SUBSET Slots /\ SeenAt(rows, h) # {}
  BY <1>4, FusedIsOfTheDay
<1>19. /\ hi \in SeenAt(cut, h) /\ hi \in Int /\ \A x \in SeenAt(cut, h) : x <= hi
       /\ LowestOf(SeenAt(cut, h)) \in SeenAt(cut, h)
       /\ \A x \in SeenAt(cut, h) : LowestOf(SeenAt(cut, h)) <= x
  BY <1>11, <1>17, EndsOfSlots
<1>20. \A x \in SeenAt(cut, h) : x \in SeenAt(rows, h) /\ x <= lastF
  <2>1. TAKE x \in SeenAt(cut, h)
  <2>2. PICK k \in cut : k[1] = x /\ k[2] = h
    BY DEF SeenAt
  <2>3. k[1] <= lastF
    BY <1>10, <1>14, <2>2 DEF FlowWindows
  <2>4. QED
    BY <1>16, <2>2, <2>3 DEF SeenAt
<1>21. hi <= lastF /\ hi <= w
  BY <1>11, <1>12, <1>19, <1>20
<1>22. ASSUME NEW v \in Int, v <= hi, v \in SeenAt(rows, h) PROVE v \in SeenAt(cut, h)
  <2>1. PICK k \in rows : k[1] = v /\ k[2] = h
    BY <1>22 DEF SeenAt
  <2>2. v <= w /\ v <= lastF
    <3>1. w \in Int /\ lastF \in Int /\ hi \in Int
      BY <1>9, <1>11, <1>19
    <3>2. QED
      BY <1>21, <1>22, <3>1
  <2>3. ASSUME NEW f \in flows, k = <<f[1], f[2]>> PROVE k \in cut
    <3>1. f \in F
      BY <1>3, <2>1, <2>2, <2>3
    <3>2. QED
      BY <1>14, <2>3, <3>1
  <2>4. ASSUME k \in sent, k[1] >= first PROVE k \in cut
    <3>1. k \in P
      BY <1>3, <2>1, <2>2, <2>4
    <3>2. QED
      BY <1>4, <1>14, <2>1, <2>2, <2>4, <3>1
  <2>5. k \in cut
    BY <1>15, <2>1, <2>3, <2>4
  <2>6. QED
    BY <2>1, <2>5 DEF SeenAt
<1>23. \A v \in Int : v <= hi => (v \in SeenAt(cut, h) <=> v \in SeenAt(rows, h))
  BY <1>20, <1>22
<1>24. /\ LowestOf(SeenAt(rows, h)) \in SeenAt(rows, h)
       /\ \A x \in SeenAt(rows, h) : LowestOf(SeenAt(rows, h)) <= x /\ x <= HighestOf(SeenAt(rows, h))
       /\ LowestOf(SeenAt(rows, h)) \in Int /\ LowestOf(SeenAt(cut, h)) \in Int
  BY <1>11, <1>17, <1>18, EndsOfSlots
<1>25. LowestOf(SeenAt(cut, h)) = LowestOf(SeenAt(rows, h))
  <2>1. PICK a \in Int, b \in Int : a = LowestOf(SeenAt(rows, h)) /\ b = LowestOf(SeenAt(cut, h))
    BY <1>24
  <2>2. a <= b /\ b <= hi
    BY <1>19, <1>20, <1>24, <2>1
  <2>3. a \in SeenAt(cut, h)
    BY <1>19, <1>23, <1>24, <2>1, <2>2
  <2>4. b <= a
    BY <1>19, <2>1, <2>3
  <2>5. QED
    BY <2>1, <2>2, <2>4
<1>26. QED
  BY <1>4, <1>16, <1>19, <1>20, <1>21, <1>23, <1>24, <1>25

\* What the tracker has seen of a host is what its windows so far held, cut
\* or not; and the graph prior is the same when the last window is.
LEMMA CutKeepsTracker ==
    ASSUME NEW flows \in DayFlows, NEW sent \in DayPackets, NEW w \in Slots, NEW h \in Peers,
           NEW rows, rows = Fused(flows, sent),
           NEW cut, cut = Fused(UpTo(flows, w), UpTo(sent, w)), cut \subseteq rows,
           NEW v \in Int, v <= w
    PROVE  /\ Tracker(UpTo(flows, w), Passed(cut, v)).seen[h] = Tracker(flows, Passed(rows, v)).seen[h]
           /\ SamePrior(v, cut, rows) =>
                 Tracker(UpTo(flows, w), Passed(cut, v)).prev = Tracker(flows, Passed(rows, v)).prev
<1>1. \A k \in rows : k[1] \in Slots /\ k[1] \in Int
  BY FusedIsOfTheDay DEF Slots
<1>2. w \in Int
  BY DEF Slots
<1>3. Passed(cut, v) \subseteq Passed(rows, v) /\ \A u \in Passed(rows, v) : u \in Slots /\ u \in Int /\ u <= w /\ u < v
  BY <1>1, <1>2 DEF Passed
<1> DEFINE T == UNION {out_peers(flows, u, h) : u \in Passed(rows, v)}
           C == UNION {out_peers(UpTo(flows, w), u, h) : u \in Passed(cut, v)}
<1>4. /\ \A x : x \in T <=> \E u \in Passed(rows, v) : x \in out_peers(flows, u, h)
      /\ \A x : x \in C <=> \E u \in Passed(cut, v) : x \in out_peers(UpTo(flows, w), u, h)
  OBVIOUS
<1>seen. Tracker(UpTo(flows, w), Passed(cut, v)).seen[h] = C /\ Tracker(flows, Passed(rows, v)).seen[h] = T
  BY DEF Tracker
<1> HIDE DEF T, C
<1>5. ASSUME NEW x, x \in C PROVE x \in T
  <2>2. PICK u \in Passed(cut, v) : x \in out_peers(UpTo(flows, w), u, h)
    BY <1>4, <1>5
  <2>3. u \in Passed(rows, v) /\ x \in out_peers(flows, u, h)
    BY <1>3, <2>2, CutKeepsWindows
  <2>4. QED
    BY <1>4, <2>3
<1>6. ASSUME NEW x, x \in T PROVE x \in C
  <2>2. PICK u \in Passed(rows, v) : x \in out_peers(flows, u, h)
    BY <1>4, <1>6
  <2>3. PICK f \in flows : f[1] = u /\ f[2] = h
    BY <2>2 DEF out_peers
  <2>4. f \in UpTo(flows, w)
    BY <1>3, <2>3 DEF UpTo
  <2>5. <<u, h>> \in cut
    BY <2>3, <2>4 DEF Fused
  <2>6. u \in Passed(cut, v)
    BY <1>3, <2>5 DEF Passed
  <2>7. x \in out_peers(UpTo(flows, w), u, h)
    BY <1>3, <2>2, CutKeepsWindows
  <2>8. QED
    BY <1>4, <2>6, <2>7
<1>7. C = T
  BY <1>5, <1>6
<1>8. ASSUME SamePrior(v, cut, rows)
      PROVE  Tracker(UpTo(flows, w), Passed(cut, v)).prev = Tracker(flows, Passed(rows, v)).prev
  <2>1. CASE Passed(rows, v) = {} /\ Passed(cut, v) = {}
    BY <2>1 DEF Tracker
  <2>2. CASE Passed(cut, v) # {} /\ Passed(rows, v) # {} /\ HighestOf(Passed(cut, v)) = HighestOf(Passed(rows, v))
    <3>1. Passed(rows, v) \in SUBSET Slots
      BY <1>3
    <3>2. PICK u \in Passed(rows, v) : u = HighestOf(Passed(rows, v))
      BY <2>2, <3>1, EndsOfSlots
    <3>3. out_degree(UpTo(flows, w), u) = out_degree(flows, u)
      BY <1>3, CutKeepsWindows
    <3>4. QED
      BY <2>2, <3>2, <3>3 DEF Tracker
  <2>3. QED
    BY <1>8, <2>1, <2>2 DEF SamePrior
<1>9. QED
  BY <1>7, <1>8, <1>seen

\* Two rows that agree in everything but the prior, before the dynamics.
BaseAgree(a, b) == a.is_active = b.is_active /\ a.degree = b.degree /\ a.new_peers = b.new_peers

\* Up to where a host is last seen in the cut, its rows are those of the day.
LEMMA CutKeepsBase ==
    ASSUME NEW flows \in DayFlows, NEW sent \in DayPackets, NEW w \in Slots,
           NEW h \in FlowSources(UpTo(flows, w)),
           NEW rows, rows = Fused(flows, sent),
           NEW cut, cut = Fused(UpTo(flows, w), UpTo(sent, w)),
           NEW v \in Int, v <= HighestOf(SeenAt(cut, h))
    PROVE  /\ BaseAgree(BaseRow(UpTo(flows, w), cut, v, h), BaseRow(flows, rows, v, h))
           /\ SamePrior(v, cut, rows) => BaseRow(UpTo(flows, w), cut, v, h) = BaseRow(flows, rows, v, h)
<1>1. PICK hi : hi = HighestOf(SeenAt(cut, h))
  OBVIOUS
<1>2. /\ h \in FlowSources(flows) /\ cut \subseteq rows /\ hi <= w
      /\ v \in SeenAt(cut, h) <=> v \in SeenAt(rows, h)
  BY <1>1, CutRows
<1>3. h \in Peers
  BY <1>2, FusedIsOfTheDay
<1>4. UpTo(flows, w) \in DayFlows /\ UpTo(sent, w) \in DayPackets
  BY DEF UpTo, DayFlows, DayPackets
<1>5. hi \in Int /\ w \in Int
  <2>1. SeenAt(cut, h) \in SUBSET Slots /\ SeenAt(cut, h) # {}
    BY <1>4, FusedIsOfTheDay
  <2>2. QED
    BY <1>1, <2>1, EndsOfSlots DEF Slots
<1>6. v <= w
  BY <1>1, <1>2, <1>5
<1>7. CASE v \notin SeenAt(rows, h)
  BY <1>2, <1>7 DEF BaseRow, BaseAgree
<1>8. CASE v \in SeenAt(rows, h)
  <2>1. PICK F, t, u : /\ F = UpTo(flows, w) /\ t = Tracker(F, Passed(cut, v))
                       /\ u = Tracker(flows, Passed(rows, v))
    OBVIOUS
  <2>2. t.seen[h] = u.seen[h] /\ (SamePrior(v, cut, rows) => t.prev = u.prev)
    BY <1>2, <1>3, <1>6, <2>1, CutKeepsTracker
  <2>3. PICK peers : peers = out_peers(F, v, h) /\ peers = out_peers(flows, v, h)
    BY <1>6, <2>1, CutKeepsWindows
  <2>4. BaseRow(F, cut, v, h) = Row(t, F, v, h) /\ BaseRow(flows, rows, v, h) = Row(u, flows, v, h)
    BY <1>2, <1>8, <2>1 DEF BaseRow
  <2>5. new_peer_count(t, peers, h) = new_peer_count(u, peers, h)
    BY <2>2 DEF new_peer_count
  <2>6. Row(t, F, v, h) = [is_active |-> 1, degree |-> Cardinality(peers),
                           new_peers |-> new_peer_count(t, peers, h),
                           risk |-> neighbour_risk_fraction(t, peers)]
    BY <2>3, Zenon DEF Row
  <2>7. Row(u, flows, v, h) = [is_active |-> 1, degree |-> Cardinality(peers),
                               new_peers |-> new_peer_count(u, peers, h),
                               risk |-> neighbour_risk_fraction(u, peers)]
    BY <2>3, Zenon DEF Row
  <2>8. BaseAgree(Row(t, F, v, h), Row(u, flows, v, h))
    BY <2>5, <2>6, <2>7 DEF BaseAgree
  <2>9. t.prev = u.prev => neighbour_risk_fraction(t, peers) = neighbour_risk_fraction(u, peers)
    BY Zenon DEF neighbour_risk_fraction
  <2>10. t.prev = u.prev => Row(t, F, v, h) = Row(u, flows, v, h)
    BY <2>5, <2>6, <2>7, <2>9, Zenon
  <2>11. QED
    BY <2>1, <2>2, <2>4, <2>8, <2>10, Zenon
<1>9. QED
  BY <1>7, <1>8

\* A table cut off shows what the whole one does.
LEMMA CutLooksTheSame ==
    ASSUME NEW flows \in DayFlows, NEW sent \in DayPackets, NEW w \in Slots,
           NEW day, day = build_state_rows(flows, sent),
           NEW part, part = build_state_rows(UpTo(flows, w), UpTo(sent, w)),
           NEW h \in DOMAIN part, NEW v \in DOMAIN part[h]
    PROVE  /\ h \in DOMAIN day /\ v \in DOMAIN day[h]
           /\ AgreeButForPrior(part[h][v], day[h][v])
           /\ SamePrior(v, Fused(UpTo(flows, w), UpTo(sent, w)), Fused(flows, sent))
                 => part[h][v] = day[h][v]
<1>1. PICK F, P : F = UpTo(flows, w) /\ P = UpTo(sent, w) /\ F \in DayFlows /\ P \in DayPackets
                  /\ F \subseteq flows
  BY DEF UpTo, DayFlows, DayPackets
<1>2. F # {}
  BY <1>1 DEF build_state_rows
<1>3. flows # {}
  BY <1>1, <1>2
<1>4. h \in FlowSources(F)
  <2>1. DOMAIN build_state_rows(F, P) = FlowSources(F)
    BY <1>2, Zenon DEF build_state_rows
  <2>2. QED
    BY <1>1, <2>1
<1>5. PICK rows, cut : rows = Fused(flows, sent) /\ cut = Fused(F, P)
  OBVIOUS
<1>6. PICK lo, hi, top : /\ lo = LowestOf(SeenAt(cut, h)) /\ hi = HighestOf(SeenAt(cut, h))
                         /\ top = HighestOf(SeenAt(rows, h))
  OBVIOUS
<1>7. h \in FlowSources(flows) /\ lo = LowestOf(SeenAt(rows, h)) /\ hi <= top /\ hi <= w
  BY <1>1, <1>4, <1>5, <1>6, CutRows
<1>8. lo \in Int /\ hi \in Int /\ top \in Int
  <2>1. SeenAt(cut, h) \in SUBSET Slots /\ SeenAt(cut, h) # {}
    BY <1>1, <1>4, <1>5, FusedIsOfTheDay
  <2>2. SeenAt(rows, h) \in SUBSET Slots /\ SeenAt(rows, h) # {}
    BY <1>5, <1>7, FusedIsOfTheDay
  <2>3. QED
    BY <1>6, <2>1, <2>2, EndsOfSlots DEF Slots
<1>9. /\ DOMAIN part[h] = lo .. hi
      /\ \A x \in lo .. hi : part[h][x] = WithDynamics(F, cut, lo, x, h)
  BY <1>1, <1>2, <1>4, <1>5, <1>6, RowsAre
<1>10. /\ DOMAIN day = FlowSources(flows) /\ DOMAIN day[h] = lo .. top
       /\ \A x \in lo .. top : day[h][x] = WithDynamics(flows, rows, lo, x, h)
  BY <1>3, <1>5, <1>6, <1>7, RowsAre
<1>11. v \in lo .. hi /\ v \in lo .. top /\ v \in Int
  BY <1>7, <1>8, <1>9
<1>12. part[h][v] = WithDynamics(F, cut, lo, v, h) /\ day[h][v] = WithDynamics(flows, rows, lo, v, h)
  BY <1>9, <1>10, <1>11
<1>13. \A x \in Int : x <= hi => BaseAgree(BaseRow(F, cut, x, h), BaseRow(flows, rows, x, h))
  BY <1>1, <1>4, <1>5, <1>6, CutKeepsBase
<1>14. SamePrior(v, cut, rows) => BaseRow(F, cut, v, h) = BaseRow(flows, rows, v, h)
  BY <1>1, <1>4, <1>5, <1>6, <1>8, <1>11, CutKeepsBase
<1>15. PICK p, q, p1, q1, p2, q2 :
          /\ p = BaseRow(F, cut, v, h) /\ q = BaseRow(flows, rows, v, h)
          /\ p1 = BaseRow(F, cut, v - 1, h) /\ q1 = BaseRow(flows, rows, v - 1, h)
          /\ p2 = BaseRow(F, cut, v - 2, h) /\ q2 = BaseRow(flows, rows, v - 2, h)
  OBVIOUS
<1>16. v <= hi /\ v - 1 <= hi /\ v - 2 <= hi /\ v - 1 \in Int /\ v - 2 \in Int
  BY <1>8, <1>11
<1>17. BaseAgree(p, q) /\ BaseAgree(p1, q1) /\ BaseAgree(p2, q2)
  BY <1>11, <1>13, <1>15, <1>16
<1>18. part[h][v] = [row |-> p, d |-> IF v = lo THEN 0 ELSE p.degree - p1.degree,
                     slope |-> IF v - 2 < lo THEN 0 ELSE p.degree - p2.degree]
  BY <1>12, <1>15, Zenon DEF WithDynamics
<1>19. day[h][v] = [row |-> q, d |-> IF v = lo THEN 0 ELSE q.degree - q1.degree,
                    slope |-> IF v - 2 < lo THEN 0 ELSE q.degree - q2.degree]
  BY <1>12, <1>15, Zenon DEF WithDynamics
<1>20. p.degree = q.degree /\ p1.degree = q1.degree /\ p2.degree = q2.degree
  BY <1>17 DEF BaseAgree
<1>21. PICK d, slope : /\ part[h][v] = [row |-> p, d |-> d, slope |-> slope]
                       /\ day[h][v] = [row |-> q, d |-> d, slope |-> slope]
  BY <1>18, <1>19, <1>20, Zenon
<1>22. AgreeButForPrior(part[h][v], day[h][v])
  BY <1>17, <1>21 DEF AgreeButForPrior, BaseAgree
<1>23. SamePrior(v, cut, rows) => part[h][v] = day[h][v]
  BY <1>14, <1>15, <1>21
<1>24. QED
  BY <1>1, <1>5, <1>7, <1>10, <1>11, <1>22, <1>23

\* The rows of a host are contiguous, from an active one to an active one.
LEMMA RowsAreContiguous ==
    ASSUME NEW flows \in DayFlows, NEW sent \in DayPackets,
           NEW day, day = build_state_rows(flows, sent), NEW h \in DOMAIN day
    PROVE  /\ DOMAIN day[h] = LowestOf(DOMAIN day[h]) .. HighestOf(DOMAIN day[h])
           /\ day[h][LowestOf(DOMAIN day[h])].row.is_active = 1
           /\ day[h][HighestOf(DOMAIN day[h])].row.is_active = 1
<1>1. flows # {}
  BY DEF build_state_rows
<1>2. h \in FlowSources(flows)
  <2>1. DOMAIN build_state_rows(flows, sent) = FlowSources(flows)
    BY <1>1, Zenon DEF build_state_rows
  <2>2. QED
    BY <2>1
<1>3. PICK rows : rows = Fused(flows, sent)
  OBVIOUS
<1>4. SeenAt(rows, h) \in SUBSET Slots /\ SeenAt(rows, h) # {}
  BY <1>2, <1>3, FusedIsOfTheDay
<1>5. PICK lo \in SeenAt(rows, h), hi \in SeenAt(rows, h) :
         lo = LowestOf(SeenAt(rows, h)) /\ hi = HighestOf(SeenAt(rows, h))
  BY <1>4, EndsOfSlots
<1>6. lo \in Int /\ hi \in Int /\ lo <= hi
  BY <1>4, <1>5, EndsOfSlots DEF Slots
<1>7. /\ DOMAIN day[h] = lo .. hi
      /\ \A x \in lo .. hi : day[h][x] = WithDynamics(flows, rows, lo, x, h)
  BY <1>1, <1>2, <1>3, <1>5, RowsAre
<1>8. LowestOf(DOMAIN day[h]) = lo /\ HighestOf(DOMAIN day[h]) = hi
  BY <1>6, <1>7, EndsOfRange
<1>9. \A x \in SeenAt(rows, h) : BaseRow(flows, rows, x, h).is_active = 1
  BY DEF BaseRow, Row
<1>10. \A x \in lo .. hi : day[h][x].row = BaseRow(flows, rows, x, h)
  BY <1>7 DEF WithDynamics
<1>11. lo \in lo .. hi /\ hi \in lo .. hi
  BY <1>6
<1>12. QED
  BY <1>5, <1>7, <1>8, <1>9, <1>10, <1>11

\* What a day holds.
TableInv == dayFlows \in DayFlows /\ dayPackets \in DayPackets

\* Recording keeps to the day.
LEMMA TableInvariant == TableSpec => []TableInv
<1>1. TableInit => TableInv
  BY DEF TableInit, TableInv, DayFlows, DayPackets
<1>2. TableInv /\ [TableNext]_tableVars => TableInv'
  BY DEF TableInv, TableNext, RecordFlow, RecordPackets, tableVars, DayFlows, DayPackets, Slots
<1>3. QED
  BY <1>1, <1>2, PTL DEF TableSpec

(* Whatever flows and packets come after a window, no feature of a row up   *)
(* to it changes but the graph prior, and that only when they change which  *)
(* window counts as the last before; and no row is missing between two.     *)
(* (ml/nidra/data/windowize.py, build_state_rows.)                          *)
THEOREM NoFeatureLooksAheadHolds == TableSpec => []NoFeatureLooksAhead
<1>1. ASSUME TableInv PROVE NoFeatureLooksAhead
  <2>1. PICK day : day = build_state_rows(dayFlows, dayPackets)
    OBVIOUS
  <2>2. dayFlows \in DayFlows /\ dayPackets \in DayPackets
    BY <1>1 DEF TableInv
  <2>3. ASSUME NEW w \in 0 .. LastDayWindow, NEW part,
               part = build_state_rows(UpTo(dayFlows, w), UpTo(dayPackets, w)),
               NEW h \in DOMAIN part, NEW v \in DOMAIN part[h]
        PROVE  /\ h \in DOMAIN day /\ v \in DOMAIN day[h]
               /\ AgreeButForPrior(part[h][v], day[h][v])
               /\ SamePrior(v, Fused(UpTo(dayFlows, w), UpTo(dayPackets, w)), Fused(dayFlows, dayPackets))
                     => part[h][v] = day[h][v]
    BY <2>1, <2>2, <2>3, CutLooksTheSame DEF Slots
  <2>4. \A h \in DOMAIN day :
           /\ DOMAIN day[h] = LowestOf(DOMAIN day[h]) .. HighestOf(DOMAIN day[h])
           /\ day[h][LowestOf(DOMAIN day[h])].row.is_active = 1
           /\ day[h][HighestOf(DOMAIN day[h])].row.is_active = 1
    BY <2>1, <2>2, RowsAreContiguous
  <2>5. day \in {build_state_rows(dayFlows, dayPackets)}
    BY <2>1
  <2>6. ASSUME NEW w \in 0 .. LastDayWindow
        PROVE  \E cut \in {build_state_rows(UpTo(dayFlows, w), UpTo(dayPackets, w))} :
                  \A h \in DOMAIN cut : \A v \in DOMAIN cut[h] :
                      /\ h \in DOMAIN day /\ v \in DOMAIN day[h]
                      /\ AgreeButForPrior(cut[h][v], day[h][v])
                      /\ SamePrior(v, Fused(UpTo(dayFlows, w), UpTo(dayPackets, w)), Fused(dayFlows, dayPackets))
                            => cut[h][v] = day[h][v]
    <3>1. PICK part : part = build_state_rows(UpTo(dayFlows, w), UpTo(dayPackets, w))
      OBVIOUS
    <3>2. part \in {build_state_rows(UpTo(dayFlows, w), UpTo(dayPackets, w))}
      BY <3>1
    <3>3. WITNESS part \in {build_state_rows(UpTo(dayFlows, w), UpTo(dayPackets, w))}
    <3>4. QED
      BY <2>3, <3>1
  <2>7. QED
    BY <2>4, <2>5, <2>6 DEF NoFeatureLooksAhead
<1>2. QED
  BY <1>1, TableInvariant, PTL

-----------------------------------------------------------------------------
(***************************************************************************)
(* Scores.  Sums and products run along a sequence; a pooled score stays   *)
(* between 0 and One whatever pools it.                                    *)
(***************************************************************************)
IsSum(f, r, n) == f = [k \in 0..n |-> IF k = 0 THEN 0 ELSE f[k - 1] + r[k]]

\* A sequence can be summed up to any of its elements.
LEMMA SumExists ==
    ASSUME NEW r, NEW n \in Nat
    PROVE  \E f : IsSum(f, r, n)
<1>1. PICK X : X = {m \in Nat : \E f : IsSum(f, r, m)}
  OBVIOUS
<1>2. 0 \in X
  <2>1. PICK f : f = [k \in 0..0 |-> 0]
    OBVIOUS
  <2>2. IsSum(f, r, 0)
    BY <2>1 DEF IsSum
  <2>3. QED
    BY <1>1, <2>2
<1>3. ASSUME NEW m \in Nat, m \in X PROVE m + 1 \in X
  <2>1. PICK f : IsSum(f, r, m)
    BY <1>1, <1>3
  <2>2. PICK g : g = [k \in 0..m + 1 |-> IF k = 0 THEN 0 ELSE f[k - 1] + r[k]]
    OBVIOUS
  <2>3. \A k \in 0..m : g[k] = f[k]
    BY <2>1, <2>2 DEF IsSum
  <2>4. \A k \in 1..m + 1 : g[k - 1] = f[k - 1]
    <3>1. TAKE k \in 1..m + 1
    <3>2. k - 1 \in 0..m
      OBVIOUS
    <3>3. QED
      BY <2>3, <3>2
  <2>5. \A k \in 0..m + 1 : (IF k = 0 THEN 0 ELSE f[k - 1] + r[k])
                              = (IF k = 0 THEN 0 ELSE g[k - 1] + r[k])
    BY <2>4
  <2>7. g = [k \in 0..m + 1 |-> IF k = 0 THEN 0 ELSE g[k - 1] + r[k]]
    BY <2>2, <2>5
  <2>8. IsSum(g, r, m + 1)
    BY <2>7 DEF IsSum
  <2>6. QED
    BY <1>1, <2>8
<1>4. QED
  BY <1>1, <1>2, <1>3, ByInduction

\* What sums do from element to element.
LEMMA SumSteps ==
    ASSUME NEW n \in Nat, NEW S \in SUBSET Nat, NEW r \in [1..n -> S]
    PROVE  \E f : /\ f[0] = 0
                  /\ \A k \in 1..n : f[k] = f[k - 1] + r[k]
                  /\ SumOf(r) = f[n]
<1>1. Len(r) = n
  OBVIOUS
<1>2. PICK f : f = CHOOSE g : IsSum(g, r, n)
  OBVIOUS
<1>3. IsSum(f, r, n)
  BY <1>2, SumExists
<1>4. f[0] = 0 /\ \A k \in 1..n : f[k] = f[k - 1] + r[k]
  BY <1>3 DEF IsSum
<1>5. SumOf(r) = f[n]
  BY <1>1, <1>2 DEF SumOf, IsSum
<1>6. QED
  BY <1>4, <1>5

\* A sum of numbers up to b is at most as many times b.
LEMMA SumBound ==
    ASSUME NEW n \in Nat, NEW b \in Nat, NEW r \in [1..n -> 0..b]
    PROVE  SumOf(r) \in 0..n * b
<1>1. PICK f : /\ f[0] = 0
               /\ \A k \in 1..n : f[k] = f[k - 1] + r[k]
               /\ SumOf(r) = f[n]
  <2>1. 0..b \in SUBSET Nat
    OBVIOUS
  <2>2. QED
    BY <2>1, SumSteps
<1>2. PICK X : X = {k \in Nat : k <= n => f[k] \in 0..k * b}
  OBVIOUS
<1>3. 0 \in X
  BY <1>1, <1>2
<1>4. ASSUME NEW m \in Nat, m \in X PROVE m + 1 \in X
  <2>1. SUFFICES ASSUME m + 1 <= n PROVE f[m + 1] \in 0..(m + 1) * b
    BY <1>2
  <2>2. f[m] \in 0..m * b /\ r[m + 1] \in 0..b /\ f[m + 1] = f[m] + r[m + 1]
    BY <1>1, <1>2, <1>4, <2>1
  <2>3. (m + 1) * b = m * b + b /\ m * b \in Nat
    OBVIOUS
  <2>4. QED
    BY <2>2, <2>3
<1>5. n \in X
  BY <1>3, <1>4, ByInduction
<1>6. QED
  BY <1>1, <1>2, <1>5

\* A mean is no larger than what it is the mean of.
LEMMA MeanBound ==
    ASSUME NEW n \in Nat \ {0}, NEW b \in Nat, NEW r \in [1..n -> 0..b]
    PROVE  MeanOf(r) \in 0..b
<1>1. Len(r) = n
  OBVIOUS
<1>2. PICK s \in Nat : s = SumOf(r) /\ s <= n * b
  <2>1. n * b \in Nat
    OBVIOUS
  <2>2. QED
    BY <2>1, SumBound
<1>3. PICK q \in Nat : q = s \div n /\ n * q <= s
  <2>1. s \div n \in Nat /\ n * (s \div n) <= s
    OBVIOUS
  <2>2. QED
    BY <2>1
<1>4. q <= b
  <2>1. SUFFICES ASSUME q >= b + 1 PROVE FALSE
    OBVIOUS
  <2>2. n * q >= n * (b + 1)
    BY <2>1
  <2>3. n * (b + 1) = n * b + n
    OBVIOUS
  <2>4. QED
    BY <1>2, <1>3, <2>2, <2>3
<1>5. QED
  BY <1>1, <1>2, <1>3, <1>4 DEF MeanOf

\* The mean of one number.
LEMMA MeanOfOne ==
    ASSUME NEW b \in Nat, NEW r \in [1..1 -> 0..b]
    PROVE  MeanOf(r) = r[1]
<1>1. PICK f : /\ f[0] = 0
               /\ \A k \in 1..1 : f[k] = f[k - 1] + r[k]
               /\ SumOf(r) = f[1]
  <2>1. 0..b \in SUBSET Nat /\ 1 \in Nat
    OBVIOUS
  <2>2. QED
    BY <2>1, SumSteps
<1>2. f[1] = f[1 - 1] + r[1] /\ r[1] \in Nat
  BY <1>1
<1>3. SumOf(r) = r[1]
  BY <1>1, <1>2
<1>4. Len(r) = 1
  OBVIOUS
<1>5. QED
  BY <1>2, <1>3, <1>4 DEF MeanOf

-----------------------------------------------------------------------------
\* Positions among which a cardinality counts are finitely many.
LEMMA PositionsAreFinite ==
    ASSUME NEW n \in Nat, NEW A \in SUBSET (1..n)
    PROVE  Cardinality(A) \in 0..n
<1>1. IsFiniteSet(1..n) /\ Cardinality(1..n) = n
  BY FS_Interval
<1>2. IsFiniteSet(A) /\ Cardinality(A) <= n
  BY <1>1, FS_Subset
<1>3. QED
  BY <1>2, FS_CardinalityType

\* There is an element of every rank, and it is one of the sequence.
LEMMA RankExists ==
    ASSUME NEW n \in Nat \ {0}, NEW b \in Nat, NEW r \in [1..n -> 0..b], NEW i \in 1..n
    PROVE  /\ OrderStatistic(r, i) \in 0..b
           /\ Cardinality({j \in 1..n : r[j] < OrderStatistic(r, i)}) < i
           /\ Cardinality({j \in 1..n : r[j] <= OrderStatistic(r, i)}) >= i
<1>1. PICK W : W = {v \in 0..b : /\ \E j \in 1..n : r[j] = v
                                 /\ Cardinality({j \in 1..n : r[j] <= v}) >= i}
  OBVIOUS
<1>2. PICK V : V = {r[j] : j \in 1..n}
  OBVIOUS
<1>3. V # {} /\ V \subseteq 0..b
  <2>1. r[1] \in V
    BY <1>2
  <2>2. \A j \in 1..n : r[j] \in 0..b
    OBVIOUS
  <2>3. QED
    BY <1>2, <2>1, <2>2
<1>4. W # {}
  <2>1. PICK v \in V : \A w \in V : w <= v
    BY <1>3, GreatestNat
  <2>2. {j \in 1..n : r[j] <= v} = 1..n
    BY <1>2, <2>1
  <2>3. Cardinality({j \in 1..n : r[j] <= v}) = n
    <3>1. Cardinality(1..n) = n
      BY FS_Interval
    <3>2. QED
      BY <2>2, <3>1, Zenon
  <2>4. QED
    BY <1>1, <1>2, <1>3, <2>1, <2>3
<1>5. PICK v \in W : \A w \in W : v <= w
  <2>1. W \subseteq Nat
    BY <1>1
  <2>2. QED
    BY <1>4, <2>1, LeastNat
<1>6. Cardinality({j \in 1..n : r[j] < v}) < i
  <2>1. v \in Nat /\ \A j \in 1..n : r[j] \in Nat
    BY <1>1, <1>5
  <2>2. PICK U : U = {u \in V : u < v}
    OBVIOUS
  <2>3. CASE U = {}
    <3>1. {j \in 1..n : r[j] < v} = {}
      BY <1>2, <2>2, <2>3
    <3>2. Cardinality({}) = 0
      BY FS_EmptySet
    <3>3. Cardinality({j \in 1..n : r[j] < v}) = 0
      BY <3>1, <3>2, Zenon
    <3>4. QED
      BY <3>3
  <2>4. CASE U # {}
    <3>1. U \subseteq 0..b
      BY <1>3, <2>2
    <3>2. PICK u \in U : \A w \in U : w <= u
      BY <2>4, <3>1, GreatestNat
    <3>3. u \in 0..b /\ u < v /\ \E j \in 1..n : r[j] = u
      BY <1>2, <2>2, <3>1, <3>2
    <3>4. \A j \in 1..n : r[j] < v <=> r[j] <= u
      <4>1. TAKE j \in 1..n
      <4>2. r[j] \in V /\ r[j] \in Nat /\ u \in Nat
        BY <1>2, <2>1, <3>3
      <4>3. r[j] < v => r[j] <= u
        BY <2>2, <3>2, <4>2
      <4>4. QED
        BY <2>1, <3>3, <4>2, <4>3
    <3>5. {j \in 1..n : r[j] < v} = {j \in 1..n : r[j] <= u}
      BY <3>4
    <3>6. u \notin W
      BY <1>5, <2>1, <3>3
    <3>7. ~ (Cardinality({j \in 1..n : r[j] <= u}) >= i)
      BY <1>1, <3>3, <3>6
    <3>8. Cardinality({j \in 1..n : r[j] <= u}) \in Nat
      BY PositionsAreFinite
    <3>9. Cardinality({j \in 1..n : r[j] < v}) = Cardinality({j \in 1..n : r[j] <= u})
      BY <3>5, Zenon
    <3>10. QED
      BY <3>7, <3>8, <3>9
  <2>5. QED
    BY <2>3, <2>4
<1>7. DOMAIN r = 1..n /\ Range(r) = V
  BY <1>2 DEF Range
<1>8. v \in Range(r) /\ Cardinality({j \in DOMAIN r : r[j] <= v}) >= i
  BY <1>1, <1>2, <1>5, <1>7
<1>9. PICK w \in Range(r) : /\ w = OrderStatistic(r, i)
                            /\ Cardinality({j \in DOMAIN r : r[j] < w}) < i
                            /\ Cardinality({j \in DOMAIN r : r[j] <= w}) >= i
  <2>1. Cardinality({j \in DOMAIN r : r[j] < v}) < i
    BY <1>6, <1>7
  <2>2. QED
    BY <1>8, <2>1 DEF OrderStatistic
<1>10. /\ Cardinality({j \in 1..n : r[j] < OrderStatistic(r, i)}) < i
       /\ Cardinality({j \in 1..n : r[j] <= OrderStatistic(r, i)}) >= i
  BY <1>7, <1>9, Zenon
<1>11. QED
  BY <1>3, <1>7, <1>9, <1>10

\* A quantile lies between two of them.
LEMMA QuartersBound ==
    ASSUME NEW n \in Nat \ {0}, NEW b \in Nat, NEW r \in [1..n -> 0..b], NEW num \in {2, 3}
    PROVE  Quarters(r, num) \in 0..b
<1>1. Len(r) = n
  OBVIOUS
<1>2. PICK p \in Nat : p = num * (n - 1)
  <2>1. num * (n - 1) \in Nat
    OBVIOUS
  <2>2. QED
    BY <2>1
<1>3. PICK q \in Nat, m \in 0..3 : q = p \div 4 /\ m = p % 4 /\ p = 4 * q + m
  <2>1. p \div 4 \in Nat /\ p % 4 \in 0..3 /\ p = 4 * (p \div 4) + (p % 4)
    OBVIOUS
  <2>2. QED
    BY <2>1
<1>4. q + 1 \in 1..n /\ (m # 0 => q + 2 \in 1..n)
  <2>1. p <= 3 * (n - 1)
    BY <1>2
  <2>2. QED
    BY <1>3, <2>1
<1>5. PICK low \in 0..b : low = OrderStatistic(r, q + 1)
  BY <1>4, RankExists
<1>6. CASE m = 0
  BY <1>1, <1>2, <1>3, <1>5, <1>6 DEF Quarters
<1>7. CASE m # 0
  <2>1. PICK high \in 0..b : high = OrderStatistic(r, q + 2)
    BY <1>4, <1>7, RankExists
  <2>2. PICK x \in Int : x = (high - low) * m
    OBVIOUS
  <2>3. -4 * low <= x /\ x <= 4 * (b - low)
    <3>1. m = 1 \/ m = 2 \/ m = 3
      BY <1>7
    <3>2. QED
      BY <2>2, <3>1
  <2>4. x \div 4 \in Int /\ -low <= x \div 4 /\ x \div 4 <= b - low
    BY <2>3
  <2>5. Quarters(r, num) = low + x \div 4
    BY <1>1, <1>2, <1>3, <1>5, <1>7, <2>1, <2>2 DEF Quarters
  <2>6. QED
    BY <2>4, <2>5
<1>8. QED
  BY <1>6, <1>7

\* Products of larger numbers are larger.
LEMMA TimesMonotone ==
    ASSUME NEW a \in Nat, NEW b \in Nat, NEW c \in Nat, NEW d \in Nat, a <= c, b <= d
    PROVE  a * b \in Nat /\ a * b <= c * d
<1>1. (c - a) * d \in Nat /\ (c - a) * d = c * d - a * d
  <2>1. c - a \in Nat
    OBVIOUS
  <2>2. QED
    BY <2>1
<1>2. a * (d - b) \in Nat /\ a * (d - b) = a * d - a * b
  <2>1. d - b \in Nat
    OBVIOUS
  <2>2. QED
    BY <2>1
<1>3. {a * b, a * d, c * d} \subseteq Nat
  OBVIOUS
<1>4. QED
  BY <1>1, <1>2, <1>3

\* A number is between a multiple of its quotient and the next.
LEMMA QuotientBounds ==
    ASSUME NEW a \in Nat, NEW n \in Nat \ {0}
    PROVE  a \div n \in Nat /\ n * (a \div n) <= a /\ a < n * (a \div n) + n
OBVIOUS

\* What a sum gains, its mean gains.
LEMMA QuotientNear ==
    ASSUME NEW a \in Nat, NEW c \in Nat, NEW d \in Nat, NEW n \in Nat \ {0}, c <= a + n * d
    PROVE  c \div n <= a \div n + d
<1>1. PICK p \in Nat : p = a \div n /\ a < n * p + n
  BY QuotientBounds
<1>2. PICK q \in Nat : q = c \div n /\ n * q <= c
  BY QuotientBounds
<1>3. SUFFICES ASSUME q >= p + d + 1 PROVE FALSE
  BY <1>1, <1>2
<1>4. PICK e \in Nat : q = p + d + 1 + e
  <2>1. q - (p + d + 1) \in Nat /\ q = p + d + 1 + (q - (p + d + 1))
    BY <1>3
  <2>2. QED
    BY <2>1
<1>5. n * q = n * p + n * d + n + n * e
  BY <1>4
<1>6. PICK x, y, z \in Nat : x = n * p /\ y = n * d /\ z = n * e
  <2>1. n * p \in Nat /\ n * d \in Nat /\ n * e \in Nat
    OBVIOUS
  <2>2. QED
    BY <2>1
<1>7. x + y + n + z <= c /\ c <= a + y /\ a < x + n
  BY <1>1, <1>2, <1>5, <1>6
<1>8. QED
  BY <1>7

\* Quotients of larger numbers are larger.
LEMMA QuotientMonotone ==
    ASSUME NEW a \in Nat, NEW c \in Nat, NEW n \in Nat \ {0}, c <= a
    PROVE  c \div n <= a \div n
<1>1. n * 0 = 0 /\ c <= a + n * 0
  OBVIOUS
<1>2. c \div n <= a \div n + 0
  BY <1>1, QuotientNear
<1>3. QED
  BY <1>2, QuotientBounds

Methods == {"mean", "median", "quantile", "max", "p_above_half"}

\* Whatever pools them, scores give a score.
LEMMA PoolBound ==
    ASSUME One \in Nat, NEW n \in Nat \ {0}, NEW r \in [1..n -> 0..One], NEW method \in Methods
    PROVE  pool_trajectories(r, method) \in 0..One
<1>1. Len(r) = n /\ DOMAIN r = 1..n
  OBVIOUS
<1>2. MeanOf(r) \in 0..One
  BY MeanBound
<1>3. Quarters(r, 2) \in 0..One /\ Quarters(r, 3) \in 0..One
  BY QuartersBound
<1>4. OrderStatistic(r, n) \in 0..One
  <2>1. n \in 1..n
    OBVIOUS
  <2>2. QED
    BY <2>1, RankExists
<1>5. (Cardinality({j \in DOMAIN r : r[j] >= Half}) * One) \div n \in 0..One
  <2>1. PICK c \in 0..n : c = Cardinality({j \in DOMAIN r : r[j] >= Half})
    BY <1>1, PositionsAreFinite
  <2>2. c * One \in Nat /\ c * One <= n * One
    <3>1. c \in Nat /\ c <= n
      OBVIOUS
    <3>2. (n - c) * One \in Nat /\ (n - c) * One = n * One - c * One
      BY <3>1
    <3>3. QED
      BY <3>1, <3>2
  <2>3. PICK s \in Nat : s = c * One /\ s <= n * One
    BY <2>2
  <2>4. PICK q \in Nat : q = s \div n /\ n * q <= s
    <3>1. s \div n \in Nat /\ n * (s \div n) <= s
      OBVIOUS
    <3>2. QED
      BY <3>1
  <2>5. q <= One
    <3>1. SUFFICES ASSUME q >= One + 1 PROVE FALSE
      OBVIOUS
    <3>2. n * q >= n * (One + 1)
      BY <3>1
    <3>3. n * (One + 1) = n * One + n
      OBVIOUS
    <3>4. QED
      BY <2>3, <2>4, <3>2, <3>3
  <2>6. QED
    BY <2>1, <2>3, <2>4, <2>5
<1>6. QED
  BY <1>1, <1>2, <1>3, <1>4, <1>5 DEF pool_trajectories, Methods

\* What is added to every number of a sequence, its mean gains at most.
LEMMA MeanNear ==
    ASSUME NEW n \in Nat \ {0}, NEW b \in Nat, NEW d \in Nat,
           NEW r \in [1..n -> 0..b], NEW s \in [1..n -> 0..b], \A j \in 1..n : s[j] <= r[j] + d
    PROVE  MeanOf(s) <= MeanOf(r) + d
<1>1. Len(r) = n /\ Len(s) = n
  OBVIOUS
<1>2. PICK f : f[0] = 0 /\ (\A k \in 1..n : f[k] = f[k - 1] + r[k]) /\ SumOf(r) = f[n]
  <2>1. 0..b \in SUBSET Nat /\ r \in [1..n -> 0..b]
    OBVIOUS
  <2>2. QED
    BY <2>1, SumSteps, Zenon
<1>3. PICK g : g[0] = 0 /\ (\A k \in 1..n : g[k] = g[k - 1] + s[k]) /\ SumOf(s) = g[n]
  <2>1. 0..b \in SUBSET Nat /\ s \in [1..n -> 0..b]
    OBVIOUS
  <2>2. QED
    BY <2>1, SumSteps, Zenon
<1>4. PICK X : X = {k \in Nat : k <= n => f[k] \in Nat /\ g[k] \in Nat /\ g[k] <= f[k] + k * d}
  OBVIOUS
<1>5. 0 \in X
  BY <1>2, <1>3, <1>4
<1>6. ASSUME NEW m \in Nat, m \in X PROVE m + 1 \in X
  <2>1. SUFFICES ASSUME m + 1 <= n
                 PROVE  f[m + 1] \in Nat /\ g[m + 1] \in Nat /\ g[m + 1] <= f[m + 1] + (m + 1) * d
    BY <1>4
  <2>2. PICK z \in Nat : z = m * d /\ (m + 1) * d = z + d
    <3>1. m * d \in Nat /\ (m + 1) * d = m * d + d
      OBVIOUS
    <3>2. QED
      BY <3>1
  <2>3. PICK x, y \in Nat : x = f[m] /\ y = g[m] /\ y <= x + z
    BY <1>4, <1>6, <2>1, <2>2
  <2>4. m + 1 \in 1..n /\ (m + 1) - 1 = m
    BY <2>1
  <2>5. PICK u, v \in Nat : u = r[m + 1] /\ v = s[m + 1] /\ v <= u + d
    BY <2>4
  <2>6. f[m + 1] = x + u /\ g[m + 1] = y + v
    BY <1>2, <1>3, <2>3, <2>4, <2>5
  <2>7. y + v <= (x + u) + (z + d)
    <3>1. v <= u + d /\ y <= x + z
      BY <2>3, <2>5, Zenon
    <3>2. QED
      BY <3>1, Z3
  <2>8. x + u \in Nat /\ y + v \in Nat
    OBVIOUS
  <2>9. QED
    BY <2>2, <2>6, <2>7, <2>8, Zenon
<1>7. n \in X
  BY <1>5, <1>6, ByInduction
<1>8. PICK x, y \in Nat : x = SumOf(r) /\ y = SumOf(s) /\ y <= x + n * d
  BY <1>2, <1>3, <1>4, <1>7
<1>9. y \div n <= x \div n + d
  BY <1>8, QuotientNear
<1>10. QED
  BY <1>1, <1>8, <1>9 DEF MeanOf

\* So does any of its elements by rank: were it to gain more, all that were
\* below the old one would be below the new one.
LEMMA RankNear ==
    ASSUME NEW n \in Nat \ {0}, NEW b \in Nat, NEW d \in Nat, NEW i \in 1..n,
           NEW r \in [1..n -> 0..b], NEW s \in [1..n -> 0..b], \A j \in 1..n : s[j] <= r[j] + d
    PROVE  OrderStatistic(s, i) <= OrderStatistic(r, i) + d
<1>1. PICK w \in 0..b : w = OrderStatistic(r, i) /\ Cardinality({j \in 1..n : r[j] <= w}) >= i
  <2>1. /\ OrderStatistic(r, i) \in 0..b
        /\ Cardinality({j \in 1..n : r[j] <= OrderStatistic(r, i)}) >= i
    BY RankExists
  <2>2. QED
    BY <2>1, Zenon
<1>2. PICK v \in 0..b : v = OrderStatistic(s, i) /\ Cardinality({j \in 1..n : s[j] < v}) < i
  <2>1. /\ OrderStatistic(s, i) \in 0..b
        /\ Cardinality({j \in 1..n : s[j] < OrderStatistic(s, i)}) < i
    BY RankExists
  <2>2. QED
    BY <2>1, Zenon
<1>3. SUFFICES ASSUME v > w + d PROVE FALSE
  BY <1>1, <1>2
<1>4. PICK A : A = {j \in 1..n : r[j] <= w}
  OBVIOUS
<1>5. PICK B : B = {j \in 1..n : s[j] < v}
  OBVIOUS
<1>6. A \subseteq B
  <2>1. ASSUME NEW j \in 1..n, r[j] <= w PROVE s[j] < v
    <3>1. r[j] \in 0..b /\ s[j] \in 0..b /\ s[j] <= r[j] + d
      OBVIOUS
    <3>2. QED
      BY <1>3, <2>1, <3>1
  <2>2. QED
    BY <1>4, <1>5, <2>1
<1>7. Cardinality(A) <= Cardinality(B) /\ Cardinality(A) \in Nat /\ Cardinality(B) \in Nat
  <2>1. IsFiniteSet(1..n) /\ B \subseteq 1..n
    BY <1>5, FS_Interval
  <2>2. IsFiniteSet(B)
    BY <2>1, FS_Subset
  <2>3. QED
    BY <1>6, <2>2, FS_Subset, FS_CardinalityType
<1>8. QED
  BY <1>1, <1>2, <1>4, <1>5, <1>7

\* And any between two of them.
LEMMA QuartersNear ==
    ASSUME NEW n \in Nat \ {0}, NEW b \in Nat, NEW d \in Nat, NEW num \in {2, 3},
           NEW r \in [1..n -> 0..b], NEW s \in [1..n -> 0..b], \A j \in 1..n : s[j] <= r[j] + d
    PROVE  Quarters(s, num) <= Quarters(r, num) + d
<1>1. Len(r) = n /\ Len(s) = n
  OBVIOUS
<1>2. PICK p \in Nat : p = num * (n - 1)
  <2>1. num * (n - 1) \in Nat
    OBVIOUS
  <2>2. QED
    BY <2>1
<1>3. PICK q \in Nat, m \in 0..3 : q = p \div 4 /\ m = p % 4 /\ p = 4 * q + m
  <2>1. p \div 4 \in Nat /\ p % 4 \in 0..3 /\ p = 4 * (p \div 4) + (p % 4)
    OBVIOUS
  <2>2. QED
    BY <2>1
<1>4. q + 1 \in 1..n /\ (m # 0 => q + 2 \in 1..n)
  <2>1. p <= 3 * (n - 1)
    BY <1>2
  <2>2. QED
    BY <1>3, <2>1
<1>5. PICK a \in 0..b, x \in 0..b : a = OrderStatistic(r, q + 1) /\ x = OrderStatistic(s, q + 1)
  BY <1>4, RankExists
<1>6. x <= a + d
  BY <1>4, <1>5, RankNear
<1>7. CASE m = 0
  BY <1>1, <1>2, <1>3, <1>5, <1>6, <1>7 DEF Quarters
<1>8. CASE m # 0
  <2>1. PICK c \in 0..b, y \in 0..b : c = OrderStatistic(r, q + 2) /\ y = OrderStatistic(s, q + 2)
    BY <1>4, <1>8, RankExists
  <2>2. y <= c + d
    BY <1>4, <1>8, <2>1, RankNear
  <2>3. PICK u, v \in Int : u = (c - a) * m /\ v = (y - x) * m
    OBVIOUS
  <2>4. 4 * x + v <= 4 * a + u + 4 * d
    <3>1. m = 1 \/ m = 2 \/ m = 3
      BY <1>8
    <3>2. QED
      BY <1>6, <2>2, <2>3, <3>1
  <2>5. x + v \div 4 <= a + u \div 4 + d
    BY <2>4
  <2>6. Quarters(r, num) = a + u \div 4
    BY <1>1, <1>2, <1>3, <1>5, <1>8, <2>1, <2>3 DEF Quarters
  <2>7. Quarters(s, num) = x + v \div 4
    BY <1>1, <1>2, <1>3, <1>5, <1>8, <2>1, <2>3 DEF Quarters
  <2>8. QED
    BY <2>5, <2>6, <2>7
<1>9. QED
  BY <1>7, <1>8

\* Whatever does not count them pools what is near to what is as near.
LEMMA PoolNear ==
    ASSUME One \in Nat, NEW n \in Nat \ {0}, NEW d \in Nat, NEW method \in Methods \ {"p_above_half"},
           NEW r \in [1..n -> 0..One], NEW s \in [1..n -> 0..One], \A j \in 1..n : s[j] <= r[j] + d
    PROVE  pool_trajectories(s, method) <= pool_trajectories(r, method) + d
<1>1. Len(r) = n /\ Len(s) = n
  OBVIOUS
<1>2. MeanOf(s) <= MeanOf(r) + d
  BY MeanNear
<1>3. Quarters(s, 2) <= Quarters(r, 2) + d /\ Quarters(s, 3) <= Quarters(r, 3) + d
  BY QuartersNear
<1>4. OrderStatistic(s, n) <= OrderStatistic(r, n) + d
  <2>1. n \in 1..n
    OBVIOUS
  <2>2. QED
    BY <2>1, RankNear
<1>5. QED
  BY <1>1, <1>2, <1>3, <1>4 DEF pool_trajectories, Methods

\* Counting those above a half, more is as much or more.
LEMMA CountMonotone ==
    ASSUME One \in Nat, NEW n \in Nat \ {0}, NEW r \in [1..n -> 0..One], NEW s \in [1..n -> 0..One],
           \A j \in 1..n : r[j] >= Half => s[j] >= Half
    PROVE  pool_trajectories(r, "p_above_half") <= pool_trajectories(s, "p_above_half")
<1>1. PICK A : A = {j \in 1..n : r[j] >= Half}
  OBVIOUS
<1>2. PICK B : B = {j \in 1..n : s[j] >= Half}
  OBVIOUS
<1>3. Cardinality(A) <= Cardinality(B) /\ Cardinality(A) \in Nat /\ Cardinality(B) \in Nat
  <2>1. A \subseteq B /\ B \subseteq 1..n
    BY <1>1, <1>2
  <2>2. IsFiniteSet(1..n)
    BY FS_Interval
  <2>3. IsFiniteSet(B)
    BY <2>1, <2>2, FS_Subset
  <2>4. QED
    BY <2>1, <2>3, FS_Subset, FS_CardinalityType
<1>4. PICK x, y \in Nat : x = Cardinality(A) * One /\ y = Cardinality(B) * One /\ x <= y
  <2>1. One <= One
    OBVIOUS
  <2>2. Cardinality(A) * One \in Nat /\ Cardinality(A) * One <= Cardinality(B) * One
    BY <1>3, <2>1, TimesMonotone
  <2>3. Cardinality(B) * One \in Nat
    BY <1>3
  <2>4. QED
    BY <2>2, <2>3
<1>5. x \div n <= y \div n
  BY <1>4, QuotientMonotone
<1>6. pool_trajectories(r, "p_above_half") = x \div n
  BY <1>1, <1>4 DEF pool_trajectories
<1>7. pool_trajectories(s, "p_above_half") = y \div n
  BY <1>2, <1>4 DEF pool_trajectories
<1>8. QED
  BY <1>5, <1>6, <1>7

-----------------------------------------------------------------------------
IsProduct(f, p, n) == f = [k \in 0..n |-> IF k = 0 THEN 1 ELSE f[k - 1] * p[k]]

\* The horizons can be multiplied up to any of them.
LEMMA ProductExists ==
    ASSUME NEW p, NEW n \in Nat
    PROVE  \E f : IsProduct(f, p, n)
<1>1. PICK X : X = {m \in Nat : \E f : IsProduct(f, p, m)}
  OBVIOUS
<1>2. 0 \in X
  <2>1. PICK f : f = [k \in 0..0 |-> 1]
    OBVIOUS
  <2>2. IsProduct(f, p, 0)
    BY <2>1 DEF IsProduct
  <2>3. QED
    BY <1>1, <2>2
<1>3. ASSUME NEW m \in Nat, m \in X PROVE m + 1 \in X
  <2>1. PICK f : IsProduct(f, p, m)
    BY <1>1, <1>3
  <2>2. PICK g : g = [k \in 0..m + 1 |-> IF k = 0 THEN 1 ELSE f[k - 1] * p[k]]
    OBVIOUS
  <2>3. \A k \in 0..m : g[k] = f[k]
    BY <2>1, <2>2 DEF IsProduct
  <2>4. \A k \in 1..m + 1 : g[k - 1] = f[k - 1]
    <3>1. TAKE k \in 1..m + 1
    <3>2. k - 1 \in 0..m
      OBVIOUS
    <3>3. QED
      BY <2>3, <3>2
  <2>5. \A k \in 0..m + 1 : (IF k = 0 THEN 1 ELSE f[k - 1] * p[k])
                              = (IF k = 0 THEN 1 ELSE g[k - 1] * p[k])
    BY <2>4
  <2>6. g = [k \in 0..m + 1 |-> IF k = 0 THEN 1 ELSE g[k - 1] * p[k]]
    BY <2>2, <2>5
  <2>7. IsProduct(g, p, m + 1)
    BY <2>6 DEF IsProduct
  <2>8. QED
    BY <1>1, <2>7
<1>4. QED
  BY <1>1, <1>2, <1>3, ByInduction

\* What products do from horizon to horizon.
LEMMA ProductSteps ==
    ASSUME NEW p, HorizonK \in Nat
    PROVE  /\ Product(p)[0] = 1
           /\ \A k \in 1..HorizonK : Product(p)[k] = Product(p)[k - 1] * p[k]
<1>1. PICK f : f = CHOOSE g : IsProduct(g, p, HorizonK)
  OBVIOUS
<1>2. IsProduct(f, p, HorizonK)
  BY <1>1, ProductExists
<1>3. Product(p) = f
  BY <1>1 DEF Product, IsProduct
<1>4. f[0] = 1 /\ \A k \in 1..HorizonK : f[k] = f[k - 1] * p[k]
  BY <1>2 DEF IsProduct
<1>5. QED
  BY <1>3, <1>4

\* Units are powers of One.
LEMMA Units ==
    ASSUME One \in Nat, HorizonK \in Nat
    PROVE  /\ Unit(0) = 1
           /\ \A k \in 1..HorizonK : Unit(k) = Unit(k - 1) * One
           /\ \A k \in 0..HorizonK : Unit(k) \in Nat
<1>1. PICK p : p = [i \in 1..HorizonK |-> One]
  OBVIOUS
<1>2. \A k : Unit(k) = Product(p)[k]
  BY <1>1 DEF Unit
<1>3. Unit(0) = 1 /\ \A k \in 1..HorizonK : Unit(k) = Unit(k - 1) * One
  BY <1>1, <1>2, ProductSteps
<1>4. PICK X : X = {k \in Nat : k <= HorizonK => Unit(k) \in Nat}
  OBVIOUS
<1>5. 0 \in X
  BY <1>3, <1>4
<1>6. ASSUME NEW m \in Nat, m \in X PROVE m + 1 \in X
  <2>1. SUFFICES ASSUME m + 1 <= HorizonK PROVE Unit(m + 1) \in Nat
    BY <1>4
  <2>2. Unit(m) \in Nat
    BY <1>4, <1>6, <2>1
  <2>3. Unit(m + 1) = Unit(m) * One
    <3>1. m + 1 \in 1..HorizonK /\ (m + 1) - 1 = m
      BY <2>1
    <3>2. Unit(m + 1) = Unit((m + 1) - 1) * One
      BY <1>3, <3>1
    <3>3. QED
      BY <3>1, <3>2
  <2>4. QED
    BY <2>2, <2>3
<1>7. \A k \in Nat : k \in X
  BY <1>5, <1>6, ByInduction
<1>8. QED
  BY <1>3, <1>4, <1>7

\* Chances of nothing until a horizon.
LEMMA ProductBound ==
    ASSUME One \in Nat, HorizonK \in Nat, NEW p \in [1..HorizonK -> 0..One]
    PROVE  \A k \in 0..HorizonK : Product(p)[k] \in Nat /\ Product(p)[k] <= Unit(k)
<1>1. PICK X : X = {k \in Nat : k <= HorizonK => Product(p)[k] \in Nat /\ Product(p)[k] <= Unit(k)}
  OBVIOUS
<1>2. 0 \in X
  BY <1>1, Units, ProductSteps
<1>3. ASSUME NEW m \in Nat, m \in X PROVE m + 1 \in X
  <2>1. SUFFICES ASSUME m + 1 <= HorizonK
                 PROVE  Product(p)[m + 1] \in Nat /\ Product(p)[m + 1] <= Unit(m + 1)
    BY <1>1
  <2>2. PICK a \in Nat : a = Product(p)[m] /\ a <= Unit(m)
    BY <1>1, <1>3, <2>1
  <2>3. m + 1 \in 1..HorizonK /\ (m + 1) - 1 = m /\ m \in 0..HorizonK
    BY <2>1
  <2>4. PICK b \in Nat : b = p[m + 1] /\ b <= One
    BY <2>3
  <2>5. PICK c \in Nat : c = Unit(m)
    BY <2>3, Units
  <2>6. Product(p)[m + 1] = a * b
    <3>1. Product(p)[m + 1] = Product(p)[(m + 1) - 1] * p[m + 1]
      BY <2>3, ProductSteps
    <3>2. QED
      BY <2>2, <2>3, <2>4, <3>1
  <2>7. Unit(m + 1) = c * One
    <3>1. Unit(m + 1) = Unit((m + 1) - 1) * One
      BY <2>3, Units
    <3>2. QED
      BY <2>3, <2>5, <3>1
  <2>8. a * b \in Nat /\ a * b <= c * One
    BY <2>2, <2>4, <2>5, TimesMonotone
  <2>9. QED
    BY <2>6, <2>7, <2>8
<1>4. \A k \in Nat : k \in X
  BY <1>2, <1>3, ByInduction
<1>5. QED
  BY <1>1, <1>4

-----------------------------------------------------------------------------
\* The highest of the horizons is above what two of them in a row are.
LEMMA MaxIsAbove ==
    ASSUME One \in Nat, HorizonK \in Nat, NEW p \in [1..HorizonK -> 0..One], NEW threshold \in Nat,
           NEW j \in 2..HorizonK, p[j] >= threshold
    PROVE  OverHorizon(p, "max") >= threshold * Unit(HorizonK - 1)
<1>1. Range(p) \subseteq 0..One /\ p[j] \in Range(p)
  <2>1. DOMAIN p = 1..HorizonK /\ \A i \in 1..HorizonK : p[i] \in 0..One
    OBVIOUS
  <2>2. QED
    BY <2>1 DEF Range
<1>2. PICK a \in Nat : a = Max(Range(p)) /\ threshold <= a
  <2>1. Max(Range(p)) \in Range(p) /\ \A v \in Range(p) : v <= Max(Range(p))
    BY <1>1, MaxIsGreatest
  <2>2. QED
    BY <1>1, <2>1
<1>3. PICK u \in Nat : u = Unit(HorizonK - 1)
  <2>1. HorizonK - 1 \in 0..HorizonK
    OBVIOUS
  <2>2. QED
    BY <2>1, Units
<1>4. threshold * u <= a * u
  <2>1. u <= u
    OBVIOUS
  <2>2. QED
    BY <1>2, <2>1, TimesMonotone
<1>5. OverHorizon(p, "max") = a * u
  BY <1>2, <1>3 DEF OverHorizon
<1>6. threshold * u \in Nat /\ a * u \in Nat
  OBVIOUS
<1>7. QED
  BY <1>3, <1>4, <1>5, <1>6

\* Once one horizon has reached the threshold, the chance of nothing at all
\* has gone below what the threshold leaves.
LEMMA ChancesFall ==
    ASSUME One \in Nat, HorizonK \in Nat, NEW p \in [1..HorizonK -> 0..One], NEW rest \in Nat,
           NEW j \in 1..HorizonK, p[j] <= rest
    PROVE  Product(p)[HorizonK] \in Nat /\ Product(p)[HorizonK] <= rest * Unit(HorizonK - 1)
<1>1. PICK X : X = {k \in Nat : j <= k /\ k <= HorizonK =>
                       Product(p)[k] \in Nat /\ Product(p)[k] <= rest * Unit(k - 1)}
  OBVIOUS
<1>2. 0 \in X
  BY <1>1
<1>3. ASSUME NEW m \in Nat, m \in X PROVE m + 1 \in X
  <2>1. SUFFICES ASSUME j <= m + 1, m + 1 <= HorizonK
                 PROVE  Product(p)[m + 1] \in Nat /\ Product(p)[m + 1] <= rest * Unit(m)
    <3>1. (m + 1) - 1 = m
      OBVIOUS
    <3>2. QED
      BY <1>1, <3>1
  <2>2. m + 1 \in 1..HorizonK /\ (m + 1) - 1 = m /\ m \in 0..HorizonK
    BY <2>1
  <2>3. PICK b \in Nat : b = p[m + 1] /\ b <= One
    BY <2>2
  <2>4. PICK a \in Nat : a = Product(p)[m] /\ a <= Unit(m)
    BY <2>2, ProductBound
  <2>5. PICK c \in Nat : c = Unit(m)
    BY <2>2, Units
  <2>6. Product(p)[m + 1] = a * b
    <3>1. Product(p)[m + 1] = Product(p)[(m + 1) - 1] * p[m + 1]
      BY <2>2, ProductSteps
    <3>2. QED
      BY <2>2, <2>3, <2>4, <3>1
  <2>7. CASE j = m + 1
    <3>1. b <= rest
      BY <2>3, <2>7
    <3>2. a * b \in Nat /\ a * b <= c * rest
      BY <2>4, <2>5, <3>1, TimesMonotone
    <3>3. c * rest = rest * c
      OBVIOUS
    <3>4. QED
      BY <2>5, <2>6, <3>2, <3>3
  <2>8. CASE j # m + 1
    <3>1. j <= m /\ m \in 1..HorizonK
      BY <2>1, <2>8
    <3>2. PICK d \in Nat : d = Unit(m - 1)
      <4>1. m - 1 \in 0..HorizonK
        BY <3>1
      <4>2. QED
        BY <4>1, Units
    <3>3. a <= rest * d /\ rest * d \in Nat
      <4>1. Product(p)[m] <= rest * Unit(m - 1)
        BY <1>1, <1>3, <3>1
      <4>2. QED
        BY <2>4, <3>2, <4>1
    <3>4. c = d * One
      BY <2>5, <3>1, <3>2, Units
    <3>5. a * b \in Nat /\ a * b <= (rest * d) * One
      BY <2>3, <3>3, TimesMonotone
    <3>6. (rest * d) * One = rest * c
      BY <3>4
    <3>7. QED
      BY <2>5, <2>6, <3>5, <3>6
  <2>9. QED
    BY <2>7, <2>8
<1>4. HorizonK \in X
  BY <1>2, <1>3, ByInduction
<1>5. QED
  BY <1>1, <1>4

\* So has the chance of something, complementarily.
LEMMA IntegratedIsAbove ==
    ASSUME One \in Nat, HorizonK \in Nat, NEW p \in [1..HorizonK -> 0..One], NEW threshold \in 0..One,
           NEW j \in 2..HorizonK, p[j] >= threshold
    PROVE  OverHorizon(p, "integrated") >= threshold * Unit(HorizonK - 1)
<1>1. PICK q : q = [k \in 1..HorizonK |-> One - p[k]]
  OBVIOUS
<1>2. \A k \in 1..HorizonK : p[k] \in Nat /\ p[k] <= One
  OBVIOUS
<1>3. q \in [1..HorizonK -> 0..One]
  BY <1>1, <1>2
<1>4. PICK rest \in Nat : rest = One - threshold
  OBVIOUS
<1>5. q[j] <= rest
  BY <1>1, <1>2, <1>4
<1>6. PICK u \in Nat : u = Unit(HorizonK - 1)
  <2>1. HorizonK - 1 \in 0..HorizonK
    OBVIOUS
  <2>2. QED
    BY <2>1, Units
<1>7. Unit(HorizonK) = u * One
  <2>1. HorizonK \in 1..HorizonK
    OBVIOUS
  <2>2. QED
    BY <1>6, <2>1, Units
<1>8. PICK v \in Nat : v = Product(q)[HorizonK] /\ v <= rest * u
  <2>1. j \in 1..HorizonK
    OBVIOUS
  <2>2. Product(q)[HorizonK] \in Nat /\ Product(q)[HorizonK] <= rest * Unit(HorizonK - 1)
    BY <1>3, <1>5, <2>1, ChancesFall
  <2>3. QED
    BY <1>6, <2>2
<1>9. rest * u = u * One - threshold * u
  BY <1>4
<1>10. OverHorizon(p, "integrated") = u * One - v
  BY <1>1, <1>7, <1>8 DEF OverHorizon
<1>11. threshold * u \in Nat /\ u * One \in Nat
  OBVIOUS
<1>12. u * One - v >= threshold * u
  <2>1. PICK x, y, z \in Nat : x = threshold * u /\ y = u * One /\ z = rest * u
    BY <1>11
  <2>2. v <= z /\ z = y - x
    BY <1>8, <1>9, <2>1
  <2>3. y - v >= x
    BY <2>2
  <2>4. QED
    BY <2>1, <2>3
<1>13. QED
  BY <1>6, <1>10, <1>12

\* A curve with a lead time is above the threshold over the horizon.
LEMMA LeadIsAbove ==
    ASSUME One \in Nat, HorizonK \in Nat, NEW p \in [1..HorizonK -> 0..One], NEW threshold \in 0..One,
           NEW reduction \in {"max", "integrated"}, LeadTime(p, threshold) > 0
    PROVE  OverHorizon(p, reduction) >= threshold * Unit(HorizonK - 1)
<1>1. \E j \in 2..HorizonK : p[j - 1] >= threshold /\ p[j] >= threshold
  <2>1. SUFFICES ASSUME {k \in 2..HorizonK : p[k - 1] >= threshold /\ p[k] >= threshold} = {}
                 PROVE  FALSE
    OBVIOUS
  <2>2. LeadTime(p, threshold) = 0
    BY <2>1 DEF LeadTime
  <2>3. QED
    BY <2>2
<1>2. PICK j \in 2..HorizonK : p[j] >= threshold
  BY <1>1
<1>3. CASE reduction = "max"
  BY <1>2, <1>3, MaxIsAbove
<1>4. CASE reduction = "integrated"
  BY <1>2, <1>4, IntegratedIsAbove
<1>5. QED
  BY <1>3, <1>4

\* Where every chance is as large or larger, so is their product.
LEMMA ProductMonotone ==
    ASSUME One \in Nat, HorizonK \in Nat, NEW p \in [1..HorizonK -> 0..One],
           NEW q \in [1..HorizonK -> 0..One], \A k \in 1..HorizonK : p[k] <= q[k]
    PROVE  Product(p)[HorizonK] <= Product(q)[HorizonK]
<1>1. PICK X : X = {k \in Nat : k <= HorizonK => Product(p)[k] <= Product(q)[k]}
  OBVIOUS
<1>2. 0 \in X
  BY <1>1, ProductSteps
<1>3. ASSUME NEW m \in Nat, m \in X PROVE m + 1 \in X
  <2>1. SUFFICES ASSUME m + 1 <= HorizonK PROVE Product(p)[m + 1] <= Product(q)[m + 1]
    BY <1>1
  <2>2. m + 1 \in 1..HorizonK /\ (m + 1) - 1 = m /\ m \in 0..HorizonK
    BY <2>1
  <2>3. Product(p)[m] \in Nat /\ Product(q)[m] \in Nat
    BY <2>2, ProductBound
  <2>4. PICK a, c \in Nat : a = Product(p)[m] /\ c = Product(q)[m] /\ a <= c
    BY <1>1, <1>3, <2>1, <2>3
  <2>5. PICK b, d \in Nat : b = p[m + 1] /\ d = q[m + 1] /\ b <= d
    BY <2>2
  <2>6. Product(p)[m + 1] = a * b
    <3>1. Product(p)[m + 1] = Product(p)[(m + 1) - 1] * p[m + 1]
      BY <2>2, ProductSteps
    <3>2. QED
      BY <2>2, <2>4, <2>5, <3>1
  <2>7. Product(q)[m + 1] = c * d
    <3>1. Product(q)[m + 1] = Product(q)[(m + 1) - 1] * q[m + 1]
      BY <2>2, ProductSteps
    <3>2. QED
      BY <2>2, <2>4, <2>5, <3>1
  <2>8. a * b <= c * d
    BY <2>4, <2>5, TimesMonotone
  <2>9. QED
    BY <2>6, <2>7, <2>8
<1>4. HorizonK \in X
  BY <1>2, <1>3, ByInduction
<1>5. QED
  BY <1>1, <1>4

Reductions == {"max", "integrated"}

\* The score of a higher curve is higher, and a number.
LEMMA HorizonMonotone ==
    ASSUME One \in Nat, HorizonK \in Nat \ {0}, NEW p \in [1..HorizonK -> 0..One],
           NEW q \in [1..HorizonK -> 0..One], NEW reduction \in Reductions,
           \A k \in 1..HorizonK : p[k] <= q[k]
    PROVE  /\ OverHorizon(p, reduction) \in Int /\ OverHorizon(q, reduction) \in Int
           /\ OverHorizon(p, reduction) <= OverHorizon(q, reduction)
<1>1. PICK u, w \in Nat : u = Unit(HorizonK - 1) /\ w = Unit(HorizonK)
  <2>1. HorizonK - 1 \in 0..HorizonK /\ HorizonK \in 0..HorizonK
    OBVIOUS
  <2>2. QED
    BY <2>1, Units
<1>2. CASE reduction = "max"
  <2>1. /\ Range(p) \subseteq 0..One /\ Range(p) # {}
        /\ Range(q) \subseteq 0..One /\ Range(q) # {}
    <3>1. 1 \in 1..HorizonK /\ DOMAIN p = 1..HorizonK /\ DOMAIN q = 1..HorizonK
      OBVIOUS
    <3>2. QED
      BY <3>1 DEF Range
  <2>2. Max(Range(p)) \in Range(p) /\ \A v \in Range(q) : v <= Max(Range(q))
    BY <2>1, MaxIsGreatest
  <2>3. PICK k \in 1..HorizonK : Max(Range(p)) = p[k]
    BY <2>2 DEF Range
  <2>4. q[k] <= Max(Range(q))
    BY <2>2 DEF Range
  <2>5. Max(Range(q)) \in 0..One
    BY <2>1, MaxIsGreatest
  <2>6. PICK a, c \in Nat : a = Max(Range(p)) /\ c = Max(Range(q)) /\ a <= c
    <3>1. p[k] \in 0..One /\ q[k] \in 0..One /\ p[k] <= q[k]
      OBVIOUS
    <3>2. QED
      BY <2>3, <2>4, <2>5, <3>1
  <2>7. u <= u
    OBVIOUS
  <2>8. a * u \in Nat /\ a * u <= c * u
    BY <2>6, <2>7, TimesMonotone
  <2>9. c * u \in Nat
    OBVIOUS
  <2>10. OverHorizon(p, reduction) = a * u /\ OverHorizon(q, reduction) = c * u
    BY <1>1, <1>2, <2>6 DEF OverHorizon
  <2>11. QED
    BY <2>8, <2>9, <2>10
<1>3. CASE reduction = "integrated"
  <2>1. PICK x : x = [k \in 1..HorizonK |-> One - p[k]]
    OBVIOUS
  <2>2. PICK y : y = [k \in 1..HorizonK |-> One - q[k]]
    OBVIOUS
  <2>3. \A k \in 1..HorizonK : /\ One - p[k] \in 0..One /\ One - q[k] \in 0..One
                               /\ One - q[k] <= One - p[k]
    <3>1. TAKE k \in 1..HorizonK
    <3>2. p[k] \in 0..One /\ q[k] \in 0..One /\ p[k] <= q[k]
      OBVIOUS
    <3>3. QED
      BY <3>2
  <2>4. /\ x \in [1..HorizonK -> 0..One] /\ y \in [1..HorizonK -> 0..One]
        /\ \A k \in 1..HorizonK : y[k] <= x[k]
    BY <2>1, <2>2, <2>3
  <2>5. HorizonK \in 0..HorizonK
    OBVIOUS
  <2>6. Product(x)[HorizonK] \in Nat /\ Product(y)[HorizonK] \in Nat
    BY <2>4, <2>5, ProductBound
  <2>7. Product(y)[HorizonK] <= Product(x)[HorizonK]
    BY <2>4, ProductMonotone
  <2>8. OverHorizon(p, reduction) = w - Product(x)[HorizonK]
    BY <1>1, <1>3, <2>1 DEF OverHorizon
  <2>9. OverHorizon(q, reduction) = w - Product(y)[HorizonK]
    BY <1>1, <1>3, <2>2 DEF OverHorizon
  <2>10. QED
    BY <2>6, <2>7, <2>8, <2>9
<1>4. QED
  BY <1>2, <1>3 DEF Reductions

-----------------------------------------------------------------------------
(***************************************************************************)
(* A checkpoint is loaded once.  From the same draws the benchmark and     *)
(* serving pool the same numbers, or as near as sixteen bits leave them.   *)
(***************************************************************************)
ScoringTypes ==
    /\ checkpoint.members \in 1..MaxEnsemble
    /\ checkpoint.trajectoryHead \in BOOLEAN
    /\ checkpoint.op \in OperatingPoints
    /\ checkpoint.heads \in [1..checkpoint.members -> [PredictedStates -> HeadScores]]
    /\ draws # <<>> => draws \in [Ensemble -> Trajectories]

\* What the units are.
LEMMA OneIsWhole ==
    /\ One \in Nat \ {0} /\ Half \in 0..One /\ Half \div 2 \in 0..One
    /\ HorizonK \in Nat \ {0} /\ MaxEnsemble \in Nat \ {0}
<1>1. Grain \in Nat \ {0} /\ HorizonK \in Nat \ {0} /\ MaxEnsemble \in Nat \ {0}
  BY ScoringAssumption
<1>2. PICK g \in Nat \ {0} : g = Grain
  BY <1>1
<1>3. One = 16 * g
  BY <1>2 DEF One
<1>4. Half = 8 * g /\ Half \div 2 = 4 * g
  BY <1>3 DEF Half
<1>5. QED
  BY <1>1, <1>2, <1>3, <1>4

\* Any head gives a score to any member's state.
LEMMA HeadScoreBound ==
    ASSUME ScoringTypes, NEW m \in Ensemble, NEW from \in Ensemble, NEW s \in PredictedStates
    PROVE  HeadScore(m, from, s) \in 0..One
<1>1. PICK a \in 0..One : a = checkpoint.heads[m][s]
  <2>1. checkpoint.heads[m] \in [PredictedStates -> HeadScores]
    BY DEF ScoringTypes, Ensemble
  <2>2. QED
    BY <2>1, ScoringAssumption
<1>2. One - a \in 0..One
  BY OneIsWhole
<1>3. QED
  BY <1>1, <1>2 DEF HeadScore

\* Served, and measured, a step of the simulation has one score per member.
LEMMA RisksAreScores ==
    ASSUME ScoringTypes, draws # <<>>, NEW k \in 1..HorizonK
    PROVE  ServedRisk(k) \in [1..checkpoint.members -> 0..One]
<1>1. PICK n \in Nat \ {0} : n = checkpoint.members /\ Ensemble = 1..n
  BY ScoringAssumption DEF ScoringTypes, Ensemble
<1>2. \A j \in Ensemble : draws[j][k] \in PredictedStates
  <2>1. draws \in [Ensemble -> Trajectories]
    BY DEF ScoringTypes
  <2>2. \A j \in Ensemble : draws[j] \in [1..HorizonK -> PredictedStates]
    BY <2>1 DEF Trajectories
  <2>3. QED
    BY <2>2
<1>3. \A j \in Ensemble : MeanOf([m \in Ensemble |-> HeadScore(m, j, draws[j][k])]) \in 0..One
  <2>1. TAKE j \in Ensemble
  <2>2. PICK r : r = [m \in Ensemble |-> HeadScore(m, j, draws[j][k])]
    OBVIOUS
  <2>3. r \in [1..n -> 0..One]
    BY <1>1, <1>2, <2>2, HeadScoreBound
  <2>4. MeanOf(r) \in 0..One
    BY <2>3, MeanBound, OneIsWhole
  <2>5. QED
    BY <2>2, <2>4
<1>4. QED
  BY <1>1, <1>3 DEF ServedRisk

\* A state a member drew, for any step.
LEMMA StatesDrawn ==
    ASSUME ScoringTypes, draws # <<>>, NEW k \in 1..HorizonK, NEW j \in Ensemble
    PROVE  draws[j][k] \in PredictedStates
<1>1. draws \in [Ensemble -> Trajectories]
  BY DEF ScoringTypes
<1>2. draws[j] \in [1..HorizonK -> PredictedStates]
  BY <1>1 DEF Trajectories
<1>3. QED
  BY <1>2

\* Sixteen bits make a score of a score.
LEMMA RoundingBound ==
    ASSUME NEW x \in 0..One
    PROVE  /\ Float16[x] \in 0..One
           /\ Float16[x] <= x + RoundingError /\ x <= Float16[x] + RoundingError
           /\ x >= Half => Float16[x] >= Half
<1>1. /\ Float16 \in [0..One -> 0..One] /\ Float16[Half] = Half
      /\ Float16[x] - x \in -RoundingError..RoundingError /\ RoundingError \in Nat
  BY ScoringAssumption
<1>2. Half <= x => Float16[Half] <= Float16[x]
  BY ScoringAssumption, OneIsWhole
<1>3. PICK y \in 0..One : y = Float16[x]
  BY <1>1
<1>4. y - x \in -RoundingError..RoundingError
  BY <1>1, <1>3
<1>5. y <= x + RoundingError /\ x <= y + RoundingError
  BY <1>1, <1>4
<1>6. Half \in Nat
  BY OneIsWhole
<1>7. QED
  BY <1>1, <1>2, <1>3, <1>5, <1>6

\* Unless a trajectory head meets the states of another member, the
\* benchmark reads what serving does, and rounds it.
LEMMA SameRisk ==
    ASSUME ScoringTypes, draws # <<>>, ~checkpoint.trajectoryHead \/ checkpoint.members = 1,
           NEW k \in 1..HorizonK
    PROVE  MeasuredRisk(k) = [j \in Ensemble |-> Float16[ServedRisk(k)[j]]]
<1>1. CASE ~checkpoint.trajectoryHead
  BY <1>1 DEF MeasuredRisk
<1>2. CASE checkpoint.trajectoryHead
  <2>1. checkpoint.members = 1 /\ Ensemble = 1..1
    BY <1>2 DEF Ensemble
  <2>2. \A j \in Ensemble : HeadScore(j, j, draws[j][k])
                              = MeanOf([m \in Ensemble |-> HeadScore(m, j, draws[j][k])])
    <3>1. TAKE j \in Ensemble
    <3>2. j = 1
      BY <2>1
    <3>3. PICK r : r = [m \in Ensemble |-> HeadScore(m, j, draws[j][k])]
      OBVIOUS
    <3>4. draws[j][k] \in PredictedStates
      BY StatesDrawn
    <3>5. r \in [1..1 -> 0..One]
      BY <2>1, <3>3, <3>4, HeadScoreBound
    <3>6. MeanOf(r) = r[1]
      BY <3>5, MeanOfOne, OneIsWhole
    <3>7. r[1] = HeadScore(j, j, draws[j][k])
      BY <2>1, <3>2, <3>3
    <3>8. QED
      BY <3>3, <3>6, <3>7
  <2>3. MeasuredRisk(k) = [j \in Ensemble |-> Float16[HeadScore(j, j, draws[j][k])]]
    BY <1>2 DEF MeasuredRisk
  <2>4. \A j \in Ensemble : ServedRisk(k)[j] = HeadScore(j, j, draws[j][k])
    BY <2>2 DEF ServedRisk
  <2>5. QED
    BY <2>3, <2>4
<1>3. QED
  BY <1>1, <1>2 DEF ScoringTypes

\* Measured, a step has one score per member too.
LEMMA MeasuredAreScores ==
    ASSUME ScoringTypes, draws # <<>>, NEW k \in 1..HorizonK
    PROVE  MeasuredRisk(k) \in [1..checkpoint.members -> 0..One]
<1>1. Ensemble = 1..checkpoint.members
  BY DEF Ensemble
<1>2. \A j \in Ensemble : ServedRisk(k)[j] \in 0..One
  BY <1>1, RisksAreScores
<1>3. \A j \in Ensemble : HeadScore(j, j, draws[j][k]) \in 0..One
  BY StatesDrawn, HeadScoreBound
<1>4. \A j \in Ensemble : (IF checkpoint.trajectoryHead THEN HeadScore(j, j, draws[j][k])
                            ELSE ServedRisk(k)[j]) \in 0..One
  BY <1>2, <1>3
<1>5. \A j \in Ensemble : Float16[IF checkpoint.trajectoryHead THEN HeadScore(j, j, draws[j][k])
                                    ELSE ServedRisk(k)[j]] \in 0..One
  BY <1>4, RoundingBound
<1>6. QED
  BY <1>1, <1>5 DEF MeasuredRisk

\* On no trajectory are the two farther apart than the farthest.
LEMMA ApartBounds ==
    ASSUME ScoringTypes, draws # <<>>, NEW k \in 1..HorizonK
    PROVE  /\ Apart(k) \in Nat
           /\ \A j \in Ensemble : /\ ServedRisk(k)[j] <= MeasuredRisk(k)[j] + Apart(k)
                                  /\ MeasuredRisk(k)[j] <= ServedRisk(k)[j] + Apart(k)
           /\ \E j \in Ensemble : \/ Apart(k) = ServedRisk(k)[j] - MeasuredRisk(k)[j]
                                  \/ Apart(k) = MeasuredRisk(k)[j] - ServedRisk(k)[j]
<1>1. PICK S : S = ServedRisk(k)
  OBVIOUS
<1>2. PICK M : M = MeasuredRisk(k)
  OBVIOUS
<1>3. Ensemble = 1..checkpoint.members /\ checkpoint.members \in Nat \ {0}
  BY OneIsWhole DEF Ensemble, ScoringTypes
<1>4. \A j \in Ensemble : S[j] \in 0..One /\ M[j] \in 0..One
  BY <1>1, <1>2, <1>3, RisksAreScores, MeasuredAreScores
<1>5. PICK T : T = {Max({S[j] - M[j], M[j] - S[j]}) : j \in Ensemble}
  OBVIOUS
<1>6. \A j \in Ensemble : /\ Max({S[j] - M[j], M[j] - S[j]}) \in 0..One
                          /\ S[j] - M[j] <= Max({S[j] - M[j], M[j] - S[j]})
                          /\ M[j] - S[j] <= Max({S[j] - M[j], M[j] - S[j]})
                          /\ \/ Max({S[j] - M[j], M[j] - S[j]}) = S[j] - M[j]
                             \/ Max({S[j] - M[j], M[j] - S[j]}) = M[j] - S[j]
  <2>1. TAKE j \in Ensemble
  <2>2. PICK x, y \in 0..One : x = S[j] /\ y = M[j]
    BY <1>4
  <2>3. x - y \in Int /\ y - x \in Int
    OBVIOUS
  <2>4. Max({x - y, y - x}) = IF x - y >= y - x THEN x - y ELSE y - x
    BY <2>3, MaxOfTwo
  <2>5. QED
    BY <2>2, <2>4, OneIsWhole
<1>7. T \subseteq 0..One /\ T # {}
  <2>1. 1 \in Ensemble
    BY <1>3
  <2>2. QED
    BY <1>5, <1>6, <2>1
<1>8. Apart(k) = Max(T)
  BY <1>1, <1>2, <1>5 DEF Apart
<1>9. Max(T) \in T /\ \A v \in T : v <= Max(T)
  BY <1>7, MaxIsGreatest, OneIsWhole
<1>10. PICK a \in 0..One : a = Apart(k) /\ a \in T /\ \A v \in T : v <= a
  BY <1>7, <1>8, <1>9
<1>11. \A j \in Ensemble : S[j] <= M[j] + a /\ M[j] <= S[j] + a
  <2>1. TAKE j \in Ensemble
  <2>2. PICK x, y \in 0..One : x = S[j] /\ y = M[j]
    BY <1>4
  <2>3. PICK z \in 0..One : /\ z = Max({S[j] - M[j], M[j] - S[j]})
                            /\ S[j] - M[j] <= z /\ M[j] - S[j] <= z
    BY <1>6
  <2>4. z <= a
    BY <1>5, <1>10, <2>3
  <2>5. x - y <= z /\ y - x <= z
    BY <2>2, <2>3
  <2>6. x <= y + a /\ y <= x + a
    BY <2>4, <2>5
  <2>7. QED
    BY <2>2, <2>6
<1>12. PICK j \in Ensemble : a = S[j] - M[j] \/ a = M[j] - S[j]
  BY <1>5, <1>6, <1>10
<1>13. QED
  BY <1>1, <1>2, <1>10, <1>11, <1>12

\* Calibration leaves a score a score.
LEMMA PlattBound ==
    ASSUME NEW p \in 0..One, NEW params
    PROVE  Platt(params, p) \in 0..One
<1>1. PICK g \in Nat \ {0} : One = 16 * g
  BY ScoringAssumption DEF One
<1>2. PICK b \in Nat \ {0} : b = One
  BY <1>1
<1>3. PICK a \in Nat : a = p /\ a <= b
  BY <1>2
<1>4. PICK s \in Nat : s = a * a /\ s <= b * b
  <2>1. a * a \in Nat /\ a * a <= b * b
    BY <1>3, TimesMonotone
  <2>2. QED
    BY <2>1
<1>5. PICK q \in Nat : q = s \div b /\ b * q <= s
  <2>1. s \div b \in Nat /\ b * (s \div b) <= s
    OBVIOUS
  <2>2. QED
    BY <2>1
<1>6. q <= b
  <2>1. SUFFICES ASSUME q >= b + 1 PROVE FALSE
    OBVIOUS
  <2>2. b * q >= b * (b + 1)
    BY <2>1
  <2>3. b * (b + 1) = b * b + b
    OBVIOUS
  <2>4. QED
    BY <1>4, <1>5, <2>2, <2>3
<1>7. (p * p) \div One = q
  BY <1>2, <1>3, <1>4, <1>5
<1>8. QED
  BY <1>2, <1>5, <1>6, <1>7 DEF Platt

\* And keeps the order of any two.
LEMMA PlattMonotone ==
    ASSUME NEW p \in 0..One, NEW q \in 0..One, p <= q, NEW params
    PROVE  Platt(params, p) <= Platt(params, q)
<1>1. PICK b \in Nat \ {0} : b = One
  BY OneIsWhole
<1>2. PICK x, y \in Nat : x = p * p /\ y = q * q /\ x <= y
  <2>1. p \in Nat /\ q \in Nat
    BY <1>1
  <2>2. p * p \in Nat /\ p * p <= q * q
    BY <2>1, TimesMonotone
  <2>3. q * q \in Nat
    BY <2>1
  <2>4. QED
    BY <2>2, <2>3
<1>3. x \div b <= y \div b
  BY <1>2, QuotientMonotone
<1>4. QED
  BY <1>1, <1>2, <1>3 DEF Platt

\* So a higher curve is calibrated to a higher one, and has a higher score.
LEMMA ScoreMonotone ==
    ASSUME NEW less \in [1..HorizonK -> 0..One], NEW more \in [1..HorizonK -> 0..One],
           \A k \in 1..HorizonK : less[k] <= more[k], NEW params, NEW reduction \in Reductions
    PROVE  /\ OverHorizon(Calibrated(less, params), reduction) \in Int
           /\ OverHorizon(Calibrated(more, params), reduction) \in Int
           /\ OverHorizon(Calibrated(less, params), reduction)
                <= OverHorizon(Calibrated(more, params), reduction)
<1>1. \A k \in 1..HorizonK : /\ Platt(params[k], less[k]) \in 0..One
                             /\ Platt(params[k], more[k]) \in 0..One
                             /\ Platt(params[k], less[k]) <= Platt(params[k], more[k])
  BY PlattBound, PlattMonotone
<1>2. /\ Calibrated(less, params) \in [1..HorizonK -> 0..One]
      /\ Calibrated(more, params) \in [1..HorizonK -> 0..One]
      /\ \A k \in 1..HorizonK : Calibrated(less, params)[k] <= Calibrated(more, params)[k]
  BY <1>1 DEF Calibrated
<1>3. One \in Nat /\ HorizonK \in Nat \ {0}
  BY OneIsWhole
<1>4. PICK p : p = Calibrated(less, params)
  OBVIOUS
<1>5. PICK q : q = Calibrated(more, params)
  OBVIOUS
<1>6. /\ p \in [1..HorizonK -> 0..One] /\ q \in [1..HorizonK -> 0..One]
      /\ \A k \in 1..HorizonK : p[k] <= q[k]
  BY <1>2, <1>4, <1>5, Zenon
<1>7. /\ OverHorizon(p, reduction) \in Int /\ OverHorizon(q, reduction) \in Int
      /\ OverHorizon(p, reduction) <= OverHorizon(q, reduction)
  BY <1>3, <1>6, HorizonMonotone
<1>8. QED
  BY <1>4, <1>5, <1>7, Zenon

\* The curves of one origin: what serving and the benchmark answer with.
ServedCurve == [k \in 1..HorizonK |-> ServedPool(k, checkpoint.op.pooling.method)]
MeasuredCurve ==
    [k \in 1..HorizonK |-> pool_trajectories(MeasuredRisk(k), checkpoint.op.pooling.method)]
Line == checkpoint.op.threshold * Unit(HorizonK - 1)

LEMMA PointOfOperation ==
    ASSUME ScoringTypes
    PROVE  /\ checkpoint.op.pooling.method \in Methods
           /\ checkpoint.op.pooling.reduction \in Reductions
           /\ checkpoint.op.threshold \in 0..One
           /\ Line \in Int
           /\ Len(checkpoint.op.params) = HorizonK =>
                 Extended(checkpoint.op.params) = checkpoint.op.params
<1>1. PICK op : op = checkpoint.op
  OBVIOUS
<1>2. op \in OperatingPoints
  BY <1>1 DEF ScoringTypes
<1>3. op.pooling \in PoolingCandidates /\ op.threshold \in {Half \div 2, Half, One}
  BY <1>2 DEF OperatingPoints
<1>4. op.params \in UNION {[1..n -> {"degenerate", "fitted"}] : n \in 1..HorizonK}
  BY <1>2 DEF OperatingPoints
<1>5. op.pooling.method \in Methods /\ op.pooling.reduction \in Reductions
  BY <1>3 DEF PoolingCandidates, Methods, Reductions
<1>6. op.threshold \in 0..One
  BY <1>3, OneIsWhole
<1>7. Line \in Int
  <2>1. PICK a, u \in Nat : a = op.threshold /\ u = Unit(HorizonK - 1)
    <3>1. HorizonK - 1 \in 0..HorizonK
      BY OneIsWhole
    <3>2. Unit(HorizonK - 1) \in Nat
      BY <3>1, Units, OneIsWhole
    <3>3. QED
      BY <1>6, <3>2, OneIsWhole
  <2>2. a * u \in Int
    OBVIOUS
  <2>3. QED
    BY <1>1, <2>1, <2>2 DEF Line
<1>8. ASSUME Len(op.params) = HorizonK PROVE Extended(op.params) = op.params
  <2>1. PICK n \in 1..HorizonK : op.params \in [1..n -> {"degenerate", "fitted"}]
    BY <1>4
  <2>2. Len(op.params) = n
    BY <2>1, OneIsWhole
  <2>3. op.params \in [1..HorizonK -> {"degenerate", "fitted"}]
    BY <1>8, <2>1, <2>2
  <2>4. QED
    BY <1>8, <2>3 DEF Extended
<1>9. QED
  BY <1>1, <1>5, <1>6, <1>7, <1>8

LEMMA CurvesAreScores ==
    ASSUME ScoringTypes, draws # <<>>
    PROVE  ServedCurve \in [1..HorizonK -> 0..One] /\ MeasuredCurve \in [1..HorizonK -> 0..One]
<1>1. PICK n \in Nat \ {0} : n = checkpoint.members
  BY OneIsWhole DEF ScoringTypes
<1>2. PICK method \in Methods : method = checkpoint.op.pooling.method
  BY PointOfOperation
<1>3. \A k \in 1..HorizonK : pool_trajectories(ServedRisk(k), method) \in 0..One
  <2>1. TAKE k \in 1..HorizonK
  <2>2. PICK r : r = ServedRisk(k)
    OBVIOUS
  <2>3. r \in [1..n -> 0..One]
    BY <1>1, <2>2, RisksAreScores
  <2>4. pool_trajectories(r, method) \in 0..One
    BY <2>3, PoolBound, OneIsWhole
  <2>5. QED
    BY <2>2, <2>4
<1>4. \A k \in 1..HorizonK : pool_trajectories(MeasuredRisk(k), method) \in 0..One
  <2>1. TAKE k \in 1..HorizonK
  <2>2. PICK r : r = MeasuredRisk(k)
    OBVIOUS
  <2>3. r \in [1..n -> 0..One]
    BY <1>1, <2>2, MeasuredAreScores
  <2>4. pool_trajectories(r, method) \in 0..One
    BY <2>3, PoolBound, OneIsWhole
  <2>5. QED
    BY <2>2, <2>4
<1>5. QED
  BY <1>2, <1>3, <1>4 DEF ServedCurve, MeasuredCurve, ServedPool

\* What both make of their curves.
LEMMA ScoresOfCurves ==
    ASSUME ScoringTypes, Served(checkpoint.op) # <<>>
    PROVE  LET served == Served(checkpoint.op)[1]
               measured == Measured(checkpoint.op)
           IN  /\ served.raw = ServedCurve /\ measured.raw = MeasuredCurve
               /\ served.p = Calibrated(ServedCurve, checkpoint.op.params)
               /\ measured.p = Calibrated(MeasuredCurve, checkpoint.op.params)
               /\ served.score = CurveScore(ServedCurve) /\ measured.score = CurveScore(MeasuredCurve)
               /\ served.above = (CurveScore(ServedCurve) >= Line)
               /\ measured.above = (CurveScore(MeasuredCurve) >= Line)
               /\ served.lead = LeadTime(served.p, checkpoint.op.threshold)
<1>1. PICK op : op = checkpoint.op
  OBVIOUS
<1>2. PICK curve : curve = ServedCurve
  OBVIOUS
<1>3. PICK p : p = Calibrated(curve, op.params)
  OBVIOUS
<1>4. PICK score : score = OverHorizon(p, op.pooling.reduction)
  OBVIOUS
<1>5. Len(op.params) = HorizonK
  BY <1>1 DEF Served
<1>6. PICK served : served = [p |-> p, raw |-> curve, score |-> score,
                              above |-> score >= op.threshold * Unit(HorizonK - 1),
                              lead |-> LeadTime(p, op.threshold)]
  OBVIOUS
<1>7. [k \in 1..HorizonK |-> ServedPool(k, op.pooling.method)] = curve
  BY <1>1, <1>2 DEF ServedCurve
<1>8. Served(op) = <<served>>
  BY <1>3, <1>4, <1>5, <1>6, <1>7, Zenon DEF Served
<1>9. Served(op)[1] = served
  BY <1>8
<1>10. PICK other : other = MeasuredCurve
  OBVIOUS
<1>11. PICK q : q = Calibrated(other, op.params)
  OBVIOUS
<1>12. PICK worth : worth = OverHorizon(q, op.pooling.reduction)
  OBVIOUS
<1>13. Extended(op.params) = op.params
  BY <1>1, <1>5, PointOfOperation
<1>14. [k \in 1..HorizonK |-> pool_trajectories(MeasuredRisk(k), op.pooling.method)] = other
  BY <1>1, <1>10 DEF MeasuredCurve
<1>15. Measured(op) = [p |-> q, raw |-> other, score |-> worth,
                       above |-> worth >= op.threshold * Unit(HorizonK - 1)]
  BY <1>11, <1>12, <1>13, <1>14, Zenon DEF Measured
<1>16. score = CurveScore(curve) /\ worth = CurveScore(other)
  BY <1>1, <1>3, <1>4, <1>11, <1>12 DEF CurveScore
<1>17. Line = op.threshold * Unit(HorizonK - 1)
  BY <1>1 DEF Line
<1>18. /\ served.raw = curve /\ served.p = p /\ served.score = score
       /\ served.above = (score >= Line) /\ served.lead = LeadTime(p, op.threshold)
  BY <1>6, <1>17
<1>19. /\ Measured(op).raw = other /\ Measured(op).p = q /\ Measured(op).score = worth
       /\ Measured(op).above = (worth >= Line)
  BY <1>15, <1>17
<1>20. QED
  BY <1>1, <1>2, <1>3, <1>9, <1>10, <1>11, <1>16, <1>18, <1>19, Zenon

\* No horizon of the one curve is farther from the other than its trajectories.
LEMMA CurvesAreNear ==
    ASSUME ScoringTypes, draws # <<>>, checkpoint.op.pooling.method # "p_above_half",
           NEW k \in 1..HorizonK
    PROVE  /\ Apart(k) \in Nat
           /\ MeasuredCurve[k] <= ServedCurve[k] + Apart(k)
           /\ ServedCurve[k] <= MeasuredCurve[k] + Apart(k)
<1>1. PICK n \in Nat \ {0} : n = checkpoint.members /\ Ensemble = 1..n
  BY OneIsWhole DEF ScoringTypes, Ensemble
<1>2. PICK method \in Methods \ {"p_above_half"} : method = checkpoint.op.pooling.method
  BY PointOfOperation
<1>3. PICK S : S = ServedRisk(k)
  OBVIOUS
<1>4. PICK M : M = MeasuredRisk(k)
  OBVIOUS
<1>5. S \in [1..n -> 0..One] /\ M \in [1..n -> 0..One]
  BY <1>1, <1>3, <1>4, RisksAreScores, MeasuredAreScores
<1>6. PICK d \in Nat : d = Apart(k) /\ \A j \in 1..n : S[j] <= M[j] + d /\ M[j] <= S[j] + d
  BY <1>1, <1>3, <1>4, ApartBounds
<1>7. pool_trajectories(S, method) <= pool_trajectories(M, method) + d
  BY <1>5, <1>6, PoolNear, OneIsWhole
<1>8. pool_trajectories(M, method) <= pool_trajectories(S, method) + d
  BY <1>5, <1>6, PoolNear, OneIsWhole
<1>9. ServedCurve[k] = pool_trajectories(S, method)
  BY <1>2, <1>3 DEF ServedCurve, ServedPool
<1>10. MeasuredCurve[k] = pool_trajectories(M, method)
  BY <1>2, <1>4 DEF MeasuredCurve
<1>11. QED
  BY <1>6, <1>7, <1>8, <1>9, <1>10

\* Where the two are together on every trajectory, so are the curves.
LEMMA CurvesAreSame ==
    ASSUME ScoringTypes, draws # <<>>, \A k \in 1..HorizonK : Apart(k) = 0
    PROVE  MeasuredCurve = ServedCurve
<1>1. \A k \in 1..HorizonK : MeasuredRisk(k) = ServedRisk(k)
  <2>1. TAKE k \in 1..HorizonK
  <2>2. PICK S : S = ServedRisk(k)
    OBVIOUS
  <2>3. PICK M : M = MeasuredRisk(k)
    OBVIOUS
  <2>4. PICK n : n = checkpoint.members /\ Ensemble = 1..n
    BY DEF Ensemble
  <2>5. S \in [1..n -> 0..One] /\ M \in [1..n -> 0..One]
    BY <2>2, <2>3, <2>4, RisksAreScores, MeasuredAreScores
  <2>6. \A j \in 1..n : S[j] <= M[j] + 0 /\ M[j] <= S[j] + 0
    BY <2>2, <2>3, <2>4, ApartBounds
  <2>7. \A j \in 1..n : S[j] = M[j]
    <3>1. TAKE j \in 1..n
    <3>2. PICK x, y \in 0..One : x = S[j] /\ y = M[j]
      BY <2>5
    <3>3. x <= y + 0 /\ y <= x + 0
      BY <2>6, <3>2
    <3>4. x = y
      BY <3>3, OneIsWhole
    <3>5. QED
      BY <3>2, <3>4
  <2>8. S = M
    <3>1. S = [j \in 1..n |-> S[j]] /\ M = [j \in 1..n |-> M[j]]
      BY <2>5
    <3>2. [j \in 1..n |-> S[j]] = [j \in 1..n |-> M[j]]
      BY <2>7, Zenon
    <3>3. QED
      BY <3>1, <3>2, Zenon
  <2>9. QED
    BY <2>2, <2>3, <2>8
<1>2. QED
  BY <1>1 DEF MeasuredCurve, ServedCurve, ServedPool

OwnHeadsOnly == ~checkpoint.trajectoryHead \/ checkpoint.members = 1

\* The rounding is all that is between them where no head crosses over.
LEMMA ApartByRounding ==
    ASSUME ScoringTypes, draws # <<>>, OwnHeadsOnly, NEW k \in 1..HorizonK
    PROVE  Apart(k) <= RoundingError
<1>1. PICK j \in Ensemble : \/ Apart(k) = ServedRisk(k)[j] - MeasuredRisk(k)[j]
                            \/ Apart(k) = MeasuredRisk(k)[j] - ServedRisk(k)[j]
  BY ApartBounds
<1>2. PICK x \in 0..One : x = ServedRisk(k)[j]
  BY RisksAreScores DEF Ensemble
<1>3. MeasuredRisk(k)[j] = Float16[x]
  BY <1>2, SameRisk DEF OwnHeadsOnly
<1>4. PICK y \in 0..One : y = Float16[x] /\ y <= x + RoundingError /\ x <= y + RoundingError
  BY RoundingBound
<1>5. RoundingError \in Nat
  BY ScoringAssumption
<1>6. Apart(k) = x - y \/ Apart(k) = y - x
  BY <1>1, <1>2, <1>3, <1>4
<1>7. QED
  BY <1>4, <1>5, <1>6, OneIsWhole

\* And counting trajectories above a half, it only ever adds some.
LEMMA CurvesByCount ==
    ASSUME ScoringTypes, draws # <<>>, OwnHeadsOnly,
           checkpoint.op.pooling.method = "p_above_half", NEW k \in 1..HorizonK
    PROVE  ServedCurve[k] <= MeasuredCurve[k]
<1>1. PICK n \in Nat \ {0} : n = checkpoint.members /\ Ensemble = 1..n
  BY OneIsWhole DEF ScoringTypes, Ensemble
<1>2. PICK S : S = ServedRisk(k)
  OBVIOUS
<1>3. PICK M : M = MeasuredRisk(k)
  OBVIOUS
<1>4. S \in [1..n -> 0..One] /\ M \in [1..n -> 0..One]
  BY <1>1, <1>2, <1>3, RisksAreScores, MeasuredAreScores
<1>5. \A j \in 1..n : S[j] >= Half => M[j] >= Half
  <2>1. TAKE j \in 1..n
  <2>2. PICK x \in 0..One : x = S[j]
    BY <1>4
  <2>3. M[j] = Float16[x]
    BY <1>1, <1>2, <1>3, <2>2, SameRisk DEF OwnHeadsOnly
  <2>4. x >= Half => Float16[x] >= Half
    BY RoundingBound
  <2>5. QED
    BY <2>2, <2>3, <2>4
<1>6. pool_trajectories(S, "p_above_half") <= pool_trajectories(M, "p_above_half")
  BY <1>4, <1>5, CountMonotone, OneIsWhole
<1>7. QED
  BY <1>2, <1>3, <1>6 DEF ServedCurve, ServedPool, MeasuredCurve

\* Serving gives one answer, or refuses.
LEMMA ServedOnce ==
    ASSUME Served(checkpoint.op) # <<>>
    PROVE  Served(checkpoint.op) = <<Served(checkpoint.op)[1]>>
<1>1. \E answer : Served(checkpoint.op) = <<answer>>
  BY DEF Served
<1>2. QED
  BY <1>1

\* What has been scored is what the two make of the draws.
ScoredHonestly ==
    scored # <<>> =>
        /\ draws # <<>>
        /\ scored = <<[measured |-> Measured(checkpoint.op), served |-> Served(checkpoint.op)]>>

ScoringInv == ScoringTypes /\ ScoredHonestly

LEMMA HonestIsMeasured == ScoringInv => ServedIsMeasured
<1>1. SUFFICES ASSUME ScoringTypes, ScoredHonestly, scored # <<>>,
                      Served(checkpoint.op) # <<>>
               PROVE  ServedIsMeasured
  <2>1. scored = <<>> => ServedIsMeasured
    BY DEF ServedIsMeasured
  <2>2. ASSUME scored = <<[measured |-> Measured(checkpoint.op), served |-> Served(checkpoint.op)]>>,
               Served(checkpoint.op) = <<>>
        PROVE  ServedIsMeasured
    <3>1. \A i \in DOMAIN scored : scored[i].served = <<>>
      BY <2>2
    <3>2. QED
      BY <3>1 DEF ServedIsMeasured
  <2>3. QED
    BY <2>1, <2>2 DEF ScoringInv, ScoredHonestly
<1>2. draws # <<>>
  BY <1>1 DEF ScoredHonestly
<1>3. PICK S : S = ServedCurve
  OBVIOUS
<1>4. PICK M : M = MeasuredCurve
  OBVIOUS
<1>5. S \in [1..HorizonK -> 0..One] /\ M \in [1..HorizonK -> 0..One]
  BY <1>1, <1>2, <1>3, <1>4, CurvesAreScores
<1>6. PICK served : served = Served(checkpoint.op)[1]
  OBVIOUS
<1>7. PICK measured : measured = Measured(checkpoint.op)
  OBVIOUS
<1>8. /\ served.raw = S /\ measured.raw = M
      /\ served.p = Calibrated(S, checkpoint.op.params)
      /\ measured.p = Calibrated(M, checkpoint.op.params)
      /\ served.score = CurveScore(S) /\ measured.score = CurveScore(M)
      /\ served.above = (CurveScore(S) >= Line) /\ measured.above = (CurveScore(M) >= Line)
      /\ served.lead = LeadTime(served.p, checkpoint.op.threshold)
  BY <1>1, <1>3, <1>4, <1>6, <1>7, ScoresOfCurves, Zenon
<1>9. \A less, more \in [1..HorizonK -> 0..One] :
         (\A k \in 1..HorizonK : less[k] <= more[k]) =>
            CurveScore(less) \in Int /\ CurveScore(more) \in Int /\ CurveScore(less) <= CurveScore(more)
  <2>1. TAKE less, more \in [1..HorizonK -> 0..One]
  <2>2. HAVE \A k \in 1..HorizonK : less[k] <= more[k]
  <2>3. checkpoint.op.pooling.reduction \in Reductions
    BY <1>1, PointOfOperation
  <2>4. QED
    BY <2>2, <2>3, ScoreMonotone DEF CurveScore
<1>10. CurveScore(S) \in Int /\ CurveScore(M) \in Int /\ Line \in Int
  <2>1. \A k \in 1..HorizonK : S[k] <= S[k] /\ M[k] <= M[k]
    BY <1>5, OneIsWhole
  <2>2. QED
    BY <1>1, <1>5, <1>9, <2>1, PointOfOperation
<1>11. ASSUME \A k \in 1..HorizonK : Apart(k) = 0
       PROVE  /\ served.p = measured.p /\ served.raw = measured.raw
              /\ served.score = measured.score /\ served.above = measured.above
  <2>1. S = M
    BY <1>1, <1>2, <1>3, <1>4, <1>11, CurvesAreSame
  <2>2. QED
    BY <1>8, <2>1, Zenon
<1>12. OwnHeadsOnly => \A k \in 1..HorizonK : Apart(k) <= RoundingError
  BY <1>1, <1>2, ApartByRounding
<1>13. PICK least : least = [k \in 1..HorizonK |-> Max({0, served.raw[k] - Apart(k)})]
  OBVIOUS
<1>14. PICK most : most = [k \in 1..HorizonK |-> Min({One, served.raw[k] + Apart(k)})]
  OBVIOUS
<1>15. ASSUME checkpoint.op.pooling.method # "p_above_half"
       PROVE  /\ \A k \in 1..HorizonK : measured.raw[k] \in least[k]..most[k]
              /\ measured.score \in CurveScore(least)..CurveScore(most)
              /\ served.above # measured.above => Line \in CurveScore(least) + 1..CurveScore(most)
  <2>1. \A k \in 1..HorizonK : /\ least[k] \in 0..One /\ most[k] \in 0..One
                               /\ least[k] <= M[k] /\ M[k] <= most[k]
                               /\ least[k] <= S[k] /\ S[k] <= most[k]
    <3>1. TAKE k \in 1..HorizonK
    <3>2. PICK d \in Nat : d = Apart(k) /\ M[k] <= S[k] + d /\ S[k] <= M[k] + d
      BY <1>1, <1>2, <1>3, <1>4, <1>15, CurvesAreNear
    <3>3. PICK x, y \in 0..One : x = S[k] /\ y = M[k] /\ y <= x + d /\ x <= y + d
      BY <1>5, <3>2
    <3>4. least[k] = Max({0, x - d}) /\ most[k] = Min({One, x + d})
      BY <1>8, <1>13, <1>14, <3>2, <3>3
    <3>5. Max({0, x - d}) = IF 0 >= x - d THEN 0 ELSE x - d
      <4>1. 0 \in Int /\ x - d \in Int
        BY OneIsWhole
      <4>2. QED
        BY <4>1, MaxOfTwo
    <3>6. Min({One, x + d}) \in {One, x + d} /\ Min({One, x + d}) <= One /\ Min({One, x + d}) <= x + d
      <4>1. {One, x + d} \subseteq Nat /\ {One, x + d} # {}
        BY OneIsWhole
      <4>2. QED
        BY <4>1, MinIsLeast
    <3>7. QED
      BY <3>3, <3>4, <3>5, <3>6, OneIsWhole
  <2>2. \A k \in 1..HorizonK : least[k] \in Int /\ most[k] \in Int /\ M[k] \in Int
    BY <1>5, <2>1, OneIsWhole
  <2>3. \A k \in 1..HorizonK : measured.raw[k] \in least[k]..most[k]
    BY <1>8, <2>1, <2>2
  <2>4. least \in [1..HorizonK -> 0..One] /\ most \in [1..HorizonK -> 0..One]
    BY <1>13, <1>14, <2>1
  <2>5. /\ CurveScore(least) \in Int /\ CurveScore(most) \in Int
        /\ CurveScore(least) <= CurveScore(M) /\ CurveScore(M) <= CurveScore(most)
        /\ CurveScore(least) <= CurveScore(S) /\ CurveScore(S) <= CurveScore(most)
    BY <1>5, <1>9, <2>1, <2>4
  <2>6. PICK low, high, s, m \in Int : /\ low = CurveScore(least) /\ high = CurveScore(most)
                                       /\ s = CurveScore(S) /\ m = CurveScore(M)
                                       /\ low <= m /\ m <= high /\ low <= s /\ s <= high
    BY <1>10, <2>5
  <2>7. m \in low..high
    BY <2>6
  <2>8. ASSUME served.above # measured.above PROVE Line \in low + 1..high
    <3>1. (s >= Line) # (m >= Line)
      BY <1>8, <2>6, <2>8, Zenon
    <3>2. PICK line \in Int : line = Line
      BY <1>10
    <3>3. (s >= line) # (m >= line)
      BY <3>1, <3>2, Zenon
    <3>4. (s >= line /\ m < line) \/ (s < line /\ m >= line)
      BY <3>3
    <3>5. line \in low + 1..high
      BY <2>6, <3>4
    <3>6. QED
      BY <3>2, <3>5
  <2>9. QED
    BY <1>8, <2>3, <2>6, <2>7, <2>8, Zenon
<1>16. ASSUME OwnHeadsOnly, checkpoint.op.pooling.method = "p_above_half"
       PROVE  measured.score >= served.score
  <2>1. \A k \in 1..HorizonK : S[k] <= M[k]
    BY <1>1, <1>2, <1>3, <1>4, <1>16, CurvesByCount
  <2>2. QED
    BY <1>5, <1>8, <1>9, <2>1
<1>17. ASSUME served.lead > 0 PROVE served.above
  <2>1. PICK p : p = Calibrated(S, checkpoint.op.params)
    OBVIOUS
  <2>2. \A k \in 1..HorizonK : Platt(checkpoint.op.params[k], S[k]) \in 0..One
    BY <1>5, PlattBound
  <2>3. p \in [1..HorizonK -> 0..One]
    BY <2>1, <2>2 DEF Calibrated
  <2>4. LeadTime(p, checkpoint.op.threshold) > 0
    BY <1>8, <1>17, <2>1
  <2>5. /\ checkpoint.op.threshold \in 0..One
        /\ checkpoint.op.pooling.reduction \in {"max", "integrated"}
    BY <1>1, PointOfOperation DEF Reductions
  <2>6. OverHorizon(p, checkpoint.op.pooling.reduction)
          >= checkpoint.op.threshold * Unit(HorizonK - 1)
    BY <2>3, <2>4, <2>5, LeadIsAbove, OneIsWhole
  <2>7. CurveScore(S) >= Line
    BY <2>1, <2>6 DEF CurveScore, Line
  <2>8. QED
    BY <1>8, <2>7
<1>18. DOMAIN scored = {1} /\ scored[1].served = <<served>> /\ scored[1].measured = measured
  <2>1. scored = <<[measured |-> Measured(checkpoint.op), served |-> Served(checkpoint.op)]>>
    BY <1>1 DEF ScoredHonestly
  <2>2. Served(checkpoint.op) = <<Served(checkpoint.op)[1]>>
    BY <1>1, ServedOnce
  <2>3. QED
    BY <1>6, <1>7, <2>1, <2>2
<1>19. scored[1].served[1] = served
  BY <1>18
<1>20. QED
  BY <1>11, <1>12, <1>13, <1>14, <1>15, <1>16, <1>17, <1>18, <1>19
     DEF ServedIsMeasured, OwnHeadsOnly, Line

\* Neither changes while the checkpoint and the draws do not.
LEMMA ScoresStay ==
    ASSUME checkpoint' = checkpoint, draws' = draws
    PROVE  Measured(checkpoint.op)' = Measured(checkpoint.op) /\ Served(checkpoint.op)' = Served(checkpoint.op)
<1>1. \A k : ServedRisk(k)' = ServedRisk(k)
  BY DEF ServedRisk, HeadScore, Ensemble
<1>2. \A k : MeasuredRisk(k)' = MeasuredRisk(k)
  BY <1>1 DEF MeasuredRisk, HeadScore, Ensemble
<1>3. Measured(checkpoint.op)' = Measured(checkpoint.op)
  BY <1>2 DEF Measured
<1>4. Served(checkpoint.op)' = Served(checkpoint.op)
  BY <1>1 DEF Served, ServedPool
<1>5. QED
  BY <1>3, <1>4

\* Where sixteen bits keep what the heads answer, serving scores what the
\* benchmark measured under the same operating point (predictor.py:170);
\* elsewhere its curve is as far as the answers are, and its verdict another
\* only if the threshold is in between; and its lead time is of a forecast
\* above the threshold: for any ensemble, horizon, heads and draws.
THEOREM ScoringInvariant == ScoringSpec => [](ScoringTypes /\ ServedIsMeasured)
<1>1. ScoringInit => ScoringInv
  <2>1. SUFFICES ASSUME ScoringInit PROVE ScoringInv
    OBVIOUS
  <2>2. PICK n \in 1..MaxEnsemble :
           checkpoint \in [members : {n}, trajectoryHead : BOOLEAN, op : OperatingPoints,
                           heads : [1..n -> [PredictedStates -> HeadScores]]]
    BY <2>1 DEF ScoringInit
  <2>3. draws = <<>> /\ scored = <<>>
    BY <2>1 DEF ScoringInit
  <2>4. ScoringTypes
    BY <2>2, <2>3 DEF ScoringTypes
  <2>5. ScoredHonestly
    BY <2>3 DEF ScoredHonestly
  <2>6. QED
    BY <2>4, <2>5 DEF ScoringInv
<1>2. ASSUME ScoringTypes, ScoredHonestly, [ScoringNext]_scoringVars
      PROVE  ScoringTypes' /\ ScoredHonestly'
  <2>1. CASE Roll
    <3>1. /\ draws = <<>> /\ draws' \in [Ensemble -> Trajectories]
          /\ checkpoint' = checkpoint /\ scored' = scored
      BY <2>1 DEF Roll
    <3>2. ScoringTypes'
      BY <1>2, <3>1 DEF ScoringTypes, Ensemble
    <3>3. ScoredHonestly'
      BY <1>2, <3>1 DEF ScoredHonestly
    <3>4. QED
      BY <3>2, <3>3
  <2>2. CASE ScoreBoth
    <3>1. /\ draws # <<>> /\ checkpoint' = checkpoint /\ draws' = draws
          /\ scored' = <<[measured |-> Measured(checkpoint.op), served |-> Served(checkpoint.op)]>>
      BY <2>2 DEF ScoreBoth
    <3>2. ScoringTypes'
      BY <1>2, <3>1 DEF ScoringTypes, Ensemble
    <3>3. ScoredHonestly'
      BY <3>1, ScoresStay DEF ScoredHonestly
    <3>4. QED
      BY <3>2, <3>3
  <2>3. CASE UNCHANGED scoringVars
    <3>1. checkpoint' = checkpoint /\ draws' = draws /\ scored' = scored
      BY <2>3 DEF scoringVars
    <3>2. ScoringTypes'
      BY <1>2, <3>1 DEF ScoringTypes, Ensemble
    <3>3. ScoredHonestly'
      BY <1>2, <3>1, ScoresStay DEF ScoredHonestly
    <3>4. QED
      BY <3>2, <3>3
  <2>4. QED
    BY <1>2, <2>1, <2>2, <2>3 DEF ScoringNext
<1>3. QED
  BY <1>1, <1>2, HonestIsMeasured, PTL DEF ScoringSpec, ScoringInv

-----------------------------------------------------------------------------
(***************************************************************************)
(* Rollouts.  A row is a sequence of anything of a given length.           *)
(***************************************************************************)
IsRow(s, n) == s = [i \in 1..n |-> s[i]]

\* A row is a sequence.
LEMMA RowIsSequence ==
    ASSUME NEW n \in Nat, NEW s, IsRow(s, n)
    PROVE  \E S : s \in [1..n -> S] /\ s \in Seq(S) /\ Len(s) = n
<1>1. PICK S : S = {s[i] : i \in 1..n}
  OBVIOUS
<1>2. s \in [1..n -> S]
  BY <1>1 DEF IsRow
<1>3. s \in Seq(S) /\ Len(s) = n
  BY <1>2
<1>4. QED
  BY <1>2, <1>3

\* What append makes of a row.
LEMMA AppendRow ==
    ASSUME NEW n \in Nat, NEW s, IsRow(s, n), NEW v
    PROVE  Append(s, v) = [i \in 1..n + 1 |-> IF i = n + 1 THEN v ELSE s[i]]
<1>1. PICK S : s \in [1..n -> S] /\ s \in Seq(S) /\ Len(s) = n
  BY RowIsSequence
<1>2. PICK U : U = S \union {v}
  OBVIOUS
<1>3. s \in Seq(U) /\ v \in U
  BY <1>1, <1>2
<1>4. Append(s, v) \in Seq(U) /\ Len(Append(s, v)) = n + 1
  BY <1>1, <1>3
<1>5. \A i \in 1..n + 1 : Append(s, v)[i] = IF i = n + 1 THEN v ELSE s[i]
  BY <1>1, <1>3
<1>6. Append(s, v) = [i \in 1..n + 1 |-> Append(s, v)[i]]
  <2>1. Append(s, v) \in [1..n + 1 -> U]
    BY <1>4, LenProperties
  <2>2. QED
    BY <2>1
<1>7. [i \in 1..n + 1 |-> Append(s, v)[i]] = [i \in 1..n + 1 |-> IF i = n + 1 THEN v ELSE s[i]]
  BY <1>5, Zenon
<1>8. QED
  BY <1>6, <1>7, Zenon

\* What concatenation makes of two.
Joined(s, u, n, m) == s \o u = [i \in 1..n + m |-> IF i <= n THEN s[i] ELSE u[i - n]]

\* Two rows joined are a row.
LEMMA ConcatRow ==
    ASSUME NEW n \in Nat, NEW m \in Nat, NEW s, NEW u, IsRow(s, n), IsRow(u, m)
    PROVE  Joined(s, u, n, m)
<1>1. PICK S : s \in [1..n -> S] /\ s \in Seq(S) /\ Len(s) = n
  BY RowIsSequence
<1>2. PICK U : u \in [1..m -> U] /\ u \in Seq(U) /\ Len(u) = m
  BY RowIsSequence
<1>3. PICK W : W = S \union U
  OBVIOUS
<1>4. s \in Seq(W) /\ u \in Seq(W)
  BY <1>1, <1>2, <1>3
<1>5. s \o u \in Seq(W) /\ Len(s \o u) = n + m
  BY <1>1, <1>2, <1>4
<1>6. \A i \in 1..n + m : (s \o u)[i] = IF i <= n THEN s[i] ELSE u[i - n]
  BY <1>1, <1>2, <1>4
<1>7. s \o u = [i \in 1..n + m |-> (s \o u)[i]]
  <2>1. s \o u \in [1..n + m -> W]
    BY <1>5, LenProperties
  <2>2. QED
    BY <2>1
<1>8. [i \in 1..n + m |-> (s \o u)[i]] = [i \in 1..n + m |-> IF i <= n THEN s[i] ELSE u[i - n]]
  BY <1>6, Zenon
<1>9. QED
  BY <1>7, <1>8, Zenon DEF Joined

\* A part of a row.
LEMMA PartOfRow ==
    ASSUME NEW n \in Nat, NEW s, IsRow(s, n), NEW a \in 1..n, NEW b \in a..n
    PROVE  SubSeq(s, a, b) = [i \in 1..b - a + 1 |-> s[a + i - 1]]
<1>1. PICK S : s \in [1..n -> S] /\ s \in Seq(S) /\ Len(s) = n
  BY RowIsSequence
<1>2. QED
  BY <1>1, SubSeqProperties

-----------------------------------------------------------------------------
TrajectoryFields ==
    {"x", "future", "h", "cur", "prev", "member", "heads", "states", "mus", "logvars", "hiddens"}
IsTrajectory(t) == DOMAIN t = TrajectoryFields

\* The windows of a trajectory one after the other, observed and simulated.
Seen(t, i) == IF i <= ContextWindows THEN t.x[i] ELSE t.states[i - ContextWindows]
SeenUpTo(t, n) == [i \in 1..n |-> Seen(t, i)]

\* Whichever member's transition it is.
Condition(t, n, mask) ==
    [of |-> <<SeenUpTo(t, n), Seen(t, n), Seen(t, n - 1)>>,
     dropped |-> IF mask THEN "floor" ELSE "untrained"]

StepSound(t, k, from, mask) ==
    /\ t.hiddens[k] = SeenUpTo(t, ContextWindows + k)
    /\ from # "free running" => t.logvars[k] = Condition(t, ContextWindows + k - 1, mask)
    /\ mask /\ from # "free running" => t.states[k].dropped = 0 /\ t.mus[k].dropped = 0
    /\ from = "persist" => t.states[k] = t.x[ContextWindows] /\ t.mus[k].kept = 0
    /\ from = "zero mu" => t.mus[k].kept = 0
    /\ from = "truth" => t.states[k] = t.future[k]
    /\ from \in {"deterministic", "free running"} /\ ~mask =>
          t.states[k].kept = Clamped(Seen(t, ContextWindows + k - 1).kept + t.mus[k].kept)

TrajectorySound(t, n, from, mask) ==
    /\ IsTrajectory(t)
    /\ t.x \in Histories /\ t.future \in Futures
    /\ IsRow(t.states, n) /\ IsRow(t.mus, n) /\ IsRow(t.logvars, n) /\ IsRow(t.hiddens, n)
    /\ t.h = SeenUpTo(t, ContextWindows + n)
    /\ t.cur = Seen(t, ContextWindows + n) /\ t.prev = Seen(t, ContextWindows + n - 1)
    /\ \A k \in 1..n : StepSound(t, k, from, mask)

\* What was clipped is not clamped, and what was dropped stays so.
LEMMA ClampedWindow ==
    ASSUME NEW s \in WindowState
    PROVE  /\ Clamped(s.kept) = s.kept /\ Clamped(s.dropped) = s.dropped
           /\ [kept |-> Clamped(s.kept), dropped |-> Clamped(s.dropped)] = s
           /\ [s EXCEPT !.dropped = 0] = s
           /\ s.kept \in Int /\ s.dropped = 0
<1>1. StateClamp \in Nat
  BY RolloutAssumption
<1>2. PICK a \in -StateClamp .. StateClamp : s = [kept |-> a, dropped |-> 0]
  <2>1. s.kept \in -StateClamp .. StateClamp /\ s = [kept |-> s.kept, dropped |-> 0]
    BY DEF WindowState
  <2>2. QED
    BY <2>1
<1>3. s.kept = a /\ s.dropped = 0 /\ a \in Int
  BY <1>1, <1>2
<1>4. Clamped(a) = a /\ Clamped(0) = 0
  BY <1>1 DEF Clamped
<1>5. QED
  BY <1>2, <1>3, <1>4

\* The parts of one step, and what is made of them.
Emitted(t) == transition(pass.member, t.h, t.cur, t.prev)
Moved(t) == IF source \in {"persist", "zero mu"} THEN Silent ELSE Emitted(t).mu
Bare == source = "free running"
Arrived(t, noise) ==
    IF Bare THEN NextState(t, Moved(t), noise) ELSE Mask(NextState(t, Moved(t), noise))
KeptMu(t) == IF Bare THEN Moved(t) ELSE Mask(Moved(t))
KeptLogvar(t) == IF Bare THEN Emitted(t).logvar ELSE mask_logvar(Emitted(t).logvar)

HasStepped(u, t, nxt, mu, logvar) ==
    /\ IsTrajectory(u)
    /\ u.x = t.x /\ u.future = t.future /\ u.member = t.member /\ u.heads = t.heads
    /\ u.h = Append(t.h, nxt) /\ u.cur = nxt /\ u.prev = t.cur
    /\ u.states = Append(t.states, nxt) /\ u.mus = Append(t.mus, mu)
    /\ u.logvars = Append(t.logvars, logvar) /\ u.hiddens = Append(t.hiddens, u.h)

\* What a step makes of a trajectory, field by field.
LEMMA SteppedParts ==
    ASSUME NEW t, IsTrajectory(t), NEW noise
    PROVE  HasStepped(Stepped(t, noise), t, Arrived(t, noise), KeptMu(t), KeptLogvar(t))
<1>1. PICK nxt, mu, logvar : nxt = Arrived(t, noise) /\ mu = KeptMu(t) /\ logvar = KeptLogvar(t)
  OBVIOUS
<1>2. Stepped(t, noise) = [t EXCEPT !.states = Append(@, nxt), !.hiddens = Append(@, Append(t.h, nxt)),
                                    !.mus = Append(@, mu), !.logvars = Append(@, logvar),
                                    !.h = Append(t.h, nxt), !.prev = t.cur, !.cur = nxt]
  BY <1>1, Zenon DEF Stepped, Arrived, KeptMu, KeptLogvar, Emitted, Moved, Bare
<1>3. PICK u : u = Stepped(t, noise)
  OBVIOUS
<1>4. DOMAIN u = DOMAIN t
  BY <1>2, <1>3
<1>5. u.x = t.x /\ u.future = t.future /\ u.member = t.member /\ u.heads = t.heads
  BY <1>2, <1>3 DEF IsTrajectory, TrajectoryFields
<1>6. u.h = Append(t.h, nxt) /\ u.cur = nxt /\ u.prev = t.cur
  BY <1>2, <1>3 DEF IsTrajectory, TrajectoryFields
<1>7. u.states = Append(t.states, nxt) /\ u.mus = Append(t.mus, mu)
  BY <1>2, <1>3 DEF IsTrajectory, TrajectoryFields
<1>8. u.logvars = Append(t.logvars, logvar) /\ u.hiddens = Append(t.hiddens, Append(t.h, nxt))
  BY <1>2, <1>3 DEF IsTrajectory, TrajectoryFields
<1>9. HasStepped(u, t, nxt, mu, logvar)
  <2>1. IsTrajectory(u)
    BY <1>4 DEF IsTrajectory
  <2>2. u.hiddens = Append(t.hiddens, u.h)
    BY <1>6, <1>8
  <2>3. QED
    BY <1>5, <1>6, <1>7, <1>8, <2>1, <2>2, Zenon DEF HasStepped
<1>10. QED
  BY <1>1, <1>3, <1>9, Zenon

Grown(s2, s, v, n) == IsRow(s2, n + 1) /\ s2[n + 1] = v /\ \A i \in 1..n : s2[i] = s[i]

\* What a row keeps and gains by an append.
LEMMA RowGrows ==
    ASSUME NEW n \in Nat, NEW s, IsRow(s, n), NEW v
    PROVE  Grown(Append(s, v), s, v, n)
<1>1. PICK s2 : s2 = Append(s, v)
  OBVIOUS
<1>2. s2 = [i \in 1..n + 1 |-> IF i = n + 1 THEN v ELSE s[i]]
  BY <1>1, AppendRow
<1>3. s2[n + 1] = v /\ \A i \in 1..n : s2[i] = s[i]
  BY <1>2
<1>4. IsRow(s2, n + 1)
  BY <1>2 DEF IsRow
<1>5. QED
  BY <1>1, <1>3, <1>4 DEF Grown

\* The state a step arrives at.
LEMMA ArrivedParts ==
    ASSUME source \in Sources, masked \in BOOLEAN, NEW t, NEW noise,
           t.x \in Histories, t.future \in Futures, pass.k \in 1..Steps
    PROVE  /\ masked /\ ~Bare => Arrived(t, noise).dropped = 0 /\ KeptMu(t).dropped = 0
           /\ source = "persist" => Arrived(t, noise) = t.x[ContextWindows] /\ KeptMu(t).kept = 0
           /\ source = "zero mu" => KeptMu(t).kept = 0
           /\ source = "truth" => Arrived(t, noise) = t.future[pass.k]
           /\ source \in {"deterministic", "free running"} /\ ~masked =>
                 Arrived(t, noise).kept = Clamped(t.cur.kept + KeptMu(t).kept)
<1>1. PICK nxt : nxt = NextState(t, Moved(t), noise)
  OBVIOUS
<1>2. PICK a, b : nxt = [kept |-> a, dropped |-> b]
  <2>1. \E w : nxt = [kept |-> Clamped(w.kept), dropped |-> Clamped(w.dropped)]
    BY <1>1, Zenon DEF NextState
  <2>2. QED
    BY <2>1
<1>3. PICK c, d : Moved(t) = [kept |-> c, dropped |-> d]
  BY DEF Moved, Silent, Emitted, transition
<1>4. ASSUME masked, ~Bare PROVE Arrived(t, noise).dropped = 0 /\ KeptMu(t).dropped = 0
  <2>1. Arrived(t, noise) = [nxt EXCEPT !.dropped = 0] /\ KeptMu(t) = [Moved(t) EXCEPT !.dropped = 0]
    BY <1>1, <1>4 DEF Arrived, KeptMu, Mask
  <2>2. QED
    BY <1>2, <1>3, <2>1
<1>5. Silent = [kept |-> 0, dropped |-> 0] /\ Silent.kept = 0 /\ [Silent EXCEPT !.dropped = 0] = Silent
  BY DEF Silent
<1>6. ASSUME source \in {"persist", "zero mu"} PROVE KeptMu(t).kept = 0
  <2>1. Moved(t) = Silent
    BY <1>6 DEF Moved
  <2>2. KeptMu(t) = Silent
    BY <1>5, <2>1 DEF KeptMu, Mask
  <2>3. QED
    BY <1>5, <2>2
<1>7. ASSUME NEW w \in WindowState, source # "free running",
             nxt = [kept |-> Clamped(w.kept), dropped |-> Clamped(w.dropped)]
      PROVE  Arrived(t, noise) = w
  <2>1. nxt = w /\ [w EXCEPT !.dropped = 0] = w
    BY <1>7, ClampedWindow
  <2>2. QED
    BY <1>1, <1>7, <2>1 DEF Arrived, Mask, Bare
<1>8. ASSUME source = "persist" PROVE Arrived(t, noise) = t.x[ContextWindows]
  <2>1. t.x[ContextWindows] \in WindowState
    BY RolloutAssumption
  <2>2. nxt = [kept |-> Clamped(t.x[ContextWindows].kept), dropped |-> Clamped(t.x[ContextWindows].dropped)]
    BY <1>1, <1>8 DEF NextState
  <2>3. QED
    BY <1>7, <1>8, <2>1, <2>2
<1>9. ASSUME source = "truth" PROVE Arrived(t, noise) = t.future[pass.k]
  <2>1. t.future[pass.k] \in WindowState
    BY RolloutAssumption
  <2>2. nxt = [kept |-> Clamped(t.future[pass.k].kept), dropped |-> Clamped(t.future[pass.k].dropped)]
    BY <1>1, <1>9 DEF NextState
  <2>3. QED
    BY <1>7, <1>9, <2>1, <2>2
<1>10. ASSUME source \in {"deterministic", "free running"}, ~masked
       PROVE  Arrived(t, noise).kept = Clamped(t.cur.kept + KeptMu(t).kept)
  <2>1. Arrived(t, noise) = nxt /\ KeptMu(t) = Moved(t)
    BY <1>1, <1>10 DEF Arrived, KeptMu, Mask
  <2>2. ~Sampled /\ source # "persist" /\ source # "truth"
    BY <1>10 DEF Sampled
  <2>3. nxt.kept = Clamped(t.cur.kept + Moved(t).kept)
    BY <1>1, <2>2 DEF NextState
  <2>4. QED
    BY <2>1, <2>3
<1>11. QED
  BY <1>4, <1>6, <1>8, <1>9, <1>10 DEF Sources

\* A step takes a sound trajectory one window on.
LEMMA SteppedSound ==
    ASSUME NEW n \in Nat, pass.k = n + 1, n < Steps, source \in Sources, masked \in BOOLEAN,
           NEW t, TrajectorySound(t, n, source, masked), NEW noise
    PROVE  TrajectorySound(Stepped(t, noise), n + 1, source, masked)
<1>1. PICK u, nxt, mu, logvar, c :
         /\ u = Stepped(t, noise) /\ nxt = Arrived(t, noise)
         /\ mu = KeptMu(t) /\ logvar = KeptLogvar(t) /\ c = ContextWindows
  OBVIOUS
<1>2. c \in Nat \ 0..2 /\ Steps \in Nat
  BY <1>1, RolloutAssumption
<1>3. /\ IsTrajectory(t)
      /\ t.x \in Histories /\ t.future \in Futures
      /\ IsRow(t.states, n) /\ IsRow(t.mus, n) /\ IsRow(t.logvars, n) /\ IsRow(t.hiddens, n)
      /\ t.h = SeenUpTo(t, c + n) /\ t.cur = Seen(t, c + n) /\ t.prev = Seen(t, c + n - 1)
  BY <1>1 DEF TrajectorySound
<1>4. /\ IsTrajectory(u)
      /\ u.x = t.x /\ u.future = t.future
      /\ u.h = Append(t.h, nxt) /\ u.cur = nxt /\ u.prev = t.cur
      /\ u.states = Append(t.states, nxt) /\ u.mus = Append(t.mus, mu)
      /\ u.logvars = Append(t.logvars, logvar) /\ u.hiddens = Append(t.hiddens, u.h)
  <2>1. HasStepped(Stepped(t, noise), t, Arrived(t, noise), KeptMu(t), KeptLogvar(t))
    BY <1>3, SteppedParts, Zenon
  <2>2. HasStepped(u, t, nxt, mu, logvar)
    BY <1>1, <2>1, Zenon
  <2>3. QED
    BY <2>2, Zenon DEF HasStepped
<1>5. /\ IsRow(u.states, n + 1) /\ u.states[n + 1] = nxt /\ \A i \in 1..n : u.states[i] = t.states[i]
      /\ IsRow(u.mus, n + 1) /\ u.mus[n + 1] = mu /\ \A i \in 1..n : u.mus[i] = t.mus[i]
      /\ IsRow(u.logvars, n + 1) /\ u.logvars[n + 1] = logvar /\ \A i \in 1..n : u.logvars[i] = t.logvars[i]
      /\ IsRow(u.hiddens, n + 1) /\ u.hiddens[n + 1] = u.h /\ \A i \in 1..n : u.hiddens[i] = t.hiddens[i]
  <2>1. IsRow(u.states, n + 1) /\ u.states[n + 1] = nxt /\ \A i \in 1..n : u.states[i] = t.states[i]
    <3>1. IsRow(t.states, n) /\ u.states = Append(t.states, nxt)
      BY <1>3, <1>4
    <3>2. Grown(u.states, t.states, nxt, n)
      BY <3>1, RowGrows, Zenon
    <3>3. QED
      BY <3>2 DEF Grown
  <2>2. IsRow(u.mus, n + 1) /\ u.mus[n + 1] = mu /\ \A i \in 1..n : u.mus[i] = t.mus[i]
    <3>1. IsRow(t.mus, n) /\ u.mus = Append(t.mus, mu)
      BY <1>3, <1>4
    <3>2. Grown(u.mus, t.mus, mu, n)
      BY <3>1, RowGrows, Zenon
    <3>3. QED
      BY <3>2 DEF Grown
  <2>3. IsRow(u.logvars, n + 1) /\ u.logvars[n + 1] = logvar /\ \A i \in 1..n : u.logvars[i] = t.logvars[i]
    <3>1. IsRow(t.logvars, n) /\ u.logvars = Append(t.logvars, logvar)
      BY <1>3, <1>4
    <3>2. Grown(u.logvars, t.logvars, logvar, n)
      BY <3>1, RowGrows, Zenon
    <3>3. QED
      BY <3>2 DEF Grown
  <2>4. IsRow(u.hiddens, n + 1) /\ u.hiddens[n + 1] = u.h /\ \A i \in 1..n : u.hiddens[i] = t.hiddens[i]
    <3>1. IsRow(t.hiddens, n) /\ u.hiddens = Append(t.hiddens, u.h)
      BY <1>3, <1>4
    <3>2. Grown(u.hiddens, t.hiddens, u.h, n)
      BY <3>1, RowGrows, Zenon
    <3>3. QED
      BY <3>2 DEF Grown
  <2>5. QED
    BY <2>1, <2>2, <2>3, <2>4
<1>6. Seen(u, c + n + 1) = nxt /\ \A i \in 1..c + n : Seen(u, i) = Seen(t, i)
  <2>1. \A i \in 1..c + n : ~(i <= c) => i - c \in 1..n
    BY <1>2
  <2>2. (c + n + 1) - c = n + 1 /\ ~(c + n + 1 <= c)
    BY <1>2
  <2>3. QED
    BY <1>1, <1>4, <1>5, <2>1, <2>2 DEF Seen
<1>7. \A j \in 0..c + n : SeenUpTo(u, j) = SeenUpTo(t, j)
  <2>1. TAKE j \in 0..c + n
  <2>2. \A i \in 1..j : Seen(u, i) = Seen(t, i)
    BY <1>2, <1>6
  <2>3. QED
    BY <2>2, Zenon DEF SeenUpTo
<1>8. u.h = SeenUpTo(u, c + n + 1)
  <2>1. IsRow(t.h, c + n) /\ c + n \in Nat
    BY <1>2, <1>3 DEF IsRow, SeenUpTo
  <2>2. u.h = [i \in 1..c + n + 1 |-> IF i = c + n + 1 THEN nxt ELSE t.h[i]]
    <3>1. PICK m \in Nat : m = c + n /\ IsRow(t.h, m)
      BY <2>1
    <3>2. Append(t.h, nxt) = [i \in 1..m + 1 |-> IF i = m + 1 THEN nxt ELSE t.h[i]]
      BY <3>1, AppendRow
    <3>3. QED
      BY <1>4, <3>1, <3>2
  <2>3. \A i \in 1..c + n + 1 : (IF i = c + n + 1 THEN nxt ELSE t.h[i]) = Seen(u, i)
    BY <1>2, <1>3, <1>6 DEF SeenUpTo
  <2>4. QED
    BY <2>2, <2>3, Zenon DEF SeenUpTo
<1>9. ASSUME NEW k \in 1..n PROVE StepSound(u, k, source, masked)
  <2>1. StepSound(t, k, source, masked)
    BY DEF TrajectorySound
  <2>2. /\ u.states[k] = t.states[k] /\ u.mus[k] = t.mus[k]
        /\ u.logvars[k] = t.logvars[k] /\ u.hiddens[k] = t.hiddens[k]
    BY <1>5
  <2>3. c + k \in 0..c + n /\ c + k - 1 \in 0..c + n /\ c + k - 1 \in 1..c + n /\ (c + k - 1) - 1 \in 1..c + n
    BY <1>2
  <2>4. /\ SeenUpTo(u, c + k) = SeenUpTo(t, c + k) /\ SeenUpTo(u, c + k - 1) = SeenUpTo(t, c + k - 1)
        /\ Seen(u, c + k - 1) = Seen(t, c + k - 1) /\ Seen(u, (c + k - 1) - 1) = Seen(t, (c + k - 1) - 1)
    BY <1>6, <1>7, <2>3
  <2>5. Condition(u, c + k - 1, masked) = Condition(t, c + k - 1, masked)
    BY <2>4, Zenon DEF Condition
  <2>6. QED
    BY <1>1, <1>4, <2>1, <2>2, <2>4, <2>5, Zenon DEF StepSound
<1>10. StepSound(u, n + 1, source, masked)
  <2>1. c + (n + 1) = c + n + 1 /\ c + (n + 1) - 1 = c + n /\ c + n \in 0..c + n /\ c + n \in 1..c + n
        /\ c + n - 1 \in 1..c + n
    BY <1>2
  <2>2. Seen(u, c + n) = t.cur /\ Seen(u, c + n - 1) = t.prev /\ SeenUpTo(u, c + n) = t.h
    BY <1>3, <1>6, <1>7, <2>1
  <2>3. source # "free running" => logvar = Condition(u, c + n, masked)
    <3>1. SUFFICES ASSUME source # "free running" PROVE logvar = Condition(u, c + n, masked)
      OBVIOUS
    <3>2. PICK cond : cond = <<t.h, t.cur, t.prev>>
      OBVIOUS
    <3>3. Emitted(t).logvar = [of |-> cond, dropped |-> "untrained"]
      BY <3>2 DEF Emitted, transition
    <3>4. logvar = [of |-> cond, dropped |-> IF masked THEN "floor" ELSE "untrained"]
      <4>1. logvar = mask_logvar(Emitted(t).logvar)
        BY <1>1, <3>1 DEF KeptLogvar, Bare
      <4>2. CASE masked
        <5>1. logvar = [Emitted(t).logvar EXCEPT !.dropped = "floor"]
          BY <4>1, <4>2 DEF mask_logvar
        <5>2. QED
          BY <3>3, <4>2, <5>1
      <4>3. CASE ~masked
        BY <3>3, <4>1, <4>3 DEF mask_logvar
      <4>4. QED
        BY <4>2, <4>3
    <3>5. Condition(u, c + n, masked) = [of |-> cond, dropped |-> IF masked THEN "floor" ELSE "untrained"]
      <4>1. PICK m \in Nat : m = c + n /\ m - 1 = c + n - 1
        BY <1>2
      <4>2. Condition(u, m, masked) =
               [of |-> <<SeenUpTo(u, m), Seen(u, m), Seen(u, m - 1)>>,
                dropped |-> IF masked THEN "floor" ELSE "untrained"]
        BY DEF Condition
      <4>3. <<SeenUpTo(u, m), Seen(u, m), Seen(u, m - 1)>> = cond
        <5>1. SeenUpTo(u, m) = t.h /\ Seen(u, m) = t.cur /\ Seen(u, m - 1) = t.prev
          BY <2>2, <4>1
        <5>2. QED
          BY <3>2, <5>1
      <4>4. QED
        BY <4>1, <4>2, <4>3
    <3>6. QED
      BY <3>4, <3>5
  <2>4. /\ masked /\ source # "free running" => nxt.dropped = 0 /\ mu.dropped = 0
        /\ source = "persist" => nxt = t.x[c] /\ mu.kept = 0
        /\ source = "zero mu" => mu.kept = 0
        /\ source = "truth" => nxt = t.future[n + 1]
        /\ source \in {"deterministic", "free running"} /\ ~masked => nxt.kept = Clamped(t.cur.kept + mu.kept)
    <3>1. pass.k \in 1..Steps
      BY <1>2
    <3>2. QED
      BY <1>1, <1>3, <3>1, ArrivedParts DEF Bare
  <2>5. u.hiddens[n + 1] = SeenUpTo(u, c + (n + 1))
    BY <1>5, <1>8, <2>1
  <2>6. source # "free running" => u.logvars[n + 1] = Condition(u, c + (n + 1) - 1, masked)
    BY <1>5, <2>1, <2>3
  <2>7. Seen(u, c + (n + 1) - 1) = t.cur
    BY <2>1, <2>2
  <2>8. u.states[n + 1] = nxt /\ u.mus[n + 1] = mu /\ u.x = t.x /\ u.future = t.future
    BY <1>4, <1>5
  <2>9. QED
    BY <1>1, <2>4, <2>5, <2>6, <2>7, <2>8, Zenon DEF StepSound
<1>11. u.cur = Seen(u, c + (n + 1)) /\ u.prev = Seen(u, c + (n + 1) - 1) /\ u.h = SeenUpTo(u, c + (n + 1))
  <2>1. c + (n + 1) = c + n + 1 /\ c + (n + 1) - 1 = c + n /\ c + n \in 1..c + n
    BY <1>2
  <2>2. QED
    BY <1>3, <1>4, <1>6, <1>8, <2>1
<1>12. \A k \in 1..n + 1 : StepSound(u, k, source, masked)
  <2>1. \A k \in 1..n + 1 : k = n + 1 \/ k \in 1..n
    OBVIOUS
  <2>2. QED
    BY <1>9, <1>10, <2>1
<1>13. QED
  BY <1>1, <1>3, <1>4, <1>5, <1>11, <1>12, Zenon DEF TrajectorySound

-----------------------------------------------------------------------------
\* Of a trajectory all but its heads decides whether it is sound.
LEMMA HeadsAside ==
    ASSUME NEW t, NEW n, NEW heads, TrajectorySound(t, n, source, masked)
    PROVE  LET u == [t EXCEPT !.heads = heads]
           IN  /\ TrajectorySound(u, n, source, masked)
               /\ u.x = t.x /\ u.future = t.future /\ u.member = t.member /\ u.heads = heads
<1>1. PICK u : u = [t EXCEPT !.heads = heads]
  OBVIOUS
<1>2. IsTrajectory(t)
  BY DEF TrajectorySound
<1>3. IsTrajectory(u) /\ u.heads = heads
  BY <1>1, <1>2 DEF IsTrajectory, TrajectoryFields
<1>4. /\ u.x = t.x /\ u.future = t.future /\ u.member = t.member
      /\ u.h = t.h /\ u.cur = t.cur /\ u.prev = t.prev
      /\ u.states = t.states /\ u.mus = t.mus /\ u.logvars = t.logvars /\ u.hiddens = t.hiddens
  BY <1>1, <1>2 DEF IsTrajectory, TrajectoryFields
<1>5. \A i : Seen(u, i) = Seen(t, i)
  BY <1>4 DEF Seen
<1>6. \A m : SeenUpTo(u, m) = SeenUpTo(t, m)
  BY <1>5 DEF SeenUpTo
<1>7. \A m : Condition(u, m, masked) = Condition(t, m, masked)
  BY <1>5, <1>6 DEF Condition
<1>8. \A k \in 1..n : StepSound(u, k, source, masked)
  <2>1. TAKE k \in 1..n
  <2>2. StepSound(t, k, source, masked)
    BY DEF TrajectorySound
  <2>3. QED
    BY <1>4, <1>5, <1>6, <1>7, <2>2, Zenon DEF StepSound
<1>9. TrajectorySound(u, n, source, masked)
  BY <1>3, <1>4, <1>5, <1>6, <1>8, Zenon DEF TrajectorySound
<1>10. QED
  BY <1>1, <1>3, <1>4, <1>9

\* A quotient.
LEMMA Quotient ==
    ASSUME NEW S \in Nat \ {0}, NEW a \in Nat, NEW b \in 0..S - 1
    PROVE  (a * S + b) \div S = a
<1>1. PICK s \in Nat : s = a * S + b
  <2>1. a * S \in Nat
    OBVIOUS
  <2>2. QED
    BY <2>1
<1>2. PICK q \in Nat : q = s \div S /\ S * q <= s /\ s < S * q + S
  <2>1. s \div S \in Nat /\ S * (s \div S) <= s /\ s < S * (s \div S) + S
    OBVIOUS
  <2>2. QED
    BY <2>1
<1>3. ~(q >= a + 1)
  <2>1. SUFFICES ASSUME q >= a + 1 PROVE FALSE
    OBVIOUS
  <2>2. S * q >= S * (a + 1)
    BY <2>1
  <2>3. S * (a + 1) = a * S + S
    OBVIOUS
  <2>4. QED
    BY <1>1, <1>2, <2>2, <2>3
<1>4. ~(q + 1 <= a)
  <2>1. SUFFICES ASSUME q + 1 <= a PROVE FALSE
    OBVIOUS
  <2>2. S * (q + 1) <= S * a
    BY <2>1
  <2>3. S * (q + 1) = S * q + S /\ S * a = a * S
    OBVIOUS
  <2>4. QED
    BY <1>1, <1>2, <2>2, <2>3
<1>5. QED
  BY <1>1, <1>2, <1>3, <1>4

\* Each of w times S is in one of w groups.
InGroup(i, S, w) == (i - 1) \div S \in 0..w - 1 /\ \E b \in 1..S : i = ((i - 1) \div S) * S + b

\* Each of w times S is in one of w groups of S.
LEMMA Grouped ==
    ASSUME NEW S \in Nat \ {0}, NEW w \in Nat, NEW i \in 1..w * S
    PROVE  InGroup(i, S, w)
<1>1. PICK s \in Nat : s = i - 1 /\ s < w * S
  <2>1. w * S \in Nat
    OBVIOUS
  <2>2. QED
    BY <2>1
<1>2. PICK q \in Nat : q = s \div S /\ S * q <= s /\ s < S * q + S
  <2>1. s \div S \in Nat /\ S * (s \div S) <= s /\ s < S * (s \div S) + S
    OBVIOUS
  <2>2. QED
    BY <2>1
<1>3. ~(q >= w)
  <2>1. SUFFICES ASSUME q >= w PROVE FALSE
    OBVIOUS
  <2>2. S * q >= S * w /\ S * w = w * S
    BY <2>1
  <2>3. QED
    BY <1>1, <1>2, <2>2
<1>4. PICK b \in 1..S : b = s - S * q + 1
  <2>1. PICK x \in Nat : x = S * q
    OBVIOUS
  <2>2. s - x + 1 \in 1..S
    BY <1>2, <2>1
  <2>3. QED
    BY <2>1, <2>2
<1>5. i = q * S + b
  <2>1. PICK x \in Nat : x = S * q /\ x = q * S
    OBVIOUS
  <2>2. QED
    BY <1>1, <1>4, <2>1
<1>6. (i - 1) \div S = q
  BY <1>1, <1>2
<1>7. (i - 1) \div S \in 0..w - 1
  BY <1>2, <1>3, <1>6
<1>8. i = ((i - 1) \div S) * S + b
  BY <1>5, <1>6
<1>9. QED
  BY <1>7, <1>8 DEF InGroup

-----------------------------------------------------------------------------
(* Of a chunk that begins at row f: its rows, and the row of trajectory i. *)
Width(f) == IF f + ChunkRows - 1 <= Rows THEN ChunkRows ELSE Rows - f + 1
RowAt(f, i) == f + ((i - 1) \div Samples)
\* The member behind element i of a row that has been pooled, its voters.
MemberAt(i) == ((i - 1) \div Samples) + 1
Voters(m) == IF Sampled /\ ~trajectoryHead THEN 1..MemberCount
             ELSE IF source = "free running" THEN {} ELSE {m}

OfRow(t, r, n) == TrajectorySound(t, n, source, masked) /\ t.x = observed[r] /\ t.future = truth[r]

PassSound(p) ==
    /\ DOMAIN p = {"first", "member", "k", "traj"}
    /\ p.first \in Nat \ {0} /\ p.member \in 1..MemberCount /\ p.k \in 0..Steps + 1
    /\ p.k > 0 =>
          /\ p.first <= Rows
          /\ IsRow(p.traj, Width(p.first) * Samples)
          /\ \A i \in 1..Width(p.first) * Samples :
                OfRow(p.traj[i], RowAt(p.first, i), p.k - 1) /\ p.traj[i].member = p.member

\* How many of the members have been at row r.
Done(p, r) == IF r < p.first THEN MemberCount
              ELSE IF r < p.first + ChunkRows THEN p.member - 1 ELSE 0

PooledSound(row, r, done) ==
    /\ IsRow(row, done * Samples)
    /\ \A i \in 1..done * Samples :
          OfRow(row[i], r, Steps) /\ row[i].member = MemberAt(i) /\ row[i].heads = Voters(MemberAt(i))

RolloutSound(p, q) ==
    /\ PassSound(p)
    /\ q = [r \in 1..Rows |-> q[r]]
    /\ \A r \in 1..Rows : PooledSound(q[r], r, Done(p, r))

RolloutGiven ==
    /\ observed \in [1..Rows -> Histories] /\ truth \in [1..Rows -> Futures]
    /\ masked \in BOOLEAN /\ trajectoryHead \in BOOLEAN /\ source \in Sources

RolloutInv == RolloutGiven /\ RolloutSound(pass, pooled)

\* What is given stays, so that what is sound stays sound.
LEMMA GivenKeeps ==
    ASSUME Given, RolloutGiven, NEW p, NEW q, RolloutSound(p, q), pass' = p, pooled' = q
    PROVE  RolloutInv'
<1>1. /\ observed' = observed /\ truth' = truth /\ masked' = masked
      /\ trajectoryHead' = trajectoryHead /\ source' = source
  BY DEF Given
<1>2. RolloutGiven'
  BY <1>1 DEF RolloutGiven
<1>3. Samples' = Samples /\ Sampled' = Sampled
  BY <1>1 DEF Samples, Sampled
<1>4. ASSUME NEW t, NEW r, NEW n PROVE OfRow(t, r, n)' = OfRow(t, r, n)
  BY <1>1 DEF OfRow, TrajectorySound, StepSound
<1>5. ASSUME NEW m PROVE Voters(m)' = Voters(m)
  BY <1>1, <1>3 DEF Voters
<1>6. PassSound(p)'
  BY <1>3, <1>4 DEF RolloutSound, PassSound, RowAt
<1>7. ASSUME NEW row, NEW r, NEW done, PooledSound(row, r, done) PROVE PooledSound(row, r, done)'
  BY <1>3, <1>4, <1>5, <1>7 DEF PooledSound, MemberAt
<1>8. QED
  BY <1>2, <1>6, <1>7 DEF RolloutInv, RolloutSound

\* How many rows and trajectories there are.
LEMMA Sizes ==
    ASSUME source \in Sources
    PROVE  /\ Samples \in Nat \ {0} /\ Rows \in Nat \ {0} /\ ChunkRows \in Nat \ {0}
           /\ MemberCount \in Nat \ {0} /\ Steps \in Nat \ {0} /\ ContextWindows \in Nat \ 0..2
BY RolloutAssumption DEF Samples

\* A chunk is an interval of rows.
LEMMA ChunkIsInterval ==
    ASSUME pass.first \in Nat \ {0}, pass.first <= Rows, source \in Sources
    PROVE  /\ Width(pass.first) \in Nat \ {0}
           /\ InChunk = pass.first .. pass.first + Width(pass.first) - 1
           /\ InChunk \subseteq 1..Rows
           /\ Cardinality(InChunk) = Width(pass.first)
<1>1. PICK f \in Nat \ {0} : f = pass.first
  OBVIOUS
<1>2. PICK c \in Nat \ {0}, n \in Nat \ {0} : c = ChunkRows /\ n = Rows
  BY Sizes
<1>3. f <= n
  BY <1>1, <1>2
<1>4. PICK w \in Nat \ {0} : /\ w = Width(f)
                            /\ \/ w = c /\ f + c - 1 <= n
                               \/ w = n - f + 1 /\ n < f + c - 1
  <2>1. CASE f + c - 1 <= n
    BY <1>2, <2>1 DEF Width
  <2>2. CASE ~(f + c - 1 <= n)
    <3>1. n - f + 1 \in Nat \ {0} /\ n < f + c - 1
      BY <1>3, <2>2
    <3>2. Width(f) = n - f + 1
      BY <1>2, <2>2 DEF Width
    <3>3. QED
      BY <3>1, <3>2
  <2>3. QED
    BY <2>1, <2>2
<1>5. InChunk = f .. f + w - 1
  <2>1. InChunk = {r \in 1..n : f <= r /\ r < f + c}
    BY <1>1, <1>2 DEF InChunk
  <2>2. \A r \in Int : r \in f .. f + w - 1 <=> r \in 1..n /\ f <= r /\ r < f + c
    BY <1>3, <1>4
  <2>3. QED
    BY <2>1, <2>2
<1>6. Cardinality(f .. f + w - 1) = w
  BY FS_Interval
<1>7. f .. f + w - 1 \subseteq 1..n
  BY <1>3, <1>4
<1>8. QED
  BY <1>1, <1>2, <1>4, <1>5, <1>6, <1>7

\* A trajectory that has begun.
Begun(x, future, m) ==
    [x |-> x, future |-> future,
     h |-> x, cur |-> x[ContextWindows], prev |-> x[ContextWindows - 1],
     member |-> m, heads |-> {},
     states |-> <<>>, mus |-> <<>>, logvars |-> <<>>, hiddens |-> <<>>]

HasBegun(t, x, future, m) ==
    TrajectorySound(t, 0, source, masked) /\ t.x = x /\ t.future = future /\ t.member = m

\* A trajectory that has just begun is sound.
LEMMA BegunIsSound ==
    ASSUME NEW x \in Histories, NEW future \in Futures, NEW member
    PROVE  HasBegun(Begun(x, future, member), x, future, member)
<1>0. PICK t : t = Begun(x, future, member)
  OBVIOUS
<1>1. PICK c \in Nat \ 0..2 : c = ContextWindows
  BY RolloutAssumption
<1>2. IsTrajectory(t)
  BY <1>0 DEF IsTrajectory, TrajectoryFields, Begun
<1>3. /\ t.x = x /\ t.future = future /\ t.member = member /\ t.h = x
      /\ t.cur = x[c] /\ t.prev = x[c - 1]
      /\ t.states = <<>> /\ t.mus = <<>> /\ t.logvars = <<>> /\ t.hiddens = <<>>
  BY <1>0, <1>1 DEF Begun
<1>4. IsRow(<<>>, 0)
  BY DEF IsRow
<1>5. \A i \in 1..c : Seen(t, i) = x[i]
  BY <1>1, <1>3 DEF Seen
<1>6. x = SeenUpTo(t, c)
  <2>1. x = [i \in 1..c |-> x[i]]
    BY <1>1, RolloutAssumption
  <2>2. QED
    BY <1>5, <2>1, Zenon DEF SeenUpTo
<1>7. c + 0 = c /\ c \in 1..c /\ c - 1 \in 1..c
  BY <1>1
<1>8. t.h = SeenUpTo(t, c + 0) /\ t.cur = Seen(t, c + 0) /\ t.prev = Seen(t, c + 0 - 1)
  <2>1. t.h = SeenUpTo(t, c) /\ t.cur = Seen(t, c) /\ t.prev = Seen(t, c - 1)
    BY <1>3, <1>5, <1>6, <1>7
  <2>2. QED
    BY <1>7, <2>1
<1>9. \A k \in 1..0 : StepSound(t, k, source, masked)
  OBVIOUS
<1>10. QED
  <2>1. TrajectorySound(t, 0, source, masked)
    BY <1>1, <1>2, <1>3, <1>4, <1>8, <1>9 DEF TrajectorySound
  <2>2. QED
    BY <1>0, <1>3, <2>1, Zenon DEF HasBegun

\* A rollout begins with the windows its rows observed.
LEMMA BeginKeeps == RolloutInv /\ BeginRollout => RolloutInv'
<1>1. SUFFICES ASSUME RolloutInv, BeginRollout PROVE RolloutInv'
  OBVIOUS
<1>2. RolloutGiven /\ source \in Sources /\ PassSound(pass) /\ RolloutSound(pass, pooled)
  BY <1>1 DEF RolloutInv, RolloutGiven, RolloutSound
<1>3. PICK f \in Nat \ {0}, S \in Nat \ {0}, w \in Nat \ {0} :
         /\ f = pass.first /\ S = Samples /\ w = Width(f) /\ f <= Rows
         /\ InChunk = f .. f + w - 1 /\ InChunk \subseteq 1..Rows /\ Cardinality(InChunk) = w
  <2>1. pass.first \in Nat \ {0} /\ pass.first <= Rows
    BY <1>1, <1>2 DEF PassSound, BeginRollout
  <2>2. QED
    BY <1>2, <2>1, ChunkIsInterval, Sizes
<1>4. PICK traj : traj =
         [i \in 1 .. w * S |->
            LET x == observed[TiledRow(i)]
            IN  [x |-> x, future |-> truth[TiledRow(i)],
                 h |-> x, cur |-> x[ContextWindows], prev |-> x[ContextWindows - 1],
                 member |-> pass.member, heads |-> {},
                 states |-> <<>>, mus |-> <<>>, logvars |-> <<>>, hiddens |-> <<>>]]
  OBVIOUS
<1>5. PICK p : p = [pass EXCEPT !.k = 1, !.traj = traj]
  OBVIOUS
<1>6. pass' = p /\ Given /\ pooled' = pooled /\ pass.k = 0
  BY <1>1, <1>3, <1>4, <1>5, Zenon DEF BeginRollout
<1>7. /\ DOMAIN p = {"first", "member", "k", "traj"}
      /\ p.first = f /\ p.member = pass.member /\ p.k = 1 /\ p.traj = traj
  BY <1>2, <1>3, <1>5 DEF PassSound
<1>8. ASSUME NEW i \in 1..w * S
      PROVE  OfRow(traj[i], RowAt(f, i), 0) /\ traj[i].member = pass.member
  <2>1. TiledRow(i) = RowAt(f, i)
    BY <1>3 DEF TiledRow, RowAt
  <2>2. PICK r \in 1..Rows : r = RowAt(f, i)
    <3>1. (i - 1) \div S \in 0..w - 1
      BY Grouped, Zenon DEF InGroup
    <3>2. f + (i - 1) \div S \in f .. f + w - 1
      BY <3>1
    <3>3. QED
      BY <1>3, <3>2 DEF RowAt
  <2>3. PICK x \in Histories, future \in Futures : x = observed[r] /\ future = truth[r]
    BY <1>2 DEF RolloutGiven
  <2>4. traj[i] = [x |-> x, future |-> future,
                   h |-> x, cur |-> x[ContextWindows], prev |-> x[ContextWindows - 1],
                   member |-> pass.member, heads |-> {},
                   states |-> <<>>, mus |-> <<>>, logvars |-> <<>>, hiddens |-> <<>>]
    BY <1>4, <2>1, <2>2, <2>3
  <2>5. PICK t, m : t = traj[i] /\ m = pass.member
    OBVIOUS
  <2>6. TrajectorySound(t, 0, source, masked) /\ t.x = x /\ t.future = future /\ t.member = m
    <3>1. t = Begun(x, future, m)
      BY <2>4, <2>5, Zenon DEF Begun
    <3>2. HasBegun(t, x, future, m)
      BY <3>1, BegunIsSound, Zenon
    <3>3. QED
      BY <3>2 DEF HasBegun
  <2>7. QED
    BY <2>2, <2>3, <2>5, <2>6 DEF OfRow
<1>9. PassSound(p)
  <2>1. IsRow(traj, w * S)
    BY <1>4 DEF IsRow
  <2>2. 1 \in 0..Steps + 1 /\ 1 - 1 = 0
    BY <1>2, Sizes
  <2>3. QED
    BY <1>2, <1>3, <1>7, <1>8, <2>1, <2>2 DEF PassSound
<1>10. RolloutSound(p, pooled)
  <2>1. \A r \in 1..Rows : Done(p, r) = Done(pass, r)
    BY <1>3, <1>7 DEF Done
  <2>2. QED
    BY <1>2, <1>9, <2>1 DEF RolloutSound
<1>11. QED
  BY <1>2, <1>6, <1>10, GivenKeeps

\* A step takes every trajectory on.
LEMMA StepKeeps == ASSUME NEW noise PROVE RolloutInv /\ Step(noise) => RolloutInv'
<1>1. SUFFICES ASSUME RolloutInv, Step(noise) PROVE RolloutInv'
  OBVIOUS
<1>2. RolloutGiven /\ source \in Sources /\ masked \in BOOLEAN /\ PassSound(pass) /\ RolloutSound(pass, pooled)
  BY <1>1 DEF RolloutInv, RolloutGiven, RolloutSound
<1>3. PICK n \in Nat : pass.k = n + 1 /\ n < Steps
  <2>1. pass.k \in 1..Steps
    BY <1>1 DEF Step
  <2>2. pass.k - 1 \in Nat /\ pass.k = (pass.k - 1) + 1 /\ pass.k - 1 < Steps
    BY <1>2, <2>1, Sizes
  <2>3. QED
    BY <2>2
<1>4. PICK size : size = Width(pass.first) * Samples
  OBVIOUS
<1>5. /\ pass.first <= Rows /\ IsRow(pass.traj, size)
      /\ \A i \in 1..size : OfRow(pass.traj[i], RowAt(pass.first, i), n) /\ pass.traj[i].member = pass.member
  <2>1. pass.k > 0 /\ pass.k - 1 = n
    BY <1>3
  <2>2. QED
    BY <1>2, <1>4, <2>1 DEF PassSound
<1>6. DOMAIN pass.traj = 1..size
  BY <1>5 DEF IsRow
<1>7. PICK traj : traj = [i \in 1..size |-> Stepped(pass.traj[i], noise[i])]
  OBVIOUS
<1>8. PICK p : p = [pass EXCEPT !.k = @ + 1, !.traj = traj]
  OBVIOUS
<1>9. pass' = p /\ Given /\ pooled' = pooled
  BY <1>1, <1>6, <1>7, <1>8, Zenon DEF Step
<1>10. /\ DOMAIN p = {"first", "member", "k", "traj"}
       /\ p.first = pass.first /\ p.member = pass.member /\ p.k = n + 2 /\ p.traj = traj
  BY <1>2, <1>3, <1>8 DEF PassSound
<1>11. ASSUME NEW i \in 1..size
       PROVE  OfRow(traj[i], RowAt(pass.first, i), n + 1) /\ traj[i].member = pass.member
  <2>1. PICK t : t = pass.traj[i]
    OBVIOUS
  <2>2. /\ TrajectorySound(t, n, source, masked) /\ t.x = observed[RowAt(pass.first, i)]
        /\ t.future = truth[RowAt(pass.first, i)] /\ t.member = pass.member
    BY <1>5, <2>1 DEF OfRow
  <2>3. PICK u : u = Stepped(t, noise[i])
    OBVIOUS
  <2>4. TrajectorySound(u, n + 1, source, masked)
    BY <1>2, <1>3, <2>2, <2>3, SteppedSound
  <2>5. u.x = t.x /\ u.future = t.future /\ u.member = t.member
    <3>1. IsTrajectory(t)
      BY <2>2 DEF TrajectorySound
    <3>2. QED
      BY <2>3, <3>1, SteppedParts, Zenon DEF HasStepped
  <2>6. traj[i] = u
    BY <1>7, <2>1, <2>3
  <2>7. QED
    BY <2>2, <2>4, <2>5, <2>6 DEF OfRow
<1>12. PassSound(p)
  <2>1. IsRow(traj, size)
    BY <1>7 DEF IsRow
  <2>2. n + 2 \in 0..Steps + 1 /\ (n + 2) - 1 = n + 1
    BY <1>2, <1>3, Sizes
  <2>3. pass.first \in Nat \ {0} /\ pass.member \in 1..MemberCount
    BY <1>2 DEF PassSound
  <2>4. QED
    BY <1>4, <1>5, <1>10, <1>11, <2>1, <2>2, <2>3 DEF PassSound
<1>13. RolloutSound(p, pooled)
  <2>1. \A r \in 1..Rows : Done(p, r) = Done(pass, r)
    BY <1>10 DEF Done
  <2>2. QED
    BY <1>2, <1>12, <2>1 DEF RolloutSound
<1>14. QED
  BY <1>2, <1>9, <1>13, GivenKeeps

\* The trajectory of which member and sample is where in a chunk.
Located(i, f, r, n) == i \in 1..n /\ RowAt(f, i) = r

\* Sample b of row r stands among its chunk where it is looked for (repeat_interleave, reshape).
LEMMA WhereItIs ==
    ASSUME NEW S \in Nat \ {0}, S = Samples, NEW f \in Nat, NEW w \in Nat, NEW r \in f .. f + w - 1,
           NEW b \in 1..S
    PROVE  Located((r - f) * S + b, f, r, w * S)
<1>1. PICK a \in Nat : a = r - f /\ a < w
  BY DEF RowAt
<1>2. PICK e \in Nat : e = a * S
  BY <1>1
<1>3. PICK z \in Nat : z = w * S
  BY <1>1
<1>4. e + S <= z
  <2>1. a + 1 <= w
    BY <1>1
  <2>2. (a + 1) * S <= w * S
    BY <1>1, <2>1
  <2>3. (a + 1) * S = a * S + S
    BY <1>1
  <2>4. QED
    BY <1>2, <1>3, <2>2, <2>3
<1>5. e + b \in 1..z
  BY <1>2, <1>3, <1>4
<1>6. (e + b - 1) \div S = a
  <2>1. b - 1 \in 0..S - 1
    OBVIOUS
  <2>2. (a * S + (b - 1)) \div S = a
    BY <1>1, <2>1, Quotient
  <2>3. e + b - 1 = a * S + (b - 1)
    BY <1>2, <2>1
  <2>4. QED
    BY <2>2, <2>3
<1>7. RowAt(f, e + b) = f + a
  BY <1>6 DEF RowAt
<1>8. f + a = r
  BY <1>1
<1>9. QED
  BY <1>1, <1>2, <1>3, <1>5, <1>7, <1>8 DEF Located

\* A member's trajectories are pooled after those of the members before it.
LEMMA PooledGrows ==
    ASSUME NEW r, NEW m \in Nat \ {0}, NEW row, PooledSound(row, r, m - 1), source \in Sources,
           NEW add, IsRow(add, Samples),
           \A i \in 1..Samples : OfRow(add[i], r, Steps) /\ add[i].member = m /\ add[i].heads = Voters(m)
    PROVE  PooledSound(row \o add, r, m)
<1>1. PICK S \in Nat \ {0} : S = Samples
  BY Sizes
<1>2. PICK e \in Nat : e = (m - 1) * S
  <2>1. m - 1 \in Nat
    OBVIOUS
  <2>2. QED
    BY <2>1
<1>3. e + S = m * S
  BY <1>2
<1>4. PICK all : all = row \o add
  OBVIOUS
<1>5. IsRow(row, e) /\ IsRow(add, S)
  BY <1>1, <1>2 DEF PooledSound
<1>6. all = [i \in 1..e + S |-> IF i <= e THEN row[i] ELSE add[i - e]]
  <2>1. e \in Nat /\ S \in Nat
    OBVIOUS
  <2>2. row \o add = [i \in 1..e + S |-> IF i <= e THEN row[i] ELSE add[i - e]]
    <3>1. Joined(row, add, e, S)
      BY <1>5, <2>1, ConcatRow, Zenon
    <3>2. QED
      BY <3>1, Zenon DEF Joined
  <2>3. QED
    BY <1>4, <2>2, Zenon
<1>7. IsRow(all, e + S)
  BY <1>6 DEF IsRow
<1>8. ASSUME NEW i \in 1..e + S
      PROVE  OfRow(all[i], r, Steps) /\ all[i].member = MemberAt(i) /\ all[i].heads = Voters(MemberAt(i))
  <2>1. CASE i <= e
    <3>1. i \in 1..e /\ all[i] = row[i]
      BY <1>6, <2>1
    <3>2. QED
      BY <1>1, <1>2, <3>1 DEF PooledSound
  <2>2. CASE ~(i <= e)
    <3>1. PICK b \in 1..S : b = i - e /\ i = e + b
      BY <2>2
    <3>2. all[i] = add[b]
      BY <1>6, <2>2, <3>1
    <3>3. MemberAt(i) = m
      <4>1. ((m - 1) * S + (b - 1)) \div S = m - 1
        <5>1. m - 1 \in Nat /\ b - 1 \in 0..S - 1
          OBVIOUS
        <5>2. QED
          BY <5>1, Quotient
      <4>2. i - 1 = (m - 1) * S + (b - 1)
        BY <1>2, <3>1
      <4>3. (i - 1) \div S = m - 1
        BY <4>1, <4>2
      <4>4. QED
        BY <1>1, <4>3 DEF MemberAt
    <3>4. QED
      BY <1>1, <3>2, <3>3
  <2>3. QED
    BY <2>1, <2>2
<1>9. QED
  BY <1>1, <1>3, <1>4, <1>7, <1>8 DEF PooledSound

\* How many members have been at a row once one more has.
LEMMA DoneGrows ==
    ASSUME NEW p, NEW q, NEW f \in Nat \ {0}, NEW m \in 1..MemberCount, source \in Sources,
           p.first = f, p.member = m,
           IF m < MemberCount THEN q.first = f /\ q.member = m + 1
                              ELSE q.first = f + ChunkRows /\ q.member = 1,
           NEW r \in 1..Rows
    PROVE  Done(q, r) = IF f <= r /\ r < f + ChunkRows THEN m ELSE Done(p, r)
<1>1. PICK c \in Nat \ {0}, M \in Nat \ {0} : c = ChunkRows /\ M = MemberCount
  BY Sizes
<1>2. r \in Nat /\ m \in Nat /\ m <= M /\ 1 <= m
  BY <1>1, Sizes
<1>3. CASE m < M
  BY <1>1, <1>2, <1>3 DEF Done
<1>4. CASE ~(m < M)
  BY <1>1, <1>2, <1>4 DEF Done
<1>5. QED
  BY <1>3, <1>4

\* A rollout ends with its trajectories pooled.
LEMMA EndKeeps ==
    ASSUME NEW heads, heads = Voters(pass.member)
    PROVE  RolloutInv /\ EndRollout(heads) => RolloutInv'
<1>1. SUFFICES ASSUME RolloutInv, EndRollout(heads) PROVE RolloutInv'
  OBVIOUS
<1>2. RolloutGiven /\ source \in Sources /\ masked \in BOOLEAN /\ PassSound(pass) /\ RolloutSound(pass, pooled)
  BY <1>1 DEF RolloutInv, RolloutGiven, RolloutSound
<1>3. PICK f \in Nat \ {0}, m \in 1..MemberCount : f = pass.first /\ m = pass.member
  BY <1>2 DEF PassSound
<1>4. pass.k = Steps + 1 /\ pass.k > 0 /\ pass.k - 1 = Steps
  <2>1. pass.k = Steps + 1
    BY <1>1 DEF EndRollout
  <2>2. QED
    BY <1>2, <2>1, Sizes
<1>5. PICK S \in Nat \ {0}, w \in Nat \ {0} :
         /\ S = Samples /\ w = Width(f) /\ f <= Rows
         /\ InChunk = f .. f + w - 1 /\ InChunk \subseteq 1..Rows
  <2>1. pass.first \in Nat \ {0} /\ pass.first <= Rows
    BY <1>2, <1>3, <1>4 DEF PassSound
  <2>2. QED
    BY <1>2, <1>3, <2>1, ChunkIsInterval, Sizes
<1>6. /\ IsRow(pass.traj, w * S)
      /\ \A i \in 1..w * S : OfRow(pass.traj[i], RowAt(f, i), Steps) /\ pass.traj[i].member = m
  BY <1>2, <1>3, <1>4, <1>5 DEF PassSound
<1>7. PICK add : add = [r \in 1..Rows |-> [i \in 1..S |-> [pass.traj[(r - f) * S + i] EXCEPT !.heads = heads]]]
  OBVIOUS
<1>8. PICK q : q = [r \in 1..Rows |-> IF r \notin InChunk THEN pooled[r] ELSE pooled[r] \o add[r]]
  OBVIOUS
<1>9. pooled' = q
  <2>1. pooled' = [r \in 1..Rows |-> IF r \notin InChunk THEN pooled[r] ELSE pooled[r] \o
                     [i \in 1..S |-> [pass.traj[(r - f) * S + i] EXCEPT !.heads = heads]]]
    BY <1>1, <1>3, <1>5, Zenon DEF EndRollout
  <2>2. \A r \in 1..Rows : add[r] = [i \in 1..S |-> [pass.traj[(r - f) * S + i] EXCEPT !.heads = heads]]
    BY <1>7
  <2>3. QED
    BY <1>8, <2>1, <2>2, Zenon
<1>10. PICK p : p = IF m < MemberCount THEN [Idle_ EXCEPT !.first = f, !.member = m + 1]
                    ELSE [Idle_ EXCEPT !.first = f + ChunkRows]
  OBVIOUS
<1>11. pass' = p /\ Given
  BY <1>1, <1>3, <1>10, Zenon DEF EndRollout
<1>12. /\ DOMAIN p = {"first", "member", "k", "traj"} /\ p.k = 0
       /\ IF m < MemberCount THEN p.first = f /\ p.member = m + 1
                             ELSE p.first = f + ChunkRows /\ p.member = 1
  BY <1>10 DEF Idle_
<1>13. PassSound(p)
  <2>1. PICK c \in Nat \ {0}, M \in Nat \ {0} : c = ChunkRows /\ M = MemberCount
    BY <1>2, Sizes
  <2>2. p.first \in Nat \ {0} /\ p.member \in 1..MemberCount
    BY <1>12, <2>1
  <2>3. p.k \in 0..Steps + 1 /\ ~(p.k > 0)
    BY <1>2, <1>12, Sizes
  <2>4. QED
    BY <1>12, <2>2, <2>3 DEF PassSound
<1>14. ASSUME NEW r \in 1..Rows PROVE PooledSound(q[r], r, Done(p, r))
  <2>1. r \in InChunk <=> f <= r /\ r < f + ChunkRows
    BY <1>3 DEF InChunk
  <2>2. Done(p, r) = IF f <= r /\ r < f + ChunkRows THEN m ELSE Done(pass, r)
    BY <1>2, <1>3, <1>12, DoneGrows
  <2>3. PooledSound(pooled[r], r, Done(pass, r))
    BY <1>2 DEF RolloutSound
  <2>4. CASE r \notin InChunk
    BY <1>8, <2>1, <2>2, <2>3, <2>4
  <2>5. CASE r \in InChunk
    <3>1. f <= r /\ r < f + ChunkRows
      BY <2>1, <2>5
    <3>2. Done(pass, r) = m - 1 /\ Done(p, r) = m
      <4>1. ~(r < f) /\ r \in Nat
        BY <1>2, <3>1, Sizes
      <4>2. QED
        BY <1>3, <2>2, <3>1, <4>1 DEF Done
    <3>3. PICK row, new : row = pooled[r] /\ new = add[r]
      OBVIOUS
    <3>4. new = [i \in 1..S |-> [pass.traj[(r - f) * S + i] EXCEPT !.heads = heads]]
      BY <1>7, <3>3
    <3>5. IsRow(new, S)
      BY <3>4 DEF IsRow
    <3>6. ASSUME NEW i \in 1..S
          PROVE  OfRow(new[i], r, Steps) /\ new[i].member = m /\ new[i].heads = Voters(m)
      <4>1. PICK j : j = (r - f) * S + i
        OBVIOUS
      <4>2. j \in 1..w * S /\ RowAt(f, j) = r
        <5>1. f \in Nat /\ w \in Nat /\ r \in f .. f + w - 1
          BY <1>5, <2>5
        <5>2. Located((r - f) * S + i, f, r, w * S)
          BY <1>5, <5>1, WhereItIs, Zenon
        <5>3. QED
          BY <4>1, <5>2, Zenon DEF Located
      <4>3. PICK t : t = pass.traj[j]
        OBVIOUS
      <4>4. OfRow(t, r, Steps) /\ t.member = m
        BY <1>6, <4>2, <4>3
      <4>5. PICK u : u = [t EXCEPT !.heads = heads]
        OBVIOUS
      <4>6. /\ TrajectorySound(u, Steps, source, masked)
            /\ u.x = t.x /\ u.future = t.future /\ u.member = t.member /\ u.heads = heads
        BY <4>4, <4>5, HeadsAside DEF OfRow
      <4>7. new[i] = u
        BY <3>4, <4>1, <4>3, <4>5
      <4>8. QED
        BY <1>3, <4>4, <4>6, <4>7 DEF OfRow
    <3>7. m \in Nat \ {0}
      BY <1>2, Sizes
    <3>8. PooledSound(row \o new, r, m)
      BY <1>2, <1>5, <2>3, <3>2, <3>3, <3>5, <3>6, <3>7, PooledGrows
    <3>9. q[r] = row \o new
      BY <1>8, <2>5, <3>3
    <3>10. QED
      BY <3>2, <3>8, <3>9
  <2>6. QED
    BY <2>4, <2>5
<1>15. RolloutSound(p, q)
  <2>1. q = [r \in 1..Rows |-> q[r]]
    BY <1>8
  <2>2. QED
    BY <1>13, <1>14, <2>1 DEF RolloutSound
<1>16. QED
  BY <1>2, <1>9, <1>11, <1>15, GivenKeeps, Zenon

\* Initially no rollout has been begun.
LEMMA NothingRolledOut == RolloutInit => RolloutInv
<1>1. SUFFICES ASSUME RolloutInit PROVE RolloutInv
  OBVIOUS
<1>2. RolloutGiven
  BY <1>1 DEF RolloutInit, RolloutGiven
<1>3. PICK p, q : p = pass /\ q = pooled /\ p = Idle_ /\ q = [r \in 1..Rows |-> <<>>]
  BY <1>1 DEF RolloutInit
<1>4. source \in Sources
  BY <1>2 DEF RolloutGiven
<1>5. PassSound(p)
  <2>1. DOMAIN p = {"first", "member", "k", "traj"} /\ p.first = 1 /\ p.member = 1 /\ p.k = 0
    BY <1>3 DEF Idle_
  <2>2. 1 \in Nat \ {0} /\ 1 \in 1..MemberCount /\ 0 \in 0..Steps + 1 /\ ~(0 > 0)
    BY <1>4, Sizes
  <2>3. QED
    BY <2>1, <2>2 DEF PassSound
<1>6. ASSUME NEW r \in 1..Rows PROVE PooledSound(q[r], r, Done(p, r))
  <2>1. p.first = 1 /\ p.member = 1
    BY <1>3 DEF Idle_
  <2>2. Done(p, r) = 0
    <3>1. ~(r < 1) /\ 1 - 1 = 0
      BY <1>4, Sizes
    <3>2. QED
      BY <2>1, <3>1 DEF Done
  <2>3. q[r] = <<>>
    BY <1>3
  <2>4. IsRow(<<>>, 0)
    BY DEF IsRow
  <2>5. 0 * Samples = 0
    BY <1>4, Sizes
  <2>6. QED
    BY <2>2, <2>3, <2>4, <2>5 DEF PooledSound
<1>7. RolloutSound(p, q)
  BY <1>3, <1>5, <1>6 DEF RolloutSound
<1>8. QED
  BY <1>2, <1>3, <1>7 DEF RolloutInv

\* Every step of a rollout keeps it sound.
LEMMA RolloutKeeps == RolloutInv /\ [RolloutNext]_rolloutVars => RolloutInv'
<1>1. SUFFICES ASSUME RolloutInv, [RolloutNext]_rolloutVars PROVE RolloutInv'
  OBVIOUS
<1>2. RolloutGiven /\ source \in Sources /\ RolloutSound(pass, pooled)
  BY <1>1 DEF RolloutInv, RolloutGiven
<1>3. CASE BeginRollout
  BY <1>1, <1>3, BeginKeeps
<1>4. CASE \E noise \in IF Sampled THEN NoiseDraws(Len(pass.traj))
                        ELSE {[i \in DOMAIN pass.traj |-> 0]} : Step(noise)
  <2>1. PICK noise : Step(noise)
    BY <1>4, Zenon
  <2>2. QED
    BY <1>1, <2>1, StepKeeps
<1>5. CASE _rollout_risk
  <2>1. PICK heads : heads = IF trajectoryHead THEN {pass.member} ELSE 1..MemberCount
    OBVIOUS
  <2>2. Sampled /\ source # "free running" /\ EndRollout(heads)
    BY <1>5, <2>1 DEF _rollout_risk, Sampled
  <2>3. heads = Voters(pass.member)
    BY <2>1, <2>2 DEF Voters
  <2>4. QED
    BY <1>1, <2>2, <2>3, EndKeeps
<1>6. CASE ensemble_world_model_forecast
  <2>1. Sampled /\ ~trajectoryHead /\ EndRollout(1..MemberCount)
    BY <1>6 DEF ensemble_world_model_forecast, Sampled
  <2>2. 1..MemberCount = Voters(pass.member)
    BY <2>1 DEF Voters
  <2>3. QED
    BY <1>1, <2>1, <2>2, EndKeeps
<1>7. CASE _persist_rollout \/ _deterministic \/ _oracle_risk
  <2>1. ~Sampled /\ source # "free running" /\ EndRollout({pass.member})
    BY <1>7 DEF _persist_rollout, _deterministic, _oracle_risk, Sampled
  <2>2. {pass.member} = Voters(pass.member)
    BY <2>1 DEF Voters
  <2>3. QED
    BY <1>1, <2>1, <2>2, EndKeeps
<1>8. CASE free_running_metrics
  <2>1. ~Sampled /\ source = "free running" /\ EndRollout({})
    BY <1>8 DEF free_running_metrics, Sampled
  <2>2. {} = Voters(pass.member)
    BY <2>1 DEF Voters
  <2>3. QED
    BY <1>1, <2>1, <2>2, EndKeeps
<1>9. CASE UNCHANGED rolloutVars
  <2>1. Given /\ pass' = pass /\ pooled' = pooled
    BY <1>9 DEF rolloutVars, Given
  <2>2. QED
    BY <1>2, <2>1, GivenKeeps
<1>10. QED
  BY <1>1, <1>3, <1>4, <1>5, <1>6, <1>7, <1>8, <1>9 DEF RolloutNext

-----------------------------------------------------------------------------
\* What is read of a trajectory at its window n: the windows the trailing one has.
WindowsBehind(t, n, c) == [j \in 1..c |-> Seen(t, n - ContextWindows + j)]
Read(t, n) ==
    [state |-> Seen(t, n), hidden |-> WindowsBehind(t, n, ContextWindows),
     delta |-> Difference(Seen(t, n), Seen(t, n - 1)),
     logvar |-> [of |-> <<WindowsBehind(t, n, ContextWindows - 1), Seen(t, n - 1), Seen(t, n - 2)>>,
                 dropped |-> IF masked THEN "floor" ELSE "untrained"]]

\* The last windows of those up to one.
LEMMA LastOfSeen ==
    ASSUME NEW t, NEW n \in Nat, NEW c \in Nat \ {0}, c <= n
    PROVE  Last_(SeenUpTo(t, n), c) = [j \in 1..c |-> Seen(t, n - c + j)]
<1>1. PICK s : s = SeenUpTo(t, n)
  OBVIOUS
<1>2. \A i \in 1..n : s[i] = Seen(t, i)
  BY <1>1 DEF SeenUpTo
<1>3. IsRow(s, n)
  BY <1>1 DEF IsRow, SeenUpTo
<1>4. Len(s) = n
  BY <1>3, RowIsSequence
<1>5. PICK a \in 1..n : a = n - c + 1
  OBVIOUS
<1>6. n \in a..n /\ n - a + 1 = c
  BY <1>5
<1>7. SubSeq(s, a, n) = [i \in 1..n - a + 1 |-> s[a + i - 1]]
  BY <1>3, <1>6, PartOfRow
<1>8. SubSeq(s, a, n) = [i \in 1..c |-> s[a + i - 1]]
  BY <1>6, <1>7
<1>9. \A i \in 1..c : s[a + i - 1] = Seen(t, n - c + i)
  <2>1. TAKE i \in 1..c
  <2>2. PICK b \in 1..n : b = a + i - 1 /\ b = n - c + i
    BY <1>5
  <2>3. QED
    BY <1>2, <2>2
<1>10. [i \in 1..c |-> s[a + i - 1]] = [i \in 1..c |-> Seen(t, n - c + i)]
  BY <1>9, Zenon
<1>11. Last_(s, c) = SubSeq(s, a, n)
  BY <1>4, <1>5 DEF Last_
<1>12. QED
  BY <1>1, <1>8, <1>10, <1>11, Zenon

\* A head's inputs with two of them replaced.
Parts(st, hi, d, lv) == [state |-> st, hidden |-> hi, delta |-> d, logvar |-> lv]
Replaced(parts, hi, lv) == [parts EXCEPT !.hidden = hi, !.logvar = lv]
TwoOf(st, hi, d, lv, e, f) == Replaced(Parts(st, hi, d, lv), e, f) = Parts(st, e, d, f)

\* Replacing two of the parts leaves the others.
LEMMA TwoReplaced ==
    ASSUME NEW a, NEW b, NEW c, NEW d, NEW e, NEW f
    PROVE  TwoOf(a, b, c, d, e, f)
<1>1. PICK r : r = [state |-> a, hidden |-> b, delta |-> c, logvar |-> d]
  OBVIOUS
<1>2. PICK s : s = [r EXCEPT !.hidden = e, !.logvar = f]
  OBVIOUS
<1>3. DOMAIN s = {"state", "hidden", "delta", "logvar"}
  BY <1>1, <1>2
<1>4. s.state = a /\ s.hidden = e /\ s.delta = c /\ s.logvar = f
  BY <1>1, <1>2
<1>5. s = [i \in {"state", "hidden", "delta", "logvar"} |-> s[i]]
  BY <1>2, <1>3
<1>6. s = [state |-> a, hidden |-> e, delta |-> c, logvar |-> f]
  BY <1>3, <1>4, <1>5
<1>7. QED
  BY <1>1, <1>2, <1>6, Zenon DEF TwoOf, Replaced, Parts

\* A head's inputs at a step, trimmed.
Fed(t) == TrajectorySound(t, Steps, source, masked) /\ source # "free running"

\* What a head reads of a simulated step is what is read of a trajectory there.
LEMMA TrimmedIsRead ==
    ASSUME NEW t, NEW k \in Nat \ {0}, k \in 1..Steps, source \in Sources, Fed(t)
    PROVE  Trimmed(HeadParts(t, k)) = Read(t, ContextWindows + k)
<1>0. PICK c \in Nat : c = ContextWindows /\ c > 2
  <2>1. ContextWindows \in Nat \ 0..2
    BY Sizes
  <2>2. QED
    BY <2>1
<1>1. PICK n \in Nat : c = ContextWindows /\ n = c + k /\ n > c /\ c > 2
  <2>1. c + k \in Nat /\ c + k > c
    OBVIOUS
  <2>2. QED
    BY <1>0, <2>1
<1>2. StepSound(t, k, source, masked)
  BY DEF TrajectorySound, Fed
<1>3. t.hiddens[k] = SeenUpTo(t, n)
  BY <1>1, <1>2 DEF StepSound
<1>4. t.logvars[k] = Condition(t, n - 1, masked)
  <2>1. source # "free running"
    BY DEF Fed
  <2>2. t.logvars[k] = Condition(t, ContextWindows + k - 1, masked)
    BY <1>2, <2>1, Zenon DEF StepSound
  <2>3. ContextWindows + k - 1 = n - 1
    BY <1>1
  <2>4. QED
    BY <2>2, <2>3, Zenon
<1>5. t.states[k] = Seen(t, n)
  BY <1>1 DEF Seen
<1>6. realized_delta(t, k) = Difference(Seen(t, n), Seen(t, n - 1))
  <2>1. CASE k = 1
    <3>1. Seen(t, n - 1) = t.x[c]
      BY <1>1, <2>1 DEF Seen
    <3>2. QED
      BY <1>1, <1>5, <2>1, <3>1 DEF realized_delta
  <2>2. CASE k # 1
    <3>1. n - 1 > c /\ n - 1 - c = k - 1
      BY <1>1, <2>2
    <3>2. Seen(t, n - 1) = t.states[k - 1]
      BY <1>1, <3>1 DEF Seen
    <3>3. QED
      BY <1>5, <2>2, <3>2 DEF realized_delta
  <2>3. QED
    BY <2>1, <2>2
<1>7. Last_(SeenUpTo(t, n), c) = WindowsBehind(t, n, c)
  <2>1. Last_(SeenUpTo(t, n), c) = [j \in 1..c |-> Seen(t, n - c + j)]
    BY <1>1, LastOfSeen
  <2>2. QED
    BY <1>1, <2>1, Zenon DEF WindowsBehind
<1>8. Last_(SeenUpTo(t, n - 1), c - 1) = WindowsBehind(t, n, c - 1)
  <2>1. PICK a \in Nat, b \in Nat \ {0} : a = n - 1 /\ b = c - 1 /\ b <= a
    BY <1>1
  <2>2. Last_(SeenUpTo(t, a), b) = [j \in 1..b |-> Seen(t, a - b + j)]
    BY <2>1, LastOfSeen
  <2>3. a - b = n - c
    BY <1>1, <2>1
  <2>4. QED
    BY <1>1, <2>1, <2>2, <2>3, Zenon DEF WindowsBehind
<1>9. PICK parts : parts = HeadParts(t, k)
  OBVIOUS
<1>10. PICK lv : lv = Condition(t, n - 1, masked)
  OBVIOUS
<1>11. parts = [state |-> Seen(t, n), hidden |-> SeenUpTo(t, n),
                delta |-> Difference(Seen(t, n), Seen(t, n - 1)), logvar |-> lv]
  BY <1>3, <1>4, <1>5, <1>6, <1>9, <1>10, Zenon DEF HeadParts
<1>12. n - 1 - 1 = n - 2
  BY <1>1
<1>13. /\ lv.of[1] = SeenUpTo(t, n - 1) /\ lv.of[2] = Seen(t, n - 1) /\ lv.of[3] = Seen(t, n - 2)
       /\ lv.dropped = IF masked THEN "floor" ELSE "untrained"
  BY <1>10, <1>12 DEF Condition
<1>14. PICK d, st, hi : d = Difference(Seen(t, n), Seen(t, n - 1)) /\ st = Seen(t, n) /\ hi = SeenUpTo(t, n)
  OBVIOUS
<1>15. /\ parts = [state |-> st, hidden |-> hi, delta |-> d, logvar |-> lv]
       /\ parts.logvar = lv
  BY <1>11, <1>14
<1>16. Trimmed(parts) =
         [state |-> st, hidden |-> Last_(hi, c), delta |-> d,
          logvar |-> [of |-> <<Last_(lv.of[1], c - 1), lv.of[2], lv.of[3]>>, dropped |-> lv.dropped]]
  <2>1. PICK short, kept : /\ short = Last_(hi, c)
                          /\ kept = [of |-> <<Last_(lv.of[1], c - 1), lv.of[2], lv.of[3]>>, dropped |-> lv.dropped]
    OBVIOUS
  <2>2. parts.hidden = hi
    BY <1>15
  <2>3. Trimmed(parts) = [parts EXCEPT !.hidden = short, !.logvar = kept]
    <3>1. Trimmed(parts) =
            [parts EXCEPT !.hidden = Last_(parts.hidden, c),
                          !.logvar = [of |-> <<Last_(parts.logvar.of[1], c - 1), parts.logvar.of[2], parts.logvar.of[3]>>,
                                      dropped |-> parts.logvar.dropped]]
      BY <1>1, Zenon DEF Trimmed
    <3>2. QED
      BY <1>15, <2>1, <2>2, <3>1, Zenon
  <2>4. [parts EXCEPT !.hidden = short, !.logvar = kept] = [state |-> st, hidden |-> short, delta |-> d, logvar |-> kept]
    <3>1. parts = Parts(st, hi, d, lv)
      BY <1>15, Zenon DEF Parts
    <3>2. Replaced(parts, short, kept) = Parts(st, short, d, kept)
      <4>1. Replaced(Parts(st, hi, d, lv), short, kept) = Parts(st, short, d, kept)
        <5>1. TwoOf(st, hi, d, lv, short, kept)
          BY TwoReplaced, Zenon
        <5>2. QED
          BY <5>1, Zenon DEF TwoOf
      <4>2. QED
        BY <3>1, <4>1, Zenon
    <3>3. QED
      BY <3>2, Zenon DEF Replaced, Parts
  <2>5. QED
    BY <2>1, <2>3, <2>4, Zenon
<1>17. QED
  BY <1>1, <1>7, <1>8, <1>9, <1>13, <1>14, <1>16, Zenon DEF Read

\* The table of the windows of a trajectory.
LEMMA TableOfSeen ==
    ASSUME NEW t, t.x \in Histories, IsRow(t.states, Steps), NEW i \in 1..ContextWindows + Steps,
           source \in Sources
    PROVE  (t.x \o t.states)[i] = Seen(t, i)
<1>1. PICK c \in Nat, n \in Nat : c = ContextWindows /\ n = Steps
  BY Sizes
<1>2. PICK x, states, rows : x = t.x /\ states = t.states /\ rows = x \o states
  OBVIOUS
<1>3. IsRow(x, c)
  <2>1. x \in [1..ContextWindows -> WindowState]
    BY <1>2, RolloutAssumption
  <2>2. QED
    BY <1>1, <2>1 DEF IsRow
<1>4. IsRow(states, n)
  BY <1>1, <1>2
<1>5. Joined(x, states, c, n)
  BY <1>3, <1>4, ConcatRow, Zenon
<1>6. rows = [j \in 1..c + n |-> IF j <= c THEN x[j] ELSE states[j - c]]
  BY <1>2, <1>5, Zenon DEF Joined
<1>7. i \in 1..c + n
  BY <1>1
<1>8. rows[i] = IF i <= c THEN x[i] ELSE states[i - c]
  BY <1>6, <1>7
<1>9. QED
  BY <1>1, <1>2, <1>8 DEF Seen

\* A row of the training table, that of the windows of a trajectory.
LEMMA ContextIsRead ==
    ASSUME NEW t, t.x \in Histories, IsRow(t.states, Steps), source \in Sources,
           NEW n \in ContextWindows .. ContextWindows + Steps,
           NEW rows, \A i \in 1..n : rows[i] = Seen(t, i)
    PROVE  HeadContext(rows, n) = Read(t, n)
<1>1. PICK c \in Nat \ 0..2 : c = ContextWindows /\ c <= n /\ n \in Nat
  <2>1. ContextWindows \in Nat \ 0..2 /\ Steps \in Nat
    BY Sizes
  <2>2. QED
    BY <2>1
<1>2. PICK w : w = Trailing(rows, n)
  OBVIOUS
<1>3. w = WindowsBehind(t, n, c)
  <2>1. \A j \in 1..c : (IF n - c + j < 1 THEN Silent ELSE rows[n - c + j]) = Seen(t, n - c + j)
    <3>1. TAKE j \in 1..c
    <3>2. PICK i \in 1..n : i = n - c + j
      BY <1>1
    <3>3. QED
      BY <3>2
  <2>2. w = [j \in 1..c |-> IF n - c + j < 1 THEN Silent ELSE rows[n - c + j]]
    BY <1>1, <1>2, Zenon DEF Trailing
  <2>3. w = [j \in 1..c |-> Seen(t, n - c + j)]
    BY <2>1, <2>2, Zenon
  <2>4. QED
    BY <1>1, <2>3, Zenon DEF WindowsBehind
<1>4. \A j \in 1..c : w[j] = Seen(t, n - c + j)
  BY <1>1, <1>3 DEF WindowsBehind
<1>5. w[c - 1] = Seen(t, n - 1) /\ w[c - 2] = Seen(t, n - 2)
  <2>1. c - 1 \in 1..c /\ c - 2 \in 1..c /\ n - c + (c - 1) = n - 1 /\ n - c + (c - 2) = n - 2
    BY <1>1
  <2>2. w[c - 1] = Seen(t, n - c + (c - 1)) /\ w[c - 2] = Seen(t, n - c + (c - 2))
    BY <1>4, <2>1
  <2>3. QED
    BY <2>1, <2>2
<1>6. rows[n] = Seen(t, n)
  BY <1>1
<1>7. SubSeq(w, 1, c - 1) = WindowsBehind(t, n, c - 1)
  <2>1. IsRow(w, c)
    BY <1>1, <1>3 DEF IsRow, WindowsBehind
  <2>2. PICK b \in 1..c : b = c - 1 /\ b - 1 + 1 = b
    BY <1>1
  <2>3. SubSeq(w, 1, b) = [i \in 1..b - 1 + 1 |-> w[1 + i - 1]]
    BY <1>1, <2>1, <2>2, PartOfRow
  <2>4. \A i \in 1..b : w[1 + i - 1] = Seen(t, n - c + i)
    <3>1. TAKE i \in 1..b
    <3>2. i \in 1..c /\ 1 + i - 1 = i
      BY <1>1, <2>2
    <3>3. QED
      BY <1>4, <3>2
  <2>5. SubSeq(w, 1, b) = [i \in 1..b |-> w[1 + i - 1]]
    BY <2>2, <2>3
  <2>6. SubSeq(w, 1, b) = [i \in 1..b |-> Seen(t, n - c + i)]
    BY <2>4, <2>5, Zenon
  <2>7. QED
    BY <1>1, <2>2, <2>6, Zenon DEF WindowsBehind
<1>8. PICK out : out = transition(1, SubSeq(w, 1, c - 1), w[c - 1], w[c - 2]).logvar
  OBVIOUS
<1>9. out = [of |-> <<SubSeq(w, 1, c - 1), w[c - 1], w[c - 2]>>, dropped |-> "untrained"]
  BY <1>8 DEF transition
<1>10. mask_logvar(out) = [of |-> <<SubSeq(w, 1, c - 1), w[c - 1], w[c - 2]>>,
                           dropped |-> IF masked THEN "floor" ELSE "untrained"]
  BY <1>9 DEF mask_logvar
<1>11. HeadContext(rows, n) =
         [state |-> rows[n], hidden |-> w, delta |-> Difference(rows[n], w[c - 1]), logvar |-> mask_logvar(out)]
  BY <1>1, <1>2, <1>8, Zenon DEF HeadContext
<1>12. QED
  BY <1>1, <1>3, <1>5, <1>6, <1>7, <1>10, <1>11, Zenon DEF Read

-----------------------------------------------------------------------------
\* What a row that has been pooled is.
LEMMA PooledParts ==
    ASSUME RolloutInv, NEW r \in 1..Rows, NEW i \in DOMAIN pooled[r]
    PROVE  /\ OfRow(pooled[r][i], r, Steps)
           /\ pooled[r][i].member = MemberAt(i) /\ pooled[r][i].heads = Voters(MemberAt(i))
<1>1. PooledSound(pooled[r], r, Done(pass, r))
  BY DEF RolloutInv, RolloutSound
<1>2. DOMAIN pooled[r] = 1..Done(pass, r) * Samples
  BY <1>1 DEF PooledSound, IsRow
<1>3. QED
  BY <1>1, <1>2 DEF PooledSound

\* How many there are of it once its chunk is behind.
LEMMA PooledWhole ==
    ASSUME RolloutInv, NEW r \in 1..Rows, r < pass.first
    PROVE  IsRow(pooled[r], MemberCount * Samples)
<1>1. Done(pass, r) = MemberCount
  BY DEF Done
<1>2. QED
  BY <1>1 DEF RolloutInv, RolloutSound, PooledSound

\* Every row has its own trajectories, and all of them once its chunk is behind.
LEMMA RowsAreTheirOwn == RolloutInv => EveryRowItsOwn
<1>1. SUFFICES ASSUME RolloutInv PROVE EveryRowItsOwn
  OBVIOUS
<1>2. ASSUME NEW r \in 1..Rows, NEW i \in DOMAIN pooled[r] PROVE pooled[r][i].x = observed[r]
  BY <1>1, PooledParts DEF OfRow
<1>3. ASSUME NEW r \in 1..Rows, r < pass.first PROVE Len(pooled[r]) = MemberCount * Samples
  <2>1. PICK n \in Nat : n = MemberCount * Samples
    <3>1. source \in Sources
      BY <1>1 DEF RolloutInv, RolloutGiven
    <3>2. PICK a \in Nat, b \in Nat : a = MemberCount /\ b = Samples
      BY <3>1, Sizes
    <3>3. a * b \in Nat
      OBVIOUS
    <3>4. QED
      BY <3>2, <3>3
  <2>2. IsRow(pooled[r], n)
    BY <1>1, <1>3, <2>1, PooledWhole
  <2>3. Len(pooled[r]) = n
    BY <2>2, RowIsSequence
  <2>4. QED
    BY <2>1, <2>3
<1>4. QED
  BY <1>2, <1>3 DEF EveryRowItsOwn

-----------------------------------------------------------------------------
\* The elements of a row that are one member's.
LEMMA ElementsOfMember ==
    ASSUME NEW S \in Nat \ {0}, S = Samples, NEW M \in Nat \ {0}, NEW m \in 1..M
    PROVE  /\ {i \in 1..M * S : MemberAt(i) = m} = (m - 1) * S + 1 .. (m - 1) * S + S
           /\ Cardinality((m - 1) * S + 1 .. (m - 1) * S + S) = S
<1>1. PICK a \in Nat, e \in Nat : a = m - 1 /\ e = a * S
  <2>1. m - 1 \in Nat
    OBVIOUS
  <2>2. QED
    BY <2>1
<1>2. PICK z \in Nat : z = M * S
  OBVIOUS
<1>3. e + S <= z
  <2>1. a + 1 <= M
    BY <1>1
  <2>2. (a + 1) * S <= M * S
    BY <1>1, <2>1
  <2>3. (a + 1) * S = a * S + S
    BY <1>1
  <2>4. QED
    BY <1>1, <1>2, <2>2, <2>3
<1>4. ASSUME NEW i \in 1..z PROVE MemberAt(i) = m <=> i \in e + 1 .. e + S
  <2>0. (i - 1) \div S \in 0..M - 1 /\ \E b \in 1..S : i = ((i - 1) \div S) * S + b
    <3>1. M \in Nat /\ i \in 1..M * S
      BY <1>2
    <3>2. InGroup(i, S, M)
      BY <3>1, Grouped
    <3>3. QED
      BY <3>2, Zenon DEF InGroup
  <2>1. PICK q \in Nat : q = (i - 1) \div S
    BY <2>0
  <2>2. PICK b \in 1..S : i = q * S + b
    <3>1. \E b \in 1..S : i = ((i - 1) \div S) * S + b
      BY <2>0
    <3>2. QED
      BY <2>1, <3>1
  <2>3. MemberAt(i) = q + 1
    BY <2>1 DEF MemberAt
  <2>4. CASE q = a
    <3>1. i = e + b
      BY <1>1, <2>2, <2>4
    <3>2. i \in e + 1 .. e + S
      BY <3>1
    <3>3. QED
      BY <1>1, <2>3, <2>4, <3>2
  <2>5. CASE q # a
    <3>1. PICK x \in Nat : x = q * S /\ i = x + b
      BY <2>2
    <3>2. CASE q < a
      <4>1. q + 1 <= a
        BY <3>2
      <4>2. (q + 1) * S <= a * S
        BY <4>1
      <4>3. (q + 1) * S = q * S + S
        OBVIOUS
      <4>4. i <= e
        BY <1>1, <3>1, <4>2, <4>3
      <4>5. QED
        BY <1>1, <2>3, <2>5, <4>4
    <3>3. CASE q > a
      <4>1. a + 1 <= q
        BY <3>3
      <4>2. (a + 1) * S <= q * S
        BY <4>1
      <4>3. (a + 1) * S = a * S + S
        OBVIOUS
      <4>4. i > e + S
        BY <1>1, <3>1, <4>2, <4>3
      <4>5. QED
        BY <1>1, <2>3, <2>5, <4>4
    <3>4. QED
      BY <2>5, <3>2, <3>3
  <2>6. QED
    BY <2>4, <2>5
<1>5. {i \in 1..z : MemberAt(i) = m} = e + 1 .. e + S
  <2>1. e + 1 .. e + S \subseteq 1..z
    BY <1>3
  <2>2. QED
    BY <1>4, <2>1
<1>6. Cardinality(e + 1 .. e + S) = S
  <2>1. PICK a1 \in Int, b1 \in Int : a1 = e + 1 /\ b1 = e + S /\ b1 - a1 + 1 = S /\ a1 <= b1
    OBVIOUS
  <2>2. Cardinality(a1 .. b1) = b1 - a1 + 1
    BY <2>1, FS_Interval
  <2>3. QED
    BY <2>1, <2>2
<1>7. QED
  BY <1>1, <1>2, <1>5, <1>6

\* The elements of a row whose heads a member's are among.
VotesOf(r, m) == {i \in DOMAIN pooled[r] : m \in pooled[r][i].heads}

\* Two members have as many votes on a row.
LEMMA AsManyVotes ==
    ASSUME RolloutInv, NEW r \in 1..Rows, r < pass.first,
           NEW m \in 1..MemberCount, NEW n \in 1..MemberCount
    PROVE  Cardinality(VotesOf(r, m)) = Cardinality(VotesOf(r, n))
<1>1. source \in Sources
  BY DEF RolloutInv, RolloutGiven
<1>2. PICK S \in Nat \ {0}, M \in Nat \ {0} : S = Samples /\ M = MemberCount
  BY <1>1, Sizes
<1>3. DOMAIN pooled[r] = 1..M * S
  BY <1>2, PooledWhole DEF IsRow
<1>4. ASSUME NEW x PROVE VotesOf(r, x) = {i \in 1..M * S : x \in Voters(MemberAt(i))}
  BY <1>3, PooledParts DEF VotesOf
<1>5. CASE Sampled /\ ~trajectoryHead
  <2>1. \A x : Voters(x) = 1..MemberCount
    BY <1>5 DEF Voters
  <2>2. VotesOf(r, m) = 1..M * S /\ VotesOf(r, n) = 1..M * S
    BY <1>4, <2>1
  <2>3. QED
    BY <2>2
<1>6. CASE ~(Sampled /\ ~trajectoryHead) /\ source = "free running"
  <2>1. \A x : Voters(x) = {}
    BY <1>6 DEF Voters
  <2>2. VotesOf(r, m) = {} /\ VotesOf(r, n) = {}
    BY <1>4, <2>1
  <2>3. QED
    BY <2>2
<1>7. CASE ~(Sampled /\ ~trajectoryHead) /\ ~(source = "free running")
  <2>1. \A x : Voters(x) = {x}
    BY <1>7 DEF Voters
  <2>2. ASSUME NEW x \in 1..M PROVE Cardinality(VotesOf(r, x)) = S
    <3>1. VotesOf(r, x) = {i \in 1..M * S : MemberAt(i) = x}
      BY <1>4, <2>1
    <3>2. VotesOf(r, x) = (x - 1) * S + 1 .. (x - 1) * S + S
      BY <1>2, <3>1, ElementsOfMember
    <3>3. Cardinality((x - 1) * S + 1 .. (x - 1) * S + S) = S
      BY <1>2, ElementsOfMember
    <3>4. QED
      BY <3>2, <3>3, Zenon
  <2>3. QED
    BY <1>2, <2>2
<1>8. QED
  BY <1>5, <1>6, <1>7

\* The members of an ensemble have equal votes.
LEMMA VotesOfEach == RolloutInv => VotesAreEqual
<1>1. SUFFICES ASSUME RolloutInv PROVE VotesAreEqual
  OBVIOUS
<1>2. ASSUME NEW r \in 1..Rows, trajectoryHead, NEW i \in DOMAIN pooled[r]
      PROVE  pooled[r][i].heads \subseteq {pooled[r][i].member}
  <2>1. pooled[r][i].member = MemberAt(i) /\ pooled[r][i].heads = Voters(MemberAt(i))
    BY <1>1, PooledParts
  <2>2. Voters(MemberAt(i)) \subseteq {MemberAt(i)}
    BY <1>2 DEF Voters
  <2>3. QED
    BY <2>1, <2>2, Zenon
<1>3. ASSUME NEW r \in 1..Rows, r < pass.first, NEW m \in 1..MemberCount, NEW n \in 1..MemberCount
      PROVE  Cardinality({i \in DOMAIN pooled[r] : m \in pooled[r][i].heads})
               = Cardinality({i \in DOMAIN pooled[r] : n \in pooled[r][i].heads})
  BY <1>1, <1>3, AsManyVotes, Zenon DEF VotesOf
<1>4. QED
  BY <1>2, <1>3, Zenon DEF VotesAreEqual

-----------------------------------------------------------------------------
\* A history is read of its last window as a trajectory is, and as in training.
LEMMA OriginIsRead ==
    ASSUME NEW x \in Histories, source \in Sources
    PROVE  observed_context(x) = HeadContext(x, ContextWindows)
<1>1. PICK c \in Nat : c = ContextWindows /\ c > 2
  <2>1. ContextWindows \in Nat \ 0..2
    BY Sizes
  <2>2. QED
    BY <2>1
<1>2. x = [j \in 1..c |-> x[j]]
  <2>1. x \in [1..ContextWindows -> WindowState]
    BY RolloutAssumption
  <2>2. QED
    BY <1>1, <2>1
<1>3. Trailing(x, c) = x
  <2>1. \A j \in 1..c : (IF c - c + j < 1 THEN Silent ELSE x[c - c + j]) = x[j]
    <3>1. TAKE j \in 1..c
    <3>2. c - c + j = j /\ ~(j < 1)
      BY <1>1
    <3>3. QED
      BY <3>2
  <2>2. Trailing(x, c) = [j \in 1..c |-> IF c - c + j < 1 THEN Silent ELSE x[c - c + j]]
    BY <1>1, Zenon DEF Trailing
  <2>3. QED
    BY <1>2, <2>1, <2>2, Zenon
<1>4. QED
  BY <1>1, <1>3, Zenon DEF observed_context, HeadContext

\* Heads read of a rollout what they were trained on (score_trajectory, build_head_context).
LEMMA ReadIsTrained == RolloutInv => ReadAsTrained
<1>1. SUFFICES ASSUME RolloutInv PROVE ReadAsTrained
  OBVIOUS
<1>2. RolloutGiven /\ source \in Sources
  BY <1>1 DEF RolloutInv, RolloutGiven
<1>3. ASSUME NEW r \in 1..Rows
      PROVE  observed_context(observed[r]) = HeadContext(observed[r], ContextWindows)
  <2>1. observed[r] \in Histories
    BY <1>2 DEF RolloutGiven
  <2>2. QED
    BY <1>2, <2>1, OriginIsRead
<1>4. ASSUME source # "free running", NEW r \in 1..Rows, NEW i \in DOMAIN pooled[r], NEW k \in 1..Steps
      PROVE  Trimmed(HeadParts(pooled[r][i], k))
               = HeadContext(pooled[r][i].x \o pooled[r][i].states, ContextWindows + k)
  <2>1. PICK t : t = pooled[r][i]
    OBVIOUS
  <2>2. TrajectorySound(t, Steps, source, masked)
    BY <1>1, <2>1, PooledParts DEF OfRow
  <2>3. Fed(t)
    BY <1>4, <2>2 DEF Fed
  <2>4. t.x \in Histories /\ IsRow(t.states, Steps)
    BY <2>2 DEF TrajectorySound
  <2>5. PICK c \in Nat, steps \in Nat : c = ContextWindows /\ steps = Steps
    BY <1>2, Sizes
  <2>6. k \in Nat \ {0} /\ k \in 1..Steps
    BY <2>5
  <2>7. Trimmed(HeadParts(t, k)) = Read(t, ContextWindows + k)
    BY <1>2, <2>3, <2>6, TrimmedIsRead
  <2>8. PICK n \in Nat : n = c + k /\ n >= c /\ n <= c + steps
    BY <2>5
  <2>9. PICK rows : rows = t.x \o t.states
    OBVIOUS
  <2>10. \A j \in 1..n : rows[j] = Seen(t, j)
    <3>1. TAKE j \in 1..n
    <3>2. j \in 1..ContextWindows + Steps
      BY <2>5, <2>8
    <3>3. QED
      BY <1>2, <2>4, <2>9, <3>2, TableOfSeen
  <2>11. n \in ContextWindows .. ContextWindows + Steps
    BY <2>5, <2>8
  <2>12. HeadContext(rows, n) = Read(t, n)
    BY <1>2, <2>4, <2>10, <2>11, ContextIsRead
  <2>13. n = ContextWindows + k
    BY <2>5, <2>8
  <2>14. QED
    BY <2>1, <2>7, <2>9, <2>12, <2>13, Zenon
<1>5. QED
  BY <1>3, <1>4, Zenon DEF ReadAsTrained

\* What the scaler dropped stays zero through a masked rollout.
LEMMA DroppedStays == RolloutInv => DroppedStaysDropped
<1>1. SUFFICES ASSUME RolloutInv, masked, source # "free running",
                      NEW r \in 1..Rows, NEW i \in DOMAIN pooled[r], NEW k \in 1..Steps
               PROVE  /\ pooled[r][i].states[k].dropped = 0 /\ pooled[r][i].mus[k].dropped = 0
                      /\ pooled[r][i].logvars[k].dropped = "floor"
  BY Zenon DEF DroppedStaysDropped
<1>2. PICK t : t = pooled[r][i]
  OBVIOUS
<1>3. StepSound(t, k, source, masked)
  BY <1>1, <1>2, PooledParts DEF OfRow, TrajectorySound
<1>4. t.states[k].dropped = 0 /\ t.mus[k].dropped = 0
  BY <1>1, <1>3, Zenon DEF StepSound
<1>5. t.logvars[k] = Condition(t, ContextWindows + k - 1, masked)
  BY <1>1, <1>3, Zenon DEF StepSound
<1>6. t.logvars[k].dropped = "floor"
  <2>1. Condition(t, ContextWindows + k - 1, masked).dropped = IF masked THEN "floor" ELSE "untrained"
    BY DEF Condition
  <2>2. QED
    BY <1>1, <1>5, <2>1, Zenon
<1>7. QED
  BY <1>2, <1>4, <1>6

\* A trajectory that has been rolled out is what its source makes of it.
ReferenceSound(t, r) ==
    LET at(k) == IF k = 0 THEN t.x[ContextWindows] ELSE t.states[k]
    IN  /\ source = "persist" => \A k \in 1..Steps :
                at(k) = at(0) /\ realized_delta(t, k).kept = 0 /\ t.mus[k].kept = 0
        /\ source = "zero mu" => \A k \in 1..Steps : t.mus[k].kept = 0
        /\ source = "truth" => t.states = truth[r]
        /\ source \in {"deterministic", "free running"} /\ ~masked => \A k \in 1..Steps :
                at(k).kept = Clamped(at(k - 1).kept + t.mus[k].kept)

\* A trajectory of each of the sources differs in its state only.
LEMMA ReferenceIsSound ==
    ASSUME RolloutGiven, NEW t, NEW r \in 1..Rows, OfRow(t, r, Steps)
    PROVE  ReferenceSound(t, r)
<1>1. source \in Sources /\ truth[r] \in Futures
  BY DEF RolloutGiven
<1>2. PICK c \in Nat, steps \in Nat : c = ContextWindows /\ steps = Steps /\ c > 2
  <2>1. ContextWindows \in Nat \ 0..2 /\ Steps \in Nat
    BY <1>1, Sizes
  <2>2. QED
    BY <2>1
<1>3. TrajectorySound(t, Steps, source, masked) /\ t.future = truth[r]
  BY DEF OfRow
<1>4. \A k \in 1..steps : StepSound(t, k, source, masked)
  BY <1>2, <1>3 DEF TrajectorySound
<1>5. t.x \in Histories /\ IsRow(t.states, steps)
  BY <1>2, <1>3 DEF TrajectorySound
<1>6. PICK last : last = t.x[c] /\ last \in WindowState
  <2>1. t.x \in [1..c -> WindowState] /\ c \in 1..c
    BY <1>2, <1>5, RolloutAssumption
  <2>2. QED
    BY <2>1
<1>7. last.kept \in Int
  BY <1>6, ClampedWindow
<1>8. ASSUME source = "persist", NEW k \in 1..steps
      PROVE  t.states[k] = last /\ realized_delta(t, k).kept = 0 /\ t.mus[k].kept = 0
  <2>1. \A j \in 1..steps : t.states[j] = last /\ t.mus[j].kept = 0
    <3>1. TAKE j \in 1..steps
    <3>2. StepSound(t, j, source, masked)
      BY <1>4
    <3>3. t.states[j] = t.x[ContextWindows] /\ t.mus[j].kept = 0
      BY <1>8, <3>2, Zenon DEF StepSound
    <3>4. QED
      BY <1>2, <1>6, <3>3
  <2>2. PICK before : before = IF k = 1 THEN t.x[ContextWindows] ELSE t.states[k - 1]
    OBVIOUS
  <2>3. before = last
    <3>1. CASE k = 1
      BY <1>2, <1>6, <2>2, <3>1
    <3>2. CASE k # 1
      <4>1. k - 1 \in 1..steps
        BY <3>2
      <4>2. QED
        BY <2>1, <2>2, <3>2, <4>1
    <3>3. QED
      BY <3>1, <3>2
  <2>4. realized_delta(t, k) = Difference(t.states[k], before)
    BY <2>2, Zenon DEF realized_delta
  <2>5. realized_delta(t, k) = Difference(last, last)
    BY <2>1, <2>3, <2>4
  <2>6. Difference(last, last).kept = last.kept - last.kept
    BY DEF Difference
  <2>7. last.kept - last.kept = 0
    BY <1>7
  <2>8. QED
    BY <2>1, <2>5, <2>6, <2>7
<1>9. ASSUME source = "zero mu", NEW k \in 1..steps PROVE t.mus[k].kept = 0
  BY <1>4, <1>9, Zenon DEF StepSound
<1>10. ASSUME source = "truth" PROVE t.states = truth[r]
  <2>1. \A k \in 1..steps : t.states[k] = truth[r][k]
    <3>1. TAKE k \in 1..steps
    <3>2. StepSound(t, k, source, masked)
      BY <1>4
    <3>3. t.states[k] = t.future[k]
      BY <1>10, <3>2, Zenon DEF StepSound
    <3>4. QED
      BY <1>3, <3>3
  <2>2. truth[r] = [k \in 1..steps |-> truth[r][k]]
    <3>1. truth[r] \in [1..steps -> WindowState]
      BY <1>1, <1>2, RolloutAssumption
    <3>2. QED
      BY <3>1
  <2>3. t.states = [k \in 1..steps |-> t.states[k]]
    BY <1>5 DEF IsRow
  <2>4. QED
    BY <2>1, <2>2, <2>3, Zenon
<1>11. PICK at : at = [k \in 0..steps |-> IF k = 0 THEN t.x[ContextWindows] ELSE t.states[k]]
  OBVIOUS
<1>12. ASSUME source \in {"deterministic", "free running"}, ~masked, NEW k \in 1..steps
       PROVE  at[k].kept = Clamped(at[k - 1].kept + t.mus[k].kept)
  <2>1. StepSound(t, k, source, masked)
    BY <1>4
  <2>2. t.states[k].kept = Clamped(Seen(t, ContextWindows + k - 1).kept + t.mus[k].kept)
    BY <1>12, <2>1, Zenon DEF StepSound
  <2>3. PICK n \in Nat, p \in 0..steps : n = c + k - 1 /\ p = k - 1 /\ n = ContextWindows + k - 1 /\ n = c + p
    BY <1>2
  <2>4. Seen(t, n) = at[p]
    <3>1. CASE p = 0
      BY <1>2, <1>11, <2>3, <3>1 DEF Seen
    <3>2. CASE p # 0
      <4>1. ~(n <= c) /\ n - c = p
        BY <2>3, <3>2
      <4>2. QED
        BY <1>2, <1>11, <3>2, <4>1 DEF Seen
    <3>3. QED
      BY <3>1, <3>2
  <2>5. at[k] = t.states[k]
    BY <1>11
  <2>6. QED
    BY <2>2, <2>3, <2>4, <2>5
<1>13. \A k \in 0..steps : at[k] = IF k = 0 THEN t.x[ContextWindows] ELSE t.states[k]
  BY <1>11
<1>14. source = "persist" => \A k \in 1..Steps :
          /\ (IF k = 0 THEN t.x[ContextWindows] ELSE t.states[k])
               = (IF 0 = 0 THEN t.x[ContextWindows] ELSE t.states[0])
          /\ realized_delta(t, k).kept = 0 /\ t.mus[k].kept = 0
  <2>1. SUFFICES ASSUME source = "persist", NEW k \in 1..steps
                 PROVE  /\ (IF k = 0 THEN t.x[ContextWindows] ELSE t.states[k])
                             = (IF 0 = 0 THEN t.x[ContextWindows] ELSE t.states[0])
                        /\ realized_delta(t, k).kept = 0 /\ t.mus[k].kept = 0
    BY <1>2
  <2>2. t.states[k] = last /\ t.x[ContextWindows] = last
    BY <1>2, <1>6, <1>8, <2>1
  <2>3. QED
    BY <1>8, <2>1, <2>2
<1>15. source \in {"deterministic", "free running"} /\ ~masked => \A k \in 1..Steps :
          (IF k = 0 THEN t.x[ContextWindows] ELSE t.states[k]).kept
            = Clamped((IF k - 1 = 0 THEN t.x[ContextWindows] ELSE t.states[k - 1]).kept + t.mus[k].kept)
  <2>1. SUFFICES ASSUME source \in {"deterministic", "free running"}, ~masked, NEW k \in 1..steps
                 PROVE  (IF k = 0 THEN t.x[ContextWindows] ELSE t.states[k]).kept
                          = Clamped((IF k - 1 = 0 THEN t.x[ContextWindows] ELSE t.states[k - 1]).kept + t.mus[k].kept)
    BY <1>2
  <2>2. k \in 0..steps /\ k - 1 \in 0..steps
    BY <1>2
  <2>3. QED
    BY <1>12, <1>13, <2>1, <2>2, Zenon
<1>16. source = "zero mu" => \A k \in 1..Steps : t.mus[k].kept = 0
  BY <1>2, <1>9
<1>17. source = "truth" => t.states = truth[r]
  BY <1>10
<1>18. QED
  BY <1>14, <1>15, <1>16, <1>17, Zenon DEF ReferenceSound

\* The references replace the state and nothing else.
LEMMA ReferencesDiffer == RolloutInv => ReferencesDifferInTheState
<1>1. SUFFICES ASSUME RolloutInv PROVE ReferencesDifferInTheState
  OBVIOUS
<1>2. \A r \in 1..Rows : \A i \in DOMAIN pooled[r] : ReferenceSound(pooled[r][i], r)
  BY <1>1, PooledParts, ReferenceIsSound DEF RolloutInv
<1>3. QED
  BY <1>2, Zenon DEF ReferencesDifferInTheState, ReferenceSound

\* The invariant is strong enough.
LEMMA RolloutIsSound == RolloutInv => RolloutIsOneSimulation
BY RowsAreTheirOwn, VotesOfEach, ReadIsTrained, DroppedStays, ReferencesDiffer DEF RolloutIsOneSimulation

\* A rollout is one simulation: every trajectory continues its own row, and
\* what a frozen head reads of it is aligned as it was in the head's training,
\* however many rows, samples, members, steps and windows of context there are
\* and whatever the transition emits (world_model.py's rollout, head_context.py).
THEOREM RolloutInvariant == RolloutSpec => []RolloutIsOneSimulation
<1>1. RolloutSpec => []RolloutInv
  BY NothingRolledOut, RolloutKeeps, PTL DEF RolloutSpec
<1>2. QED
  BY <1>1, RolloutIsSound, PTL

\* A score is of one simulation of one context: rollouts and scoring together.
THEOREM SimulationInvariant == SimulationSpec => []ScoresAreOfOneSimulation
<1>1. RolloutIsOneSimulation /\ ServedIsMeasured => ScoresAreOfOneSimulation
  BY DEF ScoresAreOfOneSimulation
<1>2. QED
  BY <1>1, RolloutInvariant, ScoringInvariant, PTL DEF SimulationSpec
=============================================================================
