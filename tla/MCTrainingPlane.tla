--------------------------- MODULE MCTrainingPlane ---------------------------
(* Instances of the components around the model, from the packets of a     *)
(* capture to the score of a forecast and the reports about it: `unit`     *)
(* names the one that runs.  They share files, not state; the others stay. *)
EXTENDS TrainingData, FlowAssembly, StateTable, CaptureAnalysis, ModelTraining, Simulation,
        WindowFeatures, HeadTraining, EvalReports

VARIABLE unit

MCRegimeOf == [c1 |-> "full", c2 |-> "core"]

(* Events of one window and its neighbours: flows and packets of host 1,    *)
(* towards it and past it.                                                  *)
Flow(src, dst, n, syn, iat) ==
    [kind |-> "flow", src |-> src, dst |-> dst, pkts |-> n, syn |-> syn, iat |-> iat, len |-> -1, retrans |-> 0]
Packet(src, dst, syn, len, retrans) ==
    [kind |-> "packet", src |-> src, dst |-> dst, pkts |-> 1, syn |-> syn, iat |-> 0, len |-> len, retrans |-> retrans]
MCEventPool == {Flow(1, 2, 2, 1, 3), Packet(1, 4, 1, 2, 1), Flow(3, 1, 1, 0, 2), Flow(2, 3, 1, 0, 1)}

(* Sixteen bits keep the multiples of four.                                *)
MCFloat16 == [x \in 0..One |-> ((x + 2) \div 4) * 4]

(* Three experiments, of two regimes and three head inputs.                 *)
MCLabelRegime == [a |-> "full", b |-> "full", c |-> "core"]
MCLabelComponents == [a |-> "state+hidden", b |-> "state+delta", c |-> "state"]
MCHeadWidth == [x \in {"state", "state+hidden", "state+delta"} |-> IF x = "state" THEN 1 ELSE 2]
MCSeeds == <<1, 2>>
MCSeedChoices == {<<1, 2>>, <<2>>}

(* A transition that depends on everything it may read.                     *)
MCMove(m, h, cur, prev) == (cur.kept - prev.kept) + h[1].kept + m - 1
MCDraws(n) == {[i \in 1..n |-> 0], [i \in 1..n |-> i % 2]}
MCKept(s) == [k \in DOMAIN s |-> [kept |-> s[k], dropped |-> 0]]
MCHistories == {MCKept(<<0, 0, 0>>), MCKept(<<1, 0, 2>>)}
MCFutures == {MCKept(<<2, 1>>)}

(* Two hosts; the table in, between and against the order of its hosts.     *)
MCHostRank == <<"a", "b">>
MCRowsOf(h) == [i \in 1..LastRow |-> [host |-> h, ts |-> i]]
MCShuffles == {MCRowsOf("b") \o MCRowsOf("a"), Reverse(MCRowsOf("a") \o MCRowsOf("b")),
               [i \in 1..2*LastRow |-> [host |-> IF i % 2 = 0 THEN "a" ELSE "b", ts |-> (i + 1) \div 2]]}
MCAttackSets == {S \cup {[host |-> "b", ts |-> 3]} : S \in SUBSET {[host |-> "a", ts |-> t] : t \in 1..LastRow}}
MCSilentSets == {{}, {[host |-> "b", ts |-> t] : t \in {1, 2, 5}} \cup {[host |-> "a", ts |-> t] : t \in {2, 4}}}
MCStageAt(r) == IF r.ts % 2 = 0 THEN "recon" ELSE "exfil"
MCHorizons == <<1, 3>>
MCHardShare == <<1, 2>>

(* Splits of two, three and one window; three ways to pool.                 *)
MCSplitRows == [s \in {"val", "test", "holdout"} |->
                  CASE s = "val" -> {1, 2} [] s = "test" -> {4, 5, 6} [] s = "holdout" -> {7}]
MCEarlyRows == {1, 4, 5, 7}
MCFuture == [r \in 1..8 |-> IF r \in {2, 4, 7} THEN <<TRUE, FALSE>> ELSE <<FALSE, FALSE>>]
MCConfigChoices ==
    {[rollout |-> [risk_pooling_quantile |-> 50], K |-> 1],
     [rollout |-> [risk_pooling_method |-> "quantile", risk_pooling_quantile |-> 90], K |-> 2],
     [rollout |-> [risk_pooling_method |-> "quantile", risk_pooling_quantile |-> 50,
                   risk_pooling_head_reduction |-> "after_pooling"], K |-> 2]}
MCAsked == {<<2, <<>>>>, <<1, <<1, 2>>>>}
MCEarlierMetadata == [seeds |-> <<1, 2>>]

(* What a component that does not run starts from.                          *)
NoData ==
    /\ table = {} /\ attack = {} /\ stage = "raw" /\ risk = {} /\ val = {}
    /\ place = <<>> /\ drawn = [s \in Strata |-> {}]
NoCheckpoint ==
    /\ checkpoint = [members |-> 1, trajectoryHead |-> FALSE, op |-> CHOOSE op \in OperatingPoints : TRUE,
                     heads |-> <<[s \in PredictedStates |-> CHOOSE x \in HeadScores : TRUE]>>]
    /\ draws = <<>> /\ scored = <<>>
NoLead == stageAt = [t \in Day |-> 0] /\ episodes = {} /\ hits = {} /\ missing = Day \ ScoredDay
NoRollout ==
    /\ observed = [r \in 1..Rows |-> CHOOSE h \in Histories : TRUE]
    /\ truth = [r \in 1..Rows |-> CHOOSE f \in Futures : TRUE]
    /\ masked = FALSE /\ trajectoryHead = FALSE /\ source = CHOOSE s \in Sources : TRUE
    /\ pass = Idle_ /\ pooled = [r \in 1..Rows |-> <<>>]
NoHeads ==
    /\ filed = <<>> /\ attacked = {} /\ silent = {}
    /\ recipe = [head |-> "risk", rows |-> "all", balanced |-> FALSE]
    /\ arrays = <<>> /\ context = <<>> /\ hazard = <<>> /\ epoch = <<>> /\ weights = <<>>
    /\ trainStage = "table"
NoReports ==
    /\ settings = CHOOSE c \in ConfigChoices : TRUE
    /\ trained = {} /\ calibration = Missing /\ fitting = Missing /\ evaluating = Missing
    /\ reports = [w \in ReportPaths |-> Missing]
    /\ spent = [evaluations |-> 0, changes |-> 0]

PlaneInit ==
    /\ unit \in {"data", "assembly", "table", "analysis", "training", "scoring",
                 "window", "lead", "experiments", "rollout", "heads", "reports"}
    /\ AssemblyInit /\ TableInit /\ AnalysisInit /\ TrainingInit /\ WindowInit /\ EvaluationInit
    /\ IF unit = "data" THEN DataInit ELSE NoData
    /\ IF unit = "scoring" THEN ScoringInit ELSE NoCheckpoint
    /\ IF unit = "lead" THEN LeadInit ELSE NoLead
    /\ IF unit = "rollout" THEN RolloutInit ELSE NoRollout
    /\ IF unit = "heads" THEN HeadInit ELSE NoHeads
    /\ IF unit = "reports" THEN ReportsInit ELSE NoReports

PlaneNext ==
    /\ UNCHANGED unit
    /\ unit # "data" => UNCHANGED dataVars
    /\ unit # "assembly" => UNCHANGED assemblyVars
    /\ unit # "table" => UNCHANGED tableVars
    /\ unit # "analysis" => UNCHANGED analysisVars
    /\ unit # "training" => UNCHANGED trainingVars
    /\ unit # "scoring" => UNCHANGED scoringVars
    /\ unit # "window" => UNCHANGED windowVars
    /\ unit # "lead" => UNCHANGED leadVars
    /\ unit # "experiments" => UNCHANGED evaluationVars
    /\ unit # "rollout" => UNCHANGED rolloutVars
    /\ unit # "heads" => UNCHANGED headVars
    /\ unit # "reports" => UNCHANGED reportVars
    /\ \/ unit = "data" /\ DataNext
       \/ unit = "assembly" /\ AssemblyNext
       \/ unit = "table" /\ TableNext
       \/ unit = "analysis" /\ AnalysisNext
       \/ unit = "training" /\ TrainingNext
       \/ unit = "scoring" /\ ScoringNext
       \/ unit = "window" /\ WindowNext
       \/ unit = "lead" /\ LeadNext
       \/ unit = "experiments" /\ EvaluationNext
       \/ unit = "rollout" /\ RolloutNext
       \/ unit = "heads" /\ HeadNext
       \/ unit = "reports" /\ ReportsNext

planeVars == <<unit, dataVars, assemblyVars, tableVars, analysisVars, trainingVars, scoringVars,
               windowVars, leadVars, evaluationVars, rolloutVars, headVars, reportVars>>

PlaneSpec == PlaneInit /\ [][PlaneNext]_planeVars
==============================================================================
