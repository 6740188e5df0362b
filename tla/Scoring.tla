------------------------------- MODULE Scoring -------------------------------
(***************************************************************************)
(* From the sampled rollouts of an ensemble to one score, twice over: what *)
(* the benchmark measures under a frozen operating point (eval/systems.py, *)
(* eval/operating_point.py, eval/calibrate.py) and what serving answers    *)
(* with it (serve/predictor.py), for the same draws.                       *)
(*                                                                         *)
(* A probability p is the integer p * One.  A predicted state is calm or   *)
(* hot; a head scores it.  Platt scaling is some increasing map, and so is *)
(* what is left of a number in sixteen bits, the precision the benchmark   *)
(* keeps its trajectories in and serving does not.                         *)
(***************************************************************************)
EXTENDS Integers, Sequences, FiniteSets, FiniteSetsExt, Functions

CONSTANTS Grain,        \* the precision of a probability
          HeadScores,   \* what a head may answer
          Float16,      \* a probability, rounded to sixteen bits
          RoundingError,\* and how far from it that may be
          HorizonK,     \* horizon_length
          MaxEnsemble   \* bound: members of an ensemble

One == 16 * Grain
Half == One \div 2

\* A half, and not only a half, has sixteen bits of its own.
ASSUME ScoringAssumption ==
    /\ {Grain, HorizonK, MaxEnsemble} \subseteq Nat \ {0}
    /\ HeadScores \subseteq 0..One /\ RoundingError \in Nat
    /\ Float16 \in [0..One -> 0..One] /\ Float16[Half] = Half
    /\ \A x, y \in 0..One : x <= y => Float16[x] <= Float16[y]
    /\ \A x \in 0..One : Float16[x] - x \in -RoundingError..RoundingError

VARIABLES checkpoint,   \* the members, their heads and the operating point beside them
          draws,        \* the trajectories each member sampled
          scored        \* what the benchmark, forecast and forecast_batch made of them

scoringVars == <<checkpoint, draws, scored>>

PredictedStates == {"calm", "hot"}
Trajectories == [1..HorizonK -> PredictedStates]

\* POOLING_CANDIDATES, one quantile standing for the four.
PoolingCandidates ==
    {[method |-> "mean", reduction |-> "max"], [method |-> "mean", reduction |-> "integrated"]}
    \cup [method : {"median", "quantile", "max", "p_above_half"}, reduction : {"max"}]

-----------------------------------------------------------------------------
\* score_states of a per-state head; a trajectory head reads the hidden
\* state too, and answers something else in the coordinates of another encoder.
HeadScore(m, from, s) ==
    LET own == checkpoint.heads[m][s]
    IN  IF checkpoint.trajectoryHead /\ from # m THEN One - own ELSE own

Ensemble == 1 .. checkpoint.members

\* The sum of a sequence of numbers, and its mean.
SumOf(r) ==
    LET sum[n \in 0..Len(r)] == IF n = 0 THEN 0 ELSE sum[n - 1] + r[n]
    IN  sum[Len(r)]
MeanOf(r) == SumOf(r) \div Len(r)

\* The heads' mean on the step k of every trajectory, as serving takes it:
\* every head on every member's trajectory.
ServedRisk(k) ==
    [j \in Ensemble |-> MeanOf([m \in Ensemble |-> HeadScore(m, j, draws[j][k])])]

\* _rollout_risk: as ServedRisk, but a trajectory head scores its own only,
\* and what is cached of either is rounded.
MeasuredRisk(k) ==
    [j \in Ensemble |-> Float16[IF checkpoint.trajectoryHead THEN HeadScore(j, j, draws[j][k])
                                ELSE ServedRisk(k)[j]]]

OrderStatistic(r, n) ==
    CHOOSE v \in Range(r) : /\ Cardinality({j \in DOMAIN r : r[j] < v}) < n
                            /\ Cardinality({j \in DOMAIN r : r[j] <= v}) >= n

\* numpy's quantile num/4, by linear interpolation.
Quarters(r, num) ==
    LET position == num * (Len(r) - 1)
        low == OrderStatistic(r, position \div 4 + 1)
    IN  IF position % 4 = 0 THEN low
        ELSE low + ((OrderStatistic(r, position \div 4 + 2) - low) * (position % 4)) \div 4

\* pool_trajectories_np.
pool_trajectories(r, method) ==
    LET n == Len(r)
    IN  CASE method = "mean" -> MeanOf(r)
          [] method = "median" -> Quarters(r, 2)
          [] method = "quantile" -> Quarters(r, 3)
          [] method = "max" -> OrderStatistic(r, n)
          [] method = "p_above_half" ->
                 (Cardinality({j \in DOMAIN r : r[j] >= Half}) * One) \div n

\* apply_platt: the identity where the fit was degenerate.
Platt(params, p) == IF params = "degenerate" THEN p ELSE (p * p) \div One

\* extend_calibration_to_horizon: the last fitted horizon stands in.
Extended(params) ==
    [k \in 1..HorizonK |-> params[IF k <= Len(params) THEN k ELSE Len(params)]]

Calibrated(risk, params) == [k \in 1..HorizonK |-> Platt(params[k], risk[k])]

\* The product of a function over 1 .. k.
Product(p) == LET of[k \in 0..HorizonK] == IF k = 0 THEN 1 ELSE of[k - 1] * p[k] IN of
Unit(k) == Product([i \in 1..HorizonK |-> One])[k]

\* ScoreBundle.over_horizon and the composite of serving, in units of Unit(HorizonK).
OverHorizon(p, reduction) ==
    IF reduction = "max" THEN Max(Range(p)) * Unit(HorizonK - 1)
    ELSE Unit(HorizonK) - Product([k \in 1..HorizonK |-> One - p[k]])[HorizonK]

\* _lead_time_from_curve: the step at which two in a row reach the threshold.
LeadTime(p, threshold) ==
    LET crossings == {k \in 2..HorizonK : p[k - 1] >= threshold /\ p[k] >= threshold}
    IN  IF crossings = {} THEN 0 ELSE Min(crossings) - 1

-----------------------------------------------------------------------------
\* apply_operating_point on what score_world_model cached.
Measured(op) ==
    LET risk == [k \in 1..HorizonK |-> pool_trajectories(MeasuredRisk(k), op.pooling.method)]
        p == Calibrated(risk, Extended(op.params))
        score == OverHorizon(p, op.pooling.reduction)
    IN  [p |-> p, raw |-> risk, score |-> score, above |-> score >= op.threshold * Unit(HorizonK - 1)]

\* Mutant: every head's trajectories are pooled before the heads are averaged.
ServedPoolAfter(k, method) ==
    MeanOf([m \in Ensemble |->
        pool_trajectories([j \in Ensemble |-> HeadScore(m, j, draws[j][k])], method)])

\* _ensemble_rollout and forecast_batch under an operating point.
ServedPool(k, method) == pool_trajectories(ServedRisk(k), method)

\* forecast and _risk_curve; a calibration of another horizon is refused.
Served(op) ==
    LET risk == [k \in 1..HorizonK |-> ServedPool(k, op.pooling.method)]
        p == Calibrated(risk, op.params)
        score == OverHorizon(p, op.pooling.reduction)
    IN  IF Len(op.params) # HorizonK THEN <<>>
        ELSE <<[p |-> p, raw |-> risk, score |-> score,
                above |-> score >= op.threshold * Unit(HorizonK - 1),
                lead |-> LeadTime(p, op.threshold)]>>

-----------------------------------------------------------------------------
OperatingPoints ==
    [pooling : PoolingCandidates, threshold : {Half \div 2, Half, One},
     params : UNION {[1..n -> {"degenerate", "fitted"}] : n \in 1..HorizonK}]

ScoringInit ==
    /\ \E members \in 1..MaxEnsemble :
          checkpoint \in [members : {members}, trajectoryHead : BOOLEAN, op : OperatingPoints,
                          heads : [1..members -> [PredictedStates -> HeadScores]]]
    /\ draws = <<>> /\ scored = <<>>

\* One origin is rolled out, and scored by both.
Roll ==
    /\ draws = <<>>
    /\ draws' \in [Ensemble -> Trajectories]
    /\ UNCHANGED <<checkpoint, scored>>

ScoreBoth ==
    /\ draws # <<>> /\ scored = <<>>
    /\ scored' = <<[measured |-> Measured(checkpoint.op), served |-> Served(checkpoint.op)]>>
    /\ UNCHANGED <<checkpoint, draws>>

ScoringNext == Roll \/ ScoreBoth
ScoringSpec == ScoringInit /\ [][ScoringNext]_scoringVars

-----------------------------------------------------------------------------
\* The farthest that serving and the benchmark are apart on a trajectory.
Apart(k) ==
    Max({Max({ServedRisk(k)[j] - MeasuredRisk(k)[j], MeasuredRisk(k)[j] - ServedRisk(k)[j]}) :
            j \in Ensemble})

\* The score of a curve under the operating point.
CurveScore(risk) ==
    OverHorizon(Calibrated(risk, checkpoint.op.params), checkpoint.op.pooling.reduction)

(* What serving answers is what the benchmark measures under the same      *)
(* operating point, as exactly as the two agree on single trajectories.    *)
(* "So the served number is exactly the one the benchmark measured"        *)
(* (predictor.py:170, 310-312) is true where sixteen bits keep every risk  *)
(* (systems.py:123, 135).  Where they do not, a per-state head, or a       *)
(* single member, is off by the rounding: the curve by no more whatever    *)
(* mean, median, quantile or maximum pools it, and the verdict only if the *)
(* threshold lies within what the rounding makes of the score.  Counting   *)
(* trajectories above a half, the benchmark never measures less than is    *)
(* served.  The trajectory heads of two members are not so close: serving  *)
(* lets each score the other's trajectories, the benchmark does not        *)
(* (systems.py:112-119); their curves are as near as their heads' answers. *)
(* A forecast that gives a lead time is also above the threshold.          *)
ServedIsMeasured ==
    \A i \in DOMAIN scored : scored[i].served # <<>> =>
        LET served == scored[i].served[1]
            measured == scored[i].measured
            ownHeadsOnly == ~checkpoint.trajectoryHead \/ checkpoint.members = 1
            counted == checkpoint.op.pooling.method = "p_above_half"
            least == [k \in 1..HorizonK |-> Max({0, served.raw[k] - Apart(k)})]
            most == [k \in 1..HorizonK |-> Min({One, served.raw[k] + Apart(k)})]
        IN  /\ (\A k \in 1..HorizonK : Apart(k) = 0) =>
                  /\ served.p = measured.p /\ served.raw = measured.raw
                  /\ served.score = measured.score /\ served.above = measured.above
            /\ ownHeadsOnly => \A k \in 1..HorizonK : Apart(k) <= RoundingError
            /\ ~counted =>
                  /\ \A k \in 1..HorizonK : measured.raw[k] \in least[k]..most[k]
                  /\ measured.score \in CurveScore(least)..CurveScore(most)
                  /\ served.above # measured.above =>
                        checkpoint.op.threshold * Unit(HorizonK - 1)
                            \in CurveScore(least) + 1..CurveScore(most)
            /\ counted /\ ownHeadsOnly => measured.score >= served.score
            /\ served.lead > 0 => served.above
=============================================================================
