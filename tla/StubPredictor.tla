---------------------------- MODULE StubPredictor ----------------------------
(***************************************************************************)
(* services/inference/stub_predictor.py: the arithmetic that stands in for *)
(* the world model.  A context is a sequence of observed windows; only the *)
(* drivers of a window count, as integers.  The logistic and tanh are      *)
(* given as increasing functions on the integers they are applied to, and  *)
(* risks are in parts of ONE.                                              *)
(***************************************************************************)
EXTENDS Integers, Sequences, FiniteSets, FiniteSetsExt, SequencesExt

CONSTANTS
    DRIVERS, DriverValues,        \* the features risk is read from, their values
    LEVEL_WEIGHT, SLOPE_WEIGHT, INTERCEPT, DRIFT_BASE,
    DRIVER_BOUNDS,                \* lowest and highest projection of each, doubled
    Squash(_), Sigmoid(_), ONE,   \* tanh and the logistic
    StubK, StubThreshold, StubLeadM,   \* horizon_K, risk_threshold, lead_time_m
    ContextMax                    \* bound: windows of a context

ASSUME StubAssumption ==
    /\ {StubK, ContextMax, ONE} \subseteq Nat /\ StubLeadM \in Nat \ {0}
    /\ LEVEL_WEIGHT \in [DRIVERS -> Nat] /\ SLOPE_WEIGHT \in [DRIVERS -> Nat]
    /\ \A x \in -9 .. 9 : /\ Squash(x) <= Squash(x + 1) /\ Squash(-x) = -Squash(x)
                          /\ Sigmoid(x) \in 0 .. ONE /\ Sigmoid(x) <= Sigmoid(x + 1)

VARIABLES states,    \* the context, oldest window first
          answer     \* of the last call, or NoAnswer

stubVars == <<states, answer>>
NoAnswer == [call |-> "none"]

Window == [DRIVERS -> DriverValues]

StubInit == states = <<>> /\ answer = NoAnswer

ObserveStubWindow(w) ==
    /\ Len(states) < ContextMax
    /\ states' = Append(states, w) /\ answer' = NoAnswer

-----------------------------------------------------------------------------
\* recent_slope, twice it: the least-squares slope over three windows, none
\* below three.
SLOPE_WINDOW_STUB == 3
recent_slope(s, d) ==
    IF Len(s) < SLOPE_WINDOW_STUB THEN 0 ELSE s[Len(s)][d] - s[Len(s) - 2][d]

\* _read_drivers
_read_drivers(s) ==
    [level |-> [d \in DRIVERS |-> s[Len(s)][d]], slope |-> [d \in DRIVERS |-> recent_slope(s, d)]]

SlopeTerm(r) == MapThenSumSet(LAMBDA d : SLOPE_WEIGHT[d] * Squash(r.slope[d]), DRIVERS)
_contribution(r, d) ==
    LEVEL_WEIGHT[d] * Squash(r.level[d]) + SLOPE_WEIGHT[d] * Squash(r.slope[d])
_base_logit(r) == INTERCEPT + MapThenSumSet(LAMBDA d : _contribution(r, d), DRIVERS)
_drift(r) == DRIFT_BASE + SlopeTerm(r)

stage_distribution(p) ==
    [benign |-> (ONE - p) * (ONE - p), recon |-> 2 * p * (ONE - p), initial_access |-> p * p]
\* Ties go to the earlier stage.
_argmax_stage(d) ==
    IF d.benign >= d.recon /\ d.benign >= d.initial_access THEN "benign"
    ELSE IF d.recon >= d.initial_access THEN "recon" ELSE "initial_access"

\* The band is CI_BASE + CI_PER_K * k to each side: here k.
_trajectory(r) ==
    [k \in 1 .. StubK |->
        LET p == Sigmoid(_base_logit(r) + k * _drift(r))
        IN [p_compromise |-> p, ci_low |-> Max({0, p - k}), ci_high |-> Min({ONE, p + k}),
            stage_dist |-> stage_distribution(p)]]

\* _lead_time_s, in windows: the first of StubLeadM points in a row, 0 if none.
_lead_time(points) ==
    LET Sustained == {k \in 1 .. StubK - StubLeadM + 1 :
                        \A j \in k .. k + StubLeadM - 1 : points[j].p_compromise >= StubThreshold}
    IN IF Sustained = {} THEN 0 ELSE Min(Sustained)

\* How much the drivers moved on entering a window; nothing before the first.
Movement(s, i) ==
    IF i = 1 THEN 0 ELSE MapThenSumSet(LAMBDA d : Max({s[i][d] - s[i-1][d], s[i-1][d] - s[i][d]}), DRIVERS)
_window_importance(s) ==
    LET total == MapThenSumSet(LAMBDA i : Movement(s, i), DOMAIN s)
    IN [i \in DOMAIN s |-> IF total = 0 THEN <<1, Len(s)>> ELSE <<Movement(s, i), total>>]
\* The later of equals.
_driving_window(s) ==
    LET w == _window_importance(s)
    IN CHOOSE i \in DOMAIN s : /\ \A j \in DOMAIN s : w[j][1] <= w[i][1]
                               /\ \A j \in DOMAIN s : j > i => w[j][1] < w[i][1]

\* Twice the level carried forward along the slope, clamped.
_predicted_features(r, k) ==
    [d \in DRIVERS |-> Min({DRIVER_BOUNDS[d][2],
                            Max({DRIVER_BOUNDS[d][1], 2 * r.level[d] + k * r.slope[d]})})]

Size(x) == Max({x, -x})
\* The drivers, the largest contribution of either sign first.
_top_signals(r) ==
    SetToSortSeq(DRIVERS, LAMBDA d, e : Size(_contribution(r, d)) > Size(_contribution(r, e)))

-----------------------------------------------------------------------------
forecast ==
    /\ states # <<>>
    /\ LET r == _read_drivers(states)
           points == _trajectory(r)
       IN answer' = [call |-> "forecast", points |-> points, lead |-> _lead_time(points),
                     observed_stage |-> _argmax_stage(stage_distribution(Sigmoid(_base_logit(r)))),
                     predicted |-> [k \in 1 .. StubK |-> _predicted_features(r, k)],
                     top_signals |-> _top_signals(r),
                     driving_window |-> _driving_window(states)]
    /\ UNCHANGED states

\* Mutant: only the last window is clamped, so that the slope moves.
ClampLast(s, d, v) == [s EXCEPT ![Len(s)][d] = v]
\* One feature held in every observed window.
Clamp(s, d, v) == [i \in DOMAIN s |-> [s[i] EXCEPT ![d] = v]]

counterfactual(d, v) ==
    /\ states # <<>>
    /\ answer' = [call |-> "counterfactual", feature |-> d, clamp_value |-> v,
                  original |-> _trajectory(_read_drivers(states)),
                  clamped |-> _trajectory(_read_drivers(Clamp(states, d, v)))]
    /\ UNCHANGED states

explain(k) ==
    /\ states # <<>> /\ k \in 1 .. StubK
    /\ answer' = [call |-> "explain", horizon_k |-> k,
                  top_signals |-> _top_signals(_read_drivers(states)),
                  window_importance |-> _window_importance(states),
                  driving_window |-> _driving_window(states)]
    /\ UNCHANGED states

StubNext ==
    \/ \E w \in Window : ObserveStubWindow(w)
    \/ forecast
    \/ \E d \in DRIVERS, v \in DriverValues : counterfactual(d, v)
    \/ \E k \in 1 .. StubK : explain(k)

-----------------------------------------------------------------------------
\* "clamping one of them flat in `counterfactual` visibly bends the curve back
\* down": holding a driver at a value it never exceeded, when it rose last,
\* raises no point, and at no more than its last when it fell lowers none; and
\* where the others are still the clamped curve is as flat as it is at rest.
ClampBendsDown ==
    answer.call = "counterfactual" =>
        LET r == _read_drivers(states)
            d == answer.feature
            v == answer.clamp_value
        IN /\ r.slope[d] >= 0 /\ v <= r.level[d] =>
                \A k \in 1 .. StubK : answer.clamped[k].p_compromise <= answer.original[k].p_compromise
           /\ r.slope[d] <= 0 /\ v >= r.level[d] =>
                \A k \in 1 .. StubK : answer.clamped[k].p_compromise >= answer.original[k].p_compromise
           /\ DRIFT_BASE = 0 /\ (\A e \in DRIVERS \ {d} : r.slope[e] = 0) =>
                \A k \in 1 .. StubK : answer.clamped[k].p_compromise = answer.clamped[1].p_compromise

\* A lead time is a sustained crossing and no crossing of that length comes
\* before it; the curve is monotone, so that it is crossed to the end or at once.
LeadIsSustained ==
    answer.call = "forecast" =>
        LET P(k) == answer.points[k].p_compromise
        IN /\ answer.lead > 0 =>
                /\ P(answer.lead) >= StubThreshold /\ P(answer.lead + StubLeadM - 1) >= StubThreshold
                /\ answer.lead = 1 \/ P(answer.lead - 1) < StubThreshold
                /\ answer.lead > 1 => P(StubK) >= StubThreshold
           /\ answer.lead = 0 /\ StubK >= 2 * StubLeadM =>
                \/ P(StubK - StubLeadM + 1) < StubThreshold
                \/ P(StubLeadM) < StubThreshold

\* The window pointed to is the one entered with the largest move, whatever the
\* windows no driver moved in.
DrivingWindowMoved ==
    answer.call \in {"forecast", "explain"} =>
        LET i == answer.driving_window
        IN /\ \A j \in DOMAIN states : Movement(states, j) <= Movement(states, i)
           /\ Movement(states, i) = 0 => i = Len(states)

StubAnswersAreSound == ClampBendsDown /\ LeadIsSustained /\ DrivingWindowMoved
=============================================================================
