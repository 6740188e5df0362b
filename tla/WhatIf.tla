------------------------------- MODULE WhatIf -------------------------------
(***************************************************************************)
(* Explanation and what-if of the api process: the routes /explain and     *)
(* /counterfactual of api/explain.py, NidraPredictor.explain and           *)
(* counterfactual, and ml/nidra/explain/counterfactual.py.                 *)
(*                                                                         *)
(* Each request runs on a thread of the pool, and torch's generator is one *)
(* for the process: each of a what-if's two rollouts seeds it and draws    *)
(* from it once a step.  Here a draw is the place it came from, [seed,     *)
(* nth], and Noise what each sample and feature get of it.  An explanation *)
(* rolls out without noise.  Queries has which context a request reads.    *)
(***************************************************************************)
EXTENDS Integers, Sequences, FiniteSets, Functions, SequencesExt, FiniteSetsExt

CONSTANTS
    PoolThreads, Features,
    DroppedFeatures,          \* those the mask drops: the scaler makes them 0
    RawContexts,              \* observed windows, each a function of the features
    ClampValues,              \* raw, as a request has them
    ScaleOf(_, _),            \* of a kept feature and its raw value
    MoveOf(_, _, _, _),       \* mu of a feature, from all windows fed, cur and prev
    Noise(_, _, _),           \* of a draw, a sample and a feature
    RiskOf(_),                \* score_trajectory, of one state
    PredictorL, K, ConfiguredK, \* the predictor's L and K; horizon_K of the api
    AskedSteps, NoStep,       \* k of /explain; NoStep when it is not given
    StateLimit, Unit,         \* state_clamp; risk 1
    SampleIds, CfSeed,
    MaxAsked                  \* bound: requests

ASSUME WhatIfAssumption ==
    /\ DroppedFeatures \subseteq Features
    /\ {PredictorL, K, ConfiguredK} \subseteq Nat \ {0} /\ {StateLimit, MaxAsked} \subseteq Nat
    /\ SampleIds # {} /\ IsFiniteSet(SampleIds)

VARIABLES
    generator,       \* torch's, [seed, drawn]
    asking,          \* of each thread: the what-if it works on
    answered,        \* the responses
    asked            \* how many requests there were

whatIfVars == <<generator, asking, answered, asked>>
Resting == [at |-> "resting"]

-----------------------------------------------------------------------------
(* Scaling and the rollout.                                                *)
_scale_single_feature_value(f, v) == IF f \in DroppedFeatures THEN 0 ELSE ScaleOf(f, v)
_validate_and_scale(states) ==
    [i \in DOMAIN states |-> [f \in Features |-> _scale_single_feature_value(f, states[i][f])]]
WellFormed(states) == Len(states) = PredictorL

MaskedState(x) == [f \in Features |-> IF f \in DroppedFeatures THEN 0 ELSE x[f]]
Limited(v) == Max({-StateLimit, Min({StateLimit, v})})
Holding(x, held) == IF held = <<>> THEN x ELSE [x EXCEPT ![held[1]] = held[2]]

\* The states before the first step: the clamp is there already, though the
\* encoder has read the windows as they were.
CurOf(path, context, held) == IF path = <<>> THEN Holding(context[Len(context)], held) ELSE Last(path)
PrevOf(path, context, held) ==
    LET before == context \o path
        i == Len(before) - 1
    IN  IF i < 1 THEN CurOf(path, context, held)
        ELSE IF i <= Len(context) THEN Holding(before[i], held) ELSE before[i]

\* The second step's prev is the first's cur, clamped as it was.
Next_(path, context, held, noise) ==
    LET cur == CurOf(path, context, held)
        prev == PrevOf(path, context, held)
        moved == [f \in Features |-> Limited(cur[f] + MoveOf(context \o path, cur, prev, f) + noise[f])]
    IN  MaskedState(Holding(moved, held))

Quiet == [f \in Features |-> 0]
Deterministic(context) ==
    LET path[n \in 0..K] == IF n = 0 THEN <<>>
                            ELSE Append(path[n - 1], Next_(path[n - 1], context, <<>>, Quiet))
    IN  path[K]

\* Mean and band of a step over the samples, clipped, the band around the mean.
Clipped(v) == Max({0, Min({Unit, v})})
_curve_points(paths) ==
    [k \in 1..K |->
        LET risks == [s \in SampleIds |-> RiskOf(paths[s][k])]
            p == Clipped(FoldFunction(+, 0, risks) \div Cardinality(SampleIds))
        IN  [k |-> k, p |-> p,
             low |-> Clipped(Min({Min(Range(risks)), p})), high |-> Clipped(Max({Max(Range(risks)), p}))]]

-----------------------------------------------------------------------------
(* /counterfactual.                                                        *)
Rest(t) == [asking EXCEPT ![t] = Resting]
NoPaths == [s \in SampleIds |-> <<>>]
Spent == asked' = asked + 1
\* The pair is seeded once, before its baseline (a mutation).
BeginPassUnseeded(call, pass) ==
    [call EXCEPT !.at = "stepping", !.pass = pass, !.paths = NoPaths, !.draws = <<>>, !.alone = K]

BeginPass(call, pass) ==
    [call EXCEPT !.at = "seeding", !.pass = pass, !.paths = NoPaths, !.draws = <<>>, !.alone = K]

\* Of a context that is not full the predictor raises, and nothing catches it.
AskWhatIf(t, states, feature, value) ==
    /\ asking[t] = Resting /\ asked < MaxAsked
    /\ Spent /\ UNCHANGED generator
    /\ IF ~WellFormed(states)
       THEN answered' = answered \cup {[route |-> "counterfactual", status |-> 500, states |-> states]} /\ UNCHANGED asking
       ELSE /\ asking' = [asking EXCEPT ![t] =
                 [at |-> "seeding", pass |-> "baseline", states |-> states, context |-> _validate_and_scale(states),
                  feature |-> feature, value |-> value,
                  held |-> <<feature, _scale_single_feature_value(feature, value)>>,
                  paths |-> NoPaths, draws |-> <<>>, alone |-> K, baseline |-> <<>>]]
            /\ UNCHANGED answered

\* The others that have seeded and not yet drawn their last go on with these
\* draws: history, how many of its own a pass had before.
Disturbing(t, calls) ==
    [u \in PoolThreads |->
        IF u # t /\ calls[u].at = "stepping"
        THEN [calls[u] EXCEPT !.alone = Min({@, Len(calls[u].draws)})] ELSE calls[u]]

SeedGenerator(t) ==
    /\ asking[t].at = "seeding"
    /\ generator' = [seed |-> CfSeed, drawn |-> 0]
    /\ asking' = Disturbing(t, [asking EXCEPT ![t].at = "stepping"])
    /\ UNCHANGED <<answered, asked>>

\* One step of counterfactual_rollout for all samples, with one draw.
RolloutStep(t) ==
    LET call == asking[t]
        draw == [generator EXCEPT !.drawn = @ + 1]
        held == IF call.pass = "baseline" THEN <<>> ELSE call.held
        grown == [call EXCEPT
            !.draws = Append(@, draw),
            !.paths = [s \in SampleIds |-> Append(@[s],
                Next_(@[s], call.context, held, [f \in Features |-> Noise(draw, s, f)]))]]
    IN  /\ call.at = "stepping"
        /\ generator' = draw
        /\ asking' = Disturbing(t, [asking EXCEPT ![t] =
              IF Len(grown.draws) < K THEN grown ELSE [grown EXCEPT !.at = "rolled out"]])
        /\ UNCHANGED <<answered, asked>>

\* compare_to_baseline: the unclamped rollout, then the clamped one.
compare_to_baseline(t) ==
    LET call == asking[t] IN
    /\ call.at = "rolled out"
    /\ IF call.pass = "baseline"
       THEN /\ asking' = [asking EXCEPT ![t] =
                 BeginPass([call EXCEPT !.baseline = [paths |-> call.paths, draws |-> call.draws, alone |-> call.alone]],
                           "clamped")]
            /\ UNCHANGED answered
       ELSE /\ asking' = Rest(t)
            /\ answered' = answered \cup
                 {[route |-> "counterfactual", status |-> 200, states |-> call.states,
                   feature |-> call.feature, value |-> call.value, held |-> call.held,
                   alone |-> <<call.baseline.alone, call.alone>>,
                   original |-> _curve_points(call.baseline.paths), counterfactual |-> _curve_points(call.paths),
                   clampedPaths |-> call.paths, draws |-> <<call.baseline.draws, call.draws>>]}
    /\ UNCHANGED <<generator, asked>>

-----------------------------------------------------------------------------
(* /explain draws nothing: one step of its thread.  It attributes the risk *)
(* of the last window and the stage of the state that is k steps ahead.    *)
StepIndex(horizon_k) == horizon_k - 1
Explain(states, k) ==
    LET horizon_k == IF k = NoStep THEN ConfiguredK ELSE k
        path == Deterministic(_validate_and_scale(states))
    IN  /\ asked < MaxAsked
        /\ answered' = answered \cup
             {IF horizon_k \in 1..K /\ WellFormed(states)
              THEN [route |-> "explain", status |-> 200, states |-> states, horizon_k |-> horizon_k,
                    current |-> _validate_and_scale(states)[PredictorL], predicted |-> path[StepIndex(horizon_k) + 1]]
              ELSE [route |-> "explain", status |-> 422, states |-> states, horizon_k |-> horizon_k]}
        /\ Spent /\ UNCHANGED <<generator, asking>>

WhatIfInit ==
    /\ generator = [seed |-> 0, drawn |-> 0]
    /\ asking = [t \in PoolThreads |-> Resting]
    /\ answered = {}
    /\ asked = 0

WhatIfNext ==
    \/ \E t \in PoolThreads, states \in RawContexts, f \in Features, v \in ClampValues : AskWhatIf(t, states, f, v)
    \/ \E t \in PoolThreads : SeedGenerator(t) \/ RolloutStep(t) \/ compare_to_baseline(t)
    \/ \E states \in RawContexts, k \in AskedSteps \cup {NoStep} : Explain(states, k)

WhatIfSpec == WhatIfInit /\ [][WhatIfNext]_whatIfVars

-----------------------------------------------------------------------------
(* Properties.                                                             *)
WhatIfs == {a \in answered : a.route = "counterfactual" /\ a.status = 200}
Explanations == {a \in answered : a.route = "explain" /\ a.status = 200}

\* The curve of a process that answers nothing else.
Alone(states, held) ==
    LET context == _validate_and_scale(states)
        NoiseAt(n, s) == [f \in Features |-> Noise([seed |-> CfSeed, drawn |-> n], s, f)]
        PathOf(s) ==
            LET path[n \in 0..K] == IF n = 0 THEN <<>>
                                    ELSE Append(path[n - 1], Next_(path[n - 1], context, held, NoiseAt(n, s)))
            IN  path[K]
    IN  _curve_points([s \in SampleIds |-> PathOf(s)])

Agree(c, d, steps) == \A k \in 1..steps : c[k] = d[k]

\* "They draw the same trajectory noise and the only thing that differs between
\* them is the clamp", and "re-running a what-if gives the same answer"
\* (counterfactual.py:24-28, 54-56, 152-157, predictor.py:546-551): of both
\* curves of any what-if this is so up to the step at which another thread first
\* drew or seeded between its own seed and its own draw, and not beyond.  So far
\* each curve is the one of a process that answers nothing else; and where the
\* draws agree, the gap is the clamp: none if the model does not see the feature.
GapIsTheClamp ==
    \A a \in WhatIfs :
      /\ Agree(a.original, Alone(a.states, <<>>), a.alone[1])
      /\ Agree(a.counterfactual, Alone(a.states, a.held), a.alone[2])
      /\ \A n \in 1..K : a.feature \in DroppedFeatures /\ Agree(a.draws[1], a.draws[2], n) =>
           Agree(a.original, a.counterfactual, n)

\* Disturbed or not, the feature is held at every step of every sample, past
\* the limit of the rollout too, and curves count from 1 with p in the band.
ClampIsHeld ==
    \A a \in WhatIfs :
      /\ \A s \in SampleIds, k \in 1..K :
           a.clampedPaths[s][k][a.feature] = a.held[2]
      /\ \A k \in 1..K : \A c \in {a.original[k], a.counterfactual[k]} :
           c.k = k /\ 0 <= c.low /\ c.low <= c.p /\ c.p <= c.high /\ c.high <= Unit

\* An explanation is of the step that was asked for, the one the curves give
\* that k, and of the same state each time.
ExplainsTheStepAsked ==
    \A e \in Explanations :
      /\ e.horizon_k \in 1..K
      /\ e.predicted = Deterministic(_validate_and_scale(e.states))[e.horizon_k]

\* Every answer about the model is about what it was asked, whatever other
\* request its thread is interleaved with (api/explain.py, predictor.py,
\* explain/counterfactual.py).
WhatIfsAreComparable == GapIsTheClamp /\ ClampIsHeld /\ ExplainsTheStepAsked
=============================================================================
