------------------------------- MODULE Rollout -------------------------------
(***************************************************************************)
(* The forward simulation of the world model and what a head is given of   *)
(* it: ml/nidra/models/world_model.py and models/heads.py, the training    *)
(* rows of train/head_context.py, the free-running validation of           *)
(* train/losses.py and the chunks and members of eval/systems.py.          *)
(*                                                                         *)
(* A state has one slot the scaler kept and one it dropped.  The encoder's *)
(* hidden state is the sequence it has ingested; a log-variance is what    *)
(* the transition was conditioned on and whether its dropped slot is at    *)
(* the floor.                                                              *)
(***************************************************************************)
EXTENDS Integers, Sequences, FiniteSets, SequencesExt

CONSTANTS
    Move(_, _, _, _),   \* kept slot of mu, of a member: hidden, current, previous
    Rows,               \* rows of the evaluation set
    ContextWindows,     \* L
    Steps,              \* K
    MemberCount,        \* ensemble members
    SamplesPerMember,   \* trajectories each samples of a row
    ChunkRows,          \* rows of one pass
    StateClamp,         \* state_clamp
    NoiseDraws(_),           \* noise of that many trajectories, on the kept slot
    Histories, Futures  \* what a row may have observed, and seen after

\* What the scaler makes of a window: clipped where the rollout is clamped,
\* and nothing in a slot it dropped.
WindowState == [kept : -StateClamp .. StateClamp, dropped : {0}]

ASSUME RolloutAssumption ==
    /\ {Rows, Steps, MemberCount, SamplesPerMember, ChunkRows} \subseteq Nat \ {0}
    /\ ContextWindows \in Nat \ 0..2 /\ StateClamp \in Nat
    /\ Histories \subseteq [1..ContextWindows -> WindowState]
    /\ Futures \subseteq [1..Steps -> WindowState]

VARIABLES
    observed, truth,  \* the observed windows of each row, the K after them
    masked,          \* set_feature_mask was called
    trajectoryHead,  \* the risk head reads more than the state
    source,          \* state_source, or "free running"
    pass,            \* the rollout under way: rows, member, trajectories
    pooled           \* what has been concatenated, row by row

rolloutVars == <<observed, truth, masked, trajectoryHead, source, pass, pooled>>
Given == UNCHANGED <<observed, truth, masked, trajectoryHead, source>>

Silent == [kept |-> 0, dropped |-> 0]     \* zero_state_scaled
Idle_ == [first |-> 1, member |-> 1, k |-> 0, traj |-> <<>>]
Sampled == source \in {"model", "zero mu"}
Samples == IF Sampled THEN SamplesPerMember ELSE 1

\* Where the next state comes from, and the validation of the dynamics.
Sources == {"model", "zero mu", "deterministic", "persist", "truth", "free running"}

RolloutInit ==
    /\ observed \in [1..Rows -> Histories]
    /\ truth \in [1..Rows -> Futures]
    /\ masked \in BOOLEAN /\ trajectoryHead \in BOOLEAN
    /\ source \in Sources
    /\ pass = Idle_ /\ pooled = [r \in 1..Rows |-> <<>>]

-----------------------------------------------------------------------------
\* The transition emits something in the slot no gradient reached.
Untrained == 1
Clamped(v) == IF v > StateClamp THEN StateClamp ELSE IF v < -StateClamp THEN -StateClamp ELSE v

transition(m, h, cur, prev) ==
    [mu |-> [kept |-> Move(m, h, cur, prev), dropped |-> Untrained],
     logvar |-> [of |-> <<h, cur, prev>>, dropped |-> "untrained"]]

mask_logvar(logvar) == IF masked THEN [logvar EXCEPT !.dropped = "floor"] ELSE logvar
Mask(s) == IF masked THEN [s EXCEPT !.dropped = 0] ELSE s

InChunk == {r \in 1..Rows : pass.first <= r /\ r < pass.first + ChunkRows}

\* Mutant: the chunk is repeated whole, as by repeat.
RepeatedWhole(i) == pass.first + ((i - 1) % Cardinality(InChunk))

\* repeat_interleave: the samples of a row lie side by side.
TiledRow(i) == pass.first + ((i - 1) \div Samples)

\* rollout: a member's begins at the last window observed of a chunk.
BeginRollout ==
    /\ pass.k = 0 /\ pass.first <= Rows
    /\ pass' = [pass EXCEPT !.k = 1, !.traj =
         [i \in 1 .. Cardinality(InChunk) * Samples |->
            LET x == observed[TiledRow(i)]
            IN  [x |-> x, future |-> truth[TiledRow(i)],
                 h |-> x, cur |-> x[ContextWindows], prev |-> x[ContextWindows - 1],
                 member |-> pass.member, heads |-> {},
                 states |-> <<>>, mus |-> <<>>, logvars |-> <<>>, hiddens |-> <<>>]]]
    /\ Given /\ UNCHANGED pooled

\* The state that comes next, before the mask.
NextState(t, mu, noise) ==
    LET nxt == CASE source = "persist" -> t.x[ContextWindows]
                 [] source = "truth" -> t.future[pass.k]
                 [] OTHER -> [kept |-> IF Sampled THEN t.cur.kept + mu.kept + noise
                                       ELSE t.cur.kept + mu.kept,
                              dropped |-> t.cur.dropped + mu.dropped]
    IN  [kept |-> Clamped(nxt.kept), dropped |-> Clamped(nxt.dropped)]

\* One step of one trajectory.  The encoder ingests the state the step gave.
Stepped(t, noise) ==
    LET out == transition(pass.member, t.h, t.cur, t.prev)
        mu == IF source \in {"persist", "zero mu"} THEN Silent ELSE out.mu
        bare == source = "free running"
        nxt == IF bare THEN NextState(t, mu, noise) ELSE Mask(NextState(t, mu, noise))
        h == Append(t.h, nxt)
    IN  [t EXCEPT !.states = Append(@, nxt), !.hiddens = Append(@, h),
                  !.mus = Append(@, IF bare THEN mu ELSE Mask(mu)),
                  !.logvars = Append(@, IF bare THEN out.logvar ELSE mask_logvar(out.logvar)),
                  !.h = h, !.prev = t.cur, !.cur = nxt]

\* One step of them all, with the noise that each of them draws.
Step(noise) ==
    /\ pass.k \in 1..Steps
    /\ pass' = [pass EXCEPT !.k = @ + 1, !.traj = [i \in DOMAIN @ |-> Stepped(@[i], noise[i])]]
    /\ Given /\ UNCHANGED pooled

\* reshape to [B, S, ...], scored by those heads and concatenated along the
\* samples: after the members of a chunk the next chunk.
EndRollout(heads) ==
    /\ pass.k = Steps + 1
    /\ pooled' = [r \in 1..Rows |->
         IF r \notin InChunk THEN pooled[r]
         ELSE pooled[r] \o [i \in 1..Samples |->
                [pass.traj[(r - pass.first) * Samples + i] EXCEPT !.heads = heads]]]
    /\ pass' = IF pass.member < MemberCount THEN [Idle_ EXCEPT !.first = pass.first, !.member = pass.member + 1]
               ELSE [Idle_ EXCEPT !.first = pass.first + ChunkRows]
    /\ Given

\* The head of each member on every trajectory, unless it reads more than the
\* state: then on those of its own encoder.
_rollout_risk ==
    /\ Sampled
    /\ EndRollout(IF trajectoryHead THEN {pass.member} ELSE 1..MemberCount)

\* eval/baselines: there is no other way to read per-state heads.
ensemble_world_model_forecast == source = "model" /\ ~trajectoryHead /\ EndRollout(1..MemberCount)

\* Each member's own heads on its own single trajectory.
_persist_rollout == source = "persist" /\ EndRollout({pass.member})
_deterministic == source = "deterministic" /\ EndRollout({pass.member})
_oracle_risk == source = "truth" /\ EndRollout({pass.member})
free_running_metrics == source = "free running" /\ EndRollout({})

RolloutNext ==
    \/ BeginRollout
    \/ \E noise \in IF Sampled THEN NoiseDraws(Len(pass.traj))
                    ELSE {[i \in DOMAIN pass.traj |-> 0]} : Step(noise)
    \/ _rollout_risk \/ ensemble_world_model_forecast
    \/ _persist_rollout \/ _deterministic \/ _oracle_risk \/ free_running_metrics

RolloutSpec == RolloutInit /\ [][RolloutNext]_rolloutVars

-----------------------------------------------------------------------------
\* realized_deltas: backward differences, the first from the anchor.
Difference(s, p) == [kept |-> s.kept - p.kept, dropped |-> s.dropped - p.dropped]
realized_delta(t, k) ==
    Difference(t.states[k], IF k = 1 THEN t.x[ContextWindows] ELSE t.states[k - 1])

\* score_trajectory: what a trajectory head reads of step k.
HeadParts(t, k) ==
    [state |-> t.states[k], hidden |-> t.hiddens[k],
     delta |-> realized_delta(t, k), logvar |-> t.logvars[k]]

\* build_head_context for row i of one host's table: the trailing window,
\* padded with the silent state.
Trailing(table, i) ==
    [j \in 1..ContextWindows |->
        IF i - ContextWindows + j < 1 THEN Silent ELSE table[i - ContextWindows + j]]
HeadContext(table, i) ==
    LET w == Trailing(table, i)
        prev1 == w[ContextWindows - 1]
    IN  [state |-> table[i], hidden |-> w, delta |-> Difference(table[i], prev1),
         logvar |-> mask_logvar(transition(1, SubSeq(w, 1, ContextWindows - 1), prev1,
                                           w[ContextWindows - 2]).logvar)]

\* observed_context of a history.
observed_context(x) ==
    [state |-> x[ContextWindows], hidden |-> x,
     delta |-> Difference(x[ContextWindows], x[ContextWindows - 1]),
     logvar |-> mask_logvar(transition(1, SubSeq(x, 1, ContextWindows - 1), x[ContextWindows - 1],
                                       x[ContextWindows - 2]).logvar)]

-----------------------------------------------------------------------------
Last_(s, n) == SubSeq(s, Len(s) - n + 1, Len(s))
\* A head's inputs with no more history than the trailing window has.
Trimmed(parts) ==
    LET seen == parts.logvar.of
    IN  [parts EXCEPT !.hidden = Last_(@, ContextWindows),
                      !.logvar = [of |-> <<Last_(seen[1], ContextWindows - 1), seen[2], seen[3]>>,
                                  dropped |-> @.dropped]]

\* Each row has its own trajectories, as many as were asked for of every
\* member, and no row is rolled out twice or left out.
EveryRowItsOwn ==
    \A r \in 1..Rows :
        /\ \A i \in DOMAIN pooled[r] : pooled[r][i].x = observed[r]
        /\ r < pass.first => Len(pooled[r]) = MemberCount * Samples

\* The members' heads have equal votes on a row, and one that reads hidden
\* states reads none of another encoder.
VotesAreEqual ==
    \A r \in 1..Rows :
        LET of(m) == {i \in DOMAIN pooled[r] : m \in pooled[r][i].heads}
        IN  /\ trajectoryHead => \A i \in DOMAIN pooled[r] : pooled[r][i].heads \subseteq {pooled[r][i].member}
            /\ r < pass.first => \A m, n \in 1..MemberCount : Cardinality(of(m)) = Cardinality(of(n))

\* What a head reads of step k of a rollout is what it was trained on for the
\* row k windows on, had the simulated windows been observed; and of the
\* origin the same as in training.
ReadAsTrained ==
    \A r \in 1..Rows :
        /\ observed_context(observed[r]) = HeadContext(observed[r], ContextWindows)
        /\ source # "free running" => \A i \in DOMAIN pooled[r], k \in 1..Steps :
              LET t == pooled[r][i]
              IN  Trimmed(HeadParts(t, k)) = HeadContext(t.x \o t.states, ContextWindows + k)

\* Whatever the transition emits there, a slot the scaler dropped stays zero.
DroppedStaysDropped ==
    masked /\ source # "free running" => \A r \in 1..Rows : \A i \in DOMAIN pooled[r], k \in 1..Steps :
        LET t == pooled[r][i]
        IN  t.states[k].dropped = 0 /\ t.mus[k].dropped = 0 /\ t.logvars[k].dropped = "floor"

\* The references replace the state and nothing else, and the validation of
\* the dynamics is the deterministic rollout where no feature is masked.
ReferencesDifferInTheState ==
    \A r \in 1..Rows : \A i \in DOMAIN pooled[r] :
        LET t == pooled[r][i]
            at(k) == IF k = 0 THEN t.x[ContextWindows] ELSE t.states[k]
        IN  /\ source = "persist" => \A k \in 1..Steps :
                    at(k) = at(0) /\ realized_delta(t, k).kept = 0 /\ t.mus[k].kept = 0
            /\ source = "zero mu" => \A k \in 1..Steps : t.mus[k].kept = 0
            /\ source = "truth" => t.states = truth[r]
            /\ source \in {"deterministic", "free running"} /\ ~masked => \A k \in 1..Steps :
                    at(k).kept = Clamped(at(k - 1).kept + t.mus[k].kept)

(* A rollout is one simulation: every trajectory continues its own row,    *)
(* and what the frozen heads read at any step is aligned as it was in      *)
(* their training, with no slot in it that was masked there.               *)
(* (head_context.py:157 "a head trained against one definition and applied *)
(* against the other would differ by a window of history with nothing to   *)
(* show for it"; world_model.py:92 "dropped slots grow".)                  *)
RolloutIsOneSimulation ==
    /\ EveryRowItsOwn
    /\ VotesAreEqual
    /\ ReadAsTrained
    /\ DroppedStaysDropped
    /\ ReferencesDifferInTheState
=============================================================================
