---------------------------- MODULE HeadTraining ----------------------------
(***************************************************************************)
(* What one epoch of head training reads: ml/nidra/train/head_data.py,     *)
(* train/head_context.py, data/onset.py and the drawing and weighing of    *)
(* rows in train/train_heads.py and train/train_onset.py.                  *)
(*                                                                         *)
(* Four arrays are read by one index: states, targets, activity and the    *)
(* encoder context.  They are built apart, from a table in any order, and  *)
(* nothing but their order and their length ties them together.            *)
(* A row stands for its scaled state, a trailing window for its encoding.  *)
(***************************************************************************)
EXTENDS Integers, Sequences, FiniteSets, FiniteSetsExt, SequencesExt, TLC

CONSTANTS
    HostRank,           \* hosts, in the order of their names
    LastRow,            \* windows of each host, one a minute
    Shuffles,           \* orders in which the table may be filed
    AttackSets,         \* rows that may be attacks
    SilentSets,         \* rows with is_active = 0
    StageAt(_),         \* the stage of an attack row
    TrailingWindows,    \* L
    LabelHorizon,       \* K of the risk label
    HeadHorizons,           \* onset.horizons_min
    MergedGap,          \* merge_gap_windows
    PosRepeat, NegRatio,
    HardShare           \* hard_negative_fraction, <<of, in>>

ASSUME HeadTrainingAssumption ==
    /\ {LastRow, TrailingWindows, LabelHorizon, PosRepeat, NegRatio} \subseteq Nat \ {0}
    /\ MergedGap \in Nat /\ HardShare \in Nat \X (Nat \ {0})
    /\ \A i, j \in DOMAIN HeadHorizons : HeadHorizons[i] \in Nat \ {0} /\ (i < j => HeadHorizons[i] < HeadHorizons[j])

VARIABLES
    filed, attacked, silent,  \* the labelled table and what it says of a row
    recipe,     \* which head, from every row or the windowed subsample, sampling
    arrays,     \* HeadArrays, or their eligible rows
    context,    \* HeadContext, likewise
    hazard,     \* event and at_risk of each row
    epoch,      \* how often each index is drawn
    weights,    \* stage_balanced_sample_weights, as fractions
    trainStage

headVars == <<filed, attacked, silent, recipe, arrays, context, hazard, epoch, weights, trainStage>>

Hosts == ToSet(HostRank)
TableRows == [host : Hosts, ts : 1..LastRow]
ZeroRow == [host |-> "none", ts |-> 0]   \* zero_state_scaled
Last30 == HeadHorizons[Len(HeadHorizons)]       \* broadest
Never == LastRow + Last30 + 1           \* inf

HeadInit ==
    /\ filed \in Shuffles
    /\ attacked \in AttackSets /\ silent \in SilentSets
    /\ recipe \in [head : {"risk", "onset"}, rows : {"all", "windowed"}, balanced : BOOLEAN]
    /\ recipe.head = "onset" => recipe.balanced
    /\ arrays = <<>> /\ context = <<>> /\ hazard = <<>> /\ epoch = <<>> /\ weights = <<>>
    /\ trainStage = "table"

-----------------------------------------------------------------------------
AttacksOf(r) == {a.ts : a \in {a \in attacked : a.host = r.host}}
\* merge_episodes: runs no more than the gap apart are one.
Starts(r) == {s \in AttacksOf(r) : \A a \in AttacksOf(r) : a < s => s - a - 1 > MergedGap}

\* episode_geometry.
inside_episode(r) ==
    LET before == {a \in AttacksOf(r) : a <= r.ts}
        after == {a \in AttacksOf(r) : a >= r.ts}
    IN  before # {} /\ after # {} /\ Min(after) - Max(before) - 1 <= MergedGap
minutes_to_onset(r) ==
    LET ahead == {s \in Starts(r) : s > r.ts} IN IF ahead = {} THEN Never ELSE Min(ahead) - r.ts

risk_label(r) == \E k \in 1..LabelHorizon : [r EXCEPT !.ts = @ + k] \in attacked

InTableOrder(r, s) ==
    LET rank(h) == CHOOSE i \in DOMAIN HostRank : HostRank[i] = h
    IN  rank(r.host) < rank(s.host) \/ (r.host = s.host /\ r.ts < s.ts)

\* sort_values([host_id, window_ts]).
SortValues(table) == SortSeq(table, InTableOrder)

\* The windowed subsample holds what has a history and a future.
InSubsample(r) == TrailingWindows <= r.ts /\ r.ts + LabelHorizon <= LastRow
RowsUsed(table) == IF recipe.rows = "all" THEN table ELSE SelectSeq(table, InSubsample)

\* build_head_arrays, or the last windows of the windowed arrays.
BuildHeadArrays ==
    /\ trainStage = "table" /\ trainStage' = "arrays"
    /\ LET sorted == RowsUsed(SortValues(filed))
       IN  arrays' = [i \in DOMAIN sorted |->
             LET r == sorted[i]
             IN  [state |-> r, risk |-> risk_label(r),
                  stage |-> IF r \in attacked THEN StageAt(r) ELSE "benign",
                  active |-> r \notin silent,
                  inside |-> inside_episode(r), minutes |-> minutes_to_onset(r)]]
    /\ UNCHANGED <<filed, attacked, silent, recipe, context, hazard, epoch, weights>>

\* _host_windows: of the rows of one host, each with those before it in the
\* table, padded with the silent state.
HostWindows(rows) ==
    LET padded == [i \in 1 .. TrailingWindows - 1 |-> ZeroRow] \o rows
    IN  [i \in DOMAIN rows |-> SubSeq(padded, i, i + TrailingWindows - 1)]

\* Mutant: the table is taken as it was filed.
AsFiled(table) == table

\* The order build_head_context brings the table in.
ContextOrder(table) == SortValues(table)

\* build_head_context, host by host; from_windowed reads the window itself.
BuildHeadContext ==
    /\ trainStage = "arrays" /\ trainStage' = "context"
    /\ LET sorted == ContextOrder(filed)
           of(h) == SelectSeq(sorted, LAMBDA r : r.host = h)
           windows == FlattenSeq([n \in DOMAIN HostRank |-> HostWindows(of(HostRank[n]))])
           last(w) == w[TrailingWindows]
       IN  context' = IF recipe.rows = "all" THEN windows
                      ELSE SelectSeq(windows, LAMBDA w : InSubsample(last(w)))
    /\ UNCHANGED <<filed, attacked, silent, recipe, arrays, hazard, epoch, weights>>

\* Boolean indexing.
Masked(s, mask) ==
    LET kept == SelectSeq([i \in DOMAIN s |-> i], LAMBDA i : mask[i])
    IN  [n \in DOMAIN kept |-> s[kept[n]]]

Edge(j) == IF j = 0 THEN 0 ELSE HeadHorizons[j]

\* discrete_hazard_targets.
HazardOf(a) ==
    [event |-> [j \in DOMAIN HeadHorizons |-> ~a.inside /\ Edge(j - 1) < a.minutes /\ a.minutes <= Edge(j)],
     at_risk |-> [j \in DOMAIN HeadHorizons |-> ~a.inside /\ Edge(j - 1) < a.minutes]]

\* onset_targets.
onset_target(a, j) == ~a.inside /\ a.minutes <= HeadHorizons[j]

\* The onset head keeps the origins outside every episode, in all its arrays.
KeepEligible ==
    /\ trainStage = "context" /\ recipe.head = "onset"
    /\ LET mask == [i \in DOMAIN arrays |-> ~arrays[i].inside]
           kept == Masked(arrays, mask)
       IN  /\ arrays' = kept
           /\ context' = Masked(context, mask)
           /\ hazard' = [i \in DOMAIN kept |-> HazardOf(kept[i])]
    /\ trainStage' = "ready"
    /\ UNCHANGED <<filed, attacked, silent, recipe, epoch, weights>>

-----------------------------------------------------------------------------
IsPositive(a) == IF recipe.head = "risk" THEN a.risk ELSE onset_target(a, Len(HeadHorizons))
Positives(rows) == {i \in DOMAIN rows : IsPositive(rows[i])}

\* stage_balanced_sample_weights: the inverse frequency of its stage, scaled
\* so that the positives keep their total.  A fraction <<of, in>>.
WeighStages ==
    /\ trainStage = "context" /\ recipe.head = "risk"
    /\ LET pos == Positives(arrays)
           alike(i) == Cardinality({k \in pos : arrays[k].stage = arrays[i].stage})
           groups == Cardinality({arrays[i].stage : i \in pos})
       IN  weights' = [i \in DOMAIN arrays |->
                          IF i \in pos THEN <<Cardinality(pos), alike(i) * groups>> ELSE <<1, 1>>]
    /\ trainStage' = "ready"
    /\ UNCHANGED <<filed, attacked, silent, recipe, arrays, context, hazard, epoch>>

\* Python's round of n / d: to the even one when it lies between two.
Rounded(n, d) ==
    LET q == n \div d
        r == 2 * (n % d)
    IN  IF r > d \/ (r = d /\ q % 2 = 1) THEN q + 1 ELSE q

Smaller(a, b) == IF a < b THEN a ELSE b
Wanted(rows) == Smaller(Len(rows) - Cardinality(Positives(rows)),
                        Cardinality(Positives(rows)) * PosRepeat * NegRatio)

\* balanced_epoch_indices, or a permutation.
DrawEpoch ==
    /\ trainStage = "ready" /\ trainStage' = "drawn"
    /\ Len(context) = Len(arrays)                    \* else it raises
    /\ recipe.head = "onset" => Positives(arrays) # {}   \* trainable
    /\ LET pos == Positives(arrays)
           pools == [active |-> {i \in DOMAIN arrays \ pos : arrays[i].active},
                     silent |-> {i \in DOMAIN arrays \ pos : ~arrays[i].active}]
           n_hard == Smaller(Cardinality(pools.active), Rounded(Wanted(arrays) * HardShare[1], HardShare[2]))
           n_easy == Smaller(Cardinality(pools.silent), Wanted(arrays) - n_hard)
       IN  IF ~recipe.balanced THEN epoch' = [i \in DOMAIN arrays |-> 1]
           ELSE \E hard \in kSubset(n_hard, pools.active), easy \in kSubset(n_easy, pools.silent) :
                   epoch' = [i \in DOMAIN arrays |->
                                IF i \in pos THEN PosRepeat ELSE IF i \in hard \union easy THEN 1 ELSE 0]
    /\ UNCHANGED <<filed, attacked, silent, recipe, arrays, context, hazard, weights>>

HeadNext == BuildHeadArrays \/ BuildHeadContext \/ KeepEligible \/ WeighStages \/ DrawEpoch

HeadSpec == HeadInit /\ [][HeadNext]_headVars

-----------------------------------------------------------------------------
\* What is read by one index is of one row: its state, its target, its
\* activity, and the windows of its own host up to it.
OneRowByIndex ==
    trainStage \in {"context", "ready", "drawn"} =>
        /\ Len(context) = Len(arrays)
        /\ \A i \in DOMAIN arrays :
              LET r == arrays[i].state
              IN  /\ arrays[i].active = (r \notin silent) /\ arrays[i].risk = risk_label(r)
                  /\ context[i] = [j \in 1..TrailingWindows |->
                        LET t == r.ts - TrailingWindows + j
                        IN  IF t < 1 THEN ZeroRow ELSE [r EXCEPT !.ts = t]]

\* survival_to_cumulative of hazards 0 and 1.
Cumulative(h, j) == 1 - FoldFunction(LAMBDA x, y : x * y, 1, [i \in 1..j |-> 1 - h[i]])

\* Bucket by bucket the hazard targets say what the onset targets do: a row
\* has an onset in one bucket, is at risk up to it and never after it, and a
\* head that fitted them exactly would answer the onset targets.  No row of
\* an episode is asked.
TargetsAgree ==
    recipe.head = "onset" /\ trainStage \in {"ready", "drawn"} => \A i \in DOMAIN arrays :
        LET a == arrays[i]
            t == a.state.ts
            begins(u) == u \in AttacksOf(a.state) /\ t < u
            event == [j \in DOMAIN HeadHorizons |-> IF hazard[i].event[j] THEN 1 ELSE 0]
        IN  /\ a.state \notin attacked
            /\ \A j \in DOMAIN HeadHorizons :
                  /\ onset_target(a, j) = (\E u \in 1..LastRow : begins(u) /\ u - t <= HeadHorizons[j])
                  /\ Cumulative(event, j) = IF onset_target(a, j) THEN 1 ELSE 0
                  /\ hazard[i].at_risk[j] = (j = 1 \/ ~onset_target(a, j - 1))

\* The positives all count PosRepeat times, a negative at most once, and a
\* share of active ones that can be had is not made up with silent ones.
EpochIsBalanced ==
    trainStage = "drawn" /\ recipe.balanced =>
        LET pos == Positives(arrays)
            neg == {i \in DOMAIN arrays \ pos : epoch[i] > 0}
            of(rows) == {i \in neg : arrays[i].state \in rows}
            left == {i \in DOMAIN arrays \ pos : epoch[i] = 0 /\ arrays[i].state \notin silent}
            share == Rounded(Wanted(arrays) * HardShare[1], HardShare[2])
        IN  /\ \A i \in pos : epoch[i] = PosRepeat
            /\ \A i \in neg : epoch[i] = 1
            /\ Cardinality(neg) <= Wanted(arrays)
            /\ left # {} => Cardinality(neg) - Cardinality(of(silent)) = share
            /\ Cardinality(of(silent)) <= Wanted(arrays) - share \/ left = {}

\* Each stage of the positives weighs the same and they all weigh what they
\* did, so that only the mix changes.
MixAloneChanges ==
    weights # <<>> =>
        LET pos == Positives(arrays)
            stages == {arrays[i].stage : i \in pos}
            unit == FoldFunction(LAMBDA w, acc : w[2] * acc, 1, weights)
            mass(S) == MapThenSumSet(LAMBDA i : (weights[i][1] * unit) \div weights[i][2], S)
        IN  /\ \A i \in DOMAIN weights \ pos : weights[i] = <<1, 1>>
            /\ mass(pos) = Cardinality(pos) * unit
            /\ \A s \in stages : Cardinality(stages) * mass({i \in pos : arrays[i].stage = s}) = mass(pos)

(* Whatever order the table came in, a head is trained on samples that are *)
(* each of one row, with targets that agree and in the proportions that    *)
(* were asked for.  (head_context.py:97 "a mismatch would be silent";      *)
(* train_onset.py:121 "the context has to be masked identically";          *)
(* train_heads.py:88 "the only thing that moves is the mix".)              *)
SamplesAreOneRow ==
    /\ OneRowByIndex
    /\ TargetsAgree
    /\ EpochIsBalanced
    /\ MixAloneChanges
=============================================================================
