----------------------------- MODULE TrainingData -----------------------------
(***************************************************************************)
(* From the windowed tables of the training captures to the samples a      *)
(* model is fitted and scored on: ml/nidra/train/pipeline.py               *)
(* (build_all_splits), data/splits.py, data/labels.py, data/onset.py,      *)
(* data/audit.py (merge_episodes), data/dataset.py and eval/eval_set.py.   *)
(*                                                                         *)
(* A row is a host and a window.  Windows are counted from the first       *)
(* window of the first capture; two captures are GapWindows apart.  A      *)
(* host has one gap-filled run of rows in a capture (windowize.py), which  *)
(* need not cover it.  The stage of a row is kept only as far as the code  *)
(* here reads it: attack or benign.                                        *)
(***************************************************************************)
EXTENDS Integers, FiniteSets, FiniteSetsExt

CONSTANTS
    TrainHost,    \* hosts seen in the captures
    Captures,     \* how many training captures
    Span,         \* windows a capture lasts
    GapWindows,   \* windows between two captures, the nights
    L, K,         \* context and horizon, in windows
    ValOneIn,     \* 1 / val_fraction_of_train_time
    MarginWindows,\* pre_onset_margin, in windows
    MergeGap,     \* merge_gap_windows
    Horizons,     \* onset horizons, in windows
    NegativeCap,  \* cap of a negative stratum of the evaluation set
    MaxAttacked   \* bound: rows under attack

ASSUME TrainingDataAssumption ==
    /\ {Captures, Span, L, K, ValOneIn, NegativeCap} \subseteq Nat \ {0}
    /\ {GapWindows, MarginWindows, MergeGap, MaxAttacked} \subseteq Nat
    /\ Horizons \subseteq Nat \ {0} /\ Horizons # {}

VARIABLES
    table,      \* the rows of the captures
    attack,     \* the rows whose stage_label is not benign
    stage,      \* how far the preparation is: "raw", "split", "sampled"
    risk,       \* the rows whose risk_label is 1
    val,        \* the rows of the validation split; the other rows train
    place,      \* per candidate of the validation split: its onset geometry
    drawn       \* per stratum: the candidates of the evaluation set

dataVars == <<table, attack, stage, risk, val, place, drawn>>

FirstOf(c) == (c - 1) * (Span + GapWindows)
WindowsOfCapture(c) == FirstOf(c)..(FirstOf(c) + Span - 1)
HostOf(r) == r[1]
At(r) == r[2]
Block(S, c) == {r \in S : At(r) \in WindowsOfCapture(c)}

\* The rows of one host in a table sorted by host and window.
Own(S, h) == {r \in S : HostOf(r) = h}
Later(S, r) == {s \in Own(S, HostOf(r)) : At(s) > At(r)}
\* The next n rows of its host, by position: the array knows no clock.
Ahead(S, r, n) ==
    LET later == Later(S, r)
    IN  {s \in later : Cardinality({u \in later : At(u) <= At(s)}) <= n}
Behind(S, r) == {s \in Own(S, HostOf(r)) : At(s) < At(r)}
Just(S, r) ==
    LET behind == Behind(S, r)
    IN  {s \in behind : \A u \in behind : At(u) <= At(s)}

-----------------------------------------------------------------------------
\* reattach_risk_label: an attack among the next K rows of the host.
RiskLabels(S) == {r \in S : Ahead(S, r, K) \cap attack # {}}

\* A run of S opens at its first element and ends where the next run closes.
RunsFrom(opens, closes) ==
    {[host  |-> a.host, start |-> a.start,
      end   |-> Min({b.end : b \in {b \in closes : b.host = a.host /\ b.end >= a.start}})] :
        a \in opens}

\* find_episodes: maximal runs of attack rows of a host, by position.
EpisodesIn(S) ==
    LET hits == {[host |-> HostOf(r), start |-> At(r), end |-> At(r)] : r \in S \cap attack}
        Row(e) == <<e.host, e.start>>
    IN  RunsFrom({e \in hits : Just(S, Row(e)) \cap attack = {}},
                 {e \in hits : Ahead(S, Row(e), 1) \cap attack = {}})

\* merge_episodes joins two runs of a host when at most MergeGap windows
\* lie between them.
Linked(e, f) ==
    e.host = f.host /\ e.end < f.start /\ f.start - e.end - 1 <= MergeGap

Merged(S) ==
    LET raw == EpisodesIn(S)
    IN  RunsFrom({e \in raw : ~\E d \in raw : Linked(d, e)},
                 {e \in raw : ~\E f \in raw : Linked(e, f)})

-----------------------------------------------------------------------------
\* _trailing_block_cutoff: the time of the first validation window of one
\* capture: unique_ts[int(n (1 - val_fraction))].  An episode that is alive at
\* the cut, or begins within the margin after it, moves the cut once, to the
\* margin before the earliest of those episodes.
NearCut(S, cut) == {e \in EpisodesIn(S) : e.start - MarginWindows < cut /\ e.end >= cut}

Cutoff(S) ==
    LET times == {At(r) : r \in S}
        position == (Cardinality(times) * (ValOneIn - 1)) \div ValOneIn
        cut == Min({t \in times : Cardinality({u \in times : u < t}) >= position})
    IN  IF NearCut(S, cut) = {} THEN cut
        ELSE Max({Min({e.start : e \in NearCut(S, cut)}) - MarginWindows, Min(times)})

\* temporal_train_val_split, per_day: a trailing block of every capture.
Validation(S) ==
    UNION {LET cut == Cutoff(Block(S, c)) IN {r \in Block(S, c) : At(r) >= cut} :
               c \in {c \in 1..Captures : Block(S, c) # {}}}

\* _filter_min_windows: hosts with fewer than L + K rows in a capture leave it.
LongEnough(S) ==
    {r \in S : \E c \in 1..Captures :
        r \in Block(S, c) /\ Cardinality(Own(Block(S, c), HostOf(r))) >= L + K}

\* Mutant: the labels attached per capture before the cut are kept.
SplitLabelsOfCapture(S, V) == UNION {RiskLabels(Block(S, c)) : c \in 1..Captures}

\* build_splits(horizon_k): risk_label is derived again inside each part.
SplitLabels(S, V) == RiskLabels(S \ V) \cup RiskLabels(V)

train == table \ val

-----------------------------------------------------------------------------
\* enumerate_candidates: the rows with L - 1 rows before and K after them.
Origins(S) ==
    {r \in S : /\ Cardinality(Behind(S, r)) >= L - 1
               /\ Cardinality(Later(S, r)) >= K}

\* materialize: the history of an origin is the L rows that end with it.
History(S, r) ==
    {s \in Behind(S, r) \cup {r} : Cardinality({u \in Own(S, HostOf(r)) :
                                           At(s) < At(u) /\ At(u) <= At(r)}) < L}

NoOnset == Span * Captures + GapWindows * Captures + 1

\* Mutant: a later episode takes over the rows inside an earlier one.
KeyAlways(before, inside) == before

\* A row is keyed to the onset it precedes unless it is inside an episode.
KeyBefore(before, inside) == before /\ ~inside

\* episode_geometry for one origin: the loop over the episodes of its host
\* in the order they start.
Geometry(episodes, r) ==
    LET own == {e \in episodes : e.host = HostOf(r)}
        nth(i) == CHOOSE e \in own : Cardinality({f \in own : f.start < e.start}) = i - 1
        loop[i \in 0..Cardinality(own)] ==
            IF i = 0 THEN [inside |-> FALSE, wait |-> NoOnset, key |-> NoOnset]
            ELSE LET was == loop[i - 1]
                     e == nth(i)
                     within == e.start <= At(r) /\ At(r) <= e.end
                     before == At(r) < e.start /\ e.start - At(r) < was.wait
                 IN  [inside |-> was.inside \/ within,
                      wait   |-> IF before THEN e.start - At(r) ELSE was.wait,
                      key    |-> IF within \/ KeyBefore(before, was.inside)
                                 THEN e.start ELSE was.key]
    IN  loop[Cardinality(own)]

\* onset_targets: the next onset is within the horizon, of an origin that is
\* outside every episode.
OnsetWithin(g, h) == ~g.inside /\ g.wait <= h

\* The lower edge of the bucket that ends at horizon h.
Lower(h) == Max({0} \cup {i \in Horizons : i < h})

\* Mutant: the bucket is closed at its lower edge.
AtRiskFromEdge(g, h) == ~g.inside /\ g.wait >= Lower(h)

\* discrete_hazard_targets: no onset before the bucket (lower, h] begins.
AtRisk(g, h) == ~g.inside /\ g.wait > Lower(h)
Event(g, h) == AtRisk(g, h) /\ g.wait <= h

-----------------------------------------------------------------------------
Strata == {"positive", "pre_onset", "negative"}

\* build_eval_set: what stratum a candidate of the validation table is in.
\* The active and the silent negatives are capped alike.
StratumOf(r, g) ==
    IF r \in risk THEN "positive"
    ELSE IF ~g.inside /\ r \notin attack /\ g.wait <= Max(Horizons) THEN "pre_onset"
    ELSE "negative"

\* Mutant: the cap applies to every stratum.
DrawsCapped(s, rows) ==
    IF Cardinality(rows) <= NegativeCap THEN {rows} ELSE kSubset(NegativeCap, rows)

\* Only a negative stratum is capped; the rest is kept whole.
Draws(s, rows) ==
    IF s # "negative" \/ Cardinality(rows) <= NegativeCap THEN {rows}
    ELSE kSubset(NegativeCap, rows)

-----------------------------------------------------------------------------
\* The runs of rows a host may have in a capture: all of it, its end, or none.
Presence == {{}, 0..(Span - 1), 1..(Span - 1)}

DataInit ==
    /\ \E p \in [TrainHost \X (1..Captures) -> Presence] :
          table = {r \in TrainHost \X (0..NoOnset) :
                      \E c \in 1..Captures : At(r) - FirstOf(c) \in p[<<HostOf(r), c>>]}
    /\ attack \in UNION {kSubset(n, table) : n \in 0..MaxAttacked}
    /\ stage = "raw" /\ risk = {} /\ val = {} /\ place = <<>>
    /\ drawn = [s \in Strata |-> {}]

\* build_all_splits: filter, carve the validation blocks, label both parts.
BuildAllSplits ==
    /\ stage = "raw"
    /\ stage' = "split"
    /\ LET kept == LongEnough(table)
           held == Validation(kept)
       IN  /\ table' = kept
           /\ val' = held
           /\ risk' = SplitLabels(kept, held)
    /\ UNCHANGED <<attack, place, drawn>>

\* build_eval_set on the validation split: the geometry of every candidate,
\* its stratum, and a seeded draw from each stratum.
BuildEvalSet ==
    /\ stage = "split"
    /\ stage' = "sampled"
    /\ \E episodes \in {Merged(val)} :
          place' = [r \in Origins(val) |-> Geometry(episodes, r)]
    /\ LET rows(s) == {r \in DOMAIN place' : StratumOf(r, place'[r]) = s}
       IN  \E p \in Draws("positive", rows("positive")),
              q \in Draws("pre_onset", rows("pre_onset")),
              n \in Draws("negative", rows("negative")) :
              drawn' = [positive |-> p, pre_onset |-> q, negative |-> n]
    /\ UNCHANGED <<table, attack, risk, val>>

DataNext == BuildAllSplits \/ BuildEvalSet

DataSpec == DataInit /\ [][DataNext]_dataVars
-----------------------------------------------------------------------------
\* Every label is made of attacks of its own side of the split (build_splits:
\* "that boundary leaked <=K positives per nudged episode into train"), and
\* every attack of that side within K windows makes one.  The converse, "an
\* index offset equals a time offset" (labels.py:198, 213-216), is true only
\* inside a capture: build_splits concatenates the captures first, so the last
\* rows of a host in one capture are also labelled from the K rows that follow
\* in a later one, hours away.  A label that no attack within K windows earns
\* is always of that kind.
LabelsStayOnTheirSide ==
    stage # "raw" =>
        \A r \in table :
            LET ahead == {s \in attack \cap Own(table, HostOf(r)) :
                             At(s) > At(r) /\ (s \in val <=> r \in val)}
                soon == {s \in ahead : At(s) - At(r) <= K}
            IN  /\ soon # {} => r \in risk
                /\ r \in risk /\ soon = {} =>
                      \E s \in ahead : \A c \in 1..Captures :
                          r \in Block(table, c) => s \notin Block(table, c)

\* An episode with its run-up, the margin before it, stays on one side of the
\* cut of its capture, except one that the cut was moved into: the nudge of
\* splits.py:119-121 looks for episodes near the first cut only, and moves the
\* cut to the margin before the earliest of them.  An episode that had ended
\* before the first cut can be alive at the second, or begin within the margin
\* after it, whatever splits.py:104-106 and 131-134 say ("no episode straddles it
\* AND no episode starts within `pre_onset_margin_s` after it").
OnlyTheNudgeStraddles ==
    stage # "raw" =>
        \A c \in 1..Captures :
            LET episodes == EpisodesIn(Block(table, c))
                around(e) == {r \in Block(table, c) : At(r) \in (e.start - MarginWindows)..e.end}
            IN  \A e \in episodes :
                    around(e) \cap val # {} /\ around(e) \ val # {} =>
                        \E f \in episodes : /\ e.start < f.start /\ e.end < f.end
                                            /\ f.start - MarginWindows <= e.end

\* The loop over episodes gives every origin what the definition of its
\* place says: inside if some episode covers it, the distance to the first
\* later start, and the episode it is in, else the one it precedes.  Merged
\* episodes cover every attack row and lie more than the gap apart.
GeometryIsExact ==
    stage = "sampled" =>
        LET episodes == Merged(val)
        IN  /\ \A r \in DOMAIN place \cap attack : place[r].inside
            /\ \A e, f \in episodes :
                  e.host = f.host /\ e.start < f.start => f.start - e.end - 1 > MergeGap
            /\ \A r \in DOMAIN place :
                  LET own == {e \in episodes : e.host = HostOf(r)}
                      around == {e.start : e \in {e \in own : At(r) \in e.start..e.end}}
                      ahead == {e.start : e \in {e \in own : e.start > At(r)}}
                      first == IF ahead = {} THEN NoOnset ELSE Min(ahead)
                  IN  /\ place[r].inside <=> around # {}
                      /\ place[r].wait = IF ahead = {} THEN NoOnset ELSE first - At(r)
                      /\ place[r].key \in IF around = {} THEN {first} ELSE around

\* The survival targets and the per-horizon targets describe one event: an
\* onset lies within horizon j exactly when one of the first j buckets holds
\* it, no row has two events, and a row is at risk in every bucket up to its
\* event and in none after it.
HazardsMatchOnsets ==
    \A r \in DOMAIN place :
        \A h \in Horizons :
            /\ OnsetWithin(place[r], h) <=> \E i \in Horizons : i <= h /\ Event(place[r], i)
            /\ Event(place[r], h) => \A i \in Horizons : AtRisk(place[r], i) <=> i <= h

\* No positive and no pre-onset candidate is ever sampled away: the caps of
\* build_eval_set reach the two negative strata only (eval_set.py:1-30).
RareIsNeverSampledAway ==
    stage = "sampled" =>
        \A r \in DOMAIN place :
            r \in risk \/ (~place[r].inside /\ place[r].wait <= Max(Horizons))
                => \E s \in Strata : r \in drawn[s]

\* The evaluation set measures what it says: its geometry, its targets and its
\* rare strata (eval_set.py:1-30).
EvalSetIsSound == GeometryIsExact /\ HazardsMatchOnsets /\ RareIsNeverSampledAway

\* What is trained on and what is measured on, from one table: labels and
\* episodes on one side of the split, but for the two cases named above, and an
\* evaluation set that is what it says.
SplitsAreSound == LabelsStayOnTheirSide /\ OnlyTheNudgeStraddles /\ EvalSetIsSound
=============================================================================
