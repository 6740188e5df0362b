--------------------------- MODULE FileForecasts ---------------------------
(***************************************************************************)
(* ml/nidra/cli/forecast.py: a capture or a CSV is turned into a state     *)
(* table, every origin with a full history is forecast in chunks, and the  *)
(* forecasts, the strongest alerts and, for a labelled input, the lead     *)
(* times are written.  StateTable builds the rows (a host's are            *)
(* contiguous); of a forecast its score is kept, of a row its labels.      *)
(* Times are in windows.                                                   *)
(***************************************************************************)
EXTENDS Integers, Sequences, FiniteSets, SequencesExt, FiniteSetsExt

CONSTANTS
    CaptureTables,        \* sequences of rows [host, ts, stage], by host and time
    History, Horizon,     \* L and K
    ScoreRange, Flag,     \* of p_within_horizon, and the threshold
    BatchSize,            \* --chunk
    OriginCaps,           \* --max-origins, 0 for none
    MaxAlerts,            \* --max-alerts
    AlertRun,             \* m of lead_time_report
    EpisodeMergeGap       \* benign windows between runs of one episode

ASSUME FileForecastsAssumption ==
    /\ {History, Horizon, BatchSize, AlertRun} \subseteq Nat \ {0}
    /\ {MaxAlerts, EpisodeMergeGap} \cup OriginCaps \subseteq Nat
    /\ ScoreRange \subseteq Nat /\ Flag \in Nat
    /\ \A table \in CaptureTables : Len(table) > 0

VARIABLES
    stateRows,       \* the state table
    labelled,     \* the input carried labels
    origins,      \* kept origins [host, ts, X], X being the rows it reads
    scores,       \* p_within_horizon of those that were forecast
    written       \* forecasts.csv, alerts.json and summary.json

fileVars == <<stateRows, labelled, origins, scores, written>>

Unread == <<"not read">>
Unwritten == [at |-> "none"]
RowsIn(host) == {i \in DOMAIN stateRows : stateRows[i].host = host}
HostsIn == {stateRows[i].host : i \in DOMAIN stateRows}

-----------------------------------------------------------------------------
\* attach_risk_label: an attack within the horizon of the row.
RiskLabel(i) == \E j \in RowsIn(stateRows[i].host) :
                   /\ stateRows[j].stage # "benign"
                   /\ stateRows[j].ts > stateRows[i].ts /\ stateRows[j].ts <= stateRows[i].ts + Horizon

\* The windows slide over the table as one (a mutation).
AcrossHosts ==
    [n \in 1..(Len(stateRows) - History + 1) |->
        [host |-> stateRows[n + History - 1].host, ts |-> stateRows[n + History - 1].ts,
         X |-> [j \in 1..History |-> n + j - 1]]]

\* enumerate_contexts: the table is one array; a host begins where the rows
\* of the one before it end.
enumerate_contexts ==
    LET First(host) == Min(RowsIn(host))
        Last_(host) == Max(RowsIn(host))
        Ends(host) == {i \in RowsIn(host) : i >= First(host) + History - 1 /\ i <= Last_(host)}
        IsEnd(i) == i \in UNION {Ends(h) : h \in HostsIn}
        ends == SelectSeq([i \in DOMAIN stateRows |-> i], IsEnd)
    IN  [n \in DOMAIN ends |->
           [host |-> stateRows[ends[n]].host, ts |-> stateRows[ends[n]].ts,
            X |-> [j \in 1..History |-> ends[n] - History + j]]]

\* run, up to the forecasts; a random choice of origins is put in order.
Prepare ==
    /\ origins = Unread
    /\ LET all == enumerate_contexts
       IN  /\ all # <<>>
           /\ \E cap \in OriginCaps :
              \E keep \in IF cap # 0 /\ Len(all) > cap THEN kSubset(cap, DOMAIN all) ELSE {DOMAIN all} :
                LET Kept(n) == n \in keep
                    index == SelectSeq([n \in DOMAIN all |-> n], Kept)
                IN  origins' = [n \in DOMAIN index |-> all[index[n]]]
    /\ UNCHANGED <<stateRows, labelled, scores, written>>

\* forecast_batch, a chunk at a time.
ForecastChunk ==
    /\ origins # Unread /\ Len(scores) < Len(origins)
    /\ \E p \in [1..Min({BatchSize, Len(origins) - Len(scores)}) -> ScoreRange] : scores' = scores \o p
    /\ UNCHANGED <<stateRows, labelled, origins, written>>

Above(n) == scores[n] >= Flag

\* The strongest first; equals keep an order of their own.
StrongestOf(flagged, many) ==
    {chosen \in kSubset(Min({many, Cardinality(flagged)}), flagged) :
        \A n \in chosen, o \in flagged \ chosen : scores[n] >= scores[o]}

\* merge_episodes: attack windows of a host, with short breaks merged.
AttacksOf(host) == {stateRows[i].ts : i \in {j \in RowsIn(host) : stateRows[j].stage # "benign"}}
merge_episodes(host) ==
    LET at == AttacksOf(host)
        Starts == {t \in at : \A u \in at : u < t => t - u - 1 > EpisodeMergeGap}
        EndOf(s) == Max({t \in at : t >= s /\ \A v \in Starts : v > s => t < v})
    IN  {[host |-> host, start |-> s, end |-> EndOf(s)] : s \in Starts}

\* The earliest run of AlertRun origins in a row that is over by the end of
\* the episode, as the time of its first; 0 if there is none.
FirstAlert(ep) ==
    LET OfHost(n) == origins[n].host = ep.host
        mine == SelectSeq([n \in DOMAIN origins |-> n], OfHost)
        complete == {i \in DOMAIN mine :
                       /\ i >= AlertRun /\ origins[mine[i]].ts <= ep.end
                       /\ \A j \in (i - AlertRun + 1)..i : Above(mine[j])}
    IN  IF complete = {} THEN 0 ELSE origins[mine[Min(complete) - AlertRun + 1]].ts

lead_time_report ==
    LET episodes == UNION {merge_episodes(h) : h \in HostsIn}
        entries == {ep @@ [first_alert |-> FirstAlert(ep)] : ep \in episodes}
        Warned(e) == e.first_alert # 0 /\ e.first_alert < e.start
    IN  [episodes |-> entries, n_episodes |-> Cardinality(episodes),
         n_warned_before_onset |-> Cardinality({e \in entries : Warned(e)}),
         n_alerted_within_episode |-> Cardinality({e \in entries : e.first_alert # 0 /\ ~Warned(e)})]

\* The rest of run.  An alert is a forecast of its own, which rolls out afresh:
\* of its score the verdict is kept, which owes nothing to the row's.
WriteFiles ==
    /\ origins # Unread /\ Len(scores) = Len(origins) /\ written = Unwritten
    /\ LET RowAt(n) == CHOOSE i \in RowsIn(origins[n].host) : stateRows[i].ts = origins[n].ts
           flagged == {n \in DOMAIN origins : Above(n)}
       IN  \E chosen \in StrongestOf(flagged, MaxAlerts) : \E verdict \in [chosen -> BOOLEAN] :
             written' = [at |-> "files",
                rows |-> [n \in DOMAIN origins |->
                   [host |-> origins[n].host, ts |-> origins[n].ts, p |-> scores[n],
                    risk_label |-> IF labelled THEN RiskLabel(RowAt(n)) ELSE FALSE,
                    stage |-> IF labelled THEN stateRows[RowAt(n)].stage ELSE "none"]],
                alerts |-> [n \in chosen |->
                   [host |-> origins[n].host, ts |-> origins[n].ts, above_threshold |-> verdict[n]]],
                n_above_threshold |-> Cardinality(flagged),
                ground_truth |-> IF labelled THEN lead_time_report ELSE Unwritten]
    /\ UNCHANGED <<stateRows, labelled, origins, scores>>

\* build_state_table; without a label every row is benign.
FileInit ==
    /\ labelled \in BOOLEAN
    /\ stateRows \in {IF labelled THEN t ELSE [i \in DOMAIN t |-> [t[i] EXCEPT !.stage = "benign"]]
                     : t \in CaptureTables}
    /\ origins = Unread /\ scores = <<>> /\ written = Unwritten

FileNext == Prepare \/ ForecastChunk \/ WriteFiles

FileSpec == FileInit /\ [][FileNext]_fileVars

-----------------------------------------------------------------------------
(* Properties, of the files that were written.                             *)

\* A forecast reads windows of its own host, without a gap, up to its own
\* instant, and carries the labels of that instant.
RowsAreOfTheirOrigin ==
    \A n \in DOMAIN origins :
      /\ \A j \in 1..History :
           \E i \in DOMAIN stateRows :
              /\ i = origins[n].X[j]
              /\ stateRows[i].host = origins[n].host /\ stateRows[i].ts = origins[n].ts - History + j
      /\ written.rows[n].stage \in {"none", stateRows[origins[n].X[History]].stage}
      /\ written.rows[n].risk_label =
           \E t \in AttacksOf(origins[n].host) : t \in (origins[n].ts + 1)..(origins[n].ts + Horizon)

\* "every above-threshold origin with its full forecast() output ... capped by
\* --max-alerts" (cli/forecast.py:16-18): the origins of the alerts are above the
\* threshold, and none that is stronger is left out, by the scores of
\* forecasts.csv.  The "full forecast() output" itself need not be above it: it is
\* of another rollout (189-191), and nothing is asked here of its own verdict.
AlertsAreTheStrongest ==
    LET alerts == written.alerts
        Row(n) == written.rows[n]
    IN  /\ \A n \in DOMAIN alerts :
              Row(n).p >= Flag /\ alerts[n].host = Row(n).host /\ alerts[n].ts = Row(n).ts
        /\ Cardinality(DOMAIN alerts) = Min({MaxAlerts, written.n_above_threshold})
        /\ \A n \in DOMAIN alerts, o \in DOMAIN origins \ DOMAIN alerts :
              Row(o).p >= Flag => Row(o).p <= Row(n).p

\* Warned, alerted late and missed make up the episodes, which hold every
\* attack window once; an alert is a run that stood before the episode ended,
\* and no earlier one did: of adjacent windows, when no origin was left out.
LeadsAreOfRuns ==
    LET truth == written.ground_truth
        missed == {e \in truth.episodes : e.first_alert = 0}
        every == {<<origins[n].host, origins[n].ts>> : n \in DOMAIN origins}
        Flagged(h, t) == \E n \in DOMAIN origins : origins[n].host = h /\ origins[n].ts = t /\ Above(n)
        Stands(h, t) == \A u \in t..(t + AlertRun - 1) : Flagged(h, u)
    IN  truth # Unwritten =>
          /\ truth.n_warned_before_onset + truth.n_alerted_within_episode + Cardinality(missed)
               = truth.n_episodes
          /\ \A h \in HostsIn : \A t \in AttacksOf(h) :
               Cardinality({e \in truth.episodes : e.host = h /\ t \in e.start..e.end}) = 1
          /\ \A e, f \in truth.episodes : e.host = f.host /\ e.start < f.start =>
               f.start - e.end - 1 > EpisodeMergeGap
          /\ Len(origins) = Len(enumerate_contexts) =>
               \A e \in truth.episodes :
                 LET earlier == {x[2] : x \in {y \in every : /\ y[1] = e.host
                                                            /\ y[2] + AlertRun - 1 <= e.end
                                                            /\ Stands(y[1], y[2])}}
                 IN  e.first_alert = IF earlier = {} THEN 0 ELSE Min(earlier)

\* What the command line tool writes of a capture is about that capture: its
\* contexts never cross a host, its alerts are the strongest, its episodes add
\* up (cli/forecast.py:89-138, 163-214).
FileForecastsAddUp == written # Unwritten => RowsAreOfTheirOrigin /\ AlertsAreTheStrongest /\ LeadsAreOfRuns
=============================================================================
