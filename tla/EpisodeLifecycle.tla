-------------------------- MODULE EpisodeLifecycle --------------------------
(***************************************************************************)
(* What the persister promises for one host: each forecast is folded into  *)
(* the episode state and into the episodes table in one indivisible step,  *)
(* whatever the order forecasts come in and however often each one comes.  *)
(* `seen` remembers the forecasts that moved the state; the properties     *)
(* state what an episode is in terms of `seen` alone.                      *)
(***************************************************************************)
EXTENDS Episodes, FiniteSets

CONSTANTS
    Ts,     \* the window timestamps
    Risk    \* the values max_p_compromise takes

ASSUME LifecycleAssumption == Ts \subseteq Nat \ {0} /\ Risk \subseteq Int

VARIABLES
    state,  \* the hash ep:{tenant}:{host}
    rows,   \* the episodes table: row number -> row
    seen    \* history: the forecasts that advanced the state

lifecycleVars == <<state, rows, seen>>

EpisodeInit == state = FreshState /\ rows = <<>> /\ seen = {}

NewId == Cardinality(DOMAIN rows) + 1

Fold(f) ==
    LET t == advance(state, f, NewId)
    IN  /\ t # NoTransition
        /\ state' = t.state
        /\ rows' = WriteEpisode(rows, t)
        /\ seen' = seen \union {f}

\* A stale forecast leaves everything as it is.
Skip(f) ==
    /\ advance(state, f, NewId) = NoTransition
    /\ UNCHANGED lifecycleVars

EpisodeNext == \E f \in Summary(Ts, Risk) : Fold(f) \/ Skip(f)

EpisodeSpec == EpisodeInit /\ [][EpisodeNext]_lifecycleVars

-----------------------------------------------------------------------------
EpisodeTypeOK ==
    /\ state \in HostEpisodeState(Ts, Risk)
    /\ DOMAIN rows = 1..Cardinality(DOMAIN rows)
    /\ \A i \in DOMAIN rows : rows[i] \in EpisodeRow(Ts, Risk)
    /\ seen \subseteq Summary(Ts, Risk)

Covers(row, f) ==
    row.started_at <= f.origin_ts /\ (IsOpen(row) \/ f.origin_ts <= row.ended_at)

\* The forecasts of S after origin t, up to and including u.
Between(S, t, u) == {f \in S : t < f.origin_ts /\ f.origin_ts <= u}

\* Forecast f ends a run of n forecasts of S, all of them satisfying P.
EndsRun(S, f, n, P(_)) ==
    \E g \in S :
        LET run == Between(S, g.origin_ts - 1, f.origin_ts)
        IN  Cardinality(run) = n /\ \A x \in run : P(x)

\* The hash and the table tell the same story: the open aggregate is the one
\* row without an ended_at, and every other row is closed.
OneOpenRow ==
    \A i \in DOMAIN rows :
        IsOpen(rows[i]) <=> state.episode # NoEpisode /\ state.episode.id = i

\* Episodes of a host never overlap, and every forecast over the threshold
\* lies in one; an episode starts with such a forecast.
EpisodesPartition ==
    /\ \A i, j \in DOMAIN rows :
          i < j => ~IsOpen(rows[i]) /\ rows[i].ended_at < rows[j].started_at
    /\ \A f \in seen : IsAbove(f) => \E i \in DOMAIN rows : Covers(rows[i], f)
    /\ \A i \in DOMAIN rows :
          \E f \in seen : f.origin_ts = rows[i].started_at /\ IsAbove(f)

\* DECISIONS D48: first_alert_at is the first forecast of the episode that
\* completes lead_time_m consecutive ones above the threshold, None when no
\* forecast does.
AlertIsDebounced ==
    \A i \in DOMAIN rows :
        LET inside == {f \in seen : Covers(rows[i], f)}
            alerts == {f \in inside : EndsRun(inside, f, LeadTimeM, IsAbove)}
        IN  IF alerts = {} THEN rows[i].first_alert_at = Never
            ELSE \E f \in alerts :
                    /\ rows[i].first_alert_at = f.origin_ts
                    /\ \A g \in alerts : f.origin_ts <= g.origin_ts

\* An episode ends with the first episode_close_after consecutive forecasts
\* below the threshold, and stays open until then; its peak is the largest
\* risk of its forecasts, the cool-down included (D49).
ClosedByQuiet ==
    \A i \in DOMAIN rows :
        LET inside == {f \in seen : Covers(rows[i], f)}
            quiet == {f \in inside :
                        EndsRun(inside, f, CloseAfter, LAMBDA g : ~IsAbove(g))}
        IN  /\ \A f \in quiet : f.origin_ts = rows[i].ended_at
            /\ IsOpen(rows[i]) <=> quiet = {}
            /\ \E f \in inside : f.max_p_compromise = rows[i].peak_risk
            /\ \A f \in inside : f.max_p_compromise <= rows[i].peak_risk

\* What has been shown is never taken back: a closed row is final, an alert
\* keeps its time, a row is never lost, and the watermark only moves forward.
HistoryIsFinal ==
    [][/\ \A i \in DOMAIN rows :
             /\ i \in DOMAIN rows'
             /\ ~IsOpen(rows[i]) => rows'[i] = rows[i]
             /\ rows[i].first_alert_at # Never =>
                   rows'[i].first_alert_at = rows[i].first_alert_at
       /\ state'.last_ts >= state.last_ts]_lifecycleVars

\* What the episode list of a host shows, after any sequence of forecasts:
\* rows that partition time (test_persister.py), an alert where the debounce
\* of D48 puts it, an end where the quiet run of D49 puts it.
LifecycleIsSound ==
    EpisodeTypeOK /\ OneOpenRow /\ EpisodesPartition /\ AlertIsDebounced /\ ClosedByQuiet
==============================================================================
