------------------------------ MODULE Episodes ------------------------------
(***************************************************************************)
(* The pure half of services/persister/episodes.py: how one forecast moves *)
(* the episode state of one (tenant, host).  Window timestamps are         *)
(* positive integers, risks are integers, and 0 stands for a timestamp     *)
(* that is None.  The `stages` list, which nothing reads back, is left out.*)
(***************************************************************************)
EXTENDS Integers

CONSTANTS
    RiskThreshold,  \* risk_threshold
    CloseAfter,     \* episode_close_after
    LeadTimeM       \* lead_time_m

ASSUME RulesAssumption ==
    /\ RiskThreshold \in Int
    /\ CloseAfter \in Nat
    /\ LeadTimeM \in Nat

Never == 0
NoEpisode == [id |-> 0]
NoTransition == [state |-> "unchanged"]

\* ForecastSummary, OpenEpisode and HostEpisodeState.
Summary(T, R) == [origin_ts : T, max_p_compromise : R]

OpenEpisode(T, R) ==
    [id : Nat \ {0}, started_at : T, peak_risk : R, first_alert_at : T \union {Never},
     above : Nat, below : Nat]

HostEpisodeState(T, R) ==
    [last_ts : T \union {Never}, episode : OpenEpisode(T, R) \union {NoEpisode}]

FreshState == [last_ts |-> Never, episode |-> NoEpisode]

IsAbove(f) == f.max_p_compromise >= RiskThreshold

\* A redelivery, or a forecast that arrives out of order.
IsStale(state, f) == state.last_ts # Never /\ f.origin_ts <= state.last_ts

\* The aggregate of an episode that opens with f.
Opening(f, id) ==
    [id |-> id, started_at |-> f.origin_ts, peak_risk |-> f.max_p_compromise,
     first_alert_at |-> IF LeadTimeM <= 1 THEN f.origin_ts ELSE Never,
     above |-> 1, below |-> 0]

\* Mutant: the count of forecasts above is not restarted by one below.
UpdatedCumulative(e, f) ==
    LET above == IF IsAbove(f) THEN e.above + 1 ELSE e.above
        below == IF IsAbove(f) THEN 0 ELSE e.below + 1
    IN  [e EXCEPT
           !.peak_risk = IF f.max_p_compromise > @ THEN f.max_p_compromise ELSE @,
           !.above = above,
           !.below = below,
           !.first_alert_at = IF @ = Never /\ above >= LeadTimeM
                              THEN f.origin_ts ELSE @]

\* Mutant: each forecast that completes the debounce is the alert.
UpdatedRealerts(e, f) ==
    LET above == IF IsAbove(f) THEN e.above + 1 ELSE 0
        below == IF IsAbove(f) THEN 0 ELSE e.below + 1
    IN  [e EXCEPT
           !.peak_risk = IF f.max_p_compromise > @ THEN f.max_p_compromise ELSE @,
           !.above = above,
           !.below = below,
           !.first_alert_at = IF above >= LeadTimeM THEN f.origin_ts ELSE @]

\* The aggregate e of an open episode after f, closing forecast included.
Updated(e, f) ==
    LET above == IF IsAbove(f) THEN e.above + 1 ELSE 0
        below == IF IsAbove(f) THEN 0 ELSE e.below + 1
    IN  [e EXCEPT
           !.peak_risk = IF f.max_p_compromise > @ THEN f.max_p_compromise ELSE @,
           !.above = above,
           !.below = below,
           !.first_alert_at = IF @ = Never /\ above >= LeadTimeM
                              THEN f.origin_ts ELSE @]

IsClosing(e, f) == ~IsAbove(f) /\ Updated(e, f).below >= CloseAfter

\* A Transition: the next state, the aggregate for the episode's row, and
\* which SQL write it calls for.
Transition(state, f, episode, write, ended_at) ==
    [state |-> [last_ts |-> f.origin_ts, episode |-> state],
     episode |-> episode, write |-> write, ended_at |-> ended_at]

\* `id` is the uuid4 drawn for a new episode.
advance(state, f, id) ==
    CASE IsStale(state, f) -> NoTransition
      [] ~IsStale(state, f) /\ state.episode = NoEpisode /\ ~IsAbove(f) ->
            Transition(NoEpisode, f, NoEpisode, "none", Never)
      [] ~IsStale(state, f) /\ state.episode = NoEpisode /\ IsAbove(f) ->
            Transition(Opening(f, id), f, Opening(f, id), "insert", Never)
      [] ~IsStale(state, f) /\ state.episode # NoEpisode ->
            LET e == Updated(state.episode, f)
            IN  IF IsClosing(state.episode, f)
                THEN Transition(NoEpisode, f, e, "update", f.origin_ts)
                ELSE Transition(e, f, e, "update", Never)

-----------------------------------------------------------------------------
(***************************************************************************)
(* The episodes table, rows numbered in the order they were inserted; the  *)
(* row number stands for the uuid.  INSERT_EPISODE and UPDATE_EPISODE.     *)
(***************************************************************************)
EpisodeRow(T, R) ==
    [started_at : T, ended_at : T \union {Never}, peak_risk : R,
     first_alert_at : T \union {Never}]

IsOpen(row) == row.ended_at = Never

RowOf(e, ended_at) ==
    [started_at |-> e.started_at, ended_at |-> ended_at, peak_risk |-> e.peak_risk,
     first_alert_at |-> e.first_alert_at]

\* _write_episode: nothing, INSERT, or UPDATE ... WHERE id = :id (which
\* leaves started_at as it was inserted).
WriteEpisode(rows, t) ==
    CASE t.write = "none" -> rows
      [] t.write = "insert" ->
            [i \in DOMAIN rows \union {t.episode.id} |->
                IF i = t.episode.id THEN RowOf(t.episode, t.ended_at) ELSE rows[i]]
      [] t.write = "update" ->
            [i \in DOMAIN rows |->
                IF i = t.episode.id
                THEN [RowOf(t.episode, t.ended_at) EXCEPT !.started_at = rows[i].started_at]
                ELSE rows[i]]
==============================================================================
