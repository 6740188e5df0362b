------------------------------- MODULE LeadTimes -------------------------------
(***************************************************************************)
(* eval/metrics.py, episode_metrics.py, lead_time_runner.py and            *)
(* campaign_metrics.py: how early a score warned of an attack.  One host's *)
(* day, window by window; a window is scored if it has a full context and  *)
(* a full horizon, and an evaluation set may lack some of them, as its     *)
(* strata of negatives are capped.                                         *)
(***************************************************************************)
EXTENDS Integers, FiniteSets, FiniteSetsExt

CONSTANTS
    LastT,          \* bound: windows 1 .. LastT, one window_seconds apart
    StageRanks,     \* 0 is benign, STAGE_INDEX
    OriginHistory,  \* L, windows of the context of an origin
    OriginHorizon,  \* K, windows of its horizon
    Streak,         \* m, consecutive windows for a flag
    EpisodeGap,     \* merge_gap_windows
    CampaignGap,    \* max_gap_minutes, in windows
    PreOnset,       \* pre_onset_minutes, in windows
    MaxMissing      \* bound: windows a cap takes from the evaluation set

ASSUME LeadAssumption ==
    /\ {LastT, EpisodeGap, CampaignGap, PreOnset, MaxMissing} \subseteq Nat
    /\ {Streak, OriginHistory, OriginHorizon} \subseteq Nat \ {0} /\ 0 \in StageRanks /\ StageRanks \subseteq Nat

VARIABLES stageAt,   \* stage_label of each window
          episodes,  \* the spans of the attack
          hits,      \* the windows whose score reaches the threshold
          missing    \* the windows that are not in the evaluation set

leadVars == <<stageAt, episodes, hits, missing>>

Day == 1 .. LastT
Attacked == {t \in Day : stageAt[t] # 0}

\* episode_spans: attack windows at most EpisodeGap benign windows apart are
\* one episode; it has the most advanced of their stages.
episode_spans ==
    LET Opens(t) == t \in Attacked /\ Attacked \cap (t - EpisodeGap - 1) .. (t - 1) = {}
        EndOf(a) == Max({t \in Attacked : \A o \in Attacked : Opens(o) /\ o > a => t < o})
    IN {[onset |-> a, end |-> EndOf(a), stage |-> Max({stageAt[t] : t \in a .. EndOf(a)})] :
            a \in {t \in Day : Opens(t)}}

NextOnset(t) == LET later == {e.onset : e \in episodes} \cap (t + 1) .. LastT
                IN IF later = {} THEN LastT + PreOnset + 1 ELSE Min(later)
Inside(t) == \E e \in episodes : e.onset <= t /\ t <= e.end

\* enumerate_candidates: the windows that can be the origin of a forecast.
ScoredDay == OriginHistory .. LastT - OriginHorizon

\* The strata of build_eval_set that no cap touches.
Positive(t) == Attacked \cap (t + 1) .. (t + OriginHorizon) # {}
PreOnsetRow(t) == ~Inside(t) /\ NextOnset(t) - t <= PreOnset

LeadInit ==
    /\ stageAt \in [Day -> StageRanks]
    /\ episodes = episode_spans
    /\ hits \in SUBSET Day
    /\ missing = Day \ ScoredDay

\* Of the others a cap may take any, in an attack or outside.
LoseWindow(t) ==
    /\ t \in ScoredDay \ missing /\ ~Positive(t) /\ ~PreOnsetRow(t)
    /\ Cardinality(missing \cap ScoredDay) < MaxMissing
    /\ missing' = missing \cup {t}
    /\ UNCHANGED <<stageAt, episodes, hits>>

LeadNext == \E t \in Day : LoseWindow(t)

LeadSpec == LeadInit /\ [][LeadNext]_leadVars

-----------------------------------------------------------------------------
NoStreak == 0

\* _first_run and lead_time_for_episode: Streak rows one after the other.
FirstRun(rows) ==
    LET Begins == {t \in rows : \E u \in rows :
                      /\ t <= u /\ rows \cap t .. u \subseteq hits
                      /\ Cardinality(rows \cap t .. u) = Streak}
    IN IF Begins = {} THEN NoStreak ELSE Min(Begins)

\* _first_timed_run: the run starts again when a window is missing.
_first_timed_run(rows) ==
    LET run[t \in 0 .. LastT] == IF t \notin rows \cap hits THEN 0
                                 ELSE IF t - 1 \in rows THEN run[t - 1] + 1 ELSE 1
        Ends == {t \in rows : run[t] >= Streak}
    IN IF Ends = {} THEN NoStreak
       ELSE CHOOSE t \in rows : Cardinality(rows \cap t .. Min(Ends)) = Streak

\* compute_lead_time_report: every origin before the host's first attack.
HostLead ==
    LET onset == Min(Attacked)
        run == FirstRun({t \in ScoredDay : t < onset})
    IN IF Attacked = {} \/ run = NoStreak THEN NoStreak ELSE onset - run

\* per_episode_report: a row belongs to the episode it is in, or precedes.
Keyed(e, rows) == {t \in rows : \/ e.onset <= t /\ t <= e.end
                                \/ ~Inside(t) /\ NextOnset(t) = e.onset}
per_episode_report(e, rows) ==
    LET own == Keyed(e, rows)
        warned == FirstRun({t \in own : t < e.onset /\ t >= e.onset - PreOnset})
        found == FirstRun({t \in own : Inside(t)})
    IN [lead |-> IF warned = NoStreak THEN NoStreak ELSE e.onset - warned,
        latency |-> IF found = NoStreak THEN -1 ELSE found - e.onset]

-----------------------------------------------------------------------------
\* group_campaigns: episodes chained while the gap between two is short.
group_campaigns ==
    LET Before(e) == {f \in episodes : f.onset < e.onset}
        Previous(e) == CHOOSE f \in Before(e) : \A g \in Before(e) : g.onset <= f.onset
        Begins(e) == Before(e) = {} \/ e.onset - Previous(e).end > CampaignGap
    IN {{e \in episodes : /\ b.onset <= e.onset
                               /\ \A c \in episodes :
                                    Begins(c) /\ b.onset < c.onset => e.onset < c.onset} :
            b \in {e \in episodes : Begins(e)}}

EarliestOf(S) == CHOOSE e \in S : \A f \in S : e.onset <= f.onset
LatestOf(S) == CHOOSE e \in S : \A f \in S : f.onset <= e.onset
completing_phase(campaign) ==
    LET top == Max({e.stage : e \in campaign})
    IN IF Cardinality({e.stage : e \in campaign}) = 1 THEN LatestOf(campaign)
       ELSE EarliestOf({e \in campaign : e.stage = top})

\* Mutant: rows count as consecutive when no row lies between them.
UntimedScore(campaign, rows) ==
    LET completing == completing_phase(campaign)
        from == EarliestOf(campaign).onset - PreOnset
        flag == FirstRun({t \in rows : from <= t /\ t < completing.onset})
    IN [flag |-> flag, lead |-> IF flag = NoStreak THEN NoStreak ELSE completing.onset - flag]

_score_campaign(campaign, rows) ==
    LET completing == completing_phase(campaign)
        from == EarliestOf(campaign).onset - PreOnset
        flag == _first_timed_run({t \in rows : from <= t /\ t < completing.onset})
    IN [flag |-> flag, lead |-> IF flag = NoStreak THEN NoStreak ELSE completing.onset - flag]

Scored == {c \in group_campaigns : Cardinality(c) > 1}

-----------------------------------------------------------------------------
RunAt(t) == t .. t + Streak - 1 \subseteq hits

\* Campaigns share out the episodes, and a campaign of several is scored on its
\* most advanced stage ("first episode of the most advanced stage; the last
\* episode if the campaign never changes stage").
CampaignsPartition ==
    /\ UNION group_campaigns = episodes
    /\ \A c, d \in group_campaigns : c = d \/
          \A e \in c, f \in d : e.onset - f.end > CampaignGap \/ f.onset - e.end > CampaignGap
    /\ \A c \in Scored : \A e \in c : e.stage <= completing_phase(c).stage

\* "A missing window can only hide a flag, never manufacture one": what is
\* flagged on the rows that are left is a run of windows, before the phase it
\* warns of, and no earlier than the flag all the rows would give.
MissingOnlyHides ==
    \A c \in Scored :
        LET all == _score_campaign(c, Day)
            left == _score_campaign(c, Day \ missing)
        IN left.flag # NoStreak => /\ RunAt(left.flag) /\ left.lead >= Streak
                                /\ all.flag # NoStreak /\ all.lead >= left.lead

\* The report per episode, which does not look at the time between its rows,
\* gives the right lead all the same: of the windows before an onset it has
\* every one with a full context and horizon.
EpisodeLeadsAreExact ==
    \A e \in episodes :
        LET r == per_episode_report(e, Day \ missing)
            Clear(t) == \A u \in t .. e.onset - 1 : ~Inside(u)
            warnings == {t \in e.onset - PreOnset .. e.onset - Streak :
                            t .. t + Streak - 1 \subseteq ScoredDay /\ RunAt(t) /\ Clear(t)}
        IN r.lead = IF warnings = {} THEN NoStreak ELSE e.onset - Min(warnings)

\* "Every window of every attack episode" (episode_metrics.py:1-4) it does not
\* have: the last one is followed by no attack and may fall to the cap of
\* active_negative (eval_set.py:135-140).  While the horizon reaches across the
\* pauses of an episode it is the only one, and a run that ends with it the
\* only one that is overlooked.
OnlyTheEndIsHidden ==
    EpisodeGap < OriginHorizon =>
        \A e \in episodes :
            LET r == per_episode_report(e, Day \ missing)
                scored == (e.onset .. e.end) \cap ScoredDay
                seen == IF e.end \in missing THEN scored \ {e.end} ELSE scored
                runs == {t \in seen : t .. t + Streak - 1 \subseteq seen /\ RunAt(t)}
            IN /\ scored \ missing = seen
               /\ r.latency = IF runs = {} THEN -1 ELSE Min(runs) - e.onset

\* What the lead-time reports claim of an early warning is so.
LeadsAreEarned ==
    /\ CampaignsPartition /\ MissingOnlyHides /\ EpisodeLeadsAreExact /\ OnlyTheEndIsHidden
    /\ HostLead # NoStreak => HostLead >= Streak /\ RunAt(Min(Attacked) - HostLead)
==============================================================================
