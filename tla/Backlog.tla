------------------------------ MODULE Backlog ------------------------------
(***************************************************************************)
(* The backpressure signal of api/metrics.py: BacklogWatch samples the     *)
(* pending count of every consumer group on a timer, BacklogMonitor folds  *)
(* each sample into the group's streak of growth.                          *)
(***************************************************************************)
EXTENDS Naturals, Sequences

CONSTANTS Groups,      \* STREAM_CONSUMERS
          Pending,     \* bound: the pending counts a group may have
          Elapsed,     \* bound: seconds between two samples
          WarnAfter,   \* api.backlog_warn_after_s
          MaxSamples   \* bound: samples taken

ASSUME BacklogAssumption ==
    /\ Pending \subseteq Nat /\ Elapsed \subseteq Nat \ {0}
    /\ WarnAfter \in Nat \ {0} /\ MaxSamples \in Nat

VARIABLES streak,      \* BacklogMonitor._streaks
          sampledAt,   \* loop.time() of the last sample
          samples,     \* history: what each group was seen at, and when
          warnings     \* history: when each group warned

backlogVars == <<streak, sampledAt, samples, warnings>>

NotYet == 0
NoStreak == [started |-> NotYet, last |-> 0, warned |-> NotYet]

BacklogInit ==
    /\ streak = [g \in Groups |-> NoStreak]
    /\ sampledAt = 0
    /\ samples = [g \in Groups |-> <<>>]
    /\ warnings = [g \in Groups |-> <<>>]

\* stream_lag: the pending count, or 0 for a group Redis gives no answer about.
stream_lag(pending, answers) == [g \in Groups |-> IF g \in answers THEN pending[g] ELSE 0]

\* Mutant: a backlog that only stays where it is counts as growth.
GrowsOrStays(g, value) == streak[g] # NoStreak /\ value >= streak[g].last

Grows(g, value) == streak[g] # NoStreak /\ value > streak[g].last

\* A streak old enough that has not warned within the interval.
Warns(g, value, now) ==
    /\ Grows(g, value)
    /\ now - streak[g].started >= WarnAfter
    /\ streak[g].warned # NotYet => now - streak[g].warned >= WarnAfter

NewStreak(value, now) == [started |-> now, last |-> value, warned |-> NotYet]

\* One round of BacklogWatch._run: the lag is read, then the clock.
observe(lag, now) ==
    /\ streak' = [g \in Groups |->
                    IF ~Grows(g, lag[g]) THEN NewStreak(lag[g], now)
                    ELSE [streak[g] EXCEPT !.last = lag[g],
                                           !.warned = IF Warns(g, lag[g], now) THEN now ELSE @]]
    /\ warnings' = [g \in Groups |-> IF Warns(g, lag[g], now) THEN Append(warnings[g], now)
                                     ELSE warnings[g]]
    /\ samples' = [g \in Groups |-> Append(samples[g], [at |-> now, lag |-> lag[g]])]
    /\ sampledAt' = now

BacklogNext ==
    \E pending \in [Groups -> Pending], answers \in SUBSET Groups, d \in Elapsed :
        /\ \A g \in Groups : Len(samples[g]) < MaxSamples
        /\ observe(stream_lag(pending, answers), sampledAt + d)

BacklogSpec == BacklogInit /\ [][BacklogNext]_backlogVars

\* What /health reports.
growing == {g \in Groups : streak[g].warned # NotYet}

-----------------------------------------------------------------------------
(* The first sample of the growth that reaches up to the last one.         *)
GrowthStart(g) ==
    CHOOSE i \in 1 .. Len(samples[g]) :
        /\ \A j \in i .. Len(samples[g]) - 1 : samples[g][j].lag < samples[g][j + 1].lag
        /\ i > 1 => samples[g][i - 1].lag >= samples[g][i].lag

(* /health names a group exactly while its pending count has risen at      *)
(* every sample for at least warn_after_s, and it warns at most once in    *)
(* that time.  (metrics.py:131-137.)                                       *)
GrowingIsSustainedGrowth ==
    \A g \in Groups :
        /\ g \in growing <=>
              /\ samples[g] # <<>>
              /\ sampledAt - samples[g][GrowthStart(g)].at >= WarnAfter
        /\ \A i \in 1 .. Len(warnings[g]) - 1 : warnings[g][i + 1] - warnings[g][i] >= WarnAfter
=============================================================================
