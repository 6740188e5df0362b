------------------------------ MODULE Persister ------------------------------
(***************************************************************************)
(* services/persister/worker.py: the `forecasts` consumer.  It runs on the *)
(* bus of StreamBus and keeps two stores that no transaction spans: the    *)
(* tables `forecasts` and `episodes` in Postgres, and the hash             *)
(* ep:{tenant}:{host} in Redis.                                            *)
(*                                                                         *)
(* One host is modelled: every key and every row carries tenant and host,  *)
(* so hosts meet only in the stream.  Entry m of the stream is the         *)
(* forecast with origin_ts = m, the order in which one inference process   *)
(* publishes the forecasts of a host.  One process runs, as compose has it *)
(* (only inference is scaled).                                             *)
(***************************************************************************)
EXTENDS StreamBus, Episodes

CONSTANTS Risk,       \* the values max_p_compromise takes
          MaxLapses   \* bound: how often the hash expires

ASSUME PersisterAssumption ==
    Risk \subseteq Int /\ MaxLapses \in Nat /\ \A v, w \in Worker : v = w

VARIABLES
    risk,    \* max_p_compromise of each forecast
    table,   \* the origins that have a row in `forecasts`
    rows,    \* the `episodes` table
    ep,      \* the Redis hash of the host
    folded,  \* history: the forecasts whose transition reached `ep`
    lapses,  \* how often the hash has expired
    task     \* per process: how far `process` got with the current forecast

storeVars == <<risk, table, rows, ep, folded, lapses>>
persisterVars == <<storeVars, task>>
vars == <<busVars, persisterVars>>

Forecast(m) == [origin_ts |-> m, max_p_compromise |-> risk[m]]
Idle == [step |-> "start", transition |-> NoTransition]
NewId == Cardinality(DOMAIN rows) + 1

PersisterInit ==
    /\ Init
    /\ risk \in [Id -> Risk]
    /\ table = {} /\ rows = <<>> /\ ep = FreshState /\ folded = {} /\ lapses = 0
    /\ task = [w \in Worker |-> Idle]

At(w, step) == worker[w].pc = "handling" /\ task[w].step = step

\* Mutant: a stale forecast is dropped at once, like a duplicate.
ReadStateDropsStale(w) ==
    /\ At(w, "start") /\ worker[w].now \notin Poison
    /\ LET t == advance(ep, Forecast(worker[w].now), NewId)
       IN  IF t = NoTransition
           THEN HandlerReturns(w) /\ UNCHANGED task
           ELSE /\ task' = [task EXCEPT ![w] = [step |-> "commit", transition |-> t]]
                /\ UNCHANGED busVars
    /\ UNCHANGED storeVars

\* Mutant: the hash is written before the transaction.
ReadStateWritesEarly(w) ==
    /\ At(w, "start") /\ worker[w].now \notin Poison
    /\ LET t == advance(ep, Forecast(worker[w].now), NewId)
       IN  /\ task' = [task EXCEPT ![w] = [step |-> "commit", transition |-> t]]
           /\ ep' = IF t = NoTransition THEN ep ELSE t.state
    /\ UNCHANGED <<busVars, risk, table, rows, folded, lapses>>

\* The payload parses; read_state, then advance, which is pure.
ReadState(w) ==
    /\ At(w, "start") /\ worker[w].now \notin Poison
    /\ task' = [task EXCEPT ![w] =
                  [step |-> "commit",
                   transition |-> advance(ep, Forecast(worker[w].now), NewId)]]
    /\ UNCHANGED <<busVars, storeVars>>

\* One transaction: INSERT ... ON CONFLICT DO NOTHING, and the episode's row
\* unless the forecast is stale.
Commit(w) ==
    /\ At(w, "commit")
    /\ table' = table \union {worker[w].now}
    /\ rows' = IF task[w].transition = NoTransition THEN rows
               ELSE WriteEpisode(rows, task[w].transition)
    /\ task' = [task EXCEPT ![w].step = "write"]
    /\ UNCHANGED <<busVars, risk, ep, folded, lapses>>

\* Mutant: the hash is left alone unless a row was updated.
WriteStateAfterUpdate(w) ==
    /\ At(w, "write")
    /\ IF task[w].transition = NoTransition \/ task[w].transition.write # "update"
       THEN UNCHANGED <<ep, folded>>
       ELSE /\ ep' = task[w].transition.state
            /\ folded' = folded \union {worker[w].now}
    /\ task' = [task EXCEPT ![w] = Idle]
    /\ HandlerReturns(w)
    /\ UNCHANGED <<risk, table, rows, lapses>>

\* write_state, only after the commit; then the handler returns.
WriteState(w) ==
    /\ At(w, "write")
    /\ IF task[w].transition = NoTransition THEN UNCHANGED <<ep, folded>>
       ELSE /\ ep' = task[w].transition.state
            /\ folded' = folded \union {worker[w].now}
    /\ task' = [task EXCEPT ![w] = Idle]
    /\ HandlerReturns(w)
    /\ UNCHANGED <<risk, table, rows, lapses>>

\* The payload does not parse, or a store is unreachable at the next step: an
\* open transaction is rolled back, a committed one stays.
Raise(w) ==
    /\ HandlerRaises(w)
    /\ task' = [task EXCEPT ![w] = Idle]
    /\ UNCHANGED storeVars

\* The process dies before its next step, with the same effect on the stores.
Die(w) ==
    /\ Crash(w)
    /\ task' = [task EXCEPT ![w] = Idle]
    /\ UNCHANGED storeVars

\* EPISODE_TTL_S after the last write the hash is gone, with an episode that
\* may be open.  Only between two handlings: in the middle of one, what was
\* read is in the handler's hands, and write_state puts it back.
Expire ==
    /\ lapses < MaxLapses /\ ep # FreshState
    /\ \A w \in Worker : task[w].step = "start"
    /\ ep' = FreshState /\ lapses' = lapses + 1
    /\ UNCHANGED <<busVars, risk, table, rows, folded, task>>

BusOnly ==
    /\ Environment \/ \E w \in Worker : LoopStep(w)
    /\ UNCHANGED persisterVars

PersisterNext ==
    \/ BusOnly \/ Expire
    \/ \E w \in Worker : ReadState(w) \/ Commit(w) \/ WriteState(w) \/ Raise(w) \/ Die(w)

PersisterSpec == PersisterInit /\ [][PersisterNext]_vars

\* As for the bus, with the handler's steps in place of its return.
PersisterFairness ==
    /\ \A w \in Worker :
          /\ WF_vars(LoopStep(w) /\ UNCHANGED persisterVars)
          /\ WF_vars(ReadState(w) \/ Commit(w) \/ WriteState(w) \/ Raise(w))
          /\ WF_vars(Start(w) /\ UNCHANGED persisterVars)
          /\ WF_vars(ReclaimDue(w) /\ UNCHANGED persisterVars)
    /\ \A m \in Id : WF_vars(GoIdle(m) /\ UNCHANGED persisterVars)

FairPersisterSpec == PersisterSpec /\ PersisterFairness

-----------------------------------------------------------------------------
Transitions ==
    {NoTransition} \union
    [state : HostEpisodeState(Id, Risk), write : {"none", "insert", "update"},
     episode : OpenEpisode(Id, Risk) \union {NoEpisode}, ended_at : Id \union {Never}]

PersisterTypeOK ==
    /\ TypeOK
    /\ risk \in [Id -> Risk]
    /\ table \subseteq Id /\ folded \subseteq Id /\ lapses \in Nat
    /\ DOMAIN rows = 1..Cardinality(DOMAIN rows)
    /\ \A i \in DOMAIN rows : rows[i] \in EpisodeRow(Id, Risk)
    /\ ep \in HostEpisodeState(Id, Risk)
    /\ task \in [Worker -> [step : {"start", "commit", "write"}, transition : Transitions]]

\* No forecast is acknowledged before its row is durable, whatever fails in
\* between.
AckedIsStored == acked \subseteq table

\* The hash never runs ahead of the table ("Only after the commit"): the
\* open episode it names has a row, and its watermark has a forecast row.
StateFollowsCommit ==
    /\ ep.episode # NoEpisode =>
          /\ ep.episode.id \in DOMAIN rows
          /\ rows[ep.episode.id].started_at = ep.episode.started_at
    /\ ep.last_ts # Never => ep.last_ts \in table

OpenRows == {i \in DOMAIN rows : IsOpen(rows[i])}

\* A fault between the commit and write_state, or an expiry of the hash, can
\* leave one episode row open for ever: never more than one for each, and none
\* without (episodes.py, EPISODE_TTL_S and write_state).
OrphansBoundedByFaults ==
    Cardinality({i \in OpenRows : ep.episode = NoEpisode \/ ep.episode.id # i})
        <= faults + lapses + Cardinality({w \in Worker : task[w].step = "write"})

\* What the persister does to the episodes of a host is bounded by the faults
\* and expiries, and until one happens forecasts are handled in stream order.
DamageBoundedByFaults == OrphansBoundedByFaults /\ InOrderUnlessFaulted

\* The watermark that makes redelivery harmless (D47) never moves back, unless
\* the hash expires with it.
WatermarkMonotone == [][lapses' = lapses => ep'.last_ts >= ep.last_ts]_vars

\* Every published forecast that parses gets its row, in spite of faults.
EventuallyStored == \A m \in Id \ Poison : (m <= last) ~> (m \in table \/ m <= trim)

\* worker.py: after a crash "the insert conflicts, and the episode advances
\* on the retry because `last_ts` never moved": an acknowledged forecast has
\* been folded into the episode lifecycle.
NothingSkipped == acked \subseteq folded

-----------------------------------------------------------------------------
\* As long as no fault and no expiry has happened, the persister does what EpisodeLifecycle
\* says, one forecast at a time, the indivisible step being the commit.
Writing == {w \in Worker : task[w].step = "write" /\ task[w].transition # NoTransition}

Lifecycle == INSTANCE EpisodeLifecycle WITH
    Ts    <- Id,
    state <- IF Writing = {} THEN ep
             ELSE task[CHOOSE w \in Writing : TRUE].transition.state,
    seen  <- {Forecast(m) : m \in folded \union {worker[w].now : w \in Writing}}

ImplementsLifecycle ==
    /\ Lifecycle!EpisodeInit
    /\ [][faults' + lapses' = 0 => Lifecycle!EpisodeNext \/ UNCHANGED Lifecycle!lifecycleVars]_vars
==============================================================================
