--------------------------- MODULE PersisterProofs ---------------------------
(***************************************************************************)
(* Proofs about the persister, for every number of forecasts, every risk   *)
(* and every fault: what the two stores may disagree on, and what an       *)
(* acknowledged forecast has left behind.  They build on BusInv, since     *)
(* every step of the persister is a step of the bus.                       *)
(***************************************************************************)
EXTENDS Persister, StreamBusProofs

-----------------------------------------------------------------------------
\* The aggregate of an episode keeps its identity when a forecast moves it.
LEMMA UpdatedKeeps ==
    ASSUME NEW e \in OpenEpisode(Id, Risk), NEW f \in Summary(Id, Risk)
    PROVE  /\ Updated(e, f) \in OpenEpisode(Id, Risk)
           /\ Updated(e, f).id = e.id
           /\ Updated(e, f).started_at = e.started_at
<1> DEFINE above == IF IsAbove(f) THEN e.above + 1 ELSE 0
           below == IF IsAbove(f) THEN 0 ELSE e.below + 1
           peak  == IF f.max_p_compromise > e.peak_risk THEN f.max_p_compromise
                    ELSE e.peak_risk
           alert == IF e.first_alert_at = Never /\ above >= LeadTimeM
                    THEN f.origin_ts ELSE e.first_alert_at
<1>1. above \in Nat /\ below \in Nat
  BY DEF OpenEpisode
<1>2. peak \in Risk /\ alert \in Id \union {Never}
  BY DEF OpenEpisode, Summary
<1>3. Updated(e, f) = [e EXCEPT !.peak_risk = peak, !.above = above,
                                !.below = below, !.first_alert_at = alert]
  BY DEF Updated
<1> HIDE DEF above, below, peak, alert
<1>4. QED
  BY <1>1, <1>2, <1>3 DEF OpenEpisode

\* An episode that opens has the id drawn for it.
LEMMA OpeningType ==
    ASSUME NEW f \in Summary(Id, Risk), NEW id \in Nat \ {0}
    PROVE  Opening(f, id) \in OpenEpisode(Id, Risk) /\ Opening(f, id).id = id
BY DEF Opening, OpenEpisode, Summary

\* What a transition may do to an episode, by the write it calls for.
Continues(state, t, id) ==
    \/ t.write = "none" /\ state.episode = NoEpisode /\ t.state.episode = NoEpisode
    \/ /\ t.write = "insert" /\ state.episode = NoEpisode
       /\ t.state.episode = t.episode
       /\ t.episode \in OpenEpisode(Id, Risk) /\ t.episode.id = id
    \/ /\ t.write = "update"
       /\ state.episode \in OpenEpisode(Id, Risk)
       /\ t.episode \in OpenEpisode(Id, Risk)
       /\ t.episode.id = state.episode.id
       /\ t.episode.started_at = state.episode.started_at
       /\ t.state.episode \in {NoEpisode, t.episode}
       /\ t.state.episode = NoEpisode => t.ended_at # Never

\* advance returns a transition of the right type; unless it is None, the
\* watermark moves to the forecast's origin, which is younger, and the
\* episode is the one that was open or a new one.
LEMMA AdvanceMoves ==
    ASSUME NEW s \in HostEpisodeState(Id, Risk), NEW f \in Summary(Id, Risk),
           NEW id \in Nat \ {0}, NEW t, t = advance(s, f, id)
    PROVE  /\ t \in Transitions
           /\ t # NoTransition =>
                 /\ t.state.last_ts = f.origin_ts
                 /\ s.last_ts < f.origin_ts
                 /\ Continues(s, t, id)
<1> DEFINE Goal == /\ t \in Transitions
                   /\ t # NoTransition =>
                         /\ t.state.last_ts = f.origin_ts
                         /\ s.last_ts < f.origin_ts
                         /\ Continues(s, t, id)
<1>1. CASE IsStale(s, f)
  <2>1. t = NoTransition
    BY <1>1 DEF advance
  <2>2. QED
    BY <2>1 DEF Transitions
<1>2. CASE ~IsStale(s, f)
  <2>1. /\ f.origin_ts \in Id /\ f.origin_ts \in Nat /\ f.origin_ts > 0
        /\ s.last_ts < f.origin_ts
    BY <1>2 DEF IsStale, Summary, HostEpisodeState, Never, Id
  <2>2. ASSUME NEW e1 \in OpenEpisode(Id, Risk) \union {NoEpisode},
               NEW e2 \in OpenEpisode(Id, Risk) \union {NoEpisode},
               NEW write \in {"none", "insert", "update"},
               NEW end \in Id \union {Never},
               t = Transition(e1, f, e2, write, end)
        PROVE  /\ t \in Transitions /\ t.state.last_ts = f.origin_ts
               /\ t.state.episode = e1 /\ t.episode = e2 /\ t.write = write
               /\ t.ended_at = end
    BY <2>1, <2>2 DEF Transition, Transitions, HostEpisodeState
  <2>3. CASE s.episode = NoEpisode /\ ~IsAbove(f)
    <3>1. t = Transition(NoEpisode, f, NoEpisode, "none", Never)
      BY <1>2, <2>3 DEF advance
    <3>2. /\ t \in Transitions /\ t.state.last_ts = f.origin_ts
          /\ t.state.episode = NoEpisode /\ t.write = "none"
      BY <2>2, <3>1
    <3>3. s.episode = NoEpisode
      BY <2>3
    <3>4. QED
      BY <2>1, <3>2, <3>3 DEF Continues
  <2>4. CASE s.episode = NoEpisode /\ IsAbove(f)
    <3>1. t = Transition(Opening(f, id), f, Opening(f, id), "insert", Never)
      BY <1>2, <2>4 DEF advance
    <3>2. QED
      BY <2>1, <2>2, <2>4, <3>1, OpeningType DEF Continues
  <2>5. CASE s.episode # NoEpisode
    <3> DEFINE e == Updated(s.episode, f)
    <3>1. s.episode \in OpenEpisode(Id, Risk)
      BY <2>5 DEF HostEpisodeState
    <3>2. /\ e \in OpenEpisode(Id, Risk) /\ e.id = s.episode.id
          /\ e.started_at = s.episode.started_at
      BY <3>1, UpdatedKeeps
    <3>3. \/ t = Transition(NoEpisode, f, e, "update", f.origin_ts)
          \/ t = Transition(e, f, e, "update", Never)
      BY <1>2, <2>5 DEF advance
    <3> HIDE DEF e
    <3>4. f.origin_ts # Never /\ e # NoEpisode
      BY <2>1, <3>2 DEF Never, NoEpisode, OpenEpisode
    <3>5. QED
      BY <2>1, <2>2, <3>1, <3>2, <3>3, <3>4 DEF Continues
  <2>6. QED
    BY <2>3, <2>4, <2>5
<1>3. QED
  BY <1>1, <1>2

-----------------------------------------------------------------------------
\* The table numbers its rows 1, 2, ..., and each row has its type.
RowsOK(r) ==
    /\ IsFiniteSet(DOMAIN r)
    /\ DOMAIN r = 1..Cardinality(DOMAIN r)
    /\ \A i \in DOMAIN r : r[i] \in EpisodeRow(Id, Risk)

\* The open episode e of a hash has the row it names.
HasRow(e, r) == e # NoEpisode => e.id \in DOMAIN r /\ r[e.id].started_at = e.started_at

\* The number INSERT gives the next row is not taken.
LEMMA NextRowNumber ==
    ASSUME NEW r, RowsOK(r)
    PROVE  /\ Cardinality(DOMAIN r) + 1 \in Nat \ {0}
           /\ Cardinality(DOMAIN r) + 1 \notin DOMAIN r
BY FS_CardinalityType DEF RowsOK

\* The row a fold of the hash writes is an episode row.
LEMMA RowType ==
    ASSUME NEW e \in OpenEpisode(Id, Risk), NEW end \in Id \union {Never}
    PROVE  /\ RowOf(e, end) \in EpisodeRow(Id, Risk)
           /\ RowOf(e, end).started_at = e.started_at
BY DEF RowOf, OpenEpisode, EpisodeRow

\* INSERT_EPISODE adds the next row, and no other row changes.
LEMMA InsertKeeps ==
    ASSUME NEW r, RowsOK(r), NEW row \in EpisodeRow(Id, Risk), NEW id,
           id = Cardinality(DOMAIN r) + 1,
           NEW q, q = [i \in DOMAIN r \union {id} |-> IF i = id THEN row ELSE r[i]]
    PROVE  RowsOK(q) /\ id \in DOMAIN q /\ q[id] = row /\ \A i \in DOMAIN r : q[i] = r[i]
<1>1. Cardinality(DOMAIN r) \in Nat /\ id \notin DOMAIN r
  BY NextRowNumber, FS_CardinalityType DEF RowsOK
<1>2. DOMAIN q = DOMAIN r \union {id}
  OBVIOUS
<1>3. IsFiniteSet(DOMAIN q) /\ Cardinality(DOMAIN q) = id
  BY <1>1, <1>2, FS_AddElement DEF RowsOK
<1>4. DOMAIN q = 1..id
  <2>1. PICK n \in Nat : DOMAIN r = 1..n /\ id = n + 1
    BY <1>1 DEF RowsOK
  <2>2. 1..n + 1 = (1..n) \union {n + 1}
    BY <2>1
  <2>3. QED
    BY <1>2, <2>1, <2>2
<1>5. \A i \in DOMAIN q : q[i] \in EpisodeRow(Id, Risk)
  BY <1>2 DEF RowsOK
<1>6. QED
  BY <1>1, <1>2, <1>3, <1>4, <1>5 DEF RowsOK

\* UPDATE_EPISODE leaves started_at alone in every row.
LEMMA UpdateKeeps ==
    ASSUME NEW r, RowsOK(r), NEW row \in EpisodeRow(Id, Risk), NEW id,
           NEW q, q = [i \in DOMAIN r |->
                          IF i = id THEN [row EXCEPT !.started_at = r[i].started_at]
                          ELSE r[i]]
    PROVE  RowsOK(q) /\ DOMAIN q = DOMAIN r
           /\ \A i \in DOMAIN r : q[i].started_at = r[i].started_at
<1>1. DOMAIN q = DOMAIN r
  OBVIOUS
<1>2. ASSUME NEW i \in DOMAIN r
      PROVE  q[i] \in EpisodeRow(Id, Risk) /\ q[i].started_at = r[i].started_at
  BY DEF RowsOK, EpisodeRow
<1>3. QED
  BY <1>1, <1>2 DEF RowsOK

\* The transaction keeps the table well formed, and afterwards the episode of
\* the old hash and that of the next one have their rows.
LEMMA WriteKeeps ==
    ASSUME NEW s \in HostEpisodeState(Id, Risk), NEW f \in Summary(Id, Risk),
           NEW r, RowsOK(r), HasRow(s.episode, r),
           NEW t, t = advance(s, f, Cardinality(DOMAIN r) + 1), t # NoTransition,
           NEW q, q = WriteEpisode(r, t)
    PROVE  RowsOK(q) /\ HasRow(s.episode, q) /\ HasRow(t.state.episode, q)
<1> DEFINE id == Cardinality(DOMAIN r) + 1
<1>1. Continues(s, t, id) /\ t \in Transitions
  BY NextRowNumber, AdvanceMoves
<1>2. t.ended_at \in Id \union {Never}
  BY <1>1 DEF Transitions
<1>3. CASE t.write = "none" /\ t.state.episode = NoEpisode
  BY <1>3 DEF WriteEpisode, HasRow
<1>4. CASE /\ t.write = "insert"
           /\ t.state.episode = t.episode
           /\ t.episode \in OpenEpisode(Id, Risk) /\ t.episode.id = id
  <2> DEFINE row == RowOf(t.episode, t.ended_at)
  <2>1. q = [i \in DOMAIN r \union {id} |-> IF i = id THEN row ELSE r[i]]
    BY <1>4 DEF WriteEpisode
  <2>2. row \in EpisodeRow(Id, Risk) /\ row.started_at = t.episode.started_at
    BY <1>2, <1>4, RowType
  <2> HIDE DEF row, id
  <2>3. RowsOK(q) /\ id \in DOMAIN q /\ q[id] = row /\ \A i \in DOMAIN r : q[i] = r[i]
    BY <2>1, <2>2, InsertKeeps DEF id
  <2>4. DOMAIN r \subseteq DOMAIN q
    BY <2>1
  <2>5. QED
    BY <1>4, <2>2, <2>3, <2>4 DEF HasRow
<1>5. CASE /\ t.write = "update"
           /\ s.episode \in OpenEpisode(Id, Risk)
           /\ t.episode \in OpenEpisode(Id, Risk)
           /\ t.episode.id = s.episode.id
           /\ t.episode.started_at = s.episode.started_at
           /\ t.state.episode \in {NoEpisode, t.episode}
  <2> DEFINE row == RowOf(t.episode, t.ended_at)
  <2>1. q = [i \in DOMAIN r |->
                IF i = t.episode.id THEN [row EXCEPT !.started_at = r[i].started_at]
                ELSE r[i]]
    BY <1>5 DEF WriteEpisode
  <2>2. row \in EpisodeRow(Id, Risk)
    BY <1>2, <1>5, RowType
  <2> HIDE DEF row
  <2>3. /\ RowsOK(q) /\ DOMAIN q = DOMAIN r
        /\ \A i \in DOMAIN r : q[i].started_at = r[i].started_at
    BY <2>1, <2>2, UpdateKeeps, SMTT(20)
  <2>4. s.episode # NoEpisode
    BY <1>5 DEF OpenEpisode, NoEpisode
  <2>5. QED
    BY <1>5, <2>3, <2>4 DEF HasRow
<1>6. QED
  BY <1>1, <1>3, <1>4, <1>5 DEF Continues

-----------------------------------------------------------------------------
\* How far a process got, and what it may rely on there: between read_state
\* and the commit its transition is still what `advance` would return; after
\* the commit the forecast has its row, and so has the episode that the hash
\* is about to name.
TaskInv(w) ==
    LET m == worker[w].now
        t == task[w].transition
    IN  /\ task[w].step # "start" => worker[w].pc = "handling"
        /\ task[w].step = "commit" => t = advance(ep, Forecast(m), NewId)
        /\ task[w].step = "write" => m \in table
        /\ task[w].step = "write" /\ t # NoTransition =>
              /\ t.state.last_ts = m /\ ep.last_ts < m
              /\ HasRow(t.state.episode, rows)

\* The inductive invariant.  That acknowledged forecasts are stored follows
\* from `done \subseteq table`, which is inductive only with what a process
\* about to write the hash has committed; that the hash follows the tables
\* needs the transition in hand to be the one that `advance` returns now.
PersisterInv ==
    /\ BusInv
    /\ PersisterTypeOK
    /\ RowsOK(rows)
    /\ done \subseteq table
    /\ StateFollowsCommit
    /\ \A w \in Worker : TaskInv(w)

\* Empty stores, idle processes.
LEMMA InitPersisterInv == PersisterInit => PersisterInv
<1> SUFFICES ASSUME PersisterInit PROVE PersisterInv
  OBVIOUS
<1>1. BusInv
  BY InitBusInv DEF PersisterInit
<1>2. DOMAIN rows = {}
  BY DEF PersisterInit
<1>3. IsFiniteSet({}) /\ Cardinality({}) = 0 /\ 1..0 = {}
  BY FS_EmptySet
<1>4. RowsOK(rows)
  BY <1>2, <1>3 DEF RowsOK
<1>5. /\ ep = [last_ts |-> Never, episode |-> NoEpisode]
      /\ ep \in HostEpisodeState(Id, Risk)
  BY DEF PersisterInit, FreshState, HostEpisodeState
<1>6. StateFollowsCommit
  BY <1>5 DEF StateFollowsCommit
<1>7. Idle \in [step : {"start", "commit", "write"}, transition : Transitions]
  BY DEF Idle, Transitions
<1>8. /\ task \in [Worker -> [step : {"start", "commit", "write"}, transition : Transitions]]
      /\ \A w \in Worker : task[w].step = "start"
  BY <1>7 DEF PersisterInit, Idle
<1>9. PersisterTypeOK
  BY <1>1, <1>2, <1>4, <1>5, <1>8 DEF PersisterInit, PersisterTypeOK, BusInv, RowsOK
<1>10. done \subseteq table
  BY DEF PersisterInit, Init
<1>11. \A w \in Worker : TaskInv(w)
  BY <1>8 DEF TaskInv
<1>12. QED
  BY <1>1, <1>4, <1>6, <1>9, <1>10, <1>11 DEF PersisterInv

\* Every step of the persister is a step of the bus, or changes nothing of it.
LEMMA BusSteps == [PersisterNext]_vars => [Next]_busVars
BY DEF PersisterNext, BusOnly, Next, ReadState, Commit, WriteState, Raise, Die, Expire, vars

\* A process that runs its handler works on an entry of the stream, and its
\* forecast is well typed.
LEMMA ForecastType ==
    ASSUME PersisterInv, NEW w \in Worker, worker[w].pc = "handling"
    PROVE  worker[w].now \in Id /\ Forecast(worker[w].now) \in Summary(Id, Risk)
           /\ Forecast(worker[w].now).origin_ts = worker[w].now
<1>1. worker[w].now \in Id
  BY DEF PersisterInv, BusInv, Holds, Delivered
<1>2. risk[worker[w].now] \in Risk
  BY <1>1 DEF PersisterInv, PersisterTypeOK
<1>3. QED
  BY <1>1, <1>2 DEF Forecast, Summary

\* The steps of the bus leave a process that runs its handler alone, and
\* complete nothing.
LEMMA BusStepsSpareHandlers ==
    ASSUME TypeOK, Environment \/ \E v \in Worker : LoopStep(v)
    PROVE  /\ done' = done
           /\ \A w \in Worker : worker[w].pc = "handling" =>
                 worker'[w].pc = "handling" /\ worker'[w].now = worker[w].now
<1>0. worker \in [Worker -> Process]
  BY DEF TypeOK
<1>1. CASE Publish \/ \E m \in Id : GoIdle(m)
  BY <1>1 DEF Publish, GoIdle
<1>2. ASSUME NEW v \in Worker, Signal(v) \/ ReclaimDue(v)
      PROVE  /\ done' = done
             /\ \A w \in Worker : worker'[w].pc = worker[w].pc /\ worker'[w].now = worker[w].now
  BY <1>0, <1>2 DEF Signal, ReclaimDue, Process
<1>3. ASSUME NEW v \in Worker, Start(v) \/ LoopStep(v)
      PROVE  /\ done' = done /\ worker[v].pc # "handling"
             /\ \A w \in Worker \ {v} : worker'[w] = worker[w]
  BY <1>0, <1>3 DEF Start, LoopStep, Reclaim, Read, Ack
<1>4. QED
  BY <1>1, <1>2, <1>3 DEF Environment

\* A step of the bus alone: publish, reclaim, read, ack, signal, restart.
LEMMA BusOnlyKeeps == PersisterInv /\ BusInv' /\ BusOnly => PersisterInv'
<1> SUFFICES ASSUME PersisterInv, BusInv', BusOnly PROVE PersisterInv'
  OBVIOUS
<1>1. UNCHANGED <<risk, table, rows, ep, folded, lapses, task>>
  BY DEF BusOnly, persisterVars, storeVars
<1>2. /\ done' = done
      /\ \A w \in Worker : worker[w].pc = "handling" =>
            worker'[w].pc = "handling" /\ worker'[w].now = worker[w].now
  BY BusStepsSpareHandlers DEF BusOnly, PersisterInv, BusInv
<1>3. PersisterTypeOK' /\ RowsOK(rows)' /\ StateFollowsCommit'
  BY <1>1 DEF PersisterInv, BusInv, PersisterTypeOK, RowsOK, StateFollowsCommit
<1>4. ASSUME NEW w \in Worker
      PROVE  TaskInv(w)'
  <2>1. CASE task[w].step = "start"
    BY <1>1, <2>1 DEF TaskInv
  <2>2. CASE task[w].step # "start"
    <3>1. /\ worker[w].pc = "handling" /\ worker'[w].pc = "handling"
          /\ worker'[w].now = worker[w].now
      BY <1>2, <2>2 DEF PersisterInv, TaskInv
    <3>2. Forecast(worker[w].now)' = Forecast(worker[w].now) /\ NewId' = NewId
      BY <1>1, <3>1 DEF Forecast, NewId
    <3>3. QED
      BY <1>1, <3>1, <3>2 DEF PersisterInv, TaskInv, HasRow
  <2>3. QED
    BY <2>1, <2>2
<1>5. QED
  BY <1>1, <1>2, <1>3, <1>4 DEF PersisterInv

\* read_state, and the update it computes.
LEMMA ReadStateKeeps ==
    ASSUME PersisterInv, BusInv', NEW w \in Worker, ReadState(w)
    PROVE  PersisterInv'
<1> DEFINE t == advance(ep, Forecast(worker[w].now), NewId)
<1>1. UNCHANGED <<worker, done, risk, table, rows, ep, folded, lapses>>
  BY DEF ReadState, busVars, storeVars
<1>2. worker[w].pc = "handling" /\ task' = [task EXCEPT ![w] = [step |-> "commit", transition |-> t]]
  BY DEF ReadState, At
<1>3. t \in Transitions
  <2>1. ep \in HostEpisodeState(Id, Risk) /\ NewId \in Nat \ {0}
    BY NextRowNumber DEF PersisterInv, PersisterTypeOK, NewId
  <2>2. QED
    BY <1>2, <2>1, ForecastType, AdvanceMoves
<1>4. Forecast(worker[w].now)' = Forecast(worker[w].now) /\ NewId' = NewId
  BY <1>1 DEF Forecast, NewId
<1>5. t' = t
  BY <1>1, <1>4
<1> HIDE DEF t
<1>6. task'[w] = [step |-> "commit", transition |-> t]
  BY <1>2 DEF PersisterInv, PersisterTypeOK
<1>7. task' \in [Worker -> [step : {"start", "commit", "write"}, transition : Transitions]]
  BY <1>2, <1>3 DEF PersisterInv, PersisterTypeOK
<1>8. PersisterTypeOK' /\ RowsOK(rows)' /\ StateFollowsCommit' /\ (done \subseteq table)'
  BY <1>1, <1>7 DEF PersisterInv, BusInv, PersisterTypeOK, RowsOK, StateFollowsCommit
<1>9. TaskInv(w)'
  BY <1>1, <1>2, <1>5, <1>6 DEF TaskInv, t
<1>10. QED
  BY <1>8, <1>9, PersisterAssumption DEF PersisterInv, PersisterAssumption

\* The transaction that stores the forecast and its episode row.
LEMMA CommitKeeps ==
    ASSUME PersisterInv, BusInv', NEW w \in Worker, Commit(w)
    PROVE  PersisterInv'
<1> DEFINE m == worker[w].now
           t == task[w].transition
<1>1. UNCHANGED <<worker, done, risk, ep, folded, lapses>>
  BY DEF Commit, busVars
<1>2. worker[w].pc = "handling" /\ m \in Id /\ task[w].step = "commit"
  BY ForecastType DEF Commit, At
<1>3. t = advance(ep, Forecast(m), NewId)
  BY <1>2 DEF PersisterInv, TaskInv
<1>4. /\ table' = table \union {m}
      /\ rows' = IF t = NoTransition THEN rows ELSE WriteEpisode(rows, t)
  BY DEF Commit
<1>5. ep \in HostEpisodeState(Id, Risk) /\ RowsOK(rows) /\ NewId \in Nat \ {0}
      /\ HasRow(ep.episode, rows)
  BY NextRowNumber DEF PersisterInv, PersisterTypeOK, NewId, StateFollowsCommit, HasRow
<1>6. /\ t # NoTransition => t.state.last_ts = m /\ ep.last_ts < m
      /\ t # NoTransition => HasRow(t.state.episode, rows')
      /\ RowsOK(rows') /\ HasRow(ep.episode, rows')
  <2>1. CASE t = NoTransition
    BY <1>4, <1>5, <2>1
  <2>2. CASE t # NoTransition
    <3>1. Forecast(m) \in Summary(Id, Risk) /\ Forecast(m).origin_ts = m
      BY <1>2, ForecastType
    <3>2. t.state.last_ts = m /\ ep.last_ts < m
      BY <1>3, <1>5, <2>2, <3>1, AdvanceMoves
    <3>3. /\ t = advance(ep, Forecast(m), Cardinality(DOMAIN rows) + 1)
          /\ rows' = WriteEpisode(rows, t)
      BY <1>3, <1>4, <2>2 DEF NewId
    <3> HIDE DEF t, m
    <3>4. RowsOK(rows') /\ HasRow(ep.episode, rows') /\ HasRow(t.state.episode, rows')
      BY <1>5, <2>2, <3>1, <3>3, WriteKeeps, Zenon
    <3>5. QED
      BY <3>2, <3>4
  <2>3. QED
    BY <2>1, <2>2
<1>7. task[w] \in [step : {"start", "commit", "write"}, transition : Transitions]
  BY DEF PersisterInv, PersisterTypeOK
<1>8. /\ task' \in [Worker -> [step : {"start", "commit", "write"}, transition : Transitions]]
      /\ task'[w].step = "write" /\ task'[w].transition = t
  <2>1. task' = [task EXCEPT ![w].step = "write"]
    BY DEF Commit
  <2>2. /\ [task[w] EXCEPT !.step = "write"]
              \in [step : {"start", "commit", "write"}, transition : Transitions]
        /\ [task[w] EXCEPT !.step = "write"].step = "write"
        /\ [task[w] EXCEPT !.step = "write"].transition = t
    BY <1>7
  <2>3. /\ task'[w] = [task[w] EXCEPT !.step = "write"]
        /\ task' \in [Worker -> [step : {"start", "commit", "write"}, transition : Transitions]]
    BY <2>1, <2>2 DEF PersisterInv, PersisterTypeOK
  <2>4. QED
    BY <2>2, <2>3
<1>9. table' \subseteq Id /\ table \subseteq table'
  BY <1>2, <1>4 DEF PersisterInv, PersisterTypeOK
<1>10. PersisterTypeOK'
  BY <1>1, <1>6, <1>8, <1>9 DEF PersisterInv, BusInv, PersisterTypeOK, RowsOK
<1>11. StateFollowsCommit' /\ (done \subseteq table)'
  BY <1>1, <1>6, <1>9 DEF PersisterInv, StateFollowsCommit, HasRow
<1>12. TaskInv(w)'
  BY <1>1, <1>2, <1>4, <1>6, <1>8 DEF TaskInv, HasRow
<1>13. QED
  BY <1>6, <1>10, <1>11, <1>12, PersisterAssumption DEF PersisterInv, PersisterAssumption, RowsOK

\* The write of the hash after the commit.
LEMMA WriteStateKeeps ==
    ASSUME PersisterInv, BusInv', NEW w \in Worker, WriteState(w)
    PROVE  PersisterInv'
<1> DEFINE m == worker[w].now
           t == task[w].transition
<1>1. UNCHANGED <<risk, table, rows, lapses>> /\ done' = done \union {m}
  BY DEF WriteState, HandlerReturns
<1>2. worker[w].pc = "handling" /\ m \in Id /\ task[w].step = "write"
  BY ForecastType DEF WriteState, At
<1>3. m \in table /\ t \in Transitions
  BY <1>2 DEF PersisterInv, PersisterTypeOK, TaskInv
<1>4. t # NoTransition => t.state.last_ts = m /\ HasRow(t.state.episode, rows)
  BY <1>2 DEF PersisterInv, TaskInv
<1>5. IF t = NoTransition THEN UNCHANGED <<ep, folded>>
      ELSE ep' = t.state /\ folded' = folded \union {m}
  BY DEF WriteState
<1>6. Idle \in [step : {"start", "commit", "write"}, transition : Transitions] /\ Idle.step = "start"
  BY DEF Idle, Transitions
<1>7. /\ task' \in [Worker -> [step : {"start", "commit", "write"}, transition : Transitions]]
      /\ task'[w].step = "start"
  BY <1>6 DEF WriteState, PersisterInv, PersisterTypeOK
<1>8. ep' \in HostEpisodeState(Id, Risk) /\ folded' \subseteq Id
  <2>1. t # NoTransition => t.state \in HostEpisodeState(Id, Risk)
    BY <1>3 DEF Transitions
  <2>2. QED
    BY <1>2, <1>5, <2>1 DEF PersisterInv, PersisterTypeOK
<1>9. PersisterTypeOK' /\ RowsOK(rows)'
  BY <1>1, <1>7, <1>8 DEF PersisterInv, BusInv, PersisterTypeOK, RowsOK
<1>10. StateFollowsCommit' /\ (done \subseteq table)'
  BY <1>1, <1>3, <1>4, <1>5 DEF PersisterInv, StateFollowsCommit, HasRow
<1>11. TaskInv(w)'
  BY <1>7 DEF TaskInv
<1>12. QED
  BY <1>9, <1>10, <1>11, PersisterAssumption DEF PersisterInv, PersisterAssumption

\* A crash or an exception at any step of the handler.
LEMMA FaultKeeps ==
    ASSUME PersisterInv, BusInv', NEW w \in Worker, Raise(w) \/ Die(w)
    PROVE  PersisterInv'
<1>1. UNCHANGED <<done, risk, table, rows, ep, folded, lapses>> /\ task' = [task EXCEPT ![w] = Idle]
  BY DEF Raise, Die, storeVars, HandlerRaises, Crash
<1>2. Idle \in [step : {"start", "commit", "write"}, transition : Transitions] /\ Idle.step = "start"
  BY DEF Idle, Transitions
<1>3. /\ task' \in [Worker -> [step : {"start", "commit", "write"}, transition : Transitions]]
      /\ task'[w].step = "start"
  BY <1>1, <1>2 DEF PersisterInv, PersisterTypeOK
<1>4. PersisterTypeOK' /\ RowsOK(rows)' /\ StateFollowsCommit' /\ (done \subseteq table)'
  BY <1>1, <1>3 DEF PersisterInv, BusInv, PersisterTypeOK, RowsOK, StateFollowsCommit
<1>5. TaskInv(w)'
  BY <1>3 DEF TaskInv
<1>6. QED
  BY <1>4, <1>5, PersisterAssumption DEF PersisterInv, PersisterAssumption

\* The hash is gone after 24 h.
LEMMA ExpireKeeps ==
    ASSUME PersisterInv, BusInv', Expire
    PROVE  PersisterInv'
<1>1. /\ UNCHANGED <<worker, done, risk, table, rows, folded, task>>
      /\ ep' = FreshState /\ lapses' = lapses + 1
      /\ \A w \in Worker : task[w].step = "start"
  BY DEF Expire, busVars
<1>2. /\ FreshState \in HostEpisodeState(Id, Risk)
      /\ FreshState.episode = NoEpisode /\ FreshState.last_ts = Never
  BY DEF FreshState, HostEpisodeState, NoEpisode, Never
<1>3. PersisterTypeOK' /\ RowsOK(rows)' /\ StateFollowsCommit' /\ (done \subseteq table)'
  BY <1>1, <1>2 DEF PersisterInv, BusInv, PersisterTypeOK, RowsOK, StateFollowsCommit
<1>4. ASSUME NEW w \in Worker PROVE TaskInv(w)'
  BY <1>1 DEF TaskInv
<1>5. QED
  BY <1>3, <1>4 DEF PersisterInv

\* Every step of the persister.
LEMMA PersisterNextKeeps == PersisterInv /\ [PersisterNext]_vars => PersisterInv'
<1> SUFFICES ASSUME PersisterInv, [PersisterNext]_vars PROVE PersisterInv'
  OBVIOUS
<1>1. BusInv'
  BY BusSteps, NextKeeps DEF PersisterInv
<1>2. CASE BusOnly
  BY <1>1, <1>2, BusOnlyKeeps
<1>3. ASSUME NEW w \in Worker,
             ReadState(w) \/ Commit(w) \/ WriteState(w) \/ Raise(w) \/ Die(w)
      PROVE  PersisterInv'
  BY <1>1, <1>3, ReadStateKeeps, CommitKeeps, WriteStateKeeps, FaultKeeps
<1>4. CASE UNCHANGED vars
  <2>1. UNCHANGED <<worker, done, risk, table, rows, ep, folded, lapses, task>>
    BY <1>4 DEF vars, busVars, persisterVars, storeVars
  <2>2. ASSUME NEW w \in Worker PROVE TaskInv(w)'
    BY <2>1 DEF PersisterInv, TaskInv, HasRow, NewId, Forecast
  <2>3. QED
    BY <1>1, <2>1, <2>2 DEF PersisterInv, BusInv, PersisterTypeOK, RowsOK, StateFollowsCommit
<1>5. CASE Expire
  BY <1>1, <1>5, ExpireKeeps
<1>6. QED
  BY <1>2, <1>3, <1>4, <1>5 DEF PersisterNext

\* The invariant holds in every reachable state of the persister.
THEOREM PersisterInvariant == PersisterSpec => []PersisterInv
BY InitPersisterInv, PersisterNextKeeps, PTL DEF PersisterSpec

\* persister/worker.py acks last: an acknowledged forecast has its row, for
\* every number of forecasts and wherever the faults strike.
THEOREM AckedIsStoredHolds == PersisterSpec => []AckedIsStored
<1>1. PersisterInv => AckedIsStored
  BY DEF PersisterInv, BusInv, AtLeastOnceDelivery, AckedIsStored
<1>2. QED
  BY <1>1, PersisterInvariant, PTL

\* "Only after the commit": the hash of the host never names an episode or a
\* forecast that the tables do not hold.
THEOREM StateFollowsCommitHolds == PersisterSpec => []StateFollowsCommit
<1>1. PersisterInv => StateFollowsCommit
  BY DEF PersisterInv
<1>2. QED
  BY <1>1, PersisterInvariant, PTL

\* The stores, the hash and what a handler carries between its steps are well
\* typed.
THEOREM PersisterTypeCorrect == PersisterSpec => []PersisterTypeOK
<1>1. PersisterInv => PersisterTypeOK
  BY DEF PersisterInv
<1>2. QED
  BY <1>1, PersisterInvariant, PTL

\* The watermark never moves back, whatever is redelivered in which order,
\* unless the hash expires.
THEOREM WatermarkHolds == PersisterSpec => WatermarkMonotone
<1>1. PersisterInv /\ [PersisterNext]_vars
        => [lapses' = lapses => ep'.last_ts >= ep.last_ts]_vars
  <2> SUFFICES ASSUME PersisterInv, PersisterNext, lapses' = lapses
               PROVE  ep'.last_ts >= ep.last_ts
    OBVIOUS
  <2>1. ep.last_ts \in Int
    BY DEF PersisterInv, PersisterTypeOK, HostEpisodeState, Id, Never
  <2>2. ASSUME NEW w \in Worker, WriteState(w)
        PROVE  ep'.last_ts >= ep.last_ts
    <3> DEFINE m == worker[w].now
               t == task[w].transition
    <3>1. m \in Id /\ task[w].step = "write"
      BY <2>2, ForecastType DEF WriteState, At
    <3>2. t # NoTransition => t.state.last_ts = m /\ ep.last_ts < m
      BY <3>1 DEF PersisterInv, TaskInv
    <3>3. ep' = ep \/ (t # NoTransition /\ ep' = t.state)
      BY <2>2 DEF WriteState
    <3> HIDE DEF m, t
    <3>4. QED
      BY <2>1, <3>1, <3>2, <3>3 DEF Id
  <2>3. CASE ep' = ep
    BY <2>1, <2>3
  <2>4. ~Expire
    BY DEF Expire, PersisterInv, PersisterTypeOK
  <2>5. QED
    BY <2>2, <2>3, <2>4 DEF PersisterNext, BusOnly, persisterVars, storeVars, ReadState, Commit,
       Raise, Die
<1>2. QED
  BY <1>1, PersisterInvariant, PTL DEF PersisterSpec, WatermarkMonotone

-----------------------------------------------------------------------------
\* The hash as it is, or as the transaction that was committed will make it.
Reached == IF Writing = {} THEN ep ELSE task[CHOOSE w \in Writing : TRUE].transition.state

\* The open rows that are not those of episode e.
Strays(e) == {i \in OpenRows : e = NoEpisode \/ e.id # i}

\* What the bound on orphans rests on: but for a fault or an expiry, the only row
\* that is open is that of the episode the hash names, or is about to.
DamageInv ==
    /\ PersisterInv
    /\ SoleInv
    /\ \A w \in Worker : task[w].step # "start" => worker[w].now \notin Poison
    /\ Cardinality(Strays(Reached.episode)) <= faults + lapses

\* Forgetting an episode leaves at most its own row astray.
LEMMA OneMoreStray ==
    ASSUME PersisterInv, NEW d, NEW e
    PROVE  /\ Cardinality(Strays(d)) \in Nat
           /\ Cardinality(Strays(e)) <= Cardinality(Strays(d)) + 1
<1>1. IsFiniteSet(OpenRows) /\ OpenRows \subseteq DOMAIN rows
  <2>1. IsFiniteSet(DOMAIN rows) /\ OpenRows \subseteq DOMAIN rows
    BY DEF PersisterInv, RowsOK, OpenRows
  <2>2. QED
    BY <2>1, FS_Subset
<1>2. Strays(d) \subseteq OpenRows /\ Strays(e) \subseteq OpenRows
      /\ Strays(e) \subseteq Strays(d) \union {d.id}
  BY DEF Strays
<1>3. IsFiniteSet(Strays(d)) /\ IsFiniteSet(Strays(d) \union {d.id})
  BY <1>1, <1>2, FS_Subset, FS_AddElement
<1>4. Cardinality(Strays(e)) <= Cardinality(Strays(d) \union {d.id})
  BY <1>2, <1>3, FS_Subset
<1>5. Cardinality(Strays(d) \union {d.id}) <= Cardinality(Strays(d)) + 1
      /\ Cardinality(Strays(d)) \in Nat /\ Cardinality(Strays(e)) \in Nat
      /\ Cardinality(Strays(d) \union {d.id}) \in Nat
  BY <1>1, <1>2, <1>3, FS_AddElement, FS_CardinalityType, FS_Subset
<1>6. QED
  BY <1>4, <1>5

\* The counts of faults and expiries are numbers.
LEMMA Counts == PersisterInv => faults \in Nat /\ lapses \in Nat
BY BusAssumption DEF PersisterInv, PersisterTypeOK, TypeOK, BusAssumption

\* With one process, what the transaction will make of the hash is in its hands.
LEMMA ReachedIs ==
    ASSUME NEW w \in Worker, OneConsumer
    PROVE  /\ task[w].step = "write" /\ task[w].transition # NoTransition =>
                 Reached = task[w].transition.state /\ Writing = {w}
           /\ ~(task[w].step = "write" /\ task[w].transition # NoTransition) =>
                 Reached = ep /\ Writing = {}
<1>1. Writing = {} \/ Writing = {w}
  BY DEF Writing, OneConsumer
<1>2. w \in Writing <=> task[w].step = "write" /\ task[w].transition # NoTransition
  BY DEF Writing
<1>3. Writing = {w} => (CHOOSE v \in Writing : TRUE) = w
  OBVIOUS
<1>4. QED
  BY <1>1, <1>2, <1>3 DEF Reached

\* A transaction leaves no row astray that was not before.
LEMMA CommitStrays ==
    ASSUME PersisterInv, NEW w \in Worker, Commit(w), NEW t, t = task[w].transition,
           t # NoTransition
    PROVE  Strays(t.state.episode)' \subseteq Strays(ep.episode)
<1> DEFINE m == worker[w].now
<1>1. worker[w].pc = "handling" /\ m \in Id /\ task[w].step = "commit"
  BY ForecastType DEF Commit, At
<1>2. t = advance(ep, Forecast(m), NewId) /\ rows' = WriteEpisode(rows, t)
  BY <1>1 DEF PersisterInv, TaskInv, Commit
<1>3. ep \in HostEpisodeState(Id, Risk) /\ NewId \in Nat \ {0}
      /\ Forecast(m) \in Summary(Id, Risk)
  BY <1>1, ForecastType, NextRowNumber DEF PersisterInv, PersisterTypeOK, NewId
<1>4. Continues(ep, t, NewId) /\ t \in Transitions
  BY <1>2, <1>3, AdvanceMoves
<1>5. NoEpisode.id = 0
  BY DEF NoEpisode
<1>6. CASE t.write = "none" /\ ep.episode = NoEpisode /\ t.state.episode = NoEpisode
  BY <1>2, <1>6 DEF WriteEpisode, Strays, OpenRows
<1>7. CASE /\ t.write = "insert" /\ ep.episode = NoEpisode
           /\ t.state.episode = t.episode
           /\ t.episode \in OpenEpisode(Id, Risk) /\ t.episode.id = NewId
  <2>1. rows' = [i \in DOMAIN rows \union {NewId} |->
                    IF i = NewId THEN RowOf(t.episode, t.ended_at) ELSE rows[i]]
    BY <1>2, <1>7 DEF WriteEpisode
  <2>2. ASSUME NEW i \in Strays(t.state.episode)'
        PROVE  i \in Strays(ep.episode)
    <3>1. i \in DOMAIN rows \union {NewId} /\ IsOpen(rows'[i]) /\ i # NewId
      <4>1. t.episode # NoEpisode
        BY <1>5, <1>7 DEF OpenEpisode
      <4>2. QED
        BY <1>7, <2>1, <2>2, <4>1 DEF Strays, OpenRows
    <3>2. i \in DOMAIN rows /\ rows'[i] = rows[i]
      BY <2>1, <3>1
    <3>3. QED
      BY <1>7, <3>1, <3>2 DEF Strays, OpenRows
  <2>3. QED
    BY <2>2
<1>8. CASE /\ t.write = "update"
           /\ ep.episode \in OpenEpisode(Id, Risk)
           /\ t.episode \in OpenEpisode(Id, Risk)
           /\ t.episode.id = ep.episode.id
           /\ t.state.episode \in {NoEpisode, t.episode}
           /\ t.state.episode = NoEpisode => t.ended_at # Never
  <2> DEFINE id == t.episode.id
  <2>1. /\ DOMAIN rows' = DOMAIN rows
        /\ \A i \in DOMAIN rows \ {id} : rows'[i] = rows[i]
        /\ id \in DOMAIN rows => rows'[id].ended_at = t.ended_at
    <3>1. rows' = [i \in DOMAIN rows |->
                      IF i = id
                      THEN [RowOf(t.episode, t.ended_at) EXCEPT !.started_at = rows[i].started_at]
                      ELSE rows[i]]
      BY <1>2, <1>8 DEF WriteEpisode
    <3>2. \A x : [RowOf(t.episode, t.ended_at) EXCEPT !.started_at = x].ended_at = t.ended_at
      BY DEF RowOf
    <3>3. QED
      BY <3>1, <3>2
  <2>2. ASSUME NEW i \in Strays(t.state.episode)'
        PROVE  i \in Strays(ep.episode)
    <3>1. i \in DOMAIN rows /\ IsOpen(rows'[i])
          /\ (t.state.episode = NoEpisode \/ t.state.episode.id # i)
      BY <2>1, <2>2 DEF Strays, OpenRows
    <3>2. i # id
      BY <1>8, <2>1, <3>1 DEF IsOpen
    <3>3. QED
      BY <1>8, <2>1, <3>1, <3>2 DEF Strays, OpenRows
  <2>3. QED
    BY <2>2
<1>9. QED
  BY <1>4, <1>6, <1>7, <1>8 DEF Continues

\* Before the first forecast there is no row to go astray.
LEMMA InitDamageInv == PersisterInit => DamageInv
<1> SUFFICES ASSUME PersisterInit PROVE DamageInv
  OBVIOUS
<1>1. PersisterInv /\ SoleInv
  BY InitPersisterInv, InitSoleInv DEF PersisterInit
<1>2. \A w \in Worker : task[w].step = "start"
  BY DEF PersisterInit, Idle
<1>3. Strays(Reached.episode) = {} /\ faults = 0 /\ lapses = 0
  BY DEF PersisterInit, Init, Strays, OpenRows
<1>4. QED
  BY <1>1, <1>2, <1>3, FS_EmptySet DEF DamageInv

\* A step that leaves the tables, the hash and what the handlers hold alone.
LEMMA StoresUntouched ==
    ASSUME DamageInv, UNCHANGED <<rows, ep, task, lapses>>,
           faults' = faults \/ faults' = faults + 1
    PROVE  (Cardinality(Strays(Reached.episode)) <= faults + lapses)'
<1>1. Strays(Reached.episode)' = Strays(Reached.episode)
  BY DEF Strays, OpenRows, Reached, Writing
<1>2. Cardinality(Strays(Reached.episode)) \in Nat
  BY OneMoreStray DEF DamageInv
<1>3. faults \in Nat /\ lapses \in Nat
  BY Counts DEF DamageInv
<1>4. QED
  BY <1>1, <1>2, <1>3 DEF DamageInv

\* A step of the bus alone.
LEMMA BusOnlyDamage ==
    ASSUME DamageInv, PersisterInv', SoleInv', BusOnly
    PROVE  DamageInv'
<1>1. UNCHANGED <<rows, ep, task, lapses>> /\ TypeOK
  BY DEF BusOnly, persisterVars, storeVars, DamageInv, PersisterInv, PersisterTypeOK
<1>2. faults' = faults \/ faults' = faults + 1
  BY DEF BusOnly, Environment, LoopStep, Publish, GoIdle, Start, Signal, ReclaimDue, Reclaim,
         Read, Ack
<1>3. \A w \in Worker : worker[w].pc = "handling" => worker'[w].now = worker[w].now
  BY <1>1, BusStepsSpareHandlers DEF BusOnly
<1>4. \A w \in Worker : task[w].step # "start" => worker[w].pc = "handling"
  BY DEF DamageInv, PersisterInv, TaskInv
<1>5. (\A w \in Worker : task[w].step # "start" => worker[w].now \notin Poison)'
  BY <1>1, <1>3, <1>4 DEF DamageInv
<1>6. QED
  BY <1>1, <1>2, <1>5, StoresUntouched DEF DamageInv

\* A step of `process`: reading moves nothing, committing leaves no row astray, and
\* writing the hash makes it name what was committed.
LEMMA ProcessDamage ==
    ASSUME DamageInv, PersisterInv', SoleInv', OneConsumer, NEW w \in Worker,
           ReadState(w) \/ Commit(w) \/ WriteState(w)
    PROVE  DamageInv'
<1> DEFINE t == task[w].transition
<1>1. /\ PersisterInv /\ UNCHANGED <<faults, lapses>> /\ worker \in [Worker -> Process]
      /\ task \in [Worker -> [step : {"start", "commit", "write"}, transition : Transitions]]
  BY DEF ReadState, Commit, WriteState, HandlerReturns, busVars, storeVars, DamageInv,
         PersisterInv, PersisterTypeOK, TypeOK
<1>2. Cardinality(Strays(Reached.episode)) \in Nat
      /\ Cardinality(Strays(Reached.episode)) <= faults + lapses
  BY <1>1, OneMoreStray DEF DamageInv
<1>3. faults \in Nat /\ lapses \in Nat
  BY <1>1, Counts
<1>4. CASE ReadState(w)
  <2>1. /\ UNCHANGED <<rows, ep, worker>> /\ worker[w].now \notin Poison
        /\ task[w].step = "start" /\ task'[w].step = "commit"
    BY <1>1, <1>4 DEF ReadState, At, storeVars, busVars
  <2>2. Reached' = ep' /\ Reached = ep
    BY <2>1, ReachedIs DEF Reached, Writing, OneConsumer
  <2>3. Strays(Reached.episode)' = Strays(Reached.episode)
    BY <2>1, <2>2 DEF Strays, OpenRows
  <2>4. QED
    BY <1>1, <1>2, <2>1, <2>3 DEF DamageInv, OneConsumer
<1>5. CASE Commit(w)
  <2>1. /\ UNCHANGED <<ep, worker>> /\ task[w].step = "commit"
        /\ task' = [task EXCEPT ![w].step = "write"]
        /\ rows' = IF t = NoTransition THEN rows ELSE WriteEpisode(rows, t)
    BY <1>5 DEF Commit, At, busVars
  <2>2. task'[w].step = "write" /\ task'[w].transition = t
    BY <1>1, <2>1
  <2>3. Reached = ep
    BY <2>1, ReachedIs
  <2>4. Reached' = IF t = NoTransition THEN ep ELSE t.state
    <3>1. Writing' = IF t = NoTransition THEN {} ELSE {w}
      BY <2>2 DEF Writing, OneConsumer
    <3>2. {w} # {} /\ (CHOOSE v \in {w} : TRUE) = w
      OBVIOUS
    <3>3. QED
      BY <2>1, <2>2, <3>1, <3>2 DEF Reached
  <2>5. worker[w].now \notin Poison
    BY <2>1 DEF DamageInv
  <2>6. Strays(Reached.episode)' \subseteq Strays(Reached.episode)
    <3>1. CASE t = NoTransition
      BY <2>1, <2>3, <2>4, <3>1 DEF Strays, OpenRows
    <3>2. CASE t # NoTransition
      <4>1. PICK u : u = t
        OBVIOUS
      <4>2. Strays(u.state.episode)' \subseteq Strays(ep.episode)
        BY <1>1, <1>5, <3>2, <4>1, CommitStrays
      <4>3. Reached'.episode = u.state.episode
        BY <2>4, <3>2, <4>1
      <4>4. QED
        BY <2>3, <4>2, <4>3 DEF Strays
    <3>3. QED
      BY <3>1, <3>2
  <2>7. IsFiniteSet(Strays(Reached.episode))
    <3>1. IsFiniteSet(DOMAIN rows) /\ Strays(Reached.episode) \subseteq DOMAIN rows
      BY <1>1 DEF PersisterInv, RowsOK, Strays, OpenRows
    <3>2. QED
      BY <3>1, FS_Subset
  <2>8. Cardinality(Strays(Reached.episode)') <= Cardinality(Strays(Reached.episode))
        /\ Cardinality(Strays(Reached.episode)') \in Nat
    BY <2>6, <2>7, FS_Subset, FS_CardinalityType
  <2>9. (Cardinality(Strays(Reached.episode)) <= faults + lapses)'
    BY <1>1, <1>2, <1>3, <2>8
  <2>10. QED
    BY <2>1, <2>5, <2>9 DEF DamageInv, OneConsumer
<1>6. CASE WriteState(w)
  <2>1. /\ rows' = rows /\ task' = [task EXCEPT ![w] = Idle] /\ task[w].step = "write"
        /\ ep' = IF t = NoTransition THEN ep ELSE t.state
    BY <1>6 DEF WriteState, At
  <2>2. task'[w].step = "start"
    BY <1>1, <2>1 DEF Idle
  <2>3. Reached' = ep'
    BY <2>2 DEF Reached, Writing, OneConsumer
  <2>4. Reached = ep'
    BY <2>1, ReachedIs
  <2>5. Strays(Reached.episode)' = Strays(Reached.episode)
    BY <2>1, <2>3, <2>4 DEF Strays, OpenRows
  <2>6. QED
    BY <1>1, <1>2, <2>2, <2>5 DEF DamageInv, OneConsumer
<1>7. QED
  BY <1>4, <1>5, <1>6

\* What was committed and not written is lost with a fault: one row at most goes
\* astray.  A payload that does not parse is refused before anything is read.
LEMMA FailureDamage ==
    ASSUME DamageInv, PersisterInv', SoleInv', OneConsumer, NEW w \in Worker,
           Raise(w) \/ Die(w)
    PROVE  DamageInv'
<1>1. /\ PersisterInv /\ UNCHANGED <<rows, ep, lapses>>
      /\ task \in [Worker -> [step : {"start", "commit", "write"}, transition : Transitions]]
      /\ task' = [task EXCEPT ![w] = Idle]
  BY DEF Raise, Die, storeVars, DamageInv, PersisterInv, PersisterTypeOK
<1>2. task'[w].step = "start"
  BY <1>1 DEF Idle
<1>3. Reached' = ep
  BY <1>1, <1>2 DEF Reached, Writing, OneConsumer
<1>4. Strays(Reached.episode)' = Strays(ep.episode)
  BY <1>1, <1>3 DEF Strays, OpenRows
<1>5. /\ Cardinality(Strays(Reached.episode)) \in Nat
      /\ Cardinality(Strays(ep.episode)) \in Nat
      /\ Cardinality(Strays(ep.episode)) <= Cardinality(Strays(Reached.episode)) + 1
      /\ Cardinality(Strays(Reached.episode)) <= faults + lapses
      /\ faults \in Nat /\ lapses \in Nat
  BY <1>1, OneMoreStray, Counts DEF DamageInv
<1>6. faults' = faults + 1 \/ (faults' = faults /\ worker[w].now \in Poison)
  BY DEF Raise, Die, HandlerRaises, Crash
<1>7. worker[w].now \in Poison => Reached = ep
  BY ReachedIs DEF DamageInv
<1>8. (Cardinality(Strays(Reached.episode)) <= faults + lapses)'
  BY <1>1, <1>4, <1>5, <1>6, <1>7
<1>9. QED
  BY <1>2, <1>8 DEF DamageInv, OneConsumer

\* An expiry forgets the episode that the hash named.
LEMMA ExpireDamage ==
    ASSUME DamageInv, PersisterInv', SoleInv', OneConsumer, Expire
    PROVE  DamageInv'
<1>1. /\ PersisterInv /\ UNCHANGED <<rows, task, faults>> /\ lapses' = lapses + 1
      /\ \A w \in Worker : task[w].step = "start"
      /\ ep' = FreshState
  BY DEF Expire, busVars, DamageInv
<1>2. Reached = ep /\ Reached' = ep'
  BY <1>1 DEF Reached, Writing
<1>3. Strays(Reached.episode)' = Strays(FreshState.episode)
  BY <1>1, <1>2 DEF Strays, OpenRows
<1>4. /\ Cardinality(Strays(Reached.episode)) \in Nat
      /\ Cardinality(Strays(FreshState.episode)) \in Nat
      /\ Cardinality(Strays(FreshState.episode)) <= Cardinality(Strays(Reached.episode)) + 1
      /\ Cardinality(Strays(Reached.episode)) <= faults + lapses
      /\ faults \in Nat /\ lapses \in Nat
  BY <1>1, OneMoreStray, Counts DEF DamageInv
<1>5. QED
  BY <1>1, <1>3, <1>4 DEF DamageInv

\* Every step of the persister preserves the invariant.
LEMMA DamageNextKeeps == DamageInv /\ [PersisterNext]_vars => DamageInv'
<1> SUFFICES ASSUME DamageInv, [PersisterNext]_vars PROVE DamageInv'
  OBVIOUS
<1>1. OneConsumer
  BY PersisterAssumption DEF PersisterAssumption, OneConsumer
<1>2. PersisterInv' /\ SoleInv'
  BY <1>1, BusSteps, PersisterNextKeeps, NextKeepsSole DEF DamageInv, PersisterInv
<1>3. CASE BusOnly
  BY <1>2, <1>3, BusOnlyDamage
<1>4. ASSUME NEW w \in Worker,
             ReadState(w) \/ Commit(w) \/ WriteState(w) \/ Raise(w) \/ Die(w)
      PROVE  DamageInv'
  BY <1>1, <1>2, <1>4, ProcessDamage, FailureDamage
<1>5. CASE Expire
  BY <1>1, <1>2, <1>5, ExpireDamage
<1>6. CASE UNCHANGED vars
  <2>1. UNCHANGED <<rows, ep, task, lapses, worker, faults>>
    BY <1>6 DEF vars, busVars, persisterVars, storeVars
  <2>2. (Cardinality(Strays(Reached.episode)) <= faults + lapses)'
    BY <2>1, StoresUntouched
  <2>3. QED
    BY <1>2, <2>1, <2>2 DEF DamageInv
<1>7. QED
  BY <1>3, <1>4, <1>5, <1>6 DEF PersisterNext

\* The invariant holds in every reachable state of the persister.
THEOREM DamageInvariant == PersisterSpec => []DamageInv
BY InitDamageInv, DamageNextKeeps, PTL DEF PersisterSpec

\* At most one episode row stays open for ever for each fault and each expiry of
\* the hash, for any number of forecasts and any order of redelivery; and until a
\* fault, forecasts are handled in stream order.
THEOREM DamageBoundedHolds == PersisterSpec => []DamageBoundedByFaults
<1>1. ASSUME DamageInv PROVE DamageBoundedByFaults
  <2>1. OneConsumer /\ PersisterInv /\ faults \in Nat /\ lapses \in Nat
    BY <1>1, PersisterAssumption, Counts DEF PersisterAssumption, OneConsumer, DamageInv
  <2>2. InOrderUnlessFaulted
    BY <1>1 DEF DamageInv, SoleInv, InOrderUnlessFaulted, CompletedInOrder
  <2>3. Cardinality(Strays(ep.episode))
           <= faults + lapses + Cardinality({w \in Worker : task[w].step = "write"})
    <3> DEFINE W == {w \in Worker : task[w].step = "write"}
    <3> SUFFICES Cardinality(Strays(ep.episode)) <= faults + lapses + Cardinality(W)
      OBVIOUS
    <3>1. /\ Cardinality(Strays(Reached.episode)) \in Nat
          /\ Cardinality(Strays(ep.episode)) \in Nat
          /\ Cardinality(Strays(ep.episode)) <= Cardinality(Strays(Reached.episode)) + 1
          /\ Cardinality(Strays(Reached.episode)) <= faults + lapses
      BY <1>1, <2>1, OneMoreStray DEF DamageInv
    <3>2. CASE W = {}
      <4>1. Reached = ep
        BY <3>2 DEF Reached, Writing
      <4>2. Strays(Reached.episode) = Strays(ep.episode)
        BY <4>1
      <4>3. Cardinality(W) = 0
        BY <3>2, FS_EmptySet, Zenon
      <4> HIDE DEF W
      <4>4. QED
        BY <2>1, <3>1, <4>2, <4>3
    <3>3. ASSUME NEW w \in W
          PROVE  Cardinality(W) = 1
      <4>1. W = {w}
        BY <2>1 DEF OneConsumer
      <4>2. QED
        BY <4>1, FS_Singleton
    <3>4. QED
      BY <2>1, <3>1, <3>2, <3>3
  <2>4. QED
    BY <2>2, <2>3 DEF DamageBoundedByFaults, OrphansBoundedByFaults, Strays
<1>2. QED
  BY <1>1, DamageInvariant, PTL

-----------------------------------------------------------------------------
(***************************************************************************)
(* The persister implements EpisodeLifecycle until a fault or an expiry:   *)
(* the commit of a forecast that is not stale is the indivisible Fold, and *)
(* every other step is a stutter.                                          *)
(***************************************************************************)
\* The forecasts whose transition is in the hash, or committed for it.
Absorbed == folded \union {worker[w].now : w \in Writing}

\* Nothing has been published, and the stores are empty.
LEMMA InitLifecycle == PersisterInit => Lifecycle!EpisodeInit
<1> SUFFICES ASSUME PersisterInit PROVE Lifecycle!EpisodeInit
  OBVIOUS
<1>1. Writing = {}
  BY DEF PersisterInit, Idle, Writing
<1>2. {Forecast(m) : m \in folded \union {worker[w].now : w \in Writing}} = {}
  BY <1>1 DEF PersisterInit
<1>3. QED
  BY <1>1, <1>2 DEF PersisterInit, Lifecycle!EpisodeInit, Lifecycle!FreshState, Lifecycle!Never,
     Lifecycle!NoEpisode, FreshState, Never, NoEpisode

\* The two modules take `advance` and the table from Episodes, with the same rules.
LEMMA SameOperators ==
    /\ \A s, f, id : Lifecycle!advance(s, f, id) = advance(s, f, id)
    /\ \A r, t : Lifecycle!WriteEpisode(r, t) = WriteEpisode(r, t)
    /\ \A S : Lifecycle!Cardinality(S) = Cardinality(S)
<1>1. Lifecycle!Never = Never /\ Lifecycle!NoEpisode = NoEpisode
      /\ Lifecycle!NoTransition = NoTransition
  BY DEF Lifecycle!Never, Never, Lifecycle!NoEpisode, NoEpisode, Lifecycle!NoTransition,
     NoTransition
<1>2. \A f : Lifecycle!IsAbove(f) = IsAbove(f)
  BY DEF Lifecycle!IsAbove, IsAbove
<1>3. \A s, f : Lifecycle!IsStale(s, f) = IsStale(s, f)
  BY <1>1 DEF Lifecycle!IsStale, IsStale
<1>4. \A f, id : Lifecycle!Opening(f, id) = Opening(f, id)
  BY <1>1 DEF Lifecycle!Opening, Opening
<1>5. ASSUME NEW e, NEW f PROVE Lifecycle!Updated(e, f) = Updated(e, f)
  <2>1. Lifecycle!IsAbove(f) = IsAbove(f)
    BY <1>2
  <2>2. QED
    BY <1>1, <2>1 DEF Lifecycle!Updated, Updated
<1>6. \A e, f : Lifecycle!IsClosing(e, f) = IsClosing(e, f)
  BY <1>2, <1>5 DEF Lifecycle!IsClosing, IsClosing
<1>7. \A s, f, e, v, n : Lifecycle!Transition(s, f, e, v, n) = Transition(s, f, e, v, n)
  BY DEF Lifecycle!Transition, Transition
<1>8. \A e, n : Lifecycle!RowOf(e, n) = RowOf(e, n)
  BY DEF Lifecycle!RowOf, RowOf
<1>9. \A s, f, id : Lifecycle!advance(s, f, id) = advance(s, f, id)
  BY <1>1, <1>2, <1>3, <1>4, <1>5, <1>6, <1>7 DEF Lifecycle!advance, advance
<1>10. \A r, t : Lifecycle!WriteEpisode(r, t) = WriteEpisode(r, t)
  BY <1>8 DEF Lifecycle!WriteEpisode, WriteEpisode
<1>11. ASSUME NEW S PROVE Lifecycle!Cardinality(S) = Cardinality(S)
  BY DEF Lifecycle!Cardinality, Cardinality
<1>12. QED
  BY <1>9, <1>10, <1>11

\* What the abstract variables depend on.
LEMMA LifecycleStutters ==
    ASSUME Reached' = Reached, Absorbed' = Absorbed, UNCHANGED <<risk, rows>>
    PROVE  UNCHANGED Lifecycle!lifecycleVars
BY DEF Lifecycle!lifecycleVars, Reached, Absorbed, Forecast

\* The commit of a forecast that moves the episode is the Fold of it.
LEMMA CommitFolds ==
    ASSUME DamageInv, OneConsumer, NEW w \in Worker, Commit(w),
           task[w].transition # NoTransition
    PROVE  Lifecycle!EpisodeNext
<1> DEFINE m == worker[w].now
           t == task[w].transition
<1>1. /\ worker[w].pc = "handling" /\ m \in Id /\ task[w].step = "commit"
      /\ Forecast(m) \in Summary(Id, Risk)
  BY ForecastType DEF Commit, At, DamageInv
<1>2. /\ t = advance(ep, Forecast(m), NewId) /\ rows' = WriteEpisode(rows, t)
      /\ UNCHANGED <<ep, folded, worker, risk>>
      /\ task' = [task EXCEPT ![w].step = "write"]
  BY <1>1 DEF DamageInv, PersisterInv, TaskInv, Commit, busVars
<1>3. task'[w].step = "write" /\ task'[w].transition = t
  BY <1>2 DEF DamageInv, PersisterInv, PersisterTypeOK
<1>4. Writing = {} /\ Reached = ep
  BY <1>1, ReachedIs
<1>5. Writing' = {w}
  BY <1>3 DEF Writing, OneConsumer
<1>6. Reached' = t.state
  <2>1. {w} # {} /\ (CHOOSE v \in {w} : TRUE) = w
    OBVIOUS
  <2>2. QED
    BY <1>3, <1>5, <2>1 DEF Reached
<1>7. Absorbed = folded /\ Absorbed' = folded \union {m}
  BY <1>2, <1>4, <1>5 DEF Absorbed
<1>8. {Forecast(n) : n \in Absorbed}' = {Forecast(n) : n \in Absorbed} \union {Forecast(m)}
  BY <1>2, <1>7 DEF Forecast
<1> HIDE DEF t, m
<1>9. Lifecycle!advance(ep, Forecast(m), NewId) = t /\ Lifecycle!WriteEpisode(rows, t) = rows'
  BY <1>2, SameOperators DEF t
<1>10. Lifecycle!NoTransition = NoTransition /\ Lifecycle!NewId = NewId
  BY SameOperators DEF Lifecycle!NoTransition, NoTransition, Lifecycle!NewId, NewId
<1>11. PICK f : f = Forecast(m)
  OBVIOUS
<1>12. Lifecycle!Fold(f) /\ f \in Lifecycle!Summary(Id, Risk)
  <2>1. Lifecycle!Fold(f)
    BY <1>4, <1>6, <1>8, <1>9, <1>10, <1>11 DEF Lifecycle!Fold, Reached, Absorbed, t
  <2>2. QED
    BY <1>1, <1>11, <2>1 DEF Lifecycle!Summary, Summary, m
<1>13. QED
  BY <1>12 DEF Lifecycle!EpisodeNext

\* Writing the hash takes over what the commit has made of it.
LEMMA WriteStateStutters ==
    ASSUME DamageInv, OneConsumer, NEW w \in Worker, WriteState(w)
    PROVE  Reached' = Reached /\ Absorbed' = Absorbed /\ UNCHANGED <<risk, rows>>
<1> DEFINE m == worker[w].now
           t == task[w].transition
<1>1. /\ UNCHANGED <<risk, rows>> /\ task' = [task EXCEPT ![w] = Idle] /\ task[w].step = "write"
      /\ IF t = NoTransition THEN UNCHANGED <<ep, folded>>
         ELSE ep' = t.state /\ folded' = folded \union {m}
  BY DEF WriteState, At
<1>2. task'[w].step = "start"
  BY <1>1 DEF Idle, DamageInv, PersisterInv, PersisterTypeOK
<1>3. Writing' = {} /\ Reached' = ep' /\ Absorbed' = folded'
  BY <1>2 DEF Reached, Writing, Absorbed, OneConsumer
<1>4. CASE t = NoTransition
  BY <1>1, <1>3, <1>4, ReachedIs DEF Absorbed
<1>5. CASE t # NoTransition
  <2>1. Reached = t.state /\ Writing = {w}
    BY <1>1, <1>5, ReachedIs
  <2>2. Absorbed = folded \union {m}
    BY <2>1 DEF Absorbed
  <2>3. QED
    BY <1>1, <1>3, <1>5, <2>1, <2>2
<1>6. QED
  BY <1>4, <1>5

\* Until a fault or an expiry, a step of the persister folds one forecast or
\* leaves the abstract state alone.
LEMMA StepImplements ==
    ASSUME DamageInv, PersisterNext, faults' + lapses' = 0
    PROVE  Lifecycle!EpisodeNext \/ UNCHANGED Lifecycle!lifecycleVars
<1>1. OneConsumer /\ PersisterInv /\ faults \in Nat /\ lapses \in Nat
  BY PersisterAssumption, Counts DEF PersisterAssumption, OneConsumer, DamageInv
<1>2. CASE BusOnly
  <2>1. UNCHANGED <<risk, rows, ep, folded, task>> /\ TypeOK
    BY <1>1, <1>2 DEF BusOnly, persisterVars, storeVars, PersisterInv, PersisterTypeOK
  <2>2. \A w \in Writing : worker'[w].now = worker[w].now
    <3>1. \A w \in Writing : w \in Worker /\ worker[w].pc = "handling"
      BY <1>1 DEF PersisterInv, TaskInv, Writing
    <3>2. QED
      BY <1>2, <2>1, <3>1, BusStepsSpareHandlers DEF BusOnly
  <2>3. Reached' = Reached /\ Writing' = Writing
    BY <2>1 DEF Reached, Writing
  <2>4. Absorbed' = Absorbed
    BY <2>1, <2>2, <2>3 DEF Absorbed
  <2>5. QED
    BY <2>1, <2>3, <2>4, LifecycleStutters
<1>3. ASSUME NEW w \in Worker, ReadState(w)
      PROVE  UNCHANGED Lifecycle!lifecycleVars
  <2>1. /\ UNCHANGED <<risk, rows, ep, folded>>
        /\ task[w].step = "start" /\ task'[w].step = "commit"
    BY <1>1, <1>3 DEF ReadState, At, storeVars, PersisterInv, PersisterTypeOK
  <2>2. Writing = {} /\ Writing' = {}
    BY <1>1, <2>1 DEF Writing, OneConsumer
  <2>3. QED
    BY <2>1, <2>2, LifecycleStutters DEF Reached, Absorbed
<1>4. ASSUME NEW w \in Worker, Commit(w), task[w].transition = NoTransition
      PROVE  UNCHANGED Lifecycle!lifecycleVars
  <2>1. /\ UNCHANGED <<risk, rows, ep, folded>> /\ task[w].step = "commit"
        /\ task'[w].transition = NoTransition
    BY <1>1, <1>4 DEF Commit, At, PersisterInv, PersisterTypeOK
  <2>2. Writing = {} /\ Writing' = {}
    BY <1>1, <2>1 DEF Writing, OneConsumer
  <2>3. QED
    BY <2>1, <2>2, LifecycleStutters DEF Reached, Absorbed
<1>5. ASSUME NEW w \in Worker, WriteState(w)
      PROVE  UNCHANGED Lifecycle!lifecycleVars
  BY <1>1, <1>5, WriteStateStutters, LifecycleStutters
<1>6. ASSUME NEW w \in Worker, Raise(w)
      PROVE  UNCHANGED Lifecycle!lifecycleVars
  <2>1. /\ UNCHANGED <<risk, rows, ep, folded>>
        /\ worker[w].now \in Poison /\ task' = [task EXCEPT ![w] = Idle]
    BY <1>1, <1>6 DEF Raise, HandlerRaises, storeVars
  <2>2. task[w].step = "start" /\ task'[w].step = "start"
    BY <1>1, <2>1 DEF DamageInv, Idle, PersisterInv, PersisterTypeOK
  <2>3. Writing = {} /\ Writing' = {}
    BY <1>1, <2>2 DEF Writing, OneConsumer
  <2>4. QED
    BY <2>1, <2>3, LifecycleStutters DEF Reached, Absorbed
<1>7. \A w \in Worker : ~Die(w)
  BY <1>1 DEF Die, Crash, storeVars
<1>8. ~Expire
  BY <1>1 DEF Expire, busVars
<1>9. QED
  BY <1>2, <1>3, <1>4, CommitFolds, <1>1, <1>5, <1>6, <1>7, <1>8 DEF PersisterNext

\* As long as no fault and no expiry has happened, what the persister does to
\* the episodes of a host is what EpisodeLifecycle says: each forecast that is
\* not stale is folded into the hash and the table in one indivisible step.
THEOREM PersisterImplementsLifecycle == PersisterSpec => ImplementsLifecycle
<1>1. DamageInv /\ [PersisterNext]_vars
        => [faults' + lapses' = 0 => Lifecycle!EpisodeNext \/ UNCHANGED Lifecycle!lifecycleVars]_vars
  BY StepImplements
<1>2. PersisterInit => Lifecycle!EpisodeInit
  BY InitLifecycle
<1>3. QED
  BY <1>1, <1>2, DamageInvariant, PTL DEF PersisterSpec, ImplementsLifecycle
==============================================================================
