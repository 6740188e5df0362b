------------------------------- MODULE Features -------------------------------
(***************************************************************************)
(* services/features: the `raw_events` consumer of one tenant, on the bus  *)
(* of StreamBus, and the watchdog task that shares its process.  Events    *)
(* are folded into the open window; closing a window publishes one vector  *)
(* per host, after a zero vector for each window the host was silent in.   *)
(*                                                                         *)
(* Windows are consecutive numbers (align divides by window_delta).  A     *)
(* vector is what the retries and races below can change of it: how many   *)
(* events were counted, and whether the host's peer was new.  Every event  *)
(* of a host goes to one peer.  The host graph, which is read and dropped  *)
(* next to the counters, and the rolling history of three windows are left *)
(* out.  One process runs, as in docker-compose.yml.                       *)
(***************************************************************************)
EXTENDS StreamBus, Sequences

CONSTANTS
    Host,       \* the source hosts, numbered in the order `sorted` gives
    Ts,         \* the windows
    MaxGap      \* features.max_gap_windows

ASSUME FeaturesAssumption ==
    /\ \A v, w \in Worker : v = w
    /\ Host \subseteq Nat \ {0} /\ Ts \subseteq Nat \ {0}
    /\ \A t, u \in Ts : t..u \subseteq Ts
    /\ MaxGap \in Nat

VARIABLES
    event,      \* host and window of each entry of the stream
    open,       \* feat:open:{tenant}: the open window, or NoWindow
    silent,     \* the grace has elapsed since last_seen
    counts,     \* feat:win:{tenant}:{host}:{ts}: events counted; 0 when absent
    peers,      \* the hosts whose peer is in feat:peers:{tenant}:{host}
    prev,       \* feat:prev:{tenant}:{host}: last emitted window, or NoWindow
    stored,     \* the table state_vectors: (host, window) -> vector
    published,  \* the vectors put on the bus `state_vectors`, oldest first
    job,        \* the close in progress, under the tenant's lock
    stalled,    \* history: the grace elapsed with more of the window to come
    reordered   \* history: events were not counted in the order of time

featureVars == <<event, open, silent, counts, peers, prev, stored, published, job, stalled, reordered>>
history == <<stalled, reordered>>
vars == <<busVars, featureVars>>

NoWindow == 0
Vector == [host : Host, ts : Ts, events : 0..MaxPublished + MaxFaults, new_peer : BOOLEAN]
zero_features(h, t) == [host |-> h, ts |-> t, events |-> 0, new_peer |-> FALSE]
Key(v) == <<v.host, v.ts>>

\* A close by the event path or the watchdog: the window, the hosts still to
\* emit, the windows still to emit for the host at hand (silent ones first),
\* the vector at hand, and the next call.
Phases == {"peers", "save", "publish", "history", "discard", "clear"}
NoJob == [by |-> "nobody"]

\* Ingest sorts the events within a chunk only: at the boundary of two chunks,
\* as at the start of an upload, the time may go back by any amount, which is
\* logged and published nevertheless.
Captures == [Id -> [host : Host, ts : Ts]]

FeaturesInit ==
    /\ Init
    /\ event \in Captures
    /\ open = NoWindow /\ silent = FALSE
    /\ counts = [h \in Host |-> [t \in Ts |-> 0]]
    /\ peers = {} /\ prev = [h \in Host |-> NoWindow]
    /\ stored = <<>> /\ published = <<>>
    /\ job = NoJob /\ stalled = FALSE /\ reordered = FALSE

-----------------------------------------------------------------------------
\* Mutant: one silent window too few is emitted.
DueShort(from, t) ==
    LET gap == t - from - 1
    IN  IF from = NoWindow \/ gap <= 0 \/ gap > MaxGap THEN <<t>>
        ELSE [i \in 1..gap |-> from + 1 + i]

\* _fill_gap: the windows h sat out since `from`, none when there are more
\* than MaxGap of them, and then the window t itself.
Due(from, t) ==
    LET gap == t - from - 1
    IN  IF from = NoWindow \/ gap <= 0 \/ gap > MaxGap THEN <<t>>
        ELSE [i \in 1..gap + 1 |-> from + i]

\* Take the next window of the host at hand: a silent one is zero.
NextVector(j) ==
    IF j.todo = <<>> THEN [j EXCEPT !.phase = "history"]
    ELSE IF Head(j.todo) = j.win THEN [j EXCEPT !.phase = "peers"]
    ELSE [j EXCEPT !.phase = "save", !.vector = zero_features(Least(j.hosts), Head(j.todo))]

\* Take the next host in sorted order, its last emitted window from `last_ts`.
NextHost(j, last_ts) ==
    IF j.hosts = {} THEN [j EXCEPT !.phase = "discard"]
    ELSE NextVector([j EXCEPT !.todo = Due(last_ts[Least(j.hosts)], j.win)])

\* read_hosts: the hosts with counters in the window.
HostsOf(t) == {h \in Host : counts[h][t] > 0}

_close_window(who) ==
    job' = NextHost([by |-> who, win |-> open, hosts |-> HostsOf(open), todo |-> <<>>,
                     vector |-> <<>>, phase |-> "discard"], prev)

-----------------------------------------------------------------------------
Handling(w) == worker[w].pc = "handling" /\ job = NoJob /\ worker[w].now \notin Poison
Now(w) == event[worker[w].now]

\* The window of the event has closed already, or so it seems: drop it.
DropLate(w) ==
    /\ Handling(w)
    /\ open # NoWindow /\ Now(w).ts < open
    /\ HandlerReturns(w)
    /\ UNCHANGED featureVars

\* Mutant: the event is counted before the close, and again after it.
CloseByEventCountsFirst(w) ==
    /\ Handling(w)
    /\ open # NoWindow /\ Now(w).ts > open
    /\ counts' = [counts EXCEPT ![Now(w).host][Now(w).ts] = @ + 1]
    /\ _close_window("event")
    /\ UNCHANGED <<busVars, event, open, silent, peers, prev, stored, published, history>>

\* The event belongs to a later window: close the open one first.
CloseByEvent(w) ==
    /\ Handling(w)
    /\ open # NoWindow /\ Now(w).ts > open
    /\ _close_window("event")
    /\ UNCHANGED <<busVars, event, open, silent, counts, peers, prev, stored, published, history>>

\* An earlier event is still to be counted, or a later one has been.
OutOfTurn(m) ==
    \/ \E n \in Id \ done : n < m
    \/ \E n \in done : m < n \/ event[m].ts < event[n].ts

\* One pipeline: count the event, and stamp the open window with the time.
accumulate(w) ==
    /\ Handling(w)
    /\ open \in {NoWindow, Now(w).ts}
    /\ counts' = [counts EXCEPT ![Now(w).host][Now(w).ts] = @ + 1]
    /\ open' = Now(w).ts
    /\ silent' = FALSE
    /\ reordered' = (reordered \/ OutOfTurn(worker[w].now))
    /\ HandlerReturns(w)
    /\ UNCHANGED <<event, peers, prev, stored, published, job, stalled>>

\* More events of the open window, or of an older one, are still to be handled.
Unfinished == \E m \in Id \ done : event[m].ts <= open

\* No event for grace_s.
FallSilent ==
    /\ open # NoWindow /\ ~silent
    /\ silent' = TRUE
    /\ stalled' = (stalled \/ Unfinished)
    /\ UNCHANGED <<busVars, event, open, counts, peers, prev, stored, published, job, reordered>>

\* Mutant: the sweep drops the silent window's marker and emits nothing.
watchdog_forgets(w) ==
    /\ worker[w].pc # "down" /\ ~worker[w].stop
    /\ job = NoJob
    /\ open # NoWindow /\ silent
    /\ open' = NoWindow
    /\ UNCHANGED <<busVars, event, silent, counts, peers, prev, stored, published, job, history>>

\* watchdog_tick, in a running process, when the lock is free.
watchdog_tick(w) ==
    /\ worker[w].pc # "down" /\ ~worker[w].stop
    /\ job = NoJob
    /\ open # NoWindow /\ silent
    /\ _close_window("watchdog")
    /\ UNCHANGED <<busVars, event, open, silent, counts, peers, prev, stored, published, history>>

\* SMEMBERS, then SADD: new_peer_count, and with it the vector.
record_peers ==
    LET h == Least(job.hosts)
    IN  /\ job # NoJob /\ job.phase = "peers"
        /\ peers' = peers \union {h}
        /\ job' = [job EXCEPT !.phase = "save",
                     !.vector = [host |-> h, ts |-> job.win, events |-> counts[h][job.win],
                                 new_peer |-> h \notin peers]]
        /\ UNCHANGED <<busVars, event, open, silent, counts, prev, stored, published, history>>

\* StateVectorStore.save: INSERT ... ON CONFLICT DO NOTHING.
save ==
    /\ job # NoJob /\ job.phase = "save"
    /\ stored' = IF Key(job.vector) \in DOMAIN stored THEN stored
                 ELSE [k \in DOMAIN stored \union {Key(job.vector)} |->
                          IF k = Key(job.vector) THEN job.vector ELSE stored[k]]
    /\ job' = [job EXCEPT !.phase = "publish"]
    /\ UNCHANGED <<busVars, event, open, silent, counts, peers, prev, published, history>>

\* _publish, the second half: XADD.
publish ==
    /\ job # NoJob /\ job.phase = "publish"
    /\ published' = Append(published, job.vector)
    /\ job' = NextVector([job EXCEPT !.todo = Tail(@)])
    /\ UNCHANGED <<busVars, event, open, silent, counts, peers, prev, stored, history>>

\* Mutant: the close is over after its first host.
write_history_only ==
    LET h == Least(job.hosts)
    IN  /\ job # NoJob /\ job.phase = "history"
        /\ prev' = [prev EXCEPT ![h] = job.win]
        /\ job' = [job EXCEPT !.hosts = @ \ {h}, !.phase = "discard"]
        /\ UNCHANGED <<busVars, event, open, silent, counts, peers, stored, published, history>>

write_history ==
    LET h == Least(job.hosts)
    IN  /\ job # NoJob /\ job.phase = "history"
        /\ prev' = [prev EXCEPT ![h] = job.win]
        /\ job' = NextHost([job EXCEPT !.hosts = @ \ {h}], prev')
        /\ UNCHANGED <<busVars, event, open, silent, counts, peers, stored, published, history>>

\* DEL of the window's counters and host set.
discard_window ==
    /\ job # NoJob /\ job.phase = "discard"
    /\ counts' = [h \in Host |-> [counts[h] EXCEPT ![job.win] = 0]]
    /\ job' = [job EXCEPT !.phase = "clear"]
    /\ UNCHANGED <<busVars, event, open, silent, peers, prev, stored, published, history>>

\* Drop the open marker unless it moved on, and release the lock.
clear_open ==
    /\ job # NoJob /\ job.phase = "clear"
    /\ open' = IF open = job.win THEN NoWindow ELSE open
    /\ silent' = FALSE
    /\ job' = NoJob
    /\ UNCHANGED <<busVars, event, counts, peers, prev, stored, published, history>>

CloseStep ==
    record_peers \/ save \/ publish \/ write_history \/ discard_window \/ clear_open

\* The handler fails on a payload, or in its part of a close.
Fail(w) ==
    /\ HandlerRaises(w)
    /\ worker[w].now \in Poison \/ job = NoJob \/ job.by = "event"
    /\ job' = IF job # NoJob /\ job.by = "event" THEN NoJob ELSE job
    /\ UNCHANGED <<event, open, silent, counts, peers, prev, stored, published, history>>

\* run_watchdog logs a failed sweep and goes on.
WatchdogFails ==
    /\ job # NoJob /\ job.by = "watchdog"
    /\ faults < MaxFaults /\ faults' = faults + 1
    /\ job' = NoJob
    /\ UNCHANGED <<redisVars, done, worker, event, open, silent, counts, peers, prev,
                   stored, published, history>>

\* The process dies, and its two tasks with it.
Die(w) ==
    /\ Crash(w)
    /\ job' = NoJob
    /\ UNCHANGED <<event, open, silent, counts, peers, prev, stored, published, history>>

\* The process exits, and can start again, once both of its tasks are over.
BusOnly ==
    /\ \/ Publish
       \/ \E m \in Id : GoIdle(m)
       \/ \E w \in Worker : \/ LoopStep(w) \/ Signal(w) \/ ReclaimDue(w)
                            \/ job = NoJob /\ Start(w)
    /\ UNCHANGED featureVars

FeaturesNext ==
    \/ BusOnly
    \/ CloseStep \/ FallSilent \/ WatchdogFails
    \/ \E w \in Worker : \/ DropLate(w) \/ CloseByEvent(w) \/ accumulate(w)
                         \/ watchdog_tick(w) \/ Fail(w) \/ Die(w)

FeaturesSpec == FeaturesInit /\ [][FeaturesNext]_vars

\* As for the bus; both tasks of the process keep running, the watchdog gets
\* its turn (asyncio locks are first come, first served), and time passes.
FeaturesFairness ==
    /\ WF_vars(CloseStep) /\ WF_vars(FallSilent)
    /\ \A w \in Worker :
          /\ WF_vars(LoopStep(w) /\ UNCHANGED featureVars)
          /\ WF_vars(DropLate(w) \/ CloseByEvent(w) \/ accumulate(w) \/ Fail(w))
          /\ WF_vars(watchdog_tick(w))
          /\ WF_vars(job = NoJob /\ Start(w) /\ UNCHANGED featureVars)
          /\ WF_vars(ReclaimDue(w) /\ UNCHANGED featureVars)
    /\ \A m \in Id : WF_vars(GoIdle(m) /\ UNCHANGED featureVars)

FairFeaturesSpec == FeaturesSpec /\ FeaturesFairness

-----------------------------------------------------------------------------
Job == [by : {"event", "watchdog"}, win : Ts, hosts : SUBSET Host, todo : Seq(Ts),
        vector : Vector \union {<<>>}, phase : Phases]

FeaturesTypeOK ==
    /\ TypeOK
    /\ event \in Captures
    /\ open \in Ts \union {NoWindow} /\ silent \in BOOLEAN
    /\ counts \in [Host -> [Ts -> 0..MaxPublished + MaxFaults]]
    /\ peers \subseteq Host /\ prev \in [Host -> Ts \union {NoWindow}]
    /\ \A k \in DOMAIN stored : stored[k] \in Vector /\ k = Key(stored[k])
    /\ published \in Seq(Vector)
    /\ job \in Job \union {NoJob}
    /\ stalled \in BOOLEAN /\ reordered \in BOOLEAN

Published == {published[i] : i \in DOMAIN published}
PublishedTs(h) == {v.ts : v \in {u \in Published : u.host = h}}
EventsOf(h, t) == {m \in Id : event[m] = [host |-> h, ts |-> t]}

\* The stream was in a younger window before this event.
Regressed(m) == \E n \in Id : n < m /\ event[n].ts > event[m].ts
InTime(h, t) == {m \in EventsOf(h, t) : ~Regressed(m)}

\* Every vector that reaches inference is already durable, so that every
\* forecast can be explained (store.py), whatever fails in between.
StoredBeforePublished == \A v \in Published : Key(v) \in DOMAIN stored

\* "Silence is data": between two windows a host was seen in, every silent
\* one was published, unless they were more than MaxGap.  As long as events
\* are counted in order, no failed and repeated step of a close, by either
\* task, makes a short hole in the time axis.
NoShortHole ==
    ~reordered => \A h \in Host : \A t \in PublishedTs(h) :
        LET earlier == {u \in PublishedTs(h) : u < t}
        IN  earlier = {} \/ t - Greatest(earlier) = 1 \/ t - Greatest(earlier) > MaxGap + 1

\* Every event can be handled.
NothingLost == Poison = {} /\ trim = 0

\* Without a fault or a stall, the vectors of a host come once for each
\* window, in order (what the tail comparison of inference relies on), and
\* each counts exactly the events of its window that came in time.  An event
\* after a regression is lost: "a chunk boundary that regresses is logged
\* loudly rather than passed on in silence" (ingest/worker.py:8-12) is all
\* there is, it is published (174-188) and dropped here as late.
ExactInOrder ==
    NothingLost /\ faults = 0 /\ ~stalled =>
        /\ \A i, j \in DOMAIN published :
              i < j /\ published[i].host = published[j].host => published[i].ts < published[j].ts
        /\ \A v \in Published : v.events = Cardinality(InTime(v.host, v.ts))

\* Without a fault or a stall no event that came in time is lost between the
\* counters and the vectors: once handled it is in its window's counters, which
\* are complete so far, or in the vector.
NothingUncounted ==
    NothingLost /\ faults = 0 /\ ~stalled =>
        \A m \in {m \in done : ~Regressed(m)} :
            \/ event[m].ts \in PublishedTs(event[m].host)
            \/ counts[event[m].host][event[m].ts]
                 = Cardinality(InTime(event[m].host, event[m].ts) \intersect done)

\* What inference and /explain find on the time axis of a host: every vector
\* durable first, no short hole, and no fault, no stall: exact and in order.
AxisIsSound == StoredBeforePublished /\ NoShortHole /\ ExactInOrder

\* An event that is redelivered is counted again, but at most once for each
\* fault: a close that fails and is repeated counts nothing twice.
OvercountBoundedByFaults ==
    \A v \in Published : v.events <= Cardinality(EventsOf(v.host, v.ts)) + faults

\* Neither the interleaving of the two tasks nor the repeats of a close lose
\* or multiply events (state.py, accumulate and discard_window).
CountsAreSound == FeaturesTypeOK /\ NothingUncounted /\ OvercountBoundedByFaults

\* The vectors of a host: each of the events of its window, on one time axis.
VectorsAreSound == AxisIsSound /\ CountsAreSound

\* Counters are discarded only when the vector of their host and window has
\* been published, whatever step of a close fails and is repeated.
DiscardedAfterPublish ==
    [][\A h \in Host : \A t \in Ts :
          counts[h][t] > 0 /\ counts'[h][t] = 0 => t \in PublishedTs(h)]_vars

\* The final window of a capture, which has no successor event, closes too:
\* every event's window is published for its host, whatever stalls or fails,
\* unless the stream had gone past that window before the event came, and
\* until an event that failed is overtaken and finds its window closed.
EveryWindowCloses ==
    \A m \in Id \ Poison :
        (m <= last /\ ~Regressed(m)) ~>
            (m <= trim \/ reordered \/ event[m].ts \in PublishedTs(event[m].host))

\* DECISIONS D39: no "second, different vector for a `window_ts` downstream
\* has already consumed", even if the watchdog closes a window early.
OneVectorPerWindow ==
    faults = 0 => \A u, v \in Published : Key(u) = Key(v) => u = v
==============================================================================
