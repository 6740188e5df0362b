# A TLA+ development for NIDRA

NIDRA forecasts network attacks per host.  Its serving plane is a pipeline of
small asyncio processes joined by Redis Streams with at-least-once delivery; each
process keeps state in Redis or Postgres and none of its handlers is one atomic
step.  Its training plane turns captures into tables, tables into models and
models into reports, through files that outlive the run that wrote them.  The
models here are about what goes wrong between steps: a redelivery, a crash between
two calls, a second consumer, a timer, a stale file, an index into the wrong
array.  File references are to `src/`.

## 1. Inventory

```
 upload ──> api/ingest ──ingest_jobs──> ingest ──raw_events──> features
                                                                  │ state_vectors
 browser <──ws── api/ws <──┐                                      v
                           ├────────────── forecasts ─────── inference (xN)
 episodes, forecasts <── persister <─┘

 captures ─> flows ─> state table ─> splits, labels ─> dynamics, heads ─> benchmark, reports
```

| Component | State it keeps | Operations | What makes it correct |
|---|---|---|---|
| **bus** `nidra_common/bus.py` | a stream, its group's cursor and pending list | publish (XADD MAXLEN ~), ensure_group, read, reclaim (XAUTOCLAIM), ack | an entry delivered is acked, pending or evicted; acked only after its handler returned |
| **consumer loop** `nidra_common/worker.py` | batch in hand, reclaim timer, stop event | reclaim pass, read, dispatch, ack, stop | every entry that is not poison is acked in the end; one consumer works in order |
| **ingest API** `api/ingest.py` | job row (Postgres), progress hash (Redis), spooled file | receive under a cap, sniff, create job, status | what is queued is whole; a queued job ends; a poll never goes backwards |
| **parsers** `services/ingest/parsers.py` | a chunk, a tshark process and its pipes | read, sort, batch, end | every row once, in order within a chunk; no wait for ever |
| **ingest worker** `services/ingest/` | job row and progress, replay clock | parse, replay events, progress, finish or fail | an acked job is final in both stores; final means the whole file is out; a fault repeats it at most once |
| **features** `services/features/` | open window, counters, peers, history, last emitted window (Redis); `state_vectors` (Postgres); a lock per tenant | count an event, close a window with gap fill, watchdog sweep; compute a vector | one vector per window, contiguous, durable before published, of its own window |
| **inference** `services/inference/` | the last L windows of a host (Redis list); the stub predictor has none | dedupe, push, forecast, publish | a forecast sees L successive entries of its host; none is missed |
| **persister** `services/persister/` | `forecasts`, `episodes` (Postgres); episode hash (Redis, 24 h) | read state, advance, one transaction, write state | each forecast stored once and folded into one episode lifecycle |
| **WebSocket fan-out** `api/ws.py` | bounded queue, filter and heartbeat counter per socket | broadcast with drop-oldest, filter, ping, close | nothing lost silently; a live client is not closed, a dead one is |
| **rate limiter** `api/ratelimit.py` | sorted set per key and window | record and count, withdraw | never more than N admitted in a window, and no less for those refused |
| **backlog monitor** `api/metrics.py` | streak of growth per group | sample, warn | names a group exactly while it grows for the configured time |
| **auth** `api/auth.py`, `api/deps.py` | users, tenants; tokens held by clients | register, login, refresh, authorise | no half account; a removed user loses access |
| **read API** `api/forecasts.py`, `api/explain.py` | none: reads tables others write | page, explain, what-if | an explanation is of the forecast it names; a what-if differs by its clamp only |
| **ML data** `ml/nidra/data/` | tables | assemble flows, windows, splits, labels, samples | no feature looks ahead, no label crosses a split |
| **ML training** `ml/nidra/{models,train}/` | scaler, weights, metadata files | two training stages, model selection, rollout | checkpoints of one input space; each the best its loop saw |
| **ML evaluation, serving** `ml/nidra/{eval,serve,explain,cli}/` | operating point, calibration, reports | score, calibrate, lead times, report, forecast a file | what is served is what was measured; reports mean what they say |
| **web console** `web/` | workspace, replay clock, upload panel | upload, replace, step | indices fit the capture shown |
| schemas, config, migrations, scripts | none | | validation; presentation |

Interactions.  Services meet only in streams; within a service, the handler and
(in features) the watchdog share a process and a per-tenant lock; inference
replicas share the Redis list; the two tasks of a socket share its queue; the
what-ifs of the api process share torch's generator; training, benchmark and
serving share a directory.  The pieces without a common transaction are: the ack
and whatever the handler did; Postgres and Redis in the persister; the list and
the `forecasts` stream in inference; counters, table, stream and history within
one window close; file, row, hash and message of an upload; weights and the
metadata that describe them.

What is hard here is therefore: redelivery after a crash or a handler failure, in
another order than the first delivery; the batch of 32 handled one by one while
entries age towards `min_idle_ms`; two writes of which only the first happens; a
check (`LINDEX`, `last_ts`, the open-window marker, a filter, a count) that is stale
when it is used; a watchdog closing what a late event still belongs to;
expiries; the last window of a capture, which nothing but a timer closes; a peer
that vanished; a pipe nobody reads; arrays tied together only by their order; and
artifacts of different runs that fit by accident.  `PROJECT.json` lists each hazard
at the line where it bites and the properties aimed at it.

## 2. Modules

| Module | Models | Built on |
|---|---|---|
| `AtLeastOnce` | what the bus promises: send, complete, retire, evict | – |
| `StreamBus` | `bus.py` + `worker.py`: one stream, one group, any number of processes | refines `AtLeastOnce` |
| `Episodes` | `services/persister/episodes.py` as pure operators, and the episode SQL | – |
| `EpisodeLifecycle` | what the persister promises: a forecast folded in one step | `Episodes` |
| `Persister` | `services/persister/worker.py` | `StreamBus`, `Episodes`; refines `EpisodeLifecycle` |
| `Inference` | `services/inference/worker.py` | `StreamBus` |
| `Features` | `services/features/{worker,state,store}.py` | `StreamBus` |
| `IngestJob` | job rows of `api/ingest.py`, `services/ingest/{worker,jobs}.py` | `StreamBus` |
| `Upload` | `api/ingest.py` up to the message | – |
| `Parsers` | `services/ingest/parsers.py` | – |
| `WindowFeatures` | `services/features/compute.py`, the graph and history of `state.py` | – |
| `StubPredictor` | `services/inference/stub_predictor.py` | – |
| `Fanout` | `api/ws.py` | – |
| `RateLimit` | `api/ratelimit.py` | – |
| `Backlog` | the backpressure signal of `api/metrics.py` | – |
| `Accounts` | `api/auth.py`, `api/deps.py` | – |
| `Queries` | `api/forecasts.py`, the context of `api/explain.py` | – |
| `WhatIf` | `/explain` and `/counterfactual`, `ml/nidra/explain/counterfactual.py` | – |
| `AttackMapping` | `data/attack_mapping.py`, the stage rules of `data/labels.py` | – |
| `Console` | the demo workspace of `web/` | – |
| `DemoReplay` | `scripts/make_demo_replay.py` | – |
| `CaptureAnalysis` | `scripts/analyze_pcap.py`, `web/src/lib/demo-replay.ts` | – |
| `FileForecasts` | `ml/nidra/cli/forecast.py` | – |
| `FlowAssembly` | `data/flow_assemble.py` (this and the rest under `ml/nidra/`) | – |
| `StateTable` | `data/windowize.py`, `data/graph_features.py` | – |
| `TrainingData` | `train/pipeline.py`, `data/{splits,labels,onset,dataset}.py`, `eval/eval_set.py` | – |
| `ModelTraining` | `train/train_dynamics.py`, the stages of `train/train_heads.py`, `scripts/run_experiment.py` | – |
| `HeadTraining` | `train/{head_data,head_context}.py`, the epochs of `train_heads.py`, `train_onset.py` | – |
| `Rollout` | `models/{world_model,heads}.py`, `train/losses.py`, `eval/systems.py` | – |
| `Scoring` | `eval/{systems,operating_point,calibrate}.py` against `serve/predictor.py` | – |
| `Simulation` | rollouts and scoring side by side, by conjunction | `Rollout`, `Scoring` |
| `LeadTimes` | `eval/{metrics,episode_metrics,lead_time_runner,campaign_metrics}.py` | – |
| `Evaluation` | `scripts/run_experiment.py`, `eval/benchmark.py` | – |
| `EvalReports` | `scripts/fit_calibration.py`, `eval/run_eval.py` and what it calls | beside `Evaluation`, `LeadTimes`, by conjunction |
| `StreamBusProofs` | theorems about the bus, for every service built on it | `StreamBus` |
| `PersisterProofs`, `IngestProofs`, `InferenceProofs`, `FeaturesProofs` | theorems about its four services; in `InferenceProofs` also about the episodes that forecasts are folded into | `StreamBusProofs`, `EpisodeLifecycle` |
| `ServingProofs` | theorems about the fan-out, uploads, backlogs, accounts, console, rate limiter, read API and capture analysis | those modules |
| `TrainingProofs` | theorems about training runs, flows, splits, the state table, scores and rollouts | `ModelTraining`, `FlowAssembly`, `TrainingData`, `StateTable`, `Simulation` |
| `EvaluationProofs` | theorems about experiments, lead times and reports | `EvalReports`, `TrainingProofs` |
| `MC*` | the instances TLC checks that need definitions of their own | |

`Persister`, `Inference`, `Features` and `IngestJob` EXTEND `StreamBus`: each takes the bus's
`HandlerReturns` / `HandlerRaises` / `Crash` as the last step of its own handler
steps and leaves every other bus action as it is, so that every interleaving,
redelivery and reordering the bus allows reaches the handlers.

The other components share no state with each other.  `MCServingPlane` and
`MCTrainingPlane` put them side by side: a variable `unit` says which one
runs, the others keep their initial state, and the plane's next-state relation is the
disjunction of theirs.  So one run checks each of them under all its own
interleavings, and no product of unrelated states is explored.  Properties that
are meaningful in one unit only are stated under it (`unit = "table" => ...`).

### StreamBus

`last`, `trim` are the stream (entries are numbered in XADD order, `1..trim` are
evicted); `cursor`, `pending` are the group; `idle` is the part of `pending`
older than `min_idle_ms`.  Owners of pending entries are not kept: neither XACK
nor XAUTOCLAIM as used here looks at them.  `worker[w]` is the position of process `w` in
`run_consumer`: `reclaim`, `read`, `handling`, `ack` or `down`, the batch in hand,
the XAUTOCLAIM cursor, the reclaim timer, the stop event.  `done` and `acked`
are histories.

Each action runs from one `await` to the next: `Reclaim` is one XAUTOCLAIM page
(trimmed entries leave the pending list, idle times are reset), `Read` one
XREADGROUP, `HandlerReturns` / `HandlerRaises` the end of the handler, `Ack` one
XACK and the move to the next entry of the batch; `LoopTop`, `NextEntry`,
`Exhausted` are the code between.  `Crash`, `Signal` and transient failures draw
on the bound `MaxFaults`; an entry in `Poison` fails every time at no cost.
`Publish` trims by any amount that keeps `MaxLen` entries, as `MAXLEN ~` may.

### Episodes, EpisodeLifecycle, Persister

`advance` is the pure function of `episodes.py`, case by case; 0 stands for None.
`EpisodeLifecycle` folds any forecast, in any order and any number of times, into
the hash `state` and the table `rows` in one step; its properties say what an
episode is, in terms of the set `seen` of forecasts that moved it, independently of
the counters `advance` keeps.  `Persister` splits the fold at its awaits:
`ReadState` (HGETALL and `advance`), `Commit` (one Postgres transaction, both
statements), `WriteState` (HSET, after which the handler returns), with `Raise`
or `Die` between any two, and an expiry of the hash between any two handlings.
Without faults and expiries it implements `EpisodeLifecycle`.

### Inference, Features, IngestJob

In `Inference`, `seq` is the Redis list, `window` maps stream entries to windows: any windows
in any order, since features repeats a whole gap fill (s, t, s, t) when the write of
the history failed, and goes back when a capture is uploaded again.  `CheckTail` / `DropDuplicate` is LINDEX and the
comparison; `Push` is the MULTI that pushes, trims and reads the context back;
`PublishForecast` is the predictor and XADD.  `Expire` is the list's TTL.

In `Features`, `open`, `counts`, `peers`, `prev` are the Redis keys, `stored` the Postgres
table, `published` the outgoing stream.  A close of a window takes many calls;
`job` is how far it has got, and stands for the held lock: `_close_window` starts
it for the event path (`CloseByEvent`) or for the watchdog (`watchdog_tick`), and
`record_peers`, `save`, `publish`, `write_history` (per host, silent windows
first: `Due`), `discard_window`, `clear_open` are its steps.  `Fail`,
`WatchdogFails` and `Die` cut it anywhere; the lock is free then, and the close
starts over.  `stalled` and `reordered` are histories the properties need: the
grace elapsed in the middle of a window; an event was counted out of stream order.
Events come in any order of time: the replay sorts within a chunk and publishes what
regresses at a boundary (`ingest/worker.py:172-184`); `Regressed` names those events.

In `IngestJob`, `capture` is what each uploaded file holds: how many events, and whether it ends
well, breaks off, or cannot be read.  The API's request is `CommitRow`,
`init_progress`, `PublishJob`, with `RequestFails` between any two.  The worker's
`Begin` is the start of `run_job`; each `_report` is two steps, `set_progress`
(Redis) and `_update_row` (Postgres), and each event of `_replay` is one.  An `IngestError` is a
final report like any other, after which the handler returns; whatever else
fails is `Raise`, and the entry pends.  `row` and `live` are the two stores,
`View` what `_merge` shows a client, `raw` the history of
what was published of each job (the stream interleaves jobs, and nothing reads it across them).

### The units of the serving plane

`Fanout` keeps per socket the queue, the frame in hand, the filter in force and the
filters it has had, and the heartbeats missed.  The sending task is `Take` (from the
queue), `Resume` (the filter as it is *now*) and `Sent` or `Heartbeat`; the
receiving task is `set_hosts`, `pong`, `Disconnect`; `broadcast` offers to every socket
of the tenant.  `FallSilent` is the peer that vanishes without a word.

`RateLimit` is two Redis calls per window: the transaction that trims, adds
and counts, and the removal of a refused entry; requests interleave between them, and
a Redis failure lets a request through.  `Backlog` folds samples into streaks.
`Accounts` splits registration at its flush and commit, whose answer may be lost, and lets tokens live their time
after their user is gone, and sockets as long as their peers like.  `Upload` streams chunks to disk and cleans up after every
rejection.  `Queries` is the pipeline in front of the two tables, each service at its own pace (`SaveVector`,
`PublishVector`, `PushWindow`, `StoreForecast`), and the reads of pages and contexts meanwhile, with a
capture uploaded again in between.  `WhatIf` is a pool of threads over the process-wide torch generator.
`Parsers` has the two bounded pipes of tshark.  `Console` has requests that
outlive their panel, and two captures of one key.  `StubPredictor`, `AttackMapping`, `DemoReplay` and `FileForecasts` are
computations over every input of a small set, in the steps the code takes.

### The units of the training plane

`FlowAssembly`, `StateTable`, `WindowFeatures`, `TrainingData`, `HeadTraining`,
`CaptureAnalysis`, `LeadTimes`, `Scoring` and `Rollout` are algorithms: the input is
chosen (packets, flows, rows, labels, draws), the code's passes compute, and the
property compares with a reference definition that does not share them.  Numbers are
abstracted to their provenance where only that matters: a log-variance is what it was
conditioned on, a draw the place in the generator it came from.  `ModelTraining`,
`Evaluation` and `EvalReports` are processes over a directory: runs started by
hand, in any order, under configurations that share files, one of them killed
between any two writes; of a fitted object the feature regime behind it is kept.

## 3. Runs

Passing runs:

| Run | Instance | Shows |
|---|---|---|
| `bus_core` | 2 processes, 3 entries (one poison), batches of 2, MAXLEN 2, 2 faults | nothing delivered is forgotten, settled entries stay settled, the bus implements `AtLeastOnce`, and every entry that is not poison is acked or evicted in the end |
| `persister_core` | 1 process, 4 forecasts, 1 fault, 1 expiry of the hash | acked implies stored; stored in the end; the hash never runs ahead of the tables; orphaned episodes are bounded by faults and expiries; until one happens, entries complete in order and `EpisodeLifecycle` is implemented |
| `inference_single` | 1 process, 4 entries, L = 3, 1 fault, 1 expiry | every context is full and ends with its own window; no immediate repeat in the list; a fault or an expiry costs at most L - 1 forecasts; until one happens, contexts are successive entries of the stream and every due forecast comes |
| `features_core` | 2 hosts in 3 windows or 1 host in 4, 2 events in any order, gaps up to 1 filled, 1 fault | counters go only after their vector is out; the last window closes without a successor; published implies stored; no short hole in the time axis while events are counted in order; in order, and exact but for regressed events, without faults and stalls; overcount bounded by faults |
| `ingest_core` | 2 jobs of up to 3 events, chunks of 2, good, bad and missing files, 1 fault | acked implies final in both stores; final implies fully replayed; replays are bounded by faults; a poll moves forward until a fault; every queued job ends |
| `serving_plane` | 14 units (below) | what each component around the pipeline promises |
| `training_plane` | 12 units (below) | what the tables, checkpoints, scores and reports mean |

The properties of the two planes:

| Property | Unit | Says |
|---|---|---|
| `LifecycleIsSound`, `HistoryIsFinal` | `EpisodeLifecycle` | episodes partition time, agree with the hash, alert at the first debounced forecast, close with the first quiet run, and are never rewritten |
| `SocketsAreServed` | `Fanout` | every frame offered was sent, held back, counted as dropped or is queued, the queue being the newest in order; only a peer that owes enough pongs is timed out |
| `FilterToldGoverns` | `Fanout` | once a filter was acknowledged, every forecast sent passes it or a later one |
| `VanishedPeerIsClosed` | `Fanout` | a silent peer's socket is released in the end |
| `LimitIsKept` | `RateLimit` | no window, shortened by the time a request may wait for Redis, lets more pass than its limit; at rest it holds exactly those its ceiling let pass, unless Redis failed |
| `GrowingIsSustainedGrowth` | `Backlog` | /health names exactly the groups that grew at every sample for `warn_after_s` |
| `AccountsAreSound` | `Accounts` | no half account and no address twice; a 201 only for an account that is there; a removed user makes requests and opens sockets no longer than one access token lasts |
| `AnswersAreWhole` | `Queries` | an explanation's context is the forecast's, if that is of one upload; what is listed is found and can be explained; paging to a short page skips nothing, paging to a total no more than was stored meanwhile |
| `QueuedIsWhole` | `Upload` | a message names a whole file of the kind its row says; a refused upload leaves nothing |
| `IndicesFitTheCapture` | `Console` | the host, window and record shown were chosen in a capture of the key shown, and exist in it if the key is its own |
| `ParsingIsFaithful` | `Parsers` | every row once; chunks ordered; the only wait for ever is the one on tshark's full standard error |
| `AnswersAreSound` | `StubPredictor`, `WhatIf`, `AttackMapping`, `DemoReplay`, `FileForecasts` | clamps bend risk down, lead times are sustained, what-ifs differ by their clamp up to where another thread disturbs the generator, a stage's tactics and techniques agree and are told in order; series in step, quiet hosts quiet, rows of their origins, alerts of the strongest |
| `FlowsAreMaximalRuns` | `FlowAssembly` | the flows are the greedy cover of a connection, with the right source |
| `NoFeatureLooksAhead` | `StateTable` | a later flow or packet changes no feature of a row, but for the graph prior when it changes which window was the last before; the axis of a host has no hole |
| `VectorsDescribeTheirWindows` | `WindowFeatures` | serving's features are of their window; dynamics reach back as far as no silence was longer than `max_gap_windows`, and the rows have no hole |
| `SplitsAreSound` | `TrainingData` | a label is earned on its own side of the split, within its horizon but for rows of a later capture; an episode straddles a cut only where the nudge moved it; the evaluation set has exact geometry and targets, and loses no rare row |
| `SamplesAreOneRow` | `HeadTraining` | state, target, activity and context of a sample are of one row; epochs are balanced |
| `CheckpointsAreSound` | `ModelTraining` | what the benchmark loads is of one input space; what is kept is the best seen |
| `ScoresAreOfOneSimulation` | `Rollout`, `Scoring` | batching and members do not mix rollouts; serving answers what the benchmark measured, up to sixteen bits |
| `RankedAtOneInstant` | `CaptureAnalysis` | hosts are ranked at one window, marks lie under their horizon |
| `EvaluationIsSound` | `Evaluation`, `LeadTimes`, `EvalReports` | the benchmark is of one model, lead times are earned and only the end of an episode may be missed, reports say what they were computed from |

Runs that refute a statement of the repository (a finding each):

| Run | Statement | What the code does |
|---|---|---|
| `persister_skip` | `persister/worker.py:185`: after a failed write the "episode advances on the retry because `last_ts` never moved" | the host's next forecast moves `last_ts` first; the retry is stale and the forecast never reaches the episode |
| `inference_retry` | `inference/worker.py:89`: "the dedupe above makes the retry harmless" | after a failure between push and publish the retry finds its own window at the tail and is dropped: no forecast |
| `inference_replicas` | `inference/__main__.py:4`: "which replica picks up a given host's window does not matter" | the replica that holds the younger of two entries may push first: the list ends in an order the stream did not have, without any fault |
| `features_reopen` | DECISIONS D39: no second, different vector for a `window_ts` | the watchdog closes a stalled window, its next event opens it again |
| `table_prior` | `graph_features.py:60`: the prior is of the "out-degree in the PREVIOUS window" | the forward pass skips windows without a row, so after one the prior is of the last window that had any |

The passing runs also bound what such departures can cost: an orphaned episode row, a double count
or a bounded number of missing forecasts per fault.

**Bounds.**  Two processes are enough for a race, as at most one step of another process matters
between a claim and an ack; three or four entries give a batch, its abandoned
rest, and younger entries that overtake it; one fault reaches each point
of each handler, two on the bus give a crash of the process that took over.  MAXLEN 2 with three entries lets an
entry be evicted before delivery, while pending, and after the ack.
`features_core` needs four windows: with three, a silent stretch is never longer than `MaxGap`; with two hosts there
three suffice, for a peer of one host in the other's windows.  The table needs four too: a flow, a window with packets only,
the row whose prior is read, and the later flow that makes those packets count.  L = 3 is the least context in which a hole can lie inside.
In `ingest_core`, three events in chunks of two give a full chunk and a partial one;
the second job is the one that waits in the batch.  In the serving plane, seven forecasts
are two episodes and the quiet between; a queue of two overflows while a frame is
in hand; three requests against a limit of two and of one let one be refused
while another is between its two calls; a heartbeat limit of two has a ping that is forgiven and one that
is not; captures of three rows in chunks of two, pipes of two lines and one of standard error give every
order in which they fill.  In the training plane, two captures of five windows give cuts
with and without an episode on them; three windows of a host make a difference, a slope and a
peer seen before; two members and two samples are what pooling can mix up; a patience of one in three epochs
stops some runs early and others at the end; three runs
of two configurations, one killed, overwrite every file by the other; two splits
with a change of the weights between them separate what a report read from what is
there; tables of three rows have two groups and a negative, and a day of six windows two episodes, a streak of two before
the second, and rows without a full context or horizon.  Gaps of one silent window are filled and of two are not
(`MaxGapWindows`); a step of sixteen bits is coarser than the risks (`Float16`, `RoundingError`); `BeforeFirstAttack` has
rows of an attacked host before its onset, rows after it, and rows of other hosts.  Every bound is a CONSTANT named for what it bounds.

Deadlock is checked in the runs of the pipeline: a process can always be started or
go on.  In the two planes it is not, since the units really stop: a computation is
over, a program has written its report, a request was answered.

**Fairness.**  A running process keeps executing its loop: no await of it blocks
for ever (`block_ms`); a handler step that can run does; a stopped process
is started again (`restart: unless-stopped`, docker-compose.yml:27); the reclaim timer
and idle times advance with the clock.  In features the watchdog gets its turn,
since asyncio locks are first come, first served.  In the fan-out the sending task
of a socket runs: it waits at most a heartbeat interval for a frame, and the model's
broadcasts are bounded (endless traffic that its filter holds back would postpone
the heartbeat of a dead peer for as long as it lasts).  All of it is weak fairness.
Nothing forces a publish, a fault, a signal, a pong or an expiry.

## 4. Proofs

`StreamBusProofs` proves, for any set of processes, any number of entries, batch
sizes, length caps and faults (assumption `BusAssumption`: the constants
are naturals, batch size and cap are positive):

- `TypeCorrect`, `AtLeastOnceHolds`, `SettledHolds`: `Spec => []` of `TypeOK`,
  `AtLeastOnceDelivery`, `SettledStaysSettled`;
- `CursorMonotone`: the action property `CursorNeverRewinds`;
- `BusImplementsPromise`: `Spec => Promise!Spec`, the refinement of `AtLeastOnce`.

None of the three invariants is inductive by itself.  That acked entries were
completed depends on what a process about to XACK holds, so `BusInv` adds:
whatever a process holds has been delivered, and an entry at `ack` is in `done`.
That a settled entry does not return to the pending list depends on the cursor: `BusInv` adds
that pending and acked entries were delivered (`<= cursor`), so that `Read`
only adds younger ones.  The case analysis follows the code: one lemma says that
`NextEntry` / `AfterDispatch` hand on only entries that were in the batch
(`Holds`), and each action then has one step per conjunct.

`PersisterProofs` proves, in addition for any set of risks, any rules of the episode lifecycle, any number of
expiries of the hash and the one process that compose starts (`PersisterAssumption`), for `PersisterSpec`:

- `PersisterTypeCorrect`, `AckedIsStoredHolds`, `StateFollowsCommitHolds`: `PersisterTypeOK`,
  `AckedIsStored`, `StateFollowsCommit` always hold;
- `WatermarkHolds`: the action property `WatermarkMonotone`.

Every step of the persister is a step of the bus (`BusSteps`), so `BusInv` is
inductive there too and gives acked entries that were completed; `PersisterInv` adds
that completed ones are stored, which holds because a process about to write the hash
(`TaskInv`) has committed.  `StateFollowsCommit` needs more: between `ReadState` and
`Commit` the transition in hand is still what `advance` would return, since only one process
runs, and after `Commit` the episode that the hash is about to name has its row.
The lemmas below it are about the pure operators: `AdvanceMoves` (a transition is
well typed, moves the watermark forward and continues the open episode or starts one)
and `WriteKeeps` (the SQL keeps the table numbered, and both hashes have their rows).

`ServingProofs` proves of the fan-out, for any sets of sockets, tenants and hosts, any queue size of at
least one, any heartbeat limit and any number of forecasts and filters (`FanoutAssumption`), for `FanoutSpec`:

- `SocketsAreServedHolds`: `SocketsAreServed` always holds;
- `FilterToldGovernsHolds`: the action property `FilterToldGoverns`.

The invariant `FanoutInv` holds of every socket by itself (`OneSocket`: a step of one leaves
the others alone).  `Accounted`, that frames offered are those drained, dropped, in hand and queued, in order,
is inductive with the type.  The filter is not: what may be
sent depends on a filter that was read at `Resume` and may have been replaced
since, and on an acknowledgement that is itself a queued frame and may be dropped.
So `FiltersKnown` adds that the filter in force is the last of those the socket has had and that queued and held
acknowledgements name one of them, and `Governed` that a frame being sent passed a filter no older than the one
last told.  `Handed` ties the frame in hand to the position of the sending
task, `Patient` that a missed heartbeat is a pong owed.  `OfferKeeps` is the
lemma about the bounded queue; `broadcast` and `set_hosts` rest on it.

`PersisterProofs` goes on with what a fault can cost, and with the refinement:

- `DamageBoundedHolds`: `DamageBoundedByFaults` always holds;
- `PersisterImplementsLifecycle`: the property `ImplementsLifecycle`, that is
  `PersisterSpec => [][faults + lapses = 0 => a step of EpisodeLifecycle or a stutter]`.

`DamageInv` counts the open rows other than the one the hash names or is about to name
(`Strays`): there are never more of them than faults and expiries, because only one of those makes the
hash forget a row it had opened (`OneMoreStray`).  Stream order rests on `CompletionsInOrder` of
`StreamBusProofs`: with one consumer and no fault, an entry is completed after every older one.  The
refinement maps `ReadState` and `Commit` to stutters and `WriteState` to the fold, with the
table as it will be after the commit in hand.

The second part of `InferenceProofs` is about what it refines, the episodes that forecasts are folded into, for any threshold, any set of risks and of
times, and any sequence of forecasts, in any order and repeated at will: `LifecycleIsSoundHolds` and the action
property `HistoryIsFinalHolds`.  The two are stated for `LeadTimeM > 0` and `CloseAfter > 0`
(`config/default.yaml:21-22` sets 2 and 4; the code does not enforce it, and with 0 the debounce alerts
at once and an episode can close at its first forecast).  The property talks
about the set of all forecasts seen; the code keeps two counters.  `OpenInv` says what they are:
the lengths of the runs above and below the threshold that the open episode *ends with*
(`Trail`).  The lemmas `TrailGrows` and what follows it say how a newer forecast prolongs or ends a run, and
that a run of n among older forecasts stays one.  With the theorem above it, what holds of
`EpisodeLifecycle` holds of the persister until its first fault.

`IngestProofs` proves `JobsEndTruthfullyHolds` and the action property `ReportsMoveForwardHolds`
for any number of uploads, events, chunk sizes and faults.  `IngestInv` says for each step
of `run_job` what the two stores may hold of the job in hand (`Attempt`), that what was published of
it is at most one whole file per fault and what this attempt has sent (`Published`), and that an attempt's
events are the file's from its beginning (`EndsWithFirst`); an entry that waits was replayed by
failed attempts only.  `FirstAttempt` is the stronger statement that holds until a fault, from which reports
move forward.

`InferenceProofs` proves `InferenceInvariant` for any number of replicas: whatever races, a forecast's context
is full and ends with its window, because it is read back in the transaction that pushed it.
`HistoryInvariant` is about one consumer, with or without faults, and a stream of any windows: the list has no
window twice in a row (`TailInv`), until a fault it is a run of successive entries, immediate repeats left out, and
forecasts are made in order (`OrderInv`), and the windows without a forecast are paid for by faults and expiries, L - 1
each, the last of them only as far as the list was filled again since (`LostInv`, `PaidFor`).
`ForecastsAreSoundHolds` needs `L > 1` (`context_L` is 30, `config/default.yaml:15`): a
list of one window costs nothing to fill.  `NothingLost` (no poison, no trimming) is in the property,
since a window that never arrives leaves a hole nobody reports.

`FeaturesProofs` proves, for any hosts, consecutive windows, gap limit, events, faults and stalls, and the one
process that compose starts (`FeaturesAssumption`), for `FeaturesSpec`:

- `FeaturesInvariant` and the action property `DiscardedAfterPublishHolds`;
- `VectorsAreSoundHolds`: `VectorsAreSound` always holds.

A close is many calls, and either task may begin it, fail in it and begin it again.  `CloseInv` says what it has
done at each of them: the hosts it is through with are published and remembered, of the host at hand all but the
last n due windows are (`Emitting`), and nothing is discarded before all hosts are through.  Which windows are due
is `DueIsRun`: a run that ends with the window being closed.  `CountInv` pays for double counts: an entry that is
done and not yet acknowledged may be counted again, and only a fault leaves one.  `NoShortHole` is not inductive:
between two attempts a host has windows on the bus that it does not remember.  `HoleInv` says that those are a
beginning of the run due at the *next* attempt, which starts at the same window, because in order no event can move the
open window on before its close is done (`OrdInv`).  `ExactInv` is about runs without a fault, an eviction or a stall: a
window is complete when its close begins (`WindowsDone`: by the next event, all of its events have been handled; by
the watchdog, the grace did not elapse too early), but for events that regressed, which nothing waits for and
whoever handles drops; the counters are its other events handled so far (`Counted`), and
nothing as late as the next vector is on the bus (`SentOnce`, `EmitExact`).  That silent windows are sent as zero is exact
because a window that was passed and not sent had no event (`NothingToSend`).  `NothingLost` (no poison, no
trimming) is in the property for the reason it is in that of inference; it holds in every state of the run.

`ServingProofs` takes the other components around the pipeline, one section each, for any number of
clients, captures, requests and samples:

- `QueuedIsWholeHolds`.  `UploadInv` says for each position of the request what has reached the disk, the table and
  the stream; the queued message is the last, so it implies the others.
- `GrowingIsSustainedGrowthHolds`.  The property finds the start of the growth in the history of samples;
  the code keeps its time.  `StreakInv` says they are the same, and that warnings lie
  `WarnAfter` apart because each is at least that far from the start or from the one before.
- `AccountsAreSoundHolds`.  `AccessInv` bounds what a token may outlive: a refresh reads the user's row, so after its
  removal no token is younger than a login that had read the row before, and no socket younger than such a token.
  How long a socket stays is bounded by nothing.
- `IndicesFitTheCaptureHolds`, for any keys, shared ones too.  `FitsIn` relates the screen to the captures of the key it
  shows: whatever is selected was selected in one of them, and an analysis that arrives late replaces key and
  selection at once unless it has the key already.
- `RateLimitInvariant`, `LimitIsKeptHolds`.  The property counts requests in *every* window of time, the
  code only those it finds when a request is counted.  `PassedAreKept` says that a request
  that passed stays in the sorted set, and the key unexpired, for as long as it counts; so whoever is counted finds
  all that can lie in a window with it, but for the time a request may wait (`CountWithin`).
  That a refused entry never stays is `OthersLeave`: whoever is in the set without having passed is about
  to be withdrawn, unless Redis failed; and `PassedOnce` that nobody is withdrawn who had passed.
- `QueriesInvariant`, `AnswersAreWholeHolds`.  A row's place in an order is how many rows come before it, and
  `RankOfOrder` says that in a finite order the places are taken one each.  For explanations, `ContextInv`: of vectors of one
  upload, lists and contexts are runs of what features saved of a host, without a hole (`Consecutive`); as long as the rows
  between them are of that upload too, the last L rows up to a forecast are its context, in its order (`ContextIsRead`).  That
  every forecast finds the row of its window holds whatever is uploaded, since what is on the bus is in the table.  For paging, `PagerInv`: what was there
  and is not seen lies at the offset or after it, since keys only move back when others are added
  (`RanksGrow`), and a page that is not full is the last (`ShortPageIsLast`); a page
  that reaches the total ends at most as many rows early as were stored since the count.
- `RankedAtOneInstantHolds`.  The analysis is one step, so the invariant only says that what is shown was made of a
  state table (`AnalysisInv`); the work is in its functions.  A host is chosen whose span is long enough, since no
  order of scores is without a first (`DefinerIs`, by `RankOfOrder`); every host that holds the span has the whole
  context of each displayed window (`ForecastIs`), so the series are of the same windows (`ShownAreAligned`); and the
  marks of a series without holes are its next windows (`OverlayIs`).
- `ParsingIsFaithfulHolds`, for any file, chunk, batch and pipe.  `OutputInv` says which rows are in the chunks and the batch:
  the usable ones among those read, which for a capture are the lines written less those in the pipe (`PipeInv`).
  A chunk of a CSV is a batch of its rows (`ChunkIsBatch`): a sorted position is a rank, taken once (`RankOfOrder`).  Where a
  CSV breaks off, what was read is the last multiple of a chunk (`LastMultiple`).  On standard error there are at
  most as many lines as complaints (`StderrInv`), so who waits there has filled it.

`TrainingProofs` is about the training plane:

- `CheckpointsAreSoundHolds`.  All configurations write one scaler.  `ScalerInv` follows it through the files a run
  writes: from the metadata on, what the run carries is its regime and is on disk; `MembersInv` says the same of
  the weights, `FilesInv` adds the background and the last report.  A run killed between the parameters of the scaler
  and the removal of the background tears them apart, which is why the invariant is under `~torn`.  For the
  loop of epochs, `FitInv` says that no epoch seen is better than the best by more than the tolerance, and that the
  best was seen where the loop says.  Scores are assumed finite (`TrainingAssumption`): the code starts from
  `float("inf")`, and the first score that is a number improves on it.

- `FlowsAreMaximalRunsHolds`, for any packets, timeout and number of FINs.  The loop over the packets is a recursive function, so
  its own equation has to be proved before anything else (`LoopExists`, `SegmentsWalk`).  `Run` is its invariant: what it
  carries after a packet is the first packet of the flow, its FINs and whether it was closed.
  Numbers of flows never go back (`NumbersGrow`), so the packets of a number are one run; and an epoch begins only where a
  flow does (`EpochsBeginWithFlows`), so the source of a flow is read off a first packet.
  The library's induction theorems take an operator, which the installed backends cannot instantiate;
  `ByInduction` takes the set of the numbers that have the property instead, and rests on the
  least of any set of naturals (`LeastNat`), that is on the well-foundedness of the finite subsets.
- `SplitsAreSoundHolds`, for any hosts, captures, gaps and horizons.  Episodes are found among rows and merged among episodes by the same
  step: intervals of a host that do not meet (`Chain`), a relation that links some of them (`Links`), and runs from one nothing
  links to until one that is linked to nothing.  Such runs are a chain again (`RunsAreChain`), cover every interval
  (`RunsCoverIntervals`), and between two lies a pair that is not linked (`RunsApart`): for merged episodes, more than the
  gap.  A label is made of rows ahead of it on its side (within K windows of its capture, or in a later one); an episode
  with its run-up that the moved cut divides has another near it that moved the cut.  `Placed` is what the loop over a host's episodes knows after some of them, the ones that start first
  (`GeometryPlaces`, by induction over their number).  Rows are bounded by `NoOnset`, as the captures are (`WindowsFit`).
- `NoFeatureLooksAheadHolds`, for any addresses, windows, flows and packets.  A row is written down without the passes that make it
  (`RowsAre`: `BaseRow` with its differences), the tracker of the forward pass as what the passed windows hold.
  A cut only drops hosts that have no flow yet (`CutRows`), hence peers are the same (`CutKeepsTracker`), and so are the rows a difference
  or a slope reads (`CutKeepsBase`).  The attempt to prove it of every feature failed on the graph prior: the forward pass
  reads it from the last window *some host counts in*, and a later flow makes a host count.  The property now says when
  the prior agrees, and `table_prior` shows what it is read from.
- `ScoringInvariant`, for any ensemble, heads, horizon and grain.  `Apart` is how far serving and the benchmark are from each other on a
  trajectory: by the rounding, and for trajectory heads of several members by what their heads answer of each other's
  rollouts.  Pooling does not add to it: the i-th smallest value moves by no more than the values do, and so do
  means and what is interpolated between two order statistics; counting above a half only loses by rounding to an even
  place.  Scores are monotone in the curve, so the benchmark's lies between those of the two curves that are
  `Apart` from the served one, and verdicts differ only if the threshold does too.  A lead time is given of a curve that
  reaches the threshold twice; that it is then above it whichever way the horizons are collapsed needs every pooled value between 0 and
  `One`: of sums (`SumBound`), of order statistics, which exist (`RankExists`), and of what is
  interpolated between two (`PoolBound`); and that a product of complements is at most any of them.  A mean
  is rounded down where `One` is no multiple of the count.
- `RolloutInvariant`, for any rows, chunks, members, samples, steps and context, any transition and any noise.  `TrajectorySound`
  writes a trajectory down without its loop: hidden states, current and previous window are
  read off the windows seen so far (`Seen`), and a log-variance was conditioned on those before its step.  One step
  keeps it (`SteppedSound`).  `RolloutSound` places the trajectories: which row and member the i-th of a
  chunk belongs to (`RowAt`, `WhereItIs`), how many members have been at a row (`Done`), and where in the row each
  one's samples lie (`MemberAt`).  The training table and the rollout then read the same windows (`TrimmedIsRead`, `ContextIsRead`).
  One assumption is needed, that observed windows lie within the clamp with nothing in a dropped slot (`WindowState`):
  the scaler clips to ±10 and zeroes what it drops (`normalize.py:200`), and the clamp is 10.
  `SimulationInvariant` is the conjunction of the two.

`EvaluationProofs` is about what an evaluation publishes, one section each for three components that share no state:

- `ReportsInvariant`, for any splits, windows, configurations, seeds, caps and slopes, and any number of edits, fits,
  trainings, evaluations and kills.  What a run took when it started may be history when it writes, so the invariant
  speaks of runs, not of the present: the run under way is sound by itself (`RunSound`), and behind every file there was
  *some* sound run that left it (`IsLeftBy`).  The two ways to read the pooling of a configuration agree (`OneReader`), so a
  calibration that passes the comparison was fitted to the statistic the run computes (`NotRefused`); metadata of an earlier
  version stand for the mean (`EarlierIsTheMean`).  Scores are then followed through the four files row by row
  (`BaselinesSound` and what follows it), each with its own exceptions (`ScoreSound`).
- `LeadInvariant`, for any day, stages, hits, gaps, streak, context, horizon and lost rows, as far as `eval_set.py:132-157` can lose them.  Episodes are runs of attacked windows, each of which ends before
  the next opens (`SpansFollow`); a campaign is what follows a first one without a long gap (`CampaignsAre`, `GapBefore`), so campaigns
  partition the episodes.  The report per episode reads adjacent *rows*: on rows without a hole these are adjacent windows
  (`UnbrokenRuns`), and no row is lost within the horizon of an onset (`WarningRowsAre`), so there are none.  Inside an episode, a row
  whose horizon reaches an attack is positive and kept; while horizons are longer than the pauses that are merged over
  that is all but the last (`EndsHide`).  The report per campaign counts
  in time: the counter is a recursive function, whose equation is proved first (`TimedExists`) and which is then what it
  counts (`TimedCounts`, by induction); with rows missing its first streak is one of the whole day, never an earlier one (`MissingHides`).
- `EvaluationInvariant`, for any labels, regimes, seeds, stages, tables, and any number of experiments and kills.  The files of a
  member contradict each other between two writes (`Pending`), and stay so where a run is killed there (`unrecorded`).  `Recorded`
  says that everywhere else metadata describe weights, and that without a copy across regimes all heads are of their
  label's; `Unfinished` says, for each of the three places where a write is pending, what the weights are that
  the metadata are about to be written for.  The guards of the benchmark let through what is in step (`LetThrough`).  For tables,
  counts of finite sets: negatives are the same set in each group (`NegativesCounted`), and the positives numbered group by group are
  in bijection with the named ones (`GroupsCounted`).
- `EvaluationIsSoundHolds` is the conjunction of the three, for `EvaluationPlaneSpec`.

Assumed are that the seeds to run are sequences of known seeds and that `None` is no label and no head input (`EvaluationAssumption`), that a streak
is of at least one window (`LeadAssumption`), that rounding to sixteen bits is monotone, exact at a half and off by at most
`RoundingError` (`ScoringAssumption`), and that the metadata an earlier version left name no pooling method
(`EvalReportsAssumption`; `calibrate.py:172` reads a missing one as the mean).

Only model-checked: liveness, which is outside what the proof system's backends do; of the planes the stub
predictor, the what-ifs, the ATT&CK mapping, the offline demo and the command line (`AnswersAreSound`), the
arrays and epochs of the heads (`SamplesAreOneRow`) and serving's features (`VectorsDescribeTheirWindows`).
What those compute is mostly sorted, folded or flattened by operators of the
community modules that the backends have no facts about.

## 5. What the models show besides

These came up while modelling; they are consequences of the code a reader of the
models will meet, each at its line.
Where a comment claims more than the code does, the property says exactly what holds, and its comment quotes the claim.

- *Fan-out.*  A filter's acknowledgement can be dropped by an overflow of the queue (`ws.py:25`); `dropped_total`
  falls when a socket closes.
- *Accounts.*  A socket's token is verified at the handshake only (`ws.py:343-356`), so the "same expiry" of
  `deps.py:75-76` does not end it: a removed user's socket is served until its peer goes.  A commit whose answer is
  lost leaves an account without a 201, and the retry is told 409 (`auth.py:287-298`).
- *Rate limiter.*  "A refused request removes its own entry, so being throttled cannot extend the throttle"
  (`ratelimit.py:12-13`) is true of the ceiling that refused it: an upload refused by its own ceiling stays in the
  general window (162, 221-224).
- *Uploads.*  A failure that is not an HTTP error leaves its directory, a failed commit or publish the file.
- *Read API.*  After a capture was uploaded again a list holds old windows and new ones, while the first
  row of a window stays: the explanation reads other windows than the forecast did (`explain.py:10-13, 93`), with no 404.
  COUNT and SELECT are two statements: a client that "sizes itself" by the total (`forecasts.py:116`) may miss
  what was there when it began, as many rows as were stored between.
- *What-ifs.*  Two requests that overlap in the pool draw from one generator and lose their common
  noise (`api/explain.py:314`, `counterfactual.py:63`), whatever `counterfactual.py:24-28, 152-157` and `predictor.py:546-551`
  promise: from the step on at which another thread drew or seeded (`alone`), and not before.
- *Alerts of a file.*  The forecast in `alerts.json` is another rollout than the score it was chosen by
  (`cli/forecast.py:189-191`): it need not be above the threshold itself.
- *Parsers.*  tshark's standard error is read after its output ended; when its pipe fills first, both
  wait.  A tshark still running at the end of its output is killed and reported as failed.
- *Replay.*  An event that regresses at a chunk boundary is logged and published all the same (`ingest/worker.py:172-184`),
  and dropped by features as late: it is in no vector, and the log is all there is to tell (8-12).
- *Inference.*  A gap fill that is repeated arrives as s, t, s, t and is pushed as that: only the tail of the list is
  compared.  A context is of successive entries, but not always "L windows" of the axis (`inference/worker.py:12-16`).
- *Persister.*  After an expiry of the hash a redelivered old forecast is folded again.
- *Splits.*  The nudge looks for episodes near the first cut only, so an episode may straddle the cut it is moved to,
  whatever `splits.py:104-106, 131-134` say.  `build_splits` concatenates captures before it labels, so the last rows of
  one are labelled from the first rows of a later one: an index offset is a time offset only inside a
  capture (`labels.py:198, 213-216`).
- *Train and serve.*  `neighbour_risk` compares with a fixed fan-out in serving and with the median in training, of the window before and of
  the last one with a row (`table_prior`); a packet-only window counts there once its host has a flow that day;
  a silent window is all zero even if the host received traffic.
- *Checkpoints.*  A run killed between `torch.save` and the metadata leaves a member without or with an old record,
  which the guard takes for good (`unrecorded` in `Evaluation`); an experiment that copies from the former stops
  (`CopyStops`); the heads stage does not record its own regime.
- *Scores.*  "The served number is exactly the one the benchmark measured" (`predictor.py:170`) up to the rounding of the
  benchmark's risks to sixteen bits (`systems.py:123, 135`), which can turn a verdict at the threshold.  With two members
  a trajectory head scores its own rollouts in the benchmark (`systems.py:112-119`) and those of all in serving
  (`predictor.py:294`).  The benchmark loads an operating point without the check serving makes (`predictor.py:176`).
- *Reports.*  `fit_calibration` records seeds whose weights were missing; retrained weights leave the calibration
  stale; the persistence and shuffle ablations fix 50 samples whatever is stamped; a killed run leaves a
  mix of files; the lead times are of the rows of attacked hosts before their first onset (`lead_time_runner.py:72-91`).
- *Lead times.*  Adjacent means adjacent rows (`episode_metrics._first_run`): right only because the evaluation set
  keeps the windows before an onset uncapped.  It does not have "every window of every attack episode" (`episode_metrics.py:1-4`):
  the last window of an episode is followed by no attack and falls under the cap of the active negatives (`eval_set.py:135-140`).
- *Rollout.*  `free_running_metrics` feeds dropped slots back unmasked (`losses.py:123`).
- *ATT&CK mapping.*  `progression_summary` takes the argmax over all stages, benign included, where its docstring says
  "argmax non-benign stage per step" (`attack_mapping.py:213`); its test agrees with the code.
- *Console.*  `alignedHosts` compares lengths only; the late answer of an earlier upload may replace a newer one.  Two
  captures of one file name and packet count have one key (`demo-workspace.tsx:75`): the console is not remounted
  between them, and its indices may lie outside the second one, contrary to lines 13-17.

## 6. Not modelled

- Payload schemas and settings (`nidra_common/{schemas,config}.py`): validation without state.  Their effect is that a payload
  may be poison, which every model of a consumer has.  Migrations: the unique constraints are guards of the models that need them.
- Owners of pending entries, message ids and payload formats; logging; stages of an episode, which nothing reads.
- Several hosts and tenants in the pipeline, except hosts in `Features`: every key and row carries
  tenant and host, so they meet only in the stream's order, which the models let vary.
- Expiries of the Redis keys of features and of the progress hash.
- Loss of Redis as a whole (it runs without persistence, `docker-compose.yml:54`; no code handles it).
- Numerical code: layers, gradients, losses, curves, attributions, the single formulas of the 45 features.  What
  the models keep of it is which inputs a number was computed from.
- Loaders of the published datasets, audits, plots, HTML, the notebook, the slides, the pages of the console without state,
  `api/main.py`'s wiring and `/benchmarks`, which serves static files.

## 7. Plan

Modelled in this order: the bus, because everything rests on it; the persister,
where two stores must agree; inference, where replicas meet; features, where two tasks share one window; the ingest job,
where a request and a long handler report to two stores; then the components around them (fan-out first, with
its proofs), and the training plane from packets to reports.

What is left:

1. `Pipeline`: features to inference to persister composed through their streams, to
   discharge what `Inference` assumes of `window` and `Persister` of the order of forecasts.
2. Theorems: of the training plane `SamplesAreOneRow`, with `ByInduction` where a loop runs over its data.

## 8. Running it

```
tlc -workers 2 -config StreamBus.cfg StreamBus.tla
tlapm StreamBusProofs.tla
```

and likewise for the other `*Proofs.tla`.  Each configuration names its module by its prefix
(`FeaturesReopen.cfg` is an instance of `Features.tla`, `MCInferenceRetry.cfg` of `MCInference.tla`).  The two planes take three to four minutes each with two workers, the others
less than three.  An operator marked `Mutant:` is a plausible bug in
the definition that follows it; `PROJECT.json` names the property that catches it.
