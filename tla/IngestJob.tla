------------------------------ MODULE IngestJob ------------------------------
(***************************************************************************)
(* An upload and its replay.  api/ingest.py writes the job's row, seeds    *)
(* its progress and queues a message, three stores without a common        *)
(* transaction; services/ingest/worker.py consumes `ingest_jobs`, on the   *)
(* bus of StreamBus, publishes the events of the file on `raw_events` and  *)
(* reports to the progress hash (Redis) and to the row (Postgres).         *)
(*                                                                         *)
(* Events of a file are numbered in the order its parser yields them.  The *)
(* replay clock only delays them.                                          *)
(***************************************************************************)
EXTENDS StreamBus, Sequences

CONSTANTS
    MaxEvents,  \* bound: events of a file
    ChunkRows   \* events per chunk, and so per progress report

\* One process consumes the stream (docker-compose.yml starts one), and the API
\* queues nothing that does not validate.
ASSUME IngestAssumption ==
    /\ MaxEvents \in Nat /\ ChunkRows \in Nat \ {0}
    /\ (\A v, w \in Worker : v = w) /\ Poison = {}

VARIABLES
    capture,   \* per job, what its file holds
    request,   \* per job, how far create_ingest_job got
    row,       \* the status in ingest_jobs
    live,      \* the hash job:{job_id}: status and processed
    message,   \* the job of each entry of the stream `ingest_jobs`
    raw,       \* per job, its events on `raw_events`, in the order of publication
    task       \* per process: how far run_job got

jobVars == <<capture, request, row, live, message, raw>>
ingestVars == <<jobVars, task>>
vars == <<busVars, ingestVars>>

Job == 1..MaxPublished
JOB_QUEUED == "queued"
JOB_RUNNING == "running"
JOB_COMPLETE == "complete"
JOB_ERROR == "error"
Statuses == {JOB_QUEUED, JOB_RUNNING, JOB_COMPLETE, JOB_ERROR}
Absent == "absent"

\* A file is good, or fails to parse after some events, or is gone or cannot
\* be read at all.
Captures == {c \in [events : 0..MaxEvents, file : {"good", "bad", "gone"}] :
                c.file = "gone" => c.events = 0}
Progress(status, processed) == [status |-> status, processed |-> processed]

\* run_job is about to start, to write the hash, to write the row, or to
\* publish the next event; `status` and `sent` are what it reports.
Steps == {"start", "progress", "row", "replay"}
Idle == [step |-> "start", status |-> JOB_QUEUED, sent |-> 0]

IngestInit ==
    /\ Init
    /\ capture \in [Job -> Captures]
    /\ request = [j \in Job |-> "none"]
    /\ row = [j \in Job |-> Absent]
    /\ live = [j \in Job |-> Progress(Absent, 0)]
    /\ message = <<>>
    /\ raw = [j \in Job |-> <<>>]
    /\ task = [w \in Worker |-> Idle]

-----------------------------------------------------------------------------
\* The upload is valid and stored; INSERT and commit.
CommitRow(j) ==
    /\ request[j] = "none"
    /\ request' = [request EXCEPT ![j] = "committed"]
    /\ row' = [row EXCEPT ![j] = JOB_QUEUED]
    /\ UNCHANGED <<busVars, capture, live, message, raw, task>>

\* The hash is seeded, so that a poll before the worker starts finds it.
init_progress(j) ==
    /\ request[j] = "committed"
    /\ live' = [live EXCEPT ![j] = Progress(JOB_QUEUED, 0)]
    /\ request' = [request EXCEPT ![j] = "seeded"]
    /\ UNCHANGED <<busVars, capture, row, message, raw, task>>

\* The message is queued, last of the three.
PublishJob(j) ==
    /\ request[j] = "seeded"
    /\ Publish
    /\ message' = Append(message, j)
    /\ request' = [request EXCEPT ![j] = "queued"]
    /\ UNCHANGED <<capture, row, live, raw, task>>

\* Redis is unreachable, or the API dies, after the commit.
RequestFails(j) ==
    /\ request[j] \in {"committed", "seeded"}
    /\ faults < MaxFaults /\ faults' = faults + 1
    /\ request' = [request EXCEPT ![j] = "failed"]
    /\ UNCHANGED <<redisVars, done, worker, capture, row, live, message, raw, task>>

-----------------------------------------------------------------------------
At(w, step) == worker[w].pc = "handling" /\ task[w].step = step
JobOf(w) == message[worker[w].now]

Ending(j) == IF capture[j].file = "good" THEN JOB_COMPLETE ELSE JOB_ERROR
Events(j) == capture[j].events

\* After a report: the next event, or, at the end of the file or of what can
\* be parsed of it, the final report.
Resume(j, t) ==
    IF t.sent < Events(j) THEN [t EXCEPT !.step = "replay"]
    ELSE [t EXCEPT !.step = "progress", !.status = Ending(j)]

\* run_job: the message parses; a file that is gone is an error at once.
Begin(w) ==
    /\ At(w, "start")
    /\ task' = [task EXCEPT ![w] =
                  [step |-> "progress", sent |-> 0,
                   status |-> IF capture[JobOf(w)].file = "gone" THEN JOB_ERROR
                              ELSE JOB_RUNNING]]
    /\ UNCHANGED <<busVars, jobVars>>

\* Mutant: the final report leaves the count at its default.
ForgetsCount(w) ==
    /\ At(w, "progress")
    /\ live' = [live EXCEPT ![JobOf(w)] =
                  Progress(task[w].status, IF task[w].status = JOB_RUNNING THEN task[w].sent ELSE 0)]
    /\ task' = [task EXCEPT ![w].step = "row"]
    /\ UNCHANGED <<busVars, capture, request, row, message, raw>>

\* _report, the first half: the hash in Redis.
set_progress(w) ==
    /\ At(w, "progress")
    /\ live' = [live EXCEPT ![JobOf(w)] = Progress(task[w].status, task[w].sent)]
    /\ task' = [task EXCEPT ![w].step = "row"]
    /\ UNCHANGED <<busVars, capture, request, row, message, raw>>

\* Mutant: the row is written only while the job runs.
UpdateRowSkipsEnd(w) ==
    /\ At(w, "row")
    /\ row' = IF task[w].status = JOB_RUNNING
              THEN [row EXCEPT ![JobOf(w)] = task[w].status] ELSE row
    /\ IF task[w].status = JOB_RUNNING
       THEN task' = [task EXCEPT ![w] = Resume(JobOf(w), task[w])] /\ UNCHANGED busVars
       ELSE task' = [task EXCEPT ![w] = Idle] /\ HandlerReturns(w)
    /\ UNCHANGED <<capture, request, live, message, raw>>

\* _report, the second half: the row in Postgres.  After the final report the
\* handler returns, an IngestError included.
_update_row(w) ==
    /\ At(w, "row")
    /\ row' = [row EXCEPT ![JobOf(w)] = task[w].status]
    /\ IF task[w].status = JOB_RUNNING
       THEN task' = [task EXCEPT ![w] = Resume(JobOf(w), task[w])] /\ UNCHANGED busVars
       ELSE task' = [task EXCEPT ![w] = Idle] /\ HandlerReturns(w)
    /\ UNCHANGED <<capture, request, live, message, raw>>

\* _replay: publish the next event, and report after the last of a chunk.
_replay(w) ==
    /\ At(w, "replay")
    /\ LET n == task[w].sent + 1
       IN  /\ raw' = [raw EXCEPT ![JobOf(w)] = Append(@, n)]
           /\ task' = [task EXCEPT ![w].sent = n,
                                   ![w].step = IF n % ChunkRows = 0 \/ n = Events(JobOf(w))
                                               THEN "progress" ELSE "replay"]
    /\ UNCHANGED <<busVars, capture, request, row, live, message>>

\* A store or the bus is unreachable: no IngestError, so the entry pends.
Raise(w) ==
    /\ HandlerRaises(w)
    /\ task' = [task EXCEPT ![w] = Idle]
    /\ UNCHANGED jobVars

\* The process dies before its next call.
Die(w) ==
    /\ Crash(w)
    /\ task' = [task EXCEPT ![w] = Idle]
    /\ UNCHANGED jobVars

BusOnly ==
    /\ \/ \E m \in Id : GoIdle(m)
       \/ \E w \in Worker : Start(w) \/ Signal(w) \/ ReclaimDue(w) \/ LoopStep(w)
    /\ UNCHANGED ingestVars

IngestNext ==
    \/ BusOnly
    \/ \E j \in Job : CommitRow(j) \/ init_progress(j) \/ PublishJob(j) \/ RequestFails(j)
    \/ \E w \in Worker : \/ Begin(w) \/ set_progress(w) \/ _update_row(w) \/ _replay(w)
                         \/ Raise(w) \/ Die(w)

IngestSpec == IngestInit /\ [][IngestNext]_vars

\* As for the bus; a request that got its row goes on, unless it fails.
IngestFairness ==
    /\ \A j \in Job : WF_vars(init_progress(j) \/ PublishJob(j) \/ RequestFails(j))
    /\ \A w \in Worker :
          /\ WF_vars(LoopStep(w) /\ UNCHANGED ingestVars)
          /\ WF_vars(Begin(w) \/ set_progress(w) \/ _update_row(w) \/ _replay(w) \/ Raise(w))
          /\ WF_vars(Start(w) /\ UNCHANGED ingestVars)
          /\ WF_vars(ReclaimDue(w) /\ UNCHANGED ingestVars)
    /\ \A m \in Id : WF_vars(GoIdle(m) /\ UNCHANGED ingestVars)

FairIngestSpec == IngestSpec /\ IngestFairness

-----------------------------------------------------------------------------
IngestTypeOK ==
    /\ TypeOK
    /\ capture \in [Job -> Captures]
    /\ request \in [Job -> {"none", "committed", "seeded", "queued", "failed"}]
    /\ row \in [Job -> Statuses \union {Absent}]
    /\ live \in [Job -> [status : Statuses \union {Absent}, processed : 0..MaxEvents]]
    /\ message \in Seq(Job) /\ Len(message) = last
    /\ raw \in [Job -> Seq(1..MaxEvents)]
    /\ task \in [Worker -> [step : Steps, status : Statuses, sent : 0..MaxEvents]]

Final == {JOB_COMPLETE, JOB_ERROR}

\* The last n events of s are the first n of a file, in order.
EndsWithFirst(s, n) == Len(s) >= n /\ \A i \in 1..n : s[Len(s) - n + i] = i

\* The last attempt of job j published its whole file, in order.
FullyReplayed(j) == EndsWithFirst(raw[j], Events(j))

\* Once its message is acknowledged, a job is over for good: row and hash
\* agree on how it ended and on the number of events, whatever failed and was
\* retried on the way.
AckedIsFinal ==
    \A m \in acked :
        /\ row[message[m]] = Ending(message[m])
        /\ live[message[m]] = Progress(Ending(message[m]), Events(message[m]))

\* Neither store calls a job complete (or failed) before the file was
\* replayed to its end from its start, faults and retries included.
FinalMeansReplayed ==
    \A j \in Job :
        row[j] \in Final \/ live[j].status \in Final => FullyReplayed(j)

\* A retry replays the file from its start, at most once for each fault.  A
\* message that waits behind a long replay until it is old enough to be
\* reclaimed is no retry.
ReplaysBoundedByFaults ==
    \A j \in Job : Len(raw[j]) <= (1 + faults) * Events(j)

\* A job that is over is over in both stores, truthfully, and with no more
\* replays than faults account for (worker.py, run_job and _report).
JobsEndTruthfully ==
    IngestTypeOK /\ AckedIsFinal /\ FinalMeansReplayed /\ ReplaysBoundedByFaults

\* What a client polls: the hash, or the row when there is none.
View(j) == IF live[j].status = Absent THEN Progress(row[j], 0) ELSE live[j]

Rank(status) == CASE status = Absent -> 0 [] status = JOB_QUEUED -> 1
                  [] status = JOB_RUNNING -> 2 [] status \in Final -> 3

\* Until a fault, what a client polls and what the row says move forward
\* only: queued, running with a growing count, and one end that stays.
ReportsMoveForward ==
    [][faults' = 0 => \A j \in Job :
          /\ Rank(View(j)'.status) >= Rank(View(j).status)
          /\ View(j)'.processed >= View(j).processed
          /\ row'[j] # row[j] => Rank(row'[j]) > Rank(row[j])]_vars

\* Every job that was queued ends, and so does every request that got its
\* row, unless it failed: that one stays queued for ever.
EventuallyFinal ==
    \A j \in Job :
        (request[j] = "committed") ~>
            \/ request[j] = "failed"
            \/ \E m \in 1..last : message[m] = j /\ (m \in acked \/ m <= trim)
==============================================================================
