----------------------------- MODULE IngestProofs -----------------------------
(***************************************************************************)
(* Proofs, for every number of uploads, events and faults, that a job ends *)
(* in both stores as its file says, that nothing is called final before    *)
(* the file was replayed, that faults bound the replays, and that what a   *)
(* client polls moves forward until a fault.                               *)
(***************************************************************************)
EXTENDS IngestJob, StreamBusProofs

-----------------------------------------------------------------------------
\* A job nobody has worked on: both stores say it is queued.
Fresh0(j) == row[j] = JOB_QUEUED /\ live[j] = Progress(JOB_QUEUED, 0)

\* A job is queued once, by a request that got that far, and until then nothing
\* of it is on the bus.
QueuedOnce ==
    /\ \A m, n \in 1..last : message[m] = message[n] => m = n
    /\ \A m \in 1..last : request[message[m]] = "queued"
    /\ \A j \in Job :
          /\ request[j] = "queued" => \E m \in 1..last : message[m] = j
          /\ request[j] # "queued" => raw[j] = <<>>
          /\ request[j] = "none" => row[j] = Absent /\ live[j] = Progress(Absent, 0)
          /\ request[j] = "committed" => row[j] = JOB_QUEUED /\ live[j] = Progress(Absent, 0)
          /\ request[j] = "seeded" => Fresh0(j)

\* Job j was replayed `extra` events beyond what the faults account for.
Published(j, extra) == Len(raw[j]) <= faults * Events(j) + extra

Over(j) ==
    /\ row[j] = Ending(j) /\ live[j] = Progress(Ending(j), Events(j))
    /\ Published(j, Events(j))

\* What an attempt at job j has done by the time it stands at t.  Before its
\* first event, and after its last, the stores may disagree; in between both say
\* that the job runs.
Attempt(j, t) ==
    /\ t.step = "start" => t = Idle
    /\ t.sent <= Events(j)
    /\ Published(j, t.sent)
    /\ EndsWithFirst(raw[j], t.sent)
    /\ t.step # "start" => t.status = JOB_RUNNING \/ (t.status = Ending(j) /\ t.sent = Events(j))
    /\ t.step = "replay" => t.status = JOB_RUNNING /\ t.sent < Events(j)
    /\ t.status = JOB_RUNNING /\ (t.step = "replay" \/ t.sent > 0) =>
          row[j] = JOB_RUNNING /\ live[j].status = JOB_RUNNING
    /\ t.step = "row" => live[j] = Progress(t.status, t.sent)

\* Its first attempt, as long as nothing failed, only moves the reports forward.
FirstAttempt(j, t) ==
    /\ t.step = "start" => Fresh0(j)
    /\ row[j] \in {JOB_QUEUED, JOB_RUNNING}
    /\ t.step # "row" => live[j].status \in {JOB_QUEUED, JOB_RUNNING}
    /\ live[j].processed <= t.sent

\* Where the process stands with the job in its hands.
AtWork(w) ==
    /\ worker[w].pc # "handling" => task[w] = Idle
    /\ worker[w].pc = "handling" =>
          /\ Attempt(JobOf(w), task[w])
          /\ faults = 0 => FirstAttempt(JobOf(w), task[w])
    /\ worker[w].pc = "ack" => Over(JobOf(w))

InHand(m) == \E w \in Worker : worker[w].pc \in {"handling", "ack"} /\ worker[w].now = m

\* An entry that waits has been replayed by failed attempts only, or never.
Waiting(m) ==
    /\ Published(message[m], 0)
    /\ faults = 0 /\ m \notin done => Fresh0(message[m])

IngestInv ==
    /\ BusInv /\ SoleInv
    /\ IngestTypeOK
    /\ QueuedOnce
    /\ \A w \in Worker : AtWork(w)
    /\ \A m \in acked : Over(message[m])
    /\ \A m \in (1..last) \ acked : InHand(m) \/ Waiting(m)
    /\ FinalMeansReplayed

-----------------------------------------------------------------------------
\* Constants the proofs use everywhere.
LEMMA IngestConstants ==
    /\ OneConsumer /\ Poison = {}
    /\ MaxEvents \in Nat /\ ChunkRows \in Nat \ {0} /\ MaxFaults \in Nat /\ MaxPublished \in Nat
BY BusAssumption, IngestAssumption DEF BusAssumption, IngestAssumption, OneConsumer

\* What a file holds, and how its job ends.
LEMMA FileFacts ==
    ASSUME IngestTypeOK, NEW j \in Job
    PROVE  /\ Events(j) \in 0..MaxEvents /\ Events(j) \in Nat
           /\ Ending(j) \in {JOB_COMPLETE, JOB_ERROR}
           /\ capture[j].file = "gone" => Events(j) = 0 /\ Ending(j) = JOB_ERROR
<1>1. capture[j] \in Captures
  BY DEF IngestTypeOK
<1>2. /\ capture[j].events \in 0..MaxEvents
      /\ capture[j].file = "gone" => capture[j].events = 0
  BY <1>1 DEF Captures
<1>3. QED
  BY <1>2, IngestConstants DEF Events, Ending

\* The entry a process works on is a queued job.
LEMMA WorkFacts ==
    ASSUME IngestInv, NEW w \in Worker
    PROVE  /\ worker[w] \in Process
           /\ task[w] \in [step : Steps, status : Statuses, sent : 0..MaxEvents]
           /\ worker[w].pc \in {"handling", "ack"} =>
                 /\ worker[w].now \in 1..last /\ worker[w].now \in Id
                 /\ worker[w].now \notin acked /\ worker[w].now \in pending
                 /\ JobOf(w) \in Job /\ request[JobOf(w)] = "queued"
<1>1. worker[w] \in Process
  BY DEF IngestInv, BusInv, TypeOK
<1>2. task[w] \in [step : Steps, status : Statuses, sent : 0..MaxEvents]
  BY DEF IngestInv, IngestTypeOK
<1>3. ASSUME worker[w].pc \in {"handling", "ack"}
      PROVE  /\ worker[w].now \in 1..last /\ worker[w].now \in Id
             /\ worker[w].now \notin acked /\ worker[w].now \in pending
             /\ JobOf(w) \in Job /\ request[JobOf(w)] = "queued"
  <2> DEFINE m == worker[w].now
  <2>1. m \in pending
    BY <1>3 DEF IngestInv, SoleInv, Sole
  <2>2. m \in Id /\ m <= cursor /\ cursor \in {NoGroup} \union 0..last /\ last \in Nat
    BY <2>1, IngestConstants DEF IngestInv, BusInv, TypeOK, Delivered
  <2>3. m \in 1..last
    BY <2>2 DEF NoGroup, Id
  <2>4. m \notin acked
    BY <2>1 DEF IngestInv, BusInv, SettledStaysSettled
  <2>5. message[m] \in Job
    BY <2>3 DEF IngestInv, IngestTypeOK
  <2>6. request[message[m]] = "queued"
    BY <2>3 DEF IngestInv, QueuedOnce
  <2>7. QED
    BY <2>1, <2>2, <2>3, <2>4, <2>5, <2>6 DEF JobOf
<1>4. QED
  BY <1>1, <1>2, <1>3

\* What was published without a further fault stays within the count, and a
\* fault makes room for one whole file.
LEMMA FaultsMakeRoom ==
    ASSUME IngestTypeOK, NEW j \in Job, NEW x \in Nat, UNCHANGED <<capture, raw>>,
           Published(j, x)
    PROVE  /\ faults' = faults => Published(j, x)'
           /\ faults' = faults + 1 => Published(j, x)'
           /\ faults' = faults + 1 /\ x <= Events(j) => Published(j, 0)'
<1>1. PICK e \in Nat : e = Events(j)
  BY FileFacts
<1>2. faults \in Nat
  BY IngestConstants DEF IngestTypeOK, TypeOK
<1>3. PICK p, n : p = faults * e /\ n = Len(raw[j])
  OBVIOUS
<1>4. p \in Nat /\ (faults + 1) * e = p + e
  BY <1>2, <1>3
<1>5. n \in Nat
  BY <1>3 DEF IngestTypeOK
<1>6. n <= p + x
  BY <1>1, <1>3 DEF Published
<1>7. Events(j)' = e /\ Len(raw[j])' = n
  BY <1>1, <1>3 DEF Events
<1>8. ASSUME faults' = faults + 1 PROVE Published(j, x)' /\ (x <= e => Published(j, 0)')
  <2>1. faults' * Events(j)' = p + e
    BY <1>4, <1>7, <1>8
  <2>2. QED
    BY <1>4, <1>5, <1>6, <1>7, <2>1 DEF Published
<1>9. ASSUME faults' = faults PROVE Published(j, x)'
  BY <1>1, <1>3, <1>6, <1>7, <1>9 DEF Published
<1>10. QED
  BY <1>1, <1>8, <1>9

\* The run of 1, 2, ... at the end of a sequence grows with the next number.
LEMMA EndsAppend ==
    ASSUME NEW S, NEW s \in Seq(S), NEW n \in Nat, EndsWithFirst(s, n), n + 1 \in S
    PROVE  EndsWithFirst(Append(s, n + 1), n + 1)
<1> DEFINE t == Append(s, n + 1)
<1>1. Len(t) = Len(s) + 1 /\ Len(s) \in Nat /\ Len(s) >= n
  BY DEF EndsWithFirst
<1>2. ASSUME NEW i \in 1..n + 1 PROVE t[Len(t) - (n + 1) + i] = i
  <2>1. CASE i \in 1..n
    BY <1>1, <2>1 DEF EndsWithFirst
  <2>2. CASE i = n + 1
    BY <1>1, <2>2
  <2>3. i \in 1..n \/ i = n + 1
    OBVIOUS
  <2>4. QED
    BY <2>1, <2>2, <2>3
<1> HIDE DEF t
<1>3. Len(t) >= n + 1
  BY <1>1
<1>4. EndsWithFirst(t, n + 1)
  BY <1>2, <1>3 DEF EndsWithFirst
<1>5. QED
  BY <1>4 DEF t

-----------------------------------------------------------------------------
\* Which step of the stream each step of an upload or of its replay is.
LEMMA IngestStepOfBus ==
    ASSUME IngestInv, [IngestNext]_vars
    PROVE  BusInv' /\ SoleInv'
<1>1. BusInv /\ SoleInv /\ OneConsumer
  BY IngestConstants DEF IngestInv
<1>2. CASE [Next]_busVars
  BY <1>1, <1>2, NextKeeps, NextKeepsSole
<1>3. CASE /\ UNCHANGED <<last, trim, cursor, pending, idle, acked, done, worker>>
           /\ faults < MaxFaults /\ faults' = faults + 1
  <2>1. Delivered' = Delivered /\ Evicted' = Evicted
    BY <1>3 DEF Delivered, Evicted
  <2>2. faults' \in 0..MaxFaults
    BY <1>1, <1>3, IngestConstants DEF BusInv, TypeOK
  <2>3. BusInv'
    BY <1>1, <1>3, <2>1, <2>2 DEF BusInv, TypeOK, AtLeastOnceDelivery, SettledStaysSettled
  <2>4. SoleInv'
    BY <1>1, <1>3, FaultElsewhereSole
  <2>5. QED
    BY <2>3, <2>4
<1>4. ASSUME NEW j \in Job, RequestFails(j) PROVE BusInv' /\ SoleInv'
  BY <1>3, <1>4 DEF RequestFails, redisVars
<1>5. ASSUME NEW j \in Job, CommitRow(j) \/ init_progress(j) \/ PublishJob(j)
      PROVE  [Next]_busVars
  BY <1>5 DEF CommitRow, init_progress, PublishJob, Next, Environment
<1>6. ASSUME NEW w \in Worker, \/ Begin(w) \/ set_progress(w) \/ _update_row(w) \/ _replay(w)
                               \/ Raise(w) \/ Die(w)
      PROVE  [Next]_busVars
  BY <1>6 DEF Begin, set_progress, _update_row, _replay, Raise, Die, Next
<1>7. CASE BusOnly
  BY <1>2, <1>7 DEF BusOnly, Next, Environment
<1>8. CASE UNCHANGED vars
  BY <1>2, <1>8 DEF vars
<1>9. QED
  BY <1>2, <1>4, <1>5, <1>6, <1>7, <1>8 DEF IngestNext

\* A process that takes up an entry that waited has its first step ahead.
LEMMA TakenUp ==
    ASSUME BusInv', SoleInv', IngestTypeOK', NEW w \in Worker,
           worker'[w].pc # "ack", task'[w] = Idle,
           \A m \in (1..last)' \ acked' : Waiting(m)'
    PROVE  AtWork(w)'
<1>1. CASE worker'[w].pc # "handling"
  BY <1>1 DEF AtWork
<1>2. CASE worker'[w].pc = "handling"
  <2>1. PICK m, j : m = worker'[w].now /\ j = message'[m]
    OBVIOUS
  <2>2. Sole(worker[w])' /\ (faults' = 0 => InTurn(worker[w])')
    BY DEF SoleInv
  <2>3. m \in pending'
    BY <1>2, <2>1, <2>2 DEF Sole
  <2>4. m \in Id /\ m <= cursor' /\ cursor' \in {NoGroup} \union 0..last' /\ last' \in Nat
    BY <2>3, IngestConstants DEF BusInv, TypeOK, Delivered
  <2>5. m \in 1..last'
    BY <2>4 DEF NoGroup, Id
  <2>6. m \notin acked'
    BY <2>3 DEF BusInv, SettledStaysSettled
  <2>7. faults' = 0 => m \notin done'
    <3>1. faults' = 0 => \A d \in done' : d < m
      BY <1>2, <2>1, <2>2, IngestConstants DEF InTurn
    <3>2. m \in Int
      BY <2>5
    <3>3. QED
      BY <3>1, <3>2
  <2>8. Published(j, 0)' /\ (faults' = 0 => Fresh0(j)')
    BY <2>1, <2>5, <2>6, <2>7 DEF Waiting
  <2>9. raw'[j] \in Seq(1..MaxEvents) /\ j \in Job /\ capture'[j] \in Captures
    BY <2>1, <2>5 DEF IngestTypeOK
  <2>10. Events(j)' \in Nat
    BY <2>9, IngestConstants DEF Captures, Events
  <2>11. EndsWithFirst(raw[j], 0)'
    BY <2>9 DEF EndsWithFirst
  <2>12. Attempt(j, Idle)'
    BY <2>8, <2>10, <2>11 DEF Attempt, Idle, JOB_QUEUED, JOB_RUNNING
  <2>13. faults' = 0 => FirstAttempt(j, Idle)'
    BY <2>8 DEF FirstAttempt, Fresh0, Idle, Progress
  <2>14. JobOf(w)' = j
    BY <2>1 DEF JobOf
  <2>15. QED
    BY <1>2, <2>12, <2>13, <2>14 DEF AtWork
<1>3. QED
  BY <1>1, <1>2

\* The stores, the queue and what was published belong to the jobs: a step of
\* the bus alone leaves their types and the queue's bookkeeping as they are.
LEMMA JobsUntouched ==
    ASSUME IngestInv, BusInv', UNCHANGED jobVars, UNCHANGED last,
           task' \in [Worker -> [step : Steps, status : Statuses, sent : 0..MaxEvents]]
    PROVE  IngestTypeOK' /\ QueuedOnce' /\ FinalMeansReplayed'
<1>1. IngestTypeOK'
  BY DEF IngestInv, BusInv, IngestTypeOK, jobVars
<1>2. QueuedOnce'
  BY DEF IngestInv, QueuedOnce, jobVars, Fresh0
<1>3. FinalMeansReplayed'
  BY DEF IngestInv, FinalMeansReplayed, jobVars, FullyReplayed, Events
<1>4. QED
  BY <1>1, <1>2, <1>3

\* A finished job stays finished when a fault happens, or nothing.
LEMMA OverStays ==
    ASSUME IngestInv, NEW j \in Job, Over(j),
           UNCHANGED <<capture, raw>>, row'[j] = row[j], live'[j] = live[j],
           faults' = faults \/ faults' = faults + 1
    PROVE  Over(j)'
<1>1. Events(j) \in Nat /\ IngestTypeOK
  BY FileFacts DEF IngestInv
<1>2. Published(j, Events(j)) /\ Events(j)' = Events(j) /\ Ending(j)' = Ending(j)
  BY DEF Over, Events, Ending
<1>3. Published(j, Events(j))'
  <2>1. PICK x \in Nat : x = Events(j)
    BY <1>1
  <2>2. Published(j, x)'
    BY <1>1, <1>2, <2>1, FaultsMakeRoom
  <2>3. QED
    BY <1>2, <2>1, <2>2 DEF Published
<1>4. QED
  BY <1>2, <1>3 DEF Over, Progress

\* So does a job that waits.
LEMMA WaitingStays ==
    ASSUME IngestInv, NEW m \in 1..last, Waiting(m),
           UNCHANGED <<capture, raw>>, message'[m] = message[m],
           row'[message[m]] = row[message[m]], live'[message[m]] = live[message[m]],
           done \subseteq done',
           faults' = faults \/ faults' = faults + 1
    PROVE  Waiting(m)'

<1> DEFINE j == message[m]
<1>1. j \in Job /\ IngestTypeOK /\ j' = j
  BY DEF IngestInv, IngestTypeOK
<1>2. Published(j, 0)'
  BY <1>1, FaultsMakeRoom DEF Waiting
<1>3. ASSUME faults' = 0, m \notin done' PROVE Fresh0(j)'
  <2>1. faults \in Nat
    BY IngestConstants DEF IngestInv, IngestTypeOK, TypeOK
  <2>2. faults = 0 /\ Fresh0(j)
    BY <1>3, <2>1 DEF Waiting
  <2>3. QED
    BY <2>2 DEF Fresh0, Progress
<1>4. QED
  BY <1>1, <1>2, <1>3 DEF Waiting

\* A handler gives its entry up, by a failure or a crash: what it published
\* is what the fault accounts for, and its job waits for the next attempt.
LEMMA AttemptEnds ==
    ASSUME IngestInv, BusInv', SoleInv', NEW w \in Worker, UNCHANGED jobVars,
           UNCHANGED <<last, acked, done>>, faults' = faults + 1,
           task' = [task EXCEPT ![w] = Idle], worker'[w].pc # "ack"
    PROVE  IngestInv'
<1>1. IngestTypeOK /\ OneConsumer /\ UNCHANGED <<capture, raw, row, live, message>>
  BY IngestConstants DEF IngestInv, jobVars
<1>2. Idle \in [step : Steps, status : Statuses, sent : 0..MaxEvents]
  BY IngestConstants DEF Idle, Steps, Statuses
<1>3. task' \in [Worker -> [step : Steps, status : Statuses, sent : 0..MaxEvents]]
      /\ task'[w] = Idle
  BY <1>1, <1>2 DEF IngestTypeOK
<1>4. IngestTypeOK' /\ QueuedOnce' /\ FinalMeansReplayed'
  BY <1>3, JobsUntouched
<1>5. ASSUME NEW m \in acked' PROVE Over(message[m])'
  <2>1. message[m] \in Job /\ Over(message[m])
    <3>1. m \in Id /\ m <= cursor /\ cursor \in {NoGroup} \union 0..last /\ last \in Nat
      BY <1>5, IngestConstants DEF IngestInv, BusInv, TypeOK, Delivered
    <3>2. m \in 1..last
      BY <3>1 DEF NoGroup, Id
    <3>3. QED
      BY <1>1, <1>5, <3>2 DEF IngestInv, IngestTypeOK
  <2>2. PICK j \in Job : j = message[m]
    BY <2>1
  <2>3. Over(j)'
    BY <1>1, <2>1, <2>2, OverStays
  <2>4. QED
    BY <1>1, <2>2, <2>3
<1>6. ASSUME NEW m \in (1..last)' \ acked' PROVE Waiting(m)'
  <2>0. m \in 1..last /\ m \notin acked
    BY <1>6
  <2>1. faults \in Nat /\ faults' # 0
    BY <1>1, IngestConstants DEF IngestTypeOK, TypeOK
  <2>2. PICK j \in Job : j = message[m] /\ j = message'[m]
    BY <1>1, <2>0 DEF IngestTypeOK
  <2>3. Events(j) \in Nat
    BY <1>1, FileFacts
  <2>4. \E x \in Nat : x <= Events(j) /\ Published(j, x)
    <3>1. CASE Waiting(m)
      BY <2>2, <2>3, <3>1 DEF Waiting
    <3>2. CASE InHand(m)
      <4>1. worker[w].pc \in {"handling", "ack"} /\ worker[w].now = m
        BY <1>1, <3>2 DEF InHand, OneConsumer
      <4>2. JobOf(w) = j
        BY <2>2, <4>1 DEF JobOf
      <4>3. worker[w].pc = "handling" =>
               Published(j, task[w].sent) /\ task[w].sent <= Events(j)
        BY <4>2 DEF IngestInv, AtWork, Attempt
      <4>4. worker[w].pc = "ack" => Published(j, Events(j))
        BY <4>2 DEF IngestInv, AtWork, Over
      <4>5. task[w].sent \in Nat
        BY WorkFacts, IngestConstants
      <4>6. QED
        BY <2>3, <4>1, <4>3, <4>4, <4>5
    <3>3. QED
      BY <2>0, <3>1, <3>2 DEF IngestInv
  <2>5. Published(j, 0)'
    BY <1>1, <2>4, FaultsMakeRoom
  <2>6. QED
    BY <2>1, <2>2, <2>5 DEF Waiting
<1>7. AtWork(w)'
  BY <1>3, <1>4, <1>6, TakenUp
<1>8. \A v \in Worker : AtWork(v)'
  BY <1>1, <1>7 DEF OneConsumer
<1>9. QED
  BY <1>4, <1>5, <1>6, <1>8 DEF IngestInv

\* The loop fetches or acknowledges, or the process starts: a job is over or it
\* waits, and a process takes one up from the start.
LEMMA FetchKeepsJobs ==
    ASSUME IngestInv, BusInv', SoleInv', NEW w \in Worker,
           LoopStep(w) \/ Start(w), UNCHANGED ingestVars
    PROVE  IngestInv'
<1>1. /\ IngestTypeOK /\ OneConsumer /\ UNCHANGED jobVars
      /\ UNCHANGED <<capture, raw, row, live, message, task>>
  BY IngestConstants DEF IngestInv, ingestVars, jobVars
<1>2. UNCHANGED <<last, done, faults>>
  BY DEF LoopStep, Start, Reclaim, Read, Ack
<1>3. worker[w].pc \in {"down", "reclaim", "read", "ack"} /\ worker[w] \in Process
      /\ Sole(worker[w])
  BY WorkFacts DEF LoopStep, Start, Reclaim, Read, Ack, IngestInv, SoleInv
<1>4. task' \in [Worker -> [step : Steps, status : Statuses, sent : 0..MaxEvents]]
  BY <1>1 DEF IngestTypeOK
<1>5. IngestTypeOK' /\ QueuedOnce' /\ FinalMeansReplayed'
  BY <1>1, <1>2, <1>4, JobsUntouched
<1>6. task[w] = Idle /\ task'[w] = Idle
  BY <1>1, <1>3 DEF IngestInv, AtWork
<1>7. worker'[w].pc # "ack"
  <2>1. worker \in [Worker -> Process]
    BY DEF IngestInv, BusInv, TypeOK
  <2>2. ASSUME Ack(w) PROVE worker'[w].pc # "ack"
    <3>1. worker'[w] = AfterDispatch(worker[w])
      BY <2>1, <2>2 DEF Ack
    <3>2. QED
      BY <1>3, <3>1, NextEntryGoes, DownIsIdle DEF AfterDispatch
  <2>3. ASSUME Start(w) PROVE worker'[w].pc # "ack"
    BY <2>1, <2>3 DEF Start, LoopTop, Down
  <2>4. BusInv
    BY DEF IngestInv
  <2>5. ASSUME Reclaim(w) \/ Read(w) PROVE worker'[w].pc # "ack"
    <3>1. \E k \in Process : worker' = [worker EXCEPT ![w] = NextEntry(k)]
      BY <2>4, <2>5, ReclaimPage, ReadPage
    <3>2. PICK k \in Process : worker'[w] = NextEntry(k)
      BY <2>1, <3>1
    <3>3. QED
      BY <3>2, NextEntryGoes
  <2>6. QED
    BY <2>2, <2>3, <2>5 DEF LoopStep
<1>8. acked' = acked \/ (worker[w].pc = "ack" /\ acked' = acked \union {worker[w].now})
  BY <1>3 DEF LoopStep, Start, Reclaim, Read, Ack, Sole
<1>9. ASSUME NEW m \in acked' PROVE Over(message[m])'
  <2>1. m \in 1..last /\ Over(message[m])
    <3>1. CASE m \in acked
      <4>1. m \in Id /\ m <= cursor /\ cursor \in {NoGroup} \union 0..last /\ last \in Nat
        BY <3>1, IngestConstants DEF IngestInv, BusInv, TypeOK, Delivered
      <4>2. QED
        BY <3>1, <4>1 DEF NoGroup, Id, IngestInv
    <3>2. CASE m \notin acked
      <4>1. worker[w].pc = "ack" /\ m = worker[w].now
        BY <1>8, <1>9, <3>2
      <4>2. QED
        BY <4>1, WorkFacts DEF IngestInv, AtWork, JobOf
    <3>3. QED
      BY <3>1, <3>2
  <2>2. PICK j \in Job : j = message[m]
    BY <1>1, <2>1 DEF IngestTypeOK
  <2>3. Over(j)'
    BY <1>1, <1>2, <2>1, <2>2, OverStays
  <2>4. QED
    BY <1>1, <2>2, <2>3
<1>10. ASSUME NEW m \in (1..last)' \ acked' PROVE Waiting(m)'
  <2>1. m \in (1..last) \ acked
    BY <1>2, <1>8, <1>10
  <2>2. ~InHand(m)
    <3>1. worker[w].pc = "ack" => worker[w].now \in acked'
      <4>1. worker[w].pc = "ack" => Ack(w)
        BY DEF LoopStep, Start, Reclaim, Read
      <4>2. worker[w].pc = "ack" => worker[w].now \in pending
        BY WorkFacts
      <4>3. QED
        BY <4>1, <4>2 DEF Ack
    <3>2. QED
      BY <1>1, <1>3, <1>10, <3>1 DEF InHand, OneConsumer
  <2>3. Waiting(m)
    BY <2>1, <2>2 DEF IngestInv
  <2>4. QED
    BY <1>1, <1>2, <2>1, <2>3, WaitingStays
<1>11. AtWork(w)'
  BY <1>5, <1>6, <1>7, <1>10, TakenUp
<1>12. \A v \in Worker : AtWork(v)'
  BY <1>1, <1>11 DEF OneConsumer
<1>13. QED
  BY <1>5, <1>9, <1>10, <1>12 DEF IngestInv

\* A step that leaves every process at its place and every queued job as it is;
\* an entry it queues waits.
LEMMA InPlaceKeepsJobs ==
    ASSUME IngestInv, BusInv', SoleInv', IngestTypeOK', QueuedOnce', FinalMeansReplayed',
           UNCHANGED <<capture, raw, task, acked, done>>,
           faults' = faults \/ faults' = faults + 1,
           \A m \in 1..last : message'[m] = message[m],
           \A m \in (1..last)' \ (1..last) : Waiting(m)',
           \A j \in Job : request[j] = "queued" => row'[j] = row[j] /\ live'[j] = live[j],
           \A w \in Worker : worker'[w].pc = worker[w].pc /\ worker'[w].now = worker[w].now
    PROVE  IngestInv'
<1>1. IngestTypeOK
  BY DEF IngestInv
<1>2. ASSUME NEW m \in 1..last
      PROVE  \E j \in Job : /\ j = message[m] /\ j = message'[m]
                            /\ row'[j] = row[j] /\ live'[j] = live[j]
  BY <1>1, <1>2 DEF IngestTypeOK, IngestInv, QueuedOnce
<1>3. ASSUME NEW m \in acked' PROVE Over(message[m])'
  <2>1. m \in Id /\ m <= cursor /\ cursor \in {NoGroup} \union 0..last /\ last \in Nat
    BY <1>3, IngestConstants DEF IngestInv, BusInv, TypeOK, Delivered
  <2>2. m \in 1..last /\ Over(message[m])
    BY <1>3, <2>1 DEF NoGroup, Id, IngestInv
  <2>3. PICK j \in Job : /\ j = message[m] /\ j = message'[m]
                         /\ row'[j] = row[j] /\ live'[j] = live[j]
    BY <1>2, <2>2
  <2>4. Over(j)'
    BY <1>1, <2>2, <2>3, OverStays
  <2>5. QED
    BY <1>1, <2>3, <2>4
<1>4. ASSUME NEW m \in (1..last)' \ acked' PROVE InHand(m)' \/ Waiting(m)'
  <2>1. CASE m \in 1..last
    <3>1. InHand(m) => InHand(m)'
      BY DEF InHand
    <3>2. Waiting(m) => Waiting(m)'
      BY <1>1, <1>2, <2>1, WaitingStays
    <3>3. QED
      BY <1>4, <2>1, <3>1, <3>2 DEF IngestInv
  <2>2. CASE m \notin 1..last
    BY <1>4, <2>2
  <2>3. QED
    BY <2>1, <2>2
<1>5. ASSUME NEW w \in Worker PROVE AtWork(w)'
  <2>1. CASE worker[w].pc \notin {"handling", "ack"}
    BY <1>1, <2>1 DEF AtWork, IngestInv
  <2>2. CASE worker[w].pc \in {"handling", "ack"}
    <3>0. PICK j \in Job : /\ j = JobOf(w) /\ j = JobOf(w)'
                           /\ row'[j] = row[j] /\ live'[j] = live[j]
      BY <1>2, <2>2, WorkFacts DEF JobOf
    <3>1. PICK t : t = task[w] /\ t = task'[w]
      OBVIOUS
    <3>2. /\ Events(j)' = Events(j) /\ Ending(j)' = Ending(j) /\ Events(j) \in Nat
          /\ \A x : EndsWithFirst(raw[j], x)' = EndsWithFirst(raw[j], x)
      BY <1>1, FileFacts DEF Events, Ending, EndsWithFirst
    <3>3. CASE worker[w].pc = "handling"
      <4>0. t.sent \in Nat
        <5>1. task[w].sent \in Nat
          BY WorkFacts, IngestConstants
        <5>2. QED
          BY <3>1, <5>1
      <4>1. Attempt(j, t) /\ (faults = 0 => FirstAttempt(j, t)) /\ t.sent \in Nat
        BY <3>0, <3>1, <3>3, <4>0 DEF IngestInv, AtWork
      <4>2. Published(j, t.sent)'
        <5>1. PICK x \in Nat : x = t.sent
          BY <4>1
        <5>2. Published(j, x)'
          BY <1>1, <4>1, <5>1, FaultsMakeRoom DEF Attempt
        <5>3. QED
          BY <5>1, <5>2
      <4>3. Attempt(j, t)'
        BY <1>1, <3>0, <3>2, <4>1, <4>2 DEF Attempt, Progress, EndsWithFirst
      <4>4. faults' = 0 => FirstAttempt(j, t)'
        BY <1>1, <3>0, <4>1, IngestConstants DEF FirstAttempt, Fresh0, Progress, IngestTypeOK, TypeOK
      <4>5. QED
        BY <3>0, <3>1, <3>3, <4>3, <4>4 DEF AtWork
    <3>4. CASE worker[w].pc = "ack"
      <4>1. Over(j) /\ task[w] = Idle
        BY <3>0, <3>1, <3>4 DEF IngestInv, AtWork
      <4>2. Over(j)'
        BY <1>1, <3>0, <4>1, OverStays
      <4>3. QED
        BY <1>1, <3>0, <3>1, <3>4, <4>1, <4>2 DEF AtWork
    <3>5. QED
      BY <2>2, <3>3, <3>4
  <2>3. QED
    BY <2>1, <2>2
<1>6. QED
  BY <1>3, <1>4, <1>5 DEF IngestInv

\* Time passes, a process is told to stop or reaches its reclaim timer.
LEMMA BusEventKeepsJobs ==
    ASSUME IngestInv, BusInv', SoleInv', UNCHANGED ingestVars,
           \/ \E m \in Id : GoIdle(m)
           \/ \E w \in Worker : Signal(w) \/ ReclaimDue(w)
           \/ UNCHANGED busVars
    PROVE  IngestInv'
<1>1. /\ UNCHANGED jobVars /\ UNCHANGED <<capture, raw, row, live, message, task>>
      /\ IngestTypeOK /\ worker \in [Worker -> Process]
  BY DEF IngestInv, BusInv, TypeOK, ingestVars, jobVars
<1>2. UNCHANGED <<last, acked, done>> /\ (faults' = faults \/ faults' = faults + 1)
  BY DEF GoIdle, Signal, ReclaimDue, busVars, redisVars
<1>3. task' \in [Worker -> [step : Steps, status : Statuses, sent : 0..MaxEvents]]
  BY <1>1 DEF IngestTypeOK
<1>4. IngestTypeOK' /\ QueuedOnce' /\ FinalMeansReplayed'
  BY <1>1, <1>2, <1>3, JobsUntouched
<1>5. \A w \in Worker : worker'[w].pc = worker[w].pc /\ worker'[w].now = worker[w].now
  <2>1. CASE UNCHANGED worker
    BY <2>1
  <2>2. ASSUME NEW v \in Worker, Signal(v) \/ ReclaimDue(v)
        PROVE  \A w \in Worker : worker'[w].pc = worker[w].pc /\ worker'[w].now = worker[w].now
    <3>1. PICK k \in {[worker[v] EXCEPT !.stop = TRUE], [worker[v] EXCEPT !.due = TRUE]} :
             worker' = [worker EXCEPT ![v] = k]
      BY <2>2 DEF Signal, ReclaimDue
    <3>2. worker[v] \in Process
      BY <1>1
    <3>3. k.pc = worker[v].pc /\ k.now = worker[v].now
      BY <3>1, <3>2 DEF Process
    <3>4. QED
      BY <1>1, <3>1, <3>3
  <2>3. QED
    BY <2>1, <2>2 DEF GoIdle, busVars
<1>6. QED
  BY <1>1, <1>2, <1>4, <1>5, InPlaceKeepsJobs

\* The request before its message is queued, and its failure: the job is
\* nobody's yet.
LEMMA RequestKeepsJobs ==
    ASSUME IngestInv, BusInv', SoleInv', NEW j \in Job,
           CommitRow(j) \/ init_progress(j) \/ RequestFails(j)
    PROVE  IngestInv'
<1>1. /\ UNCHANGED <<last, acked, done, worker, capture, message, raw, task>>
      /\ faults' = faults \/ faults' = faults + 1
      /\ request[j] # "queued"
      /\ \E q \in {"committed", "seeded", "failed"} : request' = [request EXCEPT ![j] = q]
      /\ \/ row' = [row EXCEPT ![j] = JOB_QUEUED]
         \/ row' = row
      /\ \/ live' = [live EXCEPT ![j] = Progress(JOB_QUEUED, 0)]
         \/ live' = live
  BY DEF CommitRow, init_progress, RequestFails, busVars, redisVars
<1>2. IngestTypeOK
  BY DEF IngestInv
<1>3. IngestTypeOK'
  <2>1. /\ JOB_QUEUED \in Statuses
        /\ Progress(JOB_QUEUED, 0) \in [status : Statuses \union {Absent}, processed : 0..MaxEvents]
    BY IngestConstants DEF Statuses, Progress
  <2>2. row' \in [Job -> Statuses \union {Absent}]
    BY <1>1, <1>2, <2>1 DEF IngestTypeOK
  <2>3. live' \in [Job -> [status : Statuses \union {Absent}, processed : 0..MaxEvents]]
    BY <1>1, <1>2, <2>1 DEF IngestTypeOK
  <2>4. request' \in [Job -> {"none", "committed", "seeded", "queued", "failed"}]
    BY <1>1, <1>2 DEF IngestTypeOK
  <2>5. QED
    BY <1>1, <1>2, <2>2, <2>3, <2>4 DEF IngestTypeOK, BusInv
<1>4. QueuedOnce'
  <2>1. \A i \in Job : request'[i] = "queued" <=> request[i] = "queued"
    BY <1>1, <1>2 DEF IngestTypeOK
  <2>2. \A m \in 1..last : message[m] \in Job
    BY <1>2 DEF IngestTypeOK
  <2>3. /\ request'[j] = "none" => row'[j] = Absent /\ live'[j] = Progress(Absent, 0)
        /\ request'[j] = "committed" => row'[j] = JOB_QUEUED /\ live'[j] = Progress(Absent, 0)
        /\ request'[j] = "seeded" => row'[j] = JOB_QUEUED /\ live'[j] = Progress(JOB_QUEUED, 0)
    BY <1>2 DEF CommitRow, init_progress, RequestFails, IngestTypeOK, IngestInv, QueuedOnce
  <2>4. \A i \in Job \ {j} :
           row'[i] = row[i] /\ live'[i] = live[i] /\ request'[i] = request[i]
    BY <1>1, <1>2 DEF IngestTypeOK
  <2>5. \A i \in Job :
           /\ request[i] = "queued" => \E m \in 1..last : message[m] = i
           /\ request[i] # "queued" => raw[i] = <<>>
    BY DEF IngestInv, QueuedOnce
  <2>6. \A i \in Job :
          /\ request'[i] = "none" => row'[i] = Absent /\ live'[i] = Progress(Absent, 0)
          /\ request'[i] = "committed" => row'[i] = JOB_QUEUED /\ live'[i] = Progress(Absent, 0)
          /\ request'[i] = "seeded" => row'[i] = JOB_QUEUED /\ live'[i] = Progress(JOB_QUEUED, 0)
    BY <2>3, <2>4 DEF IngestInv, QueuedOnce, Fresh0
  <2>7. QED
    BY <1>1, <2>1, <2>2, <2>5, <2>6 DEF IngestInv, QueuedOnce, Fresh0, Progress
<1>5. FinalMeansReplayed'
  <2>1. \A i \in Job : FullyReplayed(i)' = FullyReplayed(i)
    BY <1>1 DEF FullyReplayed, Events
  <2>2. JOB_QUEUED \notin Final /\ Progress(JOB_QUEUED, 0).status \notin Final
    BY DEF Final, Progress, JOB_QUEUED, JOB_COMPLETE, JOB_ERROR
  <2>3. \A i \in Job : /\ row'[i] \in Final => row[i] \in Final
                       /\ live'[i].status \in Final => live[i].status \in Final
    BY <1>1, <1>2, <2>2 DEF IngestTypeOK
  <2>4. QED
    BY <2>1, <2>3 DEF IngestInv, FinalMeansReplayed
<1>6. \A i \in Job : request[i] = "queued" => row'[i] = row[i] /\ live'[i] = live[i]
  BY <1>1, <1>2 DEF IngestTypeOK
<1>7. QED
  BY <1>1, <1>3, <1>4, <1>5, <1>6, InPlaceKeepsJobs

\* A job that is queued waits, and nothing of it was published.
LEMMA PublishKeepsJobs ==
    ASSUME IngestInv, BusInv', SoleInv', NEW j \in Job, PublishJob(j)
    PROVE  IngestInv'
<1>1. /\ last' = last + 1 /\ last < MaxPublished /\ message' = Append(message, j)
      /\ request[j] = "seeded" /\ request' = [request EXCEPT ![j] = "queued"]
      /\ UNCHANGED <<acked, done, faults, worker, capture, row, live, raw, task>>
  BY DEF PublishJob, Publish
<1>2. IngestTypeOK /\ QueuedOnce /\ last \in Nat /\ faults \in Nat
  BY IngestConstants DEF IngestInv, IngestTypeOK, TypeOK
<1>3. /\ message \in Seq(Job) /\ Len(message) = last
      /\ request \in [Job -> {"none", "committed", "seeded", "queued", "failed"}]
  BY <1>2 DEF IngestTypeOK
<1>4. /\ message' \in Seq(Job) /\ Len(message') = last'
      /\ message'[last + 1] = j
      /\ \A m \in 1..last : message'[m] = message[m] /\ message[m] \in Job
      /\ 1..last' = (1..last) \union {last + 1}
  <2>1. message' \in Seq(Job) /\ Len(message') = last' /\ message'[last + 1] = j
    BY <1>1, <1>2, <1>3
  <2>2. \A m \in 1..last : message'[m] = message[m] /\ message[m] \in Job
    BY <1>1, <1>2, <1>3
  <2>3. 1..last' = (1..last) \union {last + 1}
    BY <1>1, <1>2
  <2>4. QED
    BY <2>1, <2>2, <2>3
<1>5. IngestTypeOK'
  BY <1>1, <1>2, <1>4 DEF IngestTypeOK, BusInv
<1>6. /\ raw[j] = <<>> /\ row[j] = JOB_QUEUED /\ live[j] = Progress(JOB_QUEUED, 0)
      /\ \A m \in 1..last : message[m] # j
  BY <1>1, <1>2 DEF QueuedOnce, Fresh0
<1>7. QueuedOnce'
  <2>1. \A m, n \in 1..last' : message'[m] = message'[n] => m = n
    BY <1>2, <1>4, <1>6 DEF QueuedOnce
  <2>2. \A m \in 1..last' : request'[message'[m]] = "queued"
    BY <1>1, <1>2, <1>3, <1>4 DEF QueuedOnce
  <2>3. \A i \in Job : request'[i] = "queued" => \E m \in 1..last' : message'[m] = i
    <3>1. \A i \in Job : request[i] = "queued" => \E m \in 1..last : message[m] = i
      BY <1>2 DEF QueuedOnce
    <3>2. QED
      BY <1>1, <1>3, <1>4, <3>1
  <2>4. \A i \in Job : /\ request'[i] # "queued" => i # j /\ request'[i] = request[i]
                       /\ request'[i] \in {"none", "committed", "seeded"} => i # j
    BY <1>1, <1>3
  <2>5. \A i \in Job :
          /\ request[i] # "queued" => raw[i] = <<>>
          /\ request[i] = "none" => row[i] = Absent /\ live[i] = Progress(Absent, 0)
          /\ request[i] = "committed" => row[i] = JOB_QUEUED /\ live[i] = Progress(Absent, 0)
          /\ request[i] = "seeded" => Fresh0(i)
    BY <1>2 DEF QueuedOnce
  <2>6. \A i \in Job :
          /\ request'[i] # "queued" => raw'[i] = <<>>
          /\ request'[i] = "none" => row'[i] = Absent /\ live'[i] = Progress(Absent, 0)
          /\ request'[i] = "committed" => row'[i] = JOB_QUEUED /\ live'[i] = Progress(Absent, 0)
          /\ request'[i] = "seeded" => Fresh0(i)'
    BY <1>1, <2>4, <2>5 DEF Fresh0, Progress
  <2>7. QED
    BY <2>1, <2>2, <2>3, <2>6 DEF QueuedOnce, Progress
<1>8. FinalMeansReplayed'
  BY <1>1 DEF IngestInv, FinalMeansReplayed, FullyReplayed, Events
<1>9. ASSUME NEW n \in (1..last)' \ (1..last) PROVE Waiting(n)'
  <2>1. n = last + 1 /\ message'[n] = j
    BY <1>4, <1>9
  <2>2. Published(j, 0)'
    <3>1. Events(j)' \in Nat /\ Len(raw'[j]) = 0 /\ faults' \in Nat
      BY <1>1, <1>2, <1>6, FileFacts DEF Events
    <3>2. PICK e \in Nat, f \in Nat : e = Events(j)' /\ f = faults'
      BY <3>1
    <3>3. f * e \in Nat
      OBVIOUS
    <3>4. QED
      BY <3>1, <3>2, <3>3 DEF Published
  <2>3. Fresh0(j)'
    BY <1>1, <1>6 DEF Fresh0, Progress
  <2>4. QED
    BY <2>1, <2>2, <2>3 DEF Waiting
<1>10. QED
  BY <1>1, <1>4, <1>5, <1>7, <1>8, <1>9, InPlaceKeepsJobs

\* A step of run_job touches the job in hand only; the rest is as it was.
LEMMA WorkKeepsOthers ==
    ASSUME IngestInv, BusInv', SoleInv', NEW w \in Worker, NEW j \in Job, j = JobOf(w),
           worker[w].pc = "handling",
           worker'[w].pc \in {"handling", "ack"}, worker'[w].now = worker[w].now,
           UNCHANGED <<last, message, acked, capture, request, faults>>, done \subseteq done',
           \A i \in Job \ {j} : row'[i] = row[i] /\ live'[i] = live[i] /\ raw'[i] = raw[i],
           IngestTypeOK', AtWork(w)',
           row'[j] \in Final \/ live'[j].status \in Final => FullyReplayed(j)'
    PROVE  IngestInv'
<1> DEFINE m0 == worker[w].now
<1>1. /\ IngestTypeOK /\ OneConsumer /\ m0 \in 1..last /\ m0 \notin acked
      /\ request[j] = "queued" /\ message[m0] = j
  BY WorkFacts, IngestConstants DEF IngestInv, JobOf
<1>2. ASSUME NEW m \in 1..last, m # m0
      PROVE  /\ message[m] \in Job \ {j} /\ message'[m] = message[m]
             /\ row'[message[m]] = row[message[m]] /\ live'[message[m]] = live[message[m]]
             /\ raw'[message[m]] = raw[message[m]]
  <2>1. message[m] # message[m0] /\ message[m] \in Job
    <3>1. message[m] # message[m0]
      BY <1>1, <1>2 DEF IngestInv, QueuedOnce
    <3>2. message[m] \in Job
      BY <1>1 DEF IngestTypeOK
    <3>3. QED
      BY <3>1, <3>2
  <2>2. QED
    BY <1>1, <2>1
<1>3. QueuedOnce'
  <2>1. \A i \in Job : request[i] # "queued" =>
           row'[i] = row[i] /\ live'[i] = live[i] /\ raw'[i] = raw[i]
    BY <1>1
  <2>2. \A m \in 1..last : request[message[m]] = "queued"
    BY DEF IngestInv, QueuedOnce
  <2>3. \A m, n \in 1..last : message[m] = message[n] => m = n
    BY DEF IngestInv, QueuedOnce
  <2>4. \A i \in Job :
          /\ request[i] = "queued" => \E m \in 1..last : message[m] = i
          /\ request[i] # "queued" => raw[i] = <<>>
          /\ request[i] = "none" => row[i] = Absent /\ live[i] = Progress(Absent, 0)
          /\ request[i] = "committed" => row[i] = JOB_QUEUED /\ live[i] = Progress(Absent, 0)
          /\ request[i] = "seeded" => row[i] = JOB_QUEUED /\ live[i] = Progress(JOB_QUEUED, 0)
    BY DEF IngestInv, QueuedOnce, Fresh0
  <2>5. \A i \in Job :
          /\ request'[i] = "queued" => \E m \in 1..last' : message'[m] = i
          /\ request'[i] # "queued" => raw'[i] = <<>>
          /\ request'[i] = "none" => row'[i] = Absent /\ live'[i] = Progress(Absent, 0)
          /\ request'[i] = "committed" => row'[i] = JOB_QUEUED /\ live'[i] = Progress(Absent, 0)
          /\ request'[i] = "seeded" => row'[i] = JOB_QUEUED /\ live'[i] = Progress(JOB_QUEUED, 0)
    BY <2>1, <2>4
  <2>6. QED
    BY <2>2, <2>3, <2>5 DEF QueuedOnce, Fresh0, Progress
<1>4. ASSUME NEW m \in acked' PROVE Over(message[m])'
  <2>1. m \in Id /\ m <= cursor /\ cursor \in {NoGroup} \union 0..last /\ last \in Nat
    BY <1>4, IngestConstants DEF IngestInv, BusInv, TypeOK, Delivered
  <2>2. m \in 1..last /\ Over(message[m]) /\ m # m0
    BY <1>1, <1>4, <2>1 DEF NoGroup, Id, IngestInv
  <2>3. PICK i \in Job : i = message[m] /\ i = message'[m] /\ row'[i] = row[i]
                         /\ live'[i] = live[i] /\ raw'[i] = raw[i]
    BY <1>2, <2>2
  <2>4. Over(i)'
    BY <2>2, <2>3 DEF Over, Published, Events, Ending, Progress
  <2>5. QED
    BY <2>3, <2>4
<1>5. ASSUME NEW m \in (1..last)' \ acked' PROVE InHand(m)' \/ Waiting(m)'
  <2>1. CASE m = m0
    BY <2>1 DEF InHand
  <2>2. CASE m # m0
    <3>1. m \in (1..last) \ acked
      BY <1>5
    <3>2. ~InHand(m)
      BY <1>1, <2>2 DEF InHand, OneConsumer
    <3>3. Waiting(m)
      BY <3>1, <3>2 DEF IngestInv
    <3>4. PICK i \in Job : i = message[m] /\ i = message'[m] /\ row'[i] = row[i]
                           /\ live'[i] = live[i] /\ raw'[i] = raw[i]
      BY <1>2, <2>2, <3>1
    <3>5. Published(i, 0)'
      BY <3>3, <3>4 DEF Waiting, Published, Events
    <3>6. faults' = 0 /\ m \notin done' => Fresh0(i)'
      BY <3>3, <3>4 DEF Waiting, Fresh0, Progress
    <3>7. QED
      BY <3>4, <3>5, <3>6 DEF Waiting
  <2>3. QED
    BY <2>1, <2>2
<1>6. \A v \in Worker : AtWork(v)'
  BY <1>1 DEF OneConsumer
<1>7. FinalMeansReplayed'
  <2>1. ASSUME NEW i \in Job, row'[i] \in Final \/ live'[i].status \in Final
        PROVE  FullyReplayed(i)'
    <3>1. CASE i = j
      BY <2>1, <3>1
    <3>2. CASE i # j
      BY <2>1, <3>2 DEF IngestInv, FinalMeansReplayed, FullyReplayed, Events, EndsWithFirst
    <3>3. QED
      BY <3>1, <3>2
  <2>2. QED
    BY <2>1 DEF FinalMeansReplayed
<1>8. QED
  BY <1>3, <1>4, <1>5, <1>6, <1>7 DEF IngestInv

\* What the four steps below start from.
LEMMA AtStep ==
    ASSUME IngestInv, NEW w \in Worker, NEW s \in Steps, At(w, s)
    PROVE  \E j \in Job, t \in [step : Steps, status : Statuses, sent : 0..MaxEvents] :
              /\ j = JobOf(w) /\ t = task[w] /\ t.step = s /\ t.sent \in Nat
              /\ t.status \in Statuses
              /\ Attempt(j, t) /\ (faults = 0 => FirstAttempt(j, t))
              /\ row[j] \in Final \/ live[j].status \in Final => FullyReplayed(j)
              /\ Events(j) \in Nat /\ Events(j) \in 0..MaxEvents
              /\ Ending(j) \in {JOB_COMPLETE, JOB_ERROR}
              /\ capture[j].file = "gone" => Events(j) = 0 /\ Ending(j) = JOB_ERROR
<1>1. worker[w].pc = "handling" /\ task[w].step = s
  BY DEF At
<1>2. JobOf(w) \in Job /\ task[w] \in [step : Steps, status : Statuses, sent : 0..MaxEvents]
  BY <1>1, WorkFacts
<1>3. PICK j \in Job, t \in [step : Steps, status : Statuses, sent : 0..MaxEvents] :
         j = JobOf(w) /\ t = task[w]
  BY <1>2
<1>4. t.sent \in Nat /\ t.status \in Statuses
  BY <1>3, IngestConstants
<1>5. Attempt(j, t) /\ (faults = 0 => FirstAttempt(j, t))
  BY <1>1, <1>3 DEF IngestInv, AtWork
<1>6. row[j] \in Final \/ live[j].status \in Final => FullyReplayed(j)
  BY DEF IngestInv, FinalMeansReplayed
<1>7. /\ Events(j) \in Nat /\ Events(j) \in 0..MaxEvents
      /\ Ending(j) \in {JOB_COMPLETE, JOB_ERROR}
      /\ capture[j].file = "gone" => Events(j) = 0 /\ Ending(j) = JOB_ERROR
  BY FileFacts DEF IngestInv
<1>8. QED
  BY <1>1, <1>3, <1>4, <1>5, <1>6, <1>7

\* Where a process is while it goes from one step of run_job to the next.
LEMMA SamePlace ==
    ASSUME IngestInv, BusInv', NEW w \in Worker, worker[w].pc = "handling", UNCHANGED <<worker, message, capture>>,
           NEW j \in Job, j = JobOf(w),
           task'[w].step # "start",
           Attempt(j, task[w])', faults' = 0 => FirstAttempt(j, task[w])'
    PROVE  AtWork(w)'
<1>1. JobOf(w)' = j
  BY DEF JobOf
<1>2. QED
  BY <1>1 DEF AtWork

\* run_job starts: the reports are still to be written.
LEMMA BeginKeepsJobs ==
    ASSUME IngestInv, BusInv', SoleInv', NEW w \in Worker, Begin(w)
    PROVE  IngestInv'
<1>1. At(w, "start") /\ worker[w].pc = "handling" /\ "start" \in Steps
  BY DEF Begin, At, Steps
<1>2. PICK j \in Job, t \in [step : Steps, status : Statuses, sent : 0..MaxEvents] :
         /\ j = JobOf(w) /\ t = task[w] /\ t.step = "start"
         /\ Attempt(j, t) /\ (faults = 0 => FirstAttempt(j, t))
         /\ row[j] \in Final \/ live[j].status \in Final => FullyReplayed(j)
         /\ Events(j) \in Nat
         /\ capture[j].file = "gone" => Events(j) = 0 /\ Ending(j) = JOB_ERROR
  BY <1>1, AtStep
<1>3. /\ UNCHANGED <<last, message, acked, capture, request, faults, done, worker, row, live, raw>>
      /\ busVars' = busVars
  BY DEF Begin, busVars, jobVars
<1>4. PICK u : u = [step |-> "progress", sent |-> 0,
                    status |-> IF capture[j].file = "gone" THEN JOB_ERROR ELSE JOB_RUNNING]
  OBVIOUS
<1>5. task' = [task EXCEPT ![w] = u] /\ IngestTypeOK
  BY <1>2, <1>4 DEF Begin, IngestInv
<1>6. u \in [step : Steps, status : Statuses, sent : 0..MaxEvents]
  BY <1>4, IngestConstants DEF Steps, Statuses
<1>7. task'[w] = u /\ task' \in [Worker -> [step : Steps, status : Statuses, sent : 0..MaxEvents]]
  BY <1>5, <1>6 DEF IngestTypeOK
<1>8. IngestTypeOK'
  BY <1>3, <1>5, <1>7 DEF IngestTypeOK, BusInv
<1>9. t = Idle /\ Published(j, 0) /\ EndsWithFirst(raw[j], 0)
  BY <1>2 DEF Attempt, Idle
<1>10. /\ Published(j, 0)' /\ EndsWithFirst(raw[j], 0)' /\ Events(j)' = Events(j)
       /\ Ending(j)' = Ending(j) /\ FullyReplayed(j)' = FullyReplayed(j)
  BY <1>3, <1>9 DEF Published, EndsWithFirst, Events, Ending, FullyReplayed
<1>11. Attempt(j, u)'
  BY <1>2, <1>4, <1>10 DEF Attempt, JOB_RUNNING, JOB_ERROR
<1>12. faults' = 0 => FirstAttempt(j, u)'
  BY <1>2, <1>3, <1>4, <1>9 DEF FirstAttempt, Idle, Fresh0, Progress
<1>13. AtWork(w)'
  BY <1>1, <1>2, <1>3, <1>4, <1>7, <1>11, <1>12, SamePlace
<1>14. QED
  BY <1>1, <1>2, <1>3, <1>8, <1>10, <1>13, WorkKeepsOthers

\* The first half of a report: from here to the second half the hash is ahead of
\* the row.
LEMMA ProgressKeepsJobs ==
    ASSUME IngestInv, BusInv', SoleInv', NEW w \in Worker, set_progress(w)
    PROVE  IngestInv'
<1>1. At(w, "progress") /\ worker[w].pc = "handling" /\ "progress" \in Steps
  BY DEF set_progress, At, Steps
<1>2. PICK j \in Job, t \in [step : Steps, status : Statuses, sent : 0..MaxEvents] :
         /\ j = JobOf(w) /\ t = task[w] /\ t.step = "progress" /\ t.status \in Statuses
         /\ Attempt(j, t) /\ (faults = 0 => FirstAttempt(j, t))
         /\ row[j] \in Final \/ live[j].status \in Final => FullyReplayed(j)
         /\ Events(j) \in Nat /\ Ending(j) \in {JOB_COMPLETE, JOB_ERROR}
         /\ t.sent \in Nat
  BY <1>1, AtStep
<1>3. /\ UNCHANGED <<last, message, acked, capture, request, faults, done, worker, row, raw>>
  BY DEF set_progress, busVars
<1>4. PICK u : u = [t EXCEPT !.step = "row"]
  OBVIOUS
<1>5. /\ task' = [task EXCEPT ![w] = u] /\ IngestTypeOK
      /\ live' = [live EXCEPT ![j] = Progress(t.status, t.sent)]
  BY <1>2, <1>4 DEF set_progress, IngestInv
<1>6. /\ u \in [step : Steps, status : Statuses, sent : 0..MaxEvents]
      /\ u.step = "row" /\ u.status = t.status /\ u.sent = t.sent
  BY <1>4 DEF Steps
<1>7. task'[w] = u /\ task' \in [Worker -> [step : Steps, status : Statuses, sent : 0..MaxEvents]]
  BY <1>5, <1>6 DEF IngestTypeOK
<1>8. /\ live'[j] = Progress(t.status, t.sent)
      /\ \A i \in Job \ {j} : live'[i] = live[i]
      /\ live' \in [Job -> [status : Statuses \union {Absent}, processed : 0..MaxEvents]]
  <2>1. live \in [Job -> [status : Statuses \union {Absent}, processed : 0..MaxEvents]]
    BY <1>5 DEF IngestTypeOK
  <2>2. Progress(t.status, t.sent) \in [status : Statuses \union {Absent}, processed : 0..MaxEvents]
    BY <1>2 DEF Progress
  <2>3. QED
    BY <1>5, <2>1, <2>2
<1>9. IngestTypeOK'
  BY <1>3, <1>5, <1>7, <1>8 DEF IngestTypeOK, BusInv
<1>10. /\ \A x : Published(j, x)' = Published(j, x)
       /\ \A x : EndsWithFirst(raw[j], x)' = EndsWithFirst(raw[j], x)
       /\ Events(j)' = Events(j)
       /\ Ending(j)' = Ending(j) /\ FullyReplayed(j)' = FullyReplayed(j)
  BY <1>3 DEF Published, EndsWithFirst, Events, Ending, FullyReplayed
<1>11. Attempt(j, u)'
  BY <1>2, <1>3, <1>6, <1>8, <1>10 DEF Attempt, Progress, EndsWithFirst
<1>12. faults' = 0 => FirstAttempt(j, u)'
  BY <1>2, <1>3, <1>6, <1>8 DEF FirstAttempt, Progress
<1>13. AtWork(w)'
  BY <1>1, <1>2, <1>3, <1>6, <1>7, <1>11, <1>12, SamePlace
<1>14. row'[j] \in Final \/ live'[j].status \in Final => FullyReplayed(j)'
  <2>1. live'[j].status = t.status
    BY <1>8 DEF Progress
  <2>2. ASSUME t.status \in Final PROVE FullyReplayed(j)
    BY <1>2, <2>2 DEF Attempt, Final, FullyReplayed, JOB_RUNNING, JOB_COMPLETE, JOB_ERROR
  <2>3. QED
    BY <1>2, <1>3, <1>10, <2>1, <2>2
<1>15. QED
  BY <1>1, <1>2, <1>3, <1>8, <1>9, <1>13, <1>14, WorkKeepsOthers

\* An event goes out: the file's next one, after all that went before.
LEMMA ReplayKeepsJobs ==
    ASSUME IngestInv, BusInv', SoleInv', NEW w \in Worker, _replay(w)
    PROVE  IngestInv'
<1>1. At(w, "replay") /\ worker[w].pc = "handling" /\ "replay" \in Steps
  BY DEF _replay, At, Steps
<1>2. PICK j \in Job, t \in [step : Steps, status : Statuses, sent : 0..MaxEvents] :
         /\ j = JobOf(w) /\ t = task[w] /\ t.step = "replay" /\ t.status \in Statuses
         /\ Attempt(j, t) /\ (faults = 0 => FirstAttempt(j, t))
         /\ row[j] \in Final \/ live[j].status \in Final => FullyReplayed(j)
         /\ Events(j) \in Nat /\ Events(j) \in 0..MaxEvents
         /\ t.sent \in Nat
  BY <1>1, AtStep
<1>3. /\ UNCHANGED <<last, message, acked, capture, request, faults, done, worker, row, live>>
  BY DEF _replay, busVars
<1>4. PICK u, n, s : /\ n = t.sent + 1
                     /\ s = (IF n % ChunkRows = 0 \/ n = Events(j) THEN "progress" ELSE "replay")
                     /\ u = [t EXCEPT !.sent = n, !.step = s]
  OBVIOUS
<1>5. /\ task' = [task EXCEPT ![w] = u] /\ IngestTypeOK
      /\ raw' = [raw EXCEPT ![j] = Append(raw[j], n)]
  <2>1. /\ raw' = [raw EXCEPT ![JobOf(w)] = Append(@, task[w].sent + 1)]
        /\ task' = [task EXCEPT ![w].sent = task[w].sent + 1,
                                ![w].step = IF (task[w].sent + 1) % ChunkRows = 0
                                               \/ task[w].sent + 1 = Events(JobOf(w))
                                            THEN "progress" ELSE "replay"]
    BY DEF _replay
  <2>2. QED
    BY <1>2, <1>4, <2>1 DEF IngestInv, IngestTypeOK
<1>6. /\ t.status = JOB_RUNNING /\ t.sent < Events(j) /\ n \in 1..MaxEvents /\ n <= Events(j)
      /\ row[j] = JOB_RUNNING /\ live[j].status = JOB_RUNNING
      /\ Published(j, t.sent) /\ EndsWithFirst(raw[j], t.sent)
  BY <1>2, <1>4, IngestConstants DEF Attempt
<1>7. /\ u \in [step : Steps, status : Statuses, sent : 0..MaxEvents]
      /\ u.step = s /\ u.status = t.status /\ u.sent = n
      /\ s \in {"progress", "replay"} /\ (s = "replay" => n < Events(j))
  <2>1. s \in {"progress", "replay"} /\ (s = "replay" => n # Events(j))
    BY <1>4
  <2>2. s = "replay" => n < Events(j)
    BY <1>2, <1>6, <2>1, IngestConstants
  <2>3. n \in 0..MaxEvents /\ s \in Steps
    BY <1>6, <2>1 DEF Steps
  <2>4. u.step = s /\ u.status = t.status /\ u.sent = n
    BY <1>4
  <2>5. u \in [step : Steps, status : Statuses, sent : 0..MaxEvents]
    BY <1>4, <2>3
  <2>6. QED
    BY <2>1, <2>2, <2>4, <2>5
<1>8. task'[w] = u /\ task' \in [Worker -> [step : Steps, status : Statuses, sent : 0..MaxEvents]]
  BY <1>5, <1>7 DEF IngestTypeOK
<1>9. /\ raw[j] \in Seq(1..MaxEvents)
      /\ raw'[j] = Append(raw[j], n) /\ \A i \in Job \ {j} : raw'[i] = raw[i]
      /\ raw' \in [Job -> Seq(1..MaxEvents)]
  <2>1. raw \in [Job -> Seq(1..MaxEvents)]
    BY <1>5 DEF IngestTypeOK
  <2>2. Append(raw[j], n) \in Seq(1..MaxEvents)
    BY <1>6, <2>1
  <2>3. QED
    BY <1>5, <2>1, <2>2
<1>10. IngestTypeOK'
  BY <1>3, <1>5, <1>8, <1>9 DEF IngestTypeOK, BusInv
<1>11. EndsWithFirst(raw'[j], n)
  BY <1>2, <1>4, <1>6, <1>9, EndsAppend
<1>12. Published(j, n)'
  <2>1. PICK p, l : p = faults * Events(j) /\ l = Len(raw[j])
    OBVIOUS
  <2>2. p \in Nat /\ l \in Nat
    <3>1. faults \in Nat
      BY <1>5, IngestConstants DEF IngestTypeOK, TypeOK
    <3>2. PICK e \in Nat, f \in Nat : e = Events(j) /\ f = faults
      BY <1>2, <3>1
    <3>3. f * e \in Nat
      OBVIOUS
    <3>4. QED
      BY <1>9, <2>1, <3>2, <3>3
  <2>3. l <= p + t.sent
    BY <1>6, <2>1 DEF Published
  <2>4. Len(raw'[j]) = l + 1 /\ faults' * Events(j)' = p
    BY <1>3, <1>9, <2>1 DEF Events
  <2>5. QED
    BY <1>2, <1>4, <2>2, <2>3, <2>4 DEF Published
<1>13. Events(j)' = Events(j) /\ Ending(j)' = Ending(j)
  BY <1>3 DEF Events, Ending
<1>14. Attempt(j, u)'
  BY <1>2, <1>3, <1>4, <1>6, <1>7, <1>11, <1>12, <1>13 DEF Attempt, EndsWithFirst
<1>15. faults' = 0 => FirstAttempt(j, u)'
  <2> SUFFICES ASSUME faults = 0 PROVE FirstAttempt(j, u)'
    BY <1>3
  <2>1. live[j].processed <= t.sent /\ live[j].processed \in Nat
    <3>1. live[j] \in [status : Statuses \union {Absent}, processed : 0..MaxEvents]
      BY <1>5 DEF IngestTypeOK
    <3>2. QED
      BY <1>2, <3>1, IngestConstants DEF FirstAttempt
  <2>2. live[j].processed <= n
    BY <1>2, <1>4, <2>1
  <2>3. QED
    BY <1>3, <1>6, <1>7, <2>2 DEF FirstAttempt
<1>16. AtWork(w)'
  BY <1>1, <1>2, <1>3, <1>7, <1>8, <1>14, <1>15, SamePlace
<1>17. row'[j] \notin Final /\ live'[j].status \notin Final
  BY <1>3, <1>6 DEF Final, JOB_RUNNING, JOB_COMPLETE, JOB_ERROR
<1>18. QED
  BY <1>1, <1>2, <1>3, <1>9, <1>10, <1>16, <1>17, WorkKeepsOthers

\* The second half of a report: the stores agree again.  After the last one the
\* handler returns.
LEMMA RowKeepsJobs ==
    ASSUME IngestInv, BusInv', SoleInv', NEW w \in Worker, _update_row(w)
    PROVE  IngestInv'
<1>1. At(w, "row") /\ worker[w].pc = "handling" /\ "row" \in Steps
  BY DEF _update_row, At, Steps
<1>2. PICK j \in Job, t \in [step : Steps, status : Statuses, sent : 0..MaxEvents] :
         /\ j = JobOf(w) /\ t = task[w] /\ t.step = "row" /\ t.status \in Statuses
         /\ Attempt(j, t) /\ (faults = 0 => FirstAttempt(j, t))
         /\ row[j] \in Final \/ live[j].status \in Final => FullyReplayed(j)
         /\ Events(j) \in Nat /\ Ending(j) \in {JOB_COMPLETE, JOB_ERROR}
         /\ t.sent \in Nat
  BY <1>1, AtStep
<1>3. /\ UNCHANGED <<last, message, acked, capture, request, faults, live, raw>>
      /\ row' = [row EXCEPT ![j] = t.status] /\ IngestTypeOK
  BY <1>2 DEF _update_row, busVars, HandlerReturns, redisVars, IngestInv
<1>4. /\ live[j] = Progress(t.status, t.sent) /\ t.sent <= Events(j)
      /\ Published(j, t.sent) /\ EndsWithFirst(raw[j], t.sent)
      /\ t.status = JOB_RUNNING \/ (t.status = Ending(j) /\ t.sent = Events(j))
  BY <1>2 DEF Attempt
<1>5. /\ row'[j] = t.status /\ \A i \in Job \ {j} : row'[i] = row[i]
      /\ row' \in [Job -> Statuses \union {Absent}]
  BY <1>2, <1>3 DEF IngestTypeOK
<1>6. /\ \A x : Published(j, x)' = Published(j, x)
      /\ \A x : EndsWithFirst(raw[j], x)' = EndsWithFirst(raw[j], x)
      /\ Events(j)' = Events(j)
      /\ Ending(j)' = Ending(j) /\ FullyReplayed(j)' = FullyReplayed(j)
  BY <1>3 DEF Published, EndsWithFirst, Events, Ending, FullyReplayed
<1>7. row'[j] \in Final \/ live'[j].status \in Final => FullyReplayed(j)'
  <2>1. live'[j].status = t.status
    BY <1>3, <1>4 DEF Progress
  <2>2. ASSUME t.status \in Final PROVE FullyReplayed(j)
    BY <1>4, <2>2 DEF Final, FullyReplayed, JOB_RUNNING, JOB_COMPLETE, JOB_ERROR
  <2>3. QED
    BY <1>5, <1>6, <2>1, <2>2
<1>8. CASE t.status = JOB_RUNNING
  <2>1. PICK u : u = Resume(j, t)
    OBVIOUS
  <2>2. task' = [task EXCEPT ![w] = u] /\ UNCHANGED <<worker, done>>
    BY <1>2, <1>8, <2>1 DEF _update_row, busVars
  <2>3. /\ t.sent < Events(j) =>
              u.step = "replay" /\ u.status = JOB_RUNNING /\ u.sent = t.sent
        /\ ~(t.sent < Events(j)) =>
              u.step = "progress" /\ u.status = Ending(j) /\ u.sent = t.sent
    BY <1>8, <2>1 DEF Resume
  <2>4. u \in [step : Steps, status : Statuses, sent : 0..MaxEvents]
    <3>1. {"replay", "progress"} \subseteq Steps /\ Ending(j) \in Statuses
      BY <1>2 DEF Steps, Statuses
    <3>2. u \in {[t EXCEPT !.step = "replay"],
                 [t EXCEPT !.step = "progress", !.status = Ending(j)]}
      BY <2>1 DEF Resume
    <3>3. QED
      BY <3>1, <3>2
  <2>5. task'[w] = u /\ task' \in [Worker -> [step : Steps, status : Statuses, sent : 0..MaxEvents]]
    BY <1>3, <2>2, <2>4 DEF IngestTypeOK
  <2>6. IngestTypeOK'
    BY <1>3, <1>5, <2>5 DEF IngestTypeOK, BusInv
  <2>7. row'[j] = JOB_RUNNING /\ live'[j].status = JOB_RUNNING /\ live'[j].processed = t.sent
    BY <1>3, <1>4, <1>5, <1>8 DEF Progress
  <2>8. u.sent = t.sent /\ u.step \in {"replay", "progress"}
        /\ (u.step = "progress" => u.status = Ending(j) /\ t.sent = Events(j))
        /\ (u.step = "replay" => u.status = JOB_RUNNING /\ t.sent < Events(j))
    BY <1>2, <1>4, <2>3
  <2>9. Attempt(j, u)'
    BY <1>2, <1>3, <1>4, <1>6, <2>7, <2>8 DEF Attempt, EndsWithFirst
  <2>10. faults' = 0 => FirstAttempt(j, u)'
    BY <1>2, <2>7, <2>8 DEF FirstAttempt
  <2>11. AtWork(w)'
    BY <1>1, <1>2, <1>3, <2>2, <2>5, <2>8, <2>9, <2>10, SamePlace
  <2>12. QED
    BY <1>1, <1>2, <1>3, <1>5, <1>7, <2>2, <2>6, <2>11, WorkKeepsOthers
<1>9. CASE t.status # JOB_RUNNING
  <2>1. task' = [task EXCEPT ![w] = Idle] /\ HandlerReturns(w)
    BY <1>2, <1>9 DEF _update_row
  <2>2. Idle \in [step : Steps, status : Statuses, sent : 0..MaxEvents]
    BY IngestConstants DEF Idle, Steps, Statuses
  <2>3. task'[w] = Idle /\ task' \in [Worker -> [step : Steps, status : Statuses, sent : 0..MaxEvents]]
    BY <1>3, <2>1, <2>2 DEF IngestTypeOK
  <2>4. IngestTypeOK'
    BY <1>3, <1>5, <2>3 DEF IngestTypeOK, BusInv
  <2>5. worker'[w].pc = "ack" /\ worker'[w].now = worker[w].now /\ done \subseteq done'
    <3>1. worker \in [Worker -> Process]
      BY DEF IngestInv, BusInv, TypeOK
    <3>2. worker' = [worker EXCEPT ![w].pc = "ack"] /\ done' = done \union {worker[w].now}
      BY <2>1 DEF HandlerReturns
    <3>3. QED
      BY <3>1, <3>2 DEF Process
  <2>6. Over(j)'
    BY <1>3, <1>4, <1>5, <1>6, <1>9 DEF Over, Progress
  <2>7. JobOf(w)' = j
    BY <1>2, <1>3, <2>5 DEF JobOf
  <2>8. AtWork(w)'
    BY <2>3, <2>5, <2>6, <2>7 DEF AtWork
  <2>9. QED
    BY <1>1, <1>2, <1>3, <1>5, <1>7, <2>4, <2>5, <2>8, WorkKeepsOthers
<1>10. QED
  BY <1>8, <1>9

\* A process that fails an entry, or dies, stands before another one, or none.
LEMMA FailureKeepsJobs ==
    ASSUME IngestInv, BusInv', SoleInv', NEW w \in Worker, Raise(w) \/ Die(w)
    PROVE  IngestInv'
<1>1. worker \in [Worker -> Process] /\ worker[w] \in Process /\ Poison = {}
  BY IngestConstants DEF IngestInv, BusInv, TypeOK
<1>2. /\ UNCHANGED jobVars /\ UNCHANGED <<last, acked, done>> /\ faults' = faults + 1
      /\ task' = [task EXCEPT ![w] = Idle]
  BY <1>1 DEF Raise, Die, HandlerRaises, Crash, redisVars
<1>3. worker'[w].pc # "ack"
  <2>1. worker'[w] = Down \/ worker'[w] = AfterDispatch(worker[w])
    BY <1>1 DEF Raise, Die, HandlerRaises, Crash
  <2>2. QED
    BY <1>1, <2>1, NextEntryGoes, DownIsIdle DEF AfterDispatch
<1>4. QED
  BY <1>2, <1>3, AttemptEnds

\* Before the first request nothing is stored, queued or published.
LEMMA InitIngestInv == IngestInit => IngestInv
<1> SUFFICES ASSUME IngestInit PROVE IngestInv
  OBVIOUS
<1>1. BusInv /\ SoleInv
  BY InitBusInv, InitSoleInv DEF IngestInit
<1>2. last = 0 /\ acked = {} /\ \A w \in Worker : worker[w].pc = "down"
  BY DownIsIdle DEF IngestInit, Init
<1>3. IngestTypeOK
  <2>1. Idle \in [step : Steps, status : Statuses, sent : 0..MaxEvents]
    BY IngestConstants DEF Idle, Steps, Statuses
  <2>2. Progress(Absent, 0) \in [status : Statuses \union {Absent}, processed : 0..MaxEvents]
    BY IngestConstants DEF Progress
  <2>3. raw \in [Job -> Seq(1..MaxEvents)] /\ message \in Seq(Job) /\ Len(message) = 0
    BY DEF IngestInit
  <2>4. QED
    BY <1>1, <1>2, <2>1, <2>2, <2>3 DEF IngestInit, IngestTypeOK, BusInv
<1>4. QueuedOnce
  BY <1>2 DEF IngestInit, QueuedOnce
<1>5. FinalMeansReplayed
  BY DEF IngestInit, FinalMeansReplayed, Final, Absent, Progress, JOB_COMPLETE, JOB_ERROR
<1>6. \A w \in Worker : AtWork(w)
  BY <1>2 DEF IngestInit, AtWork
<1>7. QED
  BY <1>1, <1>2, <1>3, <1>4, <1>5, <1>6 DEF IngestInv

\* Every step of an upload, of its replay and of the bus below keeps all this.
LEMMA IngestNextKeeps == IngestInv /\ [IngestNext]_vars => IngestInv'
<1> SUFFICES ASSUME IngestInv, [IngestNext]_vars PROVE IngestInv'
  OBVIOUS
<1>1. BusInv' /\ SoleInv'
  BY IngestStepOfBus
<1>2. CASE BusOnly
  BY <1>1, <1>2, BusEventKeepsJobs, FetchKeepsJobs DEF BusOnly
<1>3. ASSUME NEW j \in Job, CommitRow(j) \/ init_progress(j) \/ PublishJob(j) \/ RequestFails(j)
      PROVE  IngestInv'
  BY <1>1, <1>3, RequestKeepsJobs, PublishKeepsJobs
<1>4. ASSUME NEW w \in Worker, \/ Begin(w) \/ set_progress(w) \/ _update_row(w) \/ _replay(w)
                               \/ Raise(w) \/ Die(w)
      PROVE  IngestInv'
  BY <1>1, <1>4, BeginKeepsJobs, ProgressKeepsJobs, RowKeepsJobs, ReplayKeepsJobs, FailureKeepsJobs
<1>5. CASE UNCHANGED vars
  BY <1>1, <1>5, BusEventKeepsJobs DEF vars
<1>6. QED
  BY <1>2, <1>3, <1>4, <1>5 DEF IngestNext

\* The invariant holds in every reachable state.
THEOREM IngestInvariant == IngestSpec => []IngestInv
BY InitIngestInv, IngestNextKeeps, PTL DEF IngestSpec

\* With every upload, retry and fault: a job whose message is settled is over in
\* both stores, its last attempt published its whole file, and faults account for
\* every replay (worker.py, run_job and _report).
THEOREM JobsEndTruthfullyHolds == IngestSpec => []JobsEndTruthfully
<1>1. ASSUME IngestInv PROVE JobsEndTruthfully
  <2>1. IngestTypeOK /\ FinalMeansReplayed
    BY <1>1 DEF IngestInv
  <2>2. AckedIsFinal
    BY <1>1 DEF IngestInv, AckedIsFinal, Over
  <2>3. ASSUME NEW j \in Job PROVE Len(raw[j]) <= (1 + faults) * Events(j)
    <3>1. Events(j) \in Nat /\ faults \in Nat /\ Len(raw[j]) \in Nat
      BY <1>1, <2>1, FileFacts, IngestConstants DEF IngestTypeOK, TypeOK
    <3>2. PICK e \in Nat, f \in Nat, n \in Nat : e = Events(j) /\ f = faults /\ n = Len(raw[j])
      BY <3>1
    <3>3. f * e \in Nat /\ (1 + f) * e = f * e + e
      OBVIOUS
    <3>4. n <= f * e + e
      <4>1. CASE request[j] # "queued"
        <5>1. n = 0
          BY <1>1, <3>2, <4>1 DEF IngestInv, QueuedOnce
        <5>2. QED
          BY <3>3, <5>1
      <4>2. CASE request[j] = "queued"
        <5>1. PICK m \in 1..last : message[m] = j
          BY <1>1, <4>2 DEF IngestInv, QueuedOnce
        <5>2. \E x \in 0..e : Published(j, x)
          <6>1. CASE m \in acked
            BY <1>1, <3>2, <5>1, <6>1 DEF IngestInv, Over
          <6>2. CASE Waiting(m)
            BY <3>2, <5>1, <6>2 DEF Waiting
          <6>3. ASSUME NEW w \in Worker, worker[w].pc \in {"handling", "ack"}, worker[w].now = m
                PROVE  \E x \in 0..e : Published(j, x)
            <7>1. JobOf(w) = j /\ task[w].sent \in Nat
              BY <1>1, <5>1, <6>3, WorkFacts, IngestConstants DEF JobOf
            <7>2. CASE worker[w].pc = "handling"
              BY <1>1, <3>2, <7>1, <7>2 DEF IngestInv, AtWork, Attempt
            <7>3. CASE worker[w].pc = "ack"
              BY <1>1, <3>2, <7>1, <7>3 DEF IngestInv, AtWork, Over
            <7>4. QED
              BY <6>3, <7>2, <7>3
          <6>4. QED
            BY <1>1, <6>1, <6>2, <6>3 DEF IngestInv, InHand
        <5>3. PICK x \in 0..e, p \in Nat : Published(j, x) /\ p = f * e
          BY <3>3, <5>2
        <5>4. n <= p + x
          BY <3>2, <5>3 DEF Published
        <5>5. QED
          BY <5>3, <5>4
      <4>3. QED
        BY <4>1, <4>2
    <3>5. QED
      BY <3>2, <3>3, <3>4
  <2>4. QED
    BY <2>1, <2>2, <2>3 DEF JobsEndTruthfully, ReplaysBoundedByFaults
<1>2. QED
  BY <1>1, IngestInvariant, PTL

\* The order in which a client sees a job move.
LEMMA RankFacts ==
    /\ Rank(Absent) = 0 /\ Rank(JOB_QUEUED) = 1 /\ Rank(JOB_RUNNING) = 2
    /\ Rank(JOB_COMPLETE) = 3 /\ Rank(JOB_ERROR) = 3
BY DEF Rank, Final, Absent, JOB_QUEUED, JOB_RUNNING, JOB_COMPLETE, JOB_ERROR

\* A step moves what a client polls, and the row, forward or not at all.
Forward(j) ==
    /\ Rank(View(j)'.status) >= Rank(View(j).status)
    /\ View(j)'.processed >= View(j).processed
    /\ row'[j] # row[j] => Rank(row'[j]) > Rank(row[j])

\* A job that a step leaves alone does not move.
LEMMA StillForward ==
    ASSUME IngestInv, NEW j \in Job, row'[j] = row[j], live'[j] = live[j]
    PROVE  Forward(j)
<1>1. /\ live[j] \in [status : Statuses \union {Absent}, processed : 0..MaxEvents]
      /\ row[j] \in Statuses \union {Absent}
  BY DEF IngestInv, IngestTypeOK
<1>2. View(j)' = View(j)
  BY DEF View, Progress
<1>3. /\ View(j).status \in Statuses \union {Absent} /\ View(j).processed \in Nat
  BY <1>1, IngestConstants DEF View, Progress
<1>4. Rank(View(j).status) \in Nat
  BY <1>3, RankFacts DEF Statuses
<1>5. QED
  BY <1>2, <1>3, <1>4 DEF Forward

\* The request moves its job from absent to queued.
LEMMA RequestForward ==
    ASSUME IngestInv, NEW j \in Job, CommitRow(j) \/ init_progress(j)
    PROVE  \A i \in Job : Forward(i)
<1>1. /\ row \in [Job -> Statuses \union {Absent}]
      /\ live \in [Job -> [status : Statuses \union {Absent}, processed : 0..MaxEvents]]
  BY DEF IngestInv, IngestTypeOK
<1>2. \A i \in Job \ {j} : row'[i] = row[i] /\ live'[i] = live[i]
  BY <1>1 DEF CommitRow, init_progress
<1>3. CASE CommitRow(j)
  <2>1. row[j] = Absent /\ live[j] = Progress(Absent, 0)
    BY <1>3 DEF CommitRow, IngestInv, QueuedOnce
  <2>2. row'[j] = JOB_QUEUED /\ live'[j] = live[j]
    BY <1>1, <1>3 DEF CommitRow
  <2>3. View(j) = Progress(Absent, 0) /\ View(j)' = Progress(JOB_QUEUED, 0)
    BY <2>1, <2>2 DEF View, Progress
  <2>4. Forward(j)
    BY <2>1, <2>2, <2>3, RankFacts DEF Forward, Progress
  <2>5. QED
    BY <1>2, <2>4, StillForward
<1>4. CASE init_progress(j)
  <2>1. row[j] = JOB_QUEUED /\ live[j] = Progress(Absent, 0)
    BY <1>4 DEF init_progress, IngestInv, QueuedOnce
  <2>2. row'[j] = row[j] /\ live'[j] = Progress(JOB_QUEUED, 0)
    BY <1>1, <1>4 DEF init_progress
  <2>3. View(j) = Progress(JOB_QUEUED, 0) /\ View(j)' = Progress(JOB_QUEUED, 0)
    BY <2>1, <2>2 DEF View, Progress, Absent, JOB_QUEUED
  <2>4. Forward(j)
    BY <2>1, <2>2, <2>3, RankFacts DEF Forward, Progress
  <2>5. QED
    BY <1>2, <2>4, StillForward
<1>5. QED
  BY <1>3, <1>4

\* A report of the first attempt moves its job on.
LEMMA ReportForward ==
    ASSUME IngestInv, NEW w \in Worker, set_progress(w) \/ _update_row(w), faults = 0
    PROVE  \A i \in Job : Forward(i)
<1>1. /\ row \in [Job -> Statuses \union {Absent}]
      /\ live \in [Job -> [status : Statuses \union {Absent}, processed : 0..MaxEvents]]
  BY DEF IngestInv, IngestTypeOK
<1>2. \E s \in {"progress", "row"} : s \in Steps /\ At(w, s)
                                     /\ (s = "progress" <=> set_progress(w))
  BY DEF set_progress, _update_row, At, Steps
<1>3. PICK s \in {"progress", "row"},
           j \in Job, t \in [step : Steps, status : Statuses, sent : 0..MaxEvents] :
         /\ j = JobOf(w) /\ t = task[w] /\ t.step = s
         /\ Attempt(j, t) /\ FirstAttempt(j, t)
         /\ Ending(j) \in {JOB_COMPLETE, JOB_ERROR}
         /\ t.sent \in Nat
         /\ (s = "progress" <=> set_progress(w))
  BY <1>2, AtStep
<1>4. \A i \in Job \ {j} : row'[i] = row[i] /\ live'[i] = live[i]
  BY <1>1, <1>3 DEF set_progress, _update_row
<1>5. t.status \in {JOB_RUNNING, JOB_COMPLETE, JOB_ERROR} /\ row[j] \in {JOB_QUEUED, JOB_RUNNING}
  BY <1>3 DEF Attempt, FirstAttempt
<1>6. CASE set_progress(w)
  <2>1. live'[j] = Progress(t.status, t.sent) /\ row'[j] = row[j]
    BY <1>1, <1>3, <1>6 DEF set_progress
  <2>2. live[j].status \in {JOB_QUEUED, JOB_RUNNING} /\ live[j].processed <= t.sent
    BY <1>3, <1>6 DEF FirstAttempt
  <2>3. View(j)' = Progress(t.status, t.sent) /\ View(j) = live[j]
    BY <1>5, <2>1, <2>2
       DEF View, Progress, Absent, JOB_QUEUED, JOB_RUNNING, JOB_COMPLETE, JOB_ERROR
  <2>4. /\ View(j)'.status = t.status /\ View(j)'.processed = t.sent
        /\ View(j).status = live[j].status /\ View(j).processed = live[j].processed
        /\ live[j].processed \in Int
    BY <1>1, <2>3, IngestConstants DEF Progress
  <2>5. Rank(t.status) >= Rank(live[j].status)
    BY <1>5, <2>2, RankFacts
  <2>6. Forward(j)
    BY <1>3, <2>1, <2>2, <2>4, <2>5 DEF Forward
  <2>7. QED
    BY <1>4, <2>6, StillForward
<1>7. CASE _update_row(w)
  <2>1. row'[j] = t.status /\ live'[j] = live[j]
    BY <1>1, <1>3, <1>7 DEF _update_row
  <2>2. s = "row"
    BY <1>3, <1>7 DEF set_progress, _update_row, At
  <2>3. live[j] = Progress(t.status, t.sent)
    BY <1>3, <2>2 DEF Attempt
  <2>4. View(j)' = live[j] /\ View(j) = live[j]
    BY <1>5, <2>1, <2>3
       DEF View, Progress, Absent, JOB_QUEUED, JOB_RUNNING, JOB_COMPLETE, JOB_ERROR
  <2>5. live[j].status = t.status /\ live[j].processed = t.sent /\ Rank(t.status) \in Nat
    BY <1>5, <2>3, RankFacts DEF Progress
  <2>6. t.status # row[j] => Rank(t.status) > Rank(row[j])
    BY <1>5, RankFacts
  <2>7. Forward(j)
    BY <1>3, <2>1, <2>4, <2>5, <2>6 DEF Forward
  <2>8. QED
    BY <1>4, <2>7, StillForward
<1>8. QED
  BY <1>3, <1>6, <1>7

\* Until something fails, what a client polls and what the row says move forward
\* only (api/ingest.py, _merge; worker.py, _report).
THEOREM ReportsMoveForwardHolds == IngestSpec => ReportsMoveForward
<1>1. ASSUME IngestInv, [IngestNext]_vars, faults' = 0 PROVE \A j \in Job : Forward(j)
  <2>1. faults = 0
    <3>1. faults \in Nat
      BY <1>1, IngestConstants DEF IngestInv, BusInv, TypeOK
    <3>2. faults' = faults \/ faults' = faults + 1
      BY <1>1 DEF vars, busVars, redisVars, IngestNext, BusOnly, GoIdle, Start, Signal, ReclaimDue,
         LoopStep, Reclaim, Read, Ack, CommitRow, init_progress, PublishJob, Publish,
         RequestFails, Begin, set_progress, _update_row, HandlerReturns, _replay, Raise,
         HandlerRaises, Die, Crash
    <3>3. QED
      BY <1>1, <3>1, <3>2
  <2>2. CASE UNCHANGED <<row, live>>
    BY <1>1, <2>2, StillForward
  <2>3. QED
    BY <1>1, <2>1, <2>2, RequestForward, ReportForward
       DEF IngestNext, BusOnly, ingestVars, jobVars, vars, PublishJob, RequestFails, Begin,
           _replay, Raise, Die
<1>2. IngestInv /\ [IngestNext]_vars =>
        [faults' = 0 => \A j \in Job :
            /\ Rank(View(j)'.status) >= Rank(View(j).status)
            /\ View(j)'.processed >= View(j).processed
            /\ row'[j] # row[j] => Rank(row'[j]) > Rank(row[j])]_vars
  BY <1>1 DEF Forward
<1>3. QED
  BY <1>2, IngestInvariant, PTL DEF IngestSpec, ReportsMoveForward
=============================================================================
