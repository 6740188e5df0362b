--------------------------- MODULE FeaturesProofs ---------------------------
(***************************************************************************)
(* Proofs about the features worker and its watchdog, for every number of  *)
(* hosts, events, windows, faults and stalls: what a close has done by     *)
(* each of its steps, that a repeated close leaves no hole in a host's     *)
(* time axis, and that a fault counts an event twice at most once.  They   *)
(* build on BusInv and SoleInv, since every step is a step of the bus.     *)
(***************************************************************************)
EXTENDS Features, StreamBusProofs, SequenceTheorems

-----------------------------------------------------------------------------
\* The n windows that end with t, as `_fill_gap` returns them.
Run(t, n) == [i \in 1..n |-> t - n + i]

\* How many windows are due at the close of t, when `from` was the last.
DueLen(from, t) ==
    IF from = NoWindow \/ t - from - 1 <= 0 \/ t - from - 1 > MaxGap THEN 1 ELSE t - from

\* Constants the proofs use everywhere.
LEMMA FeaturesConstants ==
    /\ OneConsumer /\ MaxGap \in Nat /\ MaxFaults \in Nat /\ MaxPublished \in Nat
    /\ Host \subseteq Nat /\ \A t \in Ts : t \in Nat /\ t > 0
    /\ \A t, u \in Ts : t..u \subseteq Ts
BY FeaturesAssumption, BusAssumption DEF FeaturesAssumption, BusAssumption, OneConsumer

\* A run from its head and its tail.
LEMMA RunFacts ==
    ASSUME NEW t \in Int, NEW n \in Nat
    PROVE  /\ Run(t, n) \in Seq(Int) /\ Len(Run(t, n)) = n
           /\ Run(t, n) = <<>> <=> n = 0
           /\ n > 0 => Head(Run(t, n)) = t - n + 1 /\ Tail(Run(t, n)) = Run(t, n - 1)
<1>1. Run(t, n) \in Seq(Int) /\ Len(Run(t, n)) = n
  BY DEF Run
<1>2. Run(t, n) = <<>> <=> n = 0
  BY <1>1, EmptySeq
<1>3. ASSUME n > 0 PROVE Head(Run(t, n)) = t - n + 1 /\ Tail(Run(t, n)) = Run(t, n - 1)
  <2>1. Head(Run(t, n)) = t - n + 1
    BY <1>1, <1>3 DEF Run
  <2>2. PICK s, r : s = Tail(Run(t, n)) /\ r = Run(t, n - 1)
    OBVIOUS
  <2>3. s \in Seq(Int) /\ Len(s) = n - 1 /\ \A i \in 1..n - 1 : s[i] = t - n + (i + 1)
    <3>1. PICK q : q = Run(t, n)
      OBVIOUS
    <3>2. q \in Seq(Int) /\ Len(q) = n /\ \A i \in 1..n : q[i] = t - n + i
      BY <1>1, <3>1 DEF Run
    <3>3. s \in Seq(Int) /\ Len(s) = n - 1 /\ \A i \in 1..n - 1 : s[i] = q[i + 1]
      BY <1>3, <2>2, <3>1, <3>2
    <3>4. \A i \in 1..n - 1 : i + 1 \in 1..n
      BY <1>3
    <3>5. QED
      BY <3>2, <3>3, <3>4
  <2>4. r \in Seq(Int) /\ Len(r) = n - 1 /\ \A i \in 1..n - 1 : r[i] = t - (n - 1) + i
    BY <1>3, <2>2 DEF Run
  <2>5. \A i \in 1..n - 1 : s[i] = r[i]
    BY <2>3, <2>4
  <2>6. s = r
    BY <2>3, <2>4, <2>5, SeqEqual
  <2>7. QED
    BY <2>1, <2>2, <2>6
<1>4. QED
  BY <1>1, <1>2, <1>3

\* What is due is a run that ends with the window at hand, of windows that exist;
\* it begins next to the last one sent, unless that was too far back or not behind.
LEMMA DueIsRun ==
    ASSUME NEW from \in Ts \union {NoWindow}, NEW t \in Ts
    PROVE  /\ Due(from, t) = Run(t, DueLen(from, t))
           /\ DueLen(from, t) \in Nat /\ DueLen(from, t) > 0
           /\ \/ DueLen(from, t) = t - from /\ from \in Ts /\ from < t
              \/ DueLen(from, t) = 1 /\ (from = NoWindow \/ from >= t \/ t - from > MaxGap + 1)
           /\ \A n \in 0..DueLen(from, t) :
                 n > 0 => t - n + 1 \in Ts
           /\ \A n \in 0..DueLen(from, t) : Run(t, n) \in Seq(Ts)
<1>1. /\ t \in Nat /\ t > 0 /\ MaxGap \in Nat /\ from \in Nat
      /\ from # NoWindow => from \in Ts
  BY FeaturesConstants DEF NoWindow
<1>2. CASE from = NoWindow \/ t - from - 1 <= 0 \/ t - from - 1 > MaxGap
  <2>1. Due(from, t) = <<t>> /\ DueLen(from, t) = 1
    BY <1>2 DEF Due, DueLen
  <2>2. Run(t, 1) \in Seq(Int) /\ Len(Run(t, 1)) = 1 /\ Run(t, 1)[1] = t
    BY <1>1 DEF Run
  <2>3. <<t>> \in Seq(Int) /\ Len(<<t>>) = 1 /\ <<t>>[1] = t
    BY <1>1
  <2>4. \A i \in 1..1 : Run(t, 1)[i] = <<t>>[i]
    BY <2>2, <2>3
  <2>5. Run(t, 1) = <<t>>
    BY <2>2, <2>3, <2>4, SeqEqual
  <2>6. Run(t, 0) = <<>>
    BY <1>1, RunFacts
  <2>7. \/ 1 = t - from /\ from \in Ts /\ from < t
        \/ from = NoWindow \/ from >= t \/ t - from > MaxGap + 1
    <3>1. CASE t - from - 1 <= 0
      <4>1. from >= t \/ from = t - 1
        BY <1>1, <3>1
      <4>2. CASE from = t - 1
        BY <1>1, <4>2
      <4>3. QED
        BY <4>1, <4>2
    <3>2. CASE t - from - 1 > MaxGap
      BY <1>1, <3>2
    <3>3. QED
      BY <1>2, <3>1, <3>2
  <2>8. \A n \in 0..1 : (n > 0 => t - n + 1 \in Ts) /\ Run(t, n) \in Seq(Ts)
    <3>1. Run(t, 1) \in Seq(Ts) /\ Run(t, 0) \in Seq(Ts)
      <4>1. <<t>> \in Seq(Ts) /\ <<>> \in Seq(Ts)
        OBVIOUS
      <4>2. QED
        BY <2>5, <2>6, <4>1, Zenon
    <3>2. t - 1 + 1 = t
      BY <1>1
    <3>3. \A n \in 0..1 : n = 0 \/ n = 1
      OBVIOUS
    <3>4. QED
      BY <3>1, <3>2, <3>3
  <2>9. QED
    BY <2>1, <2>5, <2>7, <2>8
<1>3. CASE ~(from = NoWindow \/ t - from - 1 <= 0 \/ t - from - 1 > MaxGap)
  <2>1. /\ Due(from, t) = [i \in 1..(t - from - 1) + 1 |-> from + i]
        /\ DueLen(from, t) = t - from
    BY <1>3 DEF Due, DueLen
  <2>2. from \in Ts /\ from < t /\ t - from \in Nat /\ t - from > 0
    BY <1>1, <1>3
  <2>3. Due(from, t) = Run(t, t - from)
    <3>1. (t - from - 1) + 1 = t - from
      BY <1>1
    <3>2. \A i \in 1..t - from : from + i = t - (t - from) + i
      BY <1>1
    <3>3. QED
      BY <2>1, <3>1, <3>2 DEF Run
  <2>4. \A u \in from..t : u \in Ts
    BY <2>2, FeaturesConstants
  <2>5. \A n \in 0..t - from : n > 0 => t - n + 1 \in Ts
    BY <1>1, <2>2, <2>4
  <2>6. ASSUME NEW n \in 0..t - from PROVE Run(t, n) \in Seq(Ts)
    <3>1. n \in Nat /\ n <= t - from
      BY <1>1, <2>2
    <3>2. \A i \in 1..n : t - n + i \in from..t
      BY <1>1, <3>1
    <3>3. QED
      BY <2>4, <3>1, <3>2 DEF Run
  <2>7. QED
    BY <2>1, <2>2, <2>3, <2>5, <2>6
<1>4. QED
  BY <1>2, <1>3

\* A close that has the last n windows up to its own still to send for host h.
ToEmit(e, h, n) ==
    /\ e.todo = Run(e.win, n)
    /\ n = 0 <=> e.phase = "history"
    /\ n = 1 <=> e.phase = "peers"
    /\ n > 1 <=> e.phase = "save"
    /\ n > 1 => e.vector = zero_features(h, e.win - n + 1)

SameClose(e, j) == e.by = j.by /\ e.win = j.win /\ e.hosts = j.hosts

\* The host at hand is one of those to be emitted.
LEMMA HostAtHand ==
    ASSUME NEW S \in SUBSET Host, S # {}
    PROVE  Least(S) \in S /\ Least(S) \in Host
<1>1. S \in SUBSET Nat
  BY FeaturesConstants
<1>2. QED
  BY <1>1, LeastIsMember

LEMMA ZeroIsVector ==
    ASSUME NEW h \in Host, NEW t \in Ts
    PROVE  /\ zero_features(h, t) \in Vector
           /\ zero_features(h, t).host = h /\ zero_features(h, t).ts = t
           /\ zero_features(h, t).events = 0
BY FeaturesConstants DEF zero_features, Vector

\* The next window of the host at hand.
LEMMA NextVectorIs ==
    ASSUME NEW j \in Job, j.hosts # {}, NEW n \in Nat, j.todo = Run(j.win, n),
           n > 0 => j.win - n + 1 \in Ts
    PROVE  /\ NextVector(j) \in Job /\ SameClose(NextVector(j), j)
           /\ ToEmit(NextVector(j), Least(j.hosts), n)
<1>1. PICK e, h : e = NextVector(j) /\ h = Least(j.hosts)
  OBVIOUS
<1>2. h \in Host /\ j.win \in Ts /\ j.win \in Int
  BY <1>1, HostAtHand, FeaturesConstants DEF Job
<1>3. /\ j.todo = <<>> <=> n = 0
      /\ n > 0 => (Head(j.todo) = j.win <=> n = 1) /\ Head(j.todo) = j.win - n + 1
  <2>1. PICK t : t = j.win
    OBVIOUS
  <2>2. (Run(t, n) = <<>> <=> n = 0) /\ (n > 0 => Head(Run(t, n)) = t - n + 1)
    BY <1>2, <2>1, RunFacts
  <2>3. t - n + 1 = t <=> n = 1
    BY <1>2, <2>1
  <2>4. QED
    BY <2>1, <2>2, <2>3
<1>4. CASE n = 0
  <2>1. e = [j EXCEPT !.phase = "history"]
    BY <1>1, <1>3, <1>4 DEF NextVector
  <2>2. e \in Job /\ SameClose(e, j) /\ e.todo = j.todo /\ e.phase = "history"
    BY <2>1 DEF Job, Phases, SameClose
  <2>3. QED
    BY <1>1, <1>4, <2>2 DEF ToEmit, SameClose
<1>5. CASE n = 1
  <2>1. e = [j EXCEPT !.phase = "peers"]
    BY <1>1, <1>3, <1>5 DEF NextVector
  <2>2. e \in Job /\ SameClose(e, j) /\ e.todo = j.todo /\ e.phase = "peers"
    BY <2>1 DEF Job, Phases, SameClose
  <2>3. QED
    BY <1>1, <1>5, <2>2 DEF ToEmit, SameClose
<1>6. CASE n > 1
  <2>1. PICK v : v = zero_features(h, j.win - n + 1)
    OBVIOUS
  <2>2. v \in Vector
    BY <1>2, <1>6, <2>1, ZeroIsVector
  <2>3. e = [j EXCEPT !.phase = "save", !.vector = v]
    <3>1. j.todo # <<>> /\ Head(j.todo) # j.win
      BY <1>3, <1>6
    <3>2. v = zero_features(Least(j.hosts), Head(j.todo))
      <4>1. Head(j.todo) = j.win - n + 1
        BY <1>3, <1>6
      <4>2. QED
        BY <1>1, <2>1, <4>1
    <3>3. QED
      BY <1>1, <3>1, <3>2 DEF NextVector
  <2>4. e \in Job /\ SameClose(e, j) /\ e.todo = j.todo /\ e.phase = "save" /\ e.vector = v
    BY <2>2, <2>3 DEF Job, Phases, SameClose
  <2>5. QED
    BY <1>1, <1>6, <2>1, <2>4 DEF ToEmit, SameClose
<1>7. QED
  BY <1>4, <1>5, <1>6

\* The next host, with all that is due for it.
LEMMA NextHostIs ==
    ASSUME NEW j \in Job, NEW last_ts \in [Host -> Ts \union {NoWindow}]
    PROVE  /\ NextHost(j, last_ts) \in Job /\ SameClose(NextHost(j, last_ts), j)
           /\ j.hosts = {} <=> NextHost(j, last_ts).phase = "discard"
           /\ j.hosts # {} => ToEmit(NextHost(j, last_ts), Least(j.hosts),
                                     DueLen(last_ts[Least(j.hosts)], j.win))
<1>1. CASE j.hosts = {}
  <2>1. NextHost(j, last_ts) = [j EXCEPT !.phase = "discard"]
    BY <1>1 DEF NextHost
  <2>2. QED
    BY <1>1, <2>1 DEF Job, Phases, SameClose
<1>2. CASE j.hosts # {}
  <2>1. PICK h, t, n, d : /\ h = Least(j.hosts) /\ t = last_ts[h] /\ n = DueLen(t, j.win)
                          /\ d = Due(t, j.win)
    OBVIOUS
  <2>2. h \in Host /\ t \in Ts \union {NoWindow} /\ j.win \in Ts
    BY <1>2, <2>1, HostAtHand DEF Job
  <2>3. n \in Nat /\ n > 0 /\ d = Run(j.win, n) /\ j.win - n + 1 \in Ts /\ d \in Seq(Ts)
    <3>1. /\ Due(t, j.win) = Run(j.win, DueLen(t, j.win))
          /\ DueLen(t, j.win) \in Nat /\ DueLen(t, j.win) > 0
          /\ \A m \in 0..DueLen(t, j.win) : m > 0 => j.win - m + 1 \in Ts
          /\ \A m \in 0..DueLen(t, j.win) : Run(j.win, m) \in Seq(Ts)
      BY <2>2, DueIsRun
    <3>2. n \in 0..n
      BY <2>1, <3>1
    <3>3. QED
      BY <2>1, <3>1, <3>2
  <2>4. PICK i : i = [j EXCEPT !.todo = d]
    OBVIOUS
  <2>5. i \in Job /\ i.todo = d /\ SameClose(i, j)
    BY <2>3, <2>4 DEF Job, SameClose
  <2>6. NextHost(j, last_ts) = NextVector(i)
    BY <1>2, <2>1, <2>4 DEF NextHost
  <2>7. PICK e : e = NextVector(i)
    OBVIOUS
  <2>8. i.hosts = j.hosts /\ i.win = j.win /\ i.by = j.by
    BY <2>5 DEF SameClose
  <2>9. e \in Job /\ SameClose(e, i) /\ ToEmit(e, h, n)
    BY <1>2, <2>1, <2>3, <2>5, <2>7, <2>8, NextVectorIs
  <2>10. e.phase # "discard"
    BY <2>3, <2>9 DEF ToEmit
  <2>11. QED
    BY <1>2, <2>1, <2>6, <2>7, <2>8, <2>9, <2>10 DEF SameClose
<1>3. QED
  BY <1>1, <1>2

-----------------------------------------------------------------------------
\* The entries that cannot come again, and the completed ones that can: they
\* are counted already, and redelivery may count them once more.
Settled == acked \union {worker[w].now : w \in {v \in Worker : worker[v].pc = "ack"}}
Recount(h, t) == (EventsOf(h, t) \intersect done) \ Settled

\* Only the open window has counters, and a fault pays for each event in them
\* that is counted twice, or will be.
CountInv ==
    /\ \A h \in Host, t \in Ts : counts[h][t] > 0 => t = open
    /\ \A h \in Host, t \in Ts :
          counts[h][t] + Cardinality(Recount(h, t)) <= Cardinality(EventsOf(h, t) \intersect done) + faults

\* Close e stands at host h, last sent `from`, with the windows G published: of
\* the windows that are due all but the last n are among them.
Emitting(e, h, from, G) ==
    \E n \in 0..DueLen(from, e.win) :
        /\ e.todo = Run(e.win, n)
        /\ \A t \in e.win - DueLen(from, e.win) + 1 .. e.win - n : t \in G
        /\ n = 0 <=> e.phase = "history"
        /\ e.phase = "peers" => n = 1
        /\ e.phase \in {"save", "publish"} =>
              e.vector \in Vector /\ e.vector.host = h /\ e.vector.ts = e.win - n + 1

\* The vector at hand counts nothing a fault does not pay for, and is durable
\* before it is published.
AtHand(e) ==
    /\ e.phase \in {"save", "publish"} =>
          e.vector.events <= Cardinality(EventsOf(e.vector.host, e.vector.ts)) + faults
    /\ e.phase = "publish" => Key(e.vector) \in DOMAIN stored

\* What a close in progress has done: the hosts it is through with are published
\* and remembered, and nothing is discarded before all of them are.
CloseInv(e) ==
    /\ open = e.win
    /\ e.hosts \subseteq HostsOf(e.win)
    /\ \A h \in HostsOf(e.win) \ e.hosts : prev[h] = e.win /\ e.win \in PublishedTs(h)
    /\ e.hosts = {} <=> e.phase \in {"discard", "clear"}
    /\ e.phase = "clear" => HostsOf(e.win) = {}
    /\ e.hosts # {} => Emitting(e, Least(e.hosts), prev[Least(e.hosts)], PublishedTs(Least(e.hosts)))
    /\ AtHand(e)

FeatInv ==
    /\ BusInv /\ SoleInv
    /\ FeaturesTypeOK
    /\ CountInv
    /\ job # NoJob => CloseInv(job)
    /\ StoredBeforePublished
    /\ OvercountBoundedByFaults

-----------------------------------------------------------------------------
\* Only a crash puts back what was about to be acknowledged, one entry for each.
LEMMA SettledStays ==
    ASSUME BusInv, SoleInv, [Next]_busVars
    PROVE  /\ faults' \in {faults, faults + 1}
           /\ faults' = faults => Settled \subseteq Settled'
           /\ \E x : Settled \subseteq Settled' \union {x}
<1> DEFINE Keep(v) == worker[v].pc = "ack" =>
              worker[v].now \in acked' \/ (worker'[v].pc = "ack" /\ worker'[v].now = worker[v].now)
<1>1. OneConsumer /\ worker \in [Worker -> Process] /\ faults \in Nat
  BY FeaturesConstants DEF BusInv, TypeOK
<1>2. ASSUME acked \subseteq acked', \A v \in Worker : Keep(v) PROVE Settled \subseteq Settled'
  BY <1>2 DEF Settled
<1>3. CASE worker' = worker /\ acked' = acked /\ faults' = faults
  BY <1>3 DEF Settled
<1>4. ASSUME NEW w \in Worker, Start(w) \/ Reclaim(w) \/ Read(w) \/ HandlerReturns(w) \/ HandlerRaises(w)
      PROVE  Settled \subseteq Settled' /\ faults' \in {faults, faults + 1}
  <2>1. worker[w].pc # "ack"
    BY <1>4 DEF Start, Reclaim, Read, HandlerReturns, HandlerRaises
  <2>2. acked' = acked /\ faults' \in {faults, faults + 1}
    BY <1>4 DEF Start, Reclaim, Read, HandlerReturns, HandlerRaises, redisVars
  <2>3. \A v \in Worker : Keep(v)
    BY <1>1, <2>1 DEF OneConsumer
  <2>4. QED
    BY <1>2, <2>2, <2>3
<1>5. ASSUME NEW w \in Worker, Ack(w) PROVE Settled \subseteq Settled' /\ faults' = faults
  <2>1. worker[w].now \in pending
    BY <1>5 DEF Ack, SoleInv, Sole
  <2>2. acked' = acked \union {worker[w].now} /\ faults' = faults
    BY <1>5, <2>1 DEF Ack
  <2>3. \A v \in Worker : Keep(v)
    BY <1>1, <2>2 DEF OneConsumer
  <2>4. QED
    BY <1>2, <2>2, <2>3
<1>6. ASSUME NEW w \in Worker, Signal(w) \/ ReclaimDue(w)
      PROVE  Settled \subseteq Settled' /\ faults' \in {faults, faults + 1}
  <2>1. acked' = acked /\ faults' \in {faults, faults + 1}
    BY <1>6 DEF Signal, ReclaimDue, redisVars
  <2>2. worker'[w].pc = worker[w].pc /\ worker'[w].now = worker[w].now
    BY <1>1, <1>6 DEF Signal, ReclaimDue, Process
  <2>3. \A v \in Worker : Keep(v)
    BY <1>1, <2>2 DEF OneConsumer
  <2>4. QED
    BY <1>2, <2>1, <2>3
<1>7. ASSUME NEW w \in Worker, Crash(w)
      PROVE  faults' = faults + 1 /\ Settled \subseteq Settled' \union {worker[w].now}
  <2>1. acked' = acked /\ faults' = faults + 1
    BY <1>7 DEF Crash, redisVars
  <2>2. \A v \in Worker : worker[v].now = worker[w].now
    BY <1>1 DEF OneConsumer
  <2>3. QED
    BY <2>1, <2>2 DEF Settled
<1>8. CASE Publish \/ (\E m \in Id : GoIdle(m)) \/ UNCHANGED busVars
  BY <1>3, <1>8 DEF Publish, GoIdle, busVars, redisVars
<1>9. QED
  BY <1>1, <1>4, <1>5, <1>6, <1>7, <1>8 DEF Next, Environment, LoopStep

-----------------------------------------------------------------------------
\* What is kept by a step of the bus that handles no event to its end.
CloseMayFail ==
    /\ UNCHANGED <<event, open, silent, counts, peers, prev, stored, published, stalled, reordered, done>>
    /\ job' \in {job, NoJob}
    /\ faults' = faults /\ Poison = {} => job' = job

\* Every step is one of the bus, and the events and the past are kept.
LEMMA FeaturesStepOfBus ==
    ASSUME BusInv, SoleInv, [FeaturesNext]_vars
    PROVE  /\ BusInv' /\ SoleInv'
           /\ event' = event /\ done \subseteq done' /\ faults' \in {faults, faults + 1}
           /\ \/ CloseMayFail /\ (faults' = faults => Settled \subseteq Settled')
                              /\ \E x : Settled \subseteq Settled' \union {x}
              \/ \E w \in Worker : DropLate(w) \/ accumulate(w)
              \/ \E w \in Worker : CloseByEvent(w) \/ watchdog_tick(w)
              \/ FallSilent
              \/ CloseStep
<1>1. OneConsumer /\ \A w \in Worker : worker[w] \in Process
  BY FeaturesConstants DEF BusInv, TypeOK
<1>2. ASSUME [Next]_busVars PROVE BusInv' /\ SoleInv'
  BY <1>1, <1>2, NextKeeps, NextKeepsSole
<1>3. CASE UNCHANGED busVars /\ (UNCHANGED featureVars \/ FallSilent \/ CloseStep
                  \/ \E w \in Worker : CloseByEvent(w) \/ watchdog_tick(w))
  <2>1. BusInv' /\ SoleInv'
    BY <1>2, <1>3
  <2>2. done' = done /\ faults' = faults
    BY <1>3 DEF busVars
  <2>3. event' = event
    BY <1>3 DEF featureVars, FallSilent, CloseStep, CloseByEvent, watchdog_tick, record_peers,
       save, publish, write_history, discard_window, clear_open
  <2>4. CASE UNCHANGED featureVars
    <3>1. CloseMayFail
      BY <2>2, <2>4 DEF CloseMayFail, featureVars, history
    <3>2. Settled' = Settled
      BY <1>3 DEF busVars, redisVars, Settled
    <3>3. QED
      BY <2>1, <2>2, <2>3, <3>1, <3>2
  <2>5. QED
    BY <1>3, <2>1, <2>2, <2>3, <2>4
<1>4. CASE WatchdogFails
  <2>1. UNCHANGED <<last, trim, cursor, pending, idle, acked, done, worker>> /\ event' = event
        /\ faults < MaxFaults /\ faults' = faults + 1
    BY <1>4 DEF WatchdogFails, redisVars
  <2>2. Delivered' = Delivered /\ Evicted' = Evicted
    BY <2>1 DEF Delivered, Evicted
  <2>3. faults' \in 0..MaxFaults
    BY <2>1, FeaturesConstants DEF BusInv, TypeOK
  <2>4. BusInv'
    BY <2>1, <2>2, <2>3 DEF BusInv, TypeOK, AtLeastOnceDelivery, SettledStaysSettled
  <2>5. SoleInv'
    BY <1>1, <2>1, FaultElsewhereSole
  <2>6. Settled' = Settled
    BY <2>1 DEF Settled
  <2>7. CloseMayFail
    <3>1. faults' # faults
      BY <2>1 DEF BusInv, TypeOK
    <3>2. QED
      BY <1>4, <2>1, <3>1 DEF WatchdogFails, CloseMayFail, history
  <2>8. QED
    BY <2>1, <2>4, <2>5, <2>6, <2>7
<1>5. ASSUME NEW w \in Worker, Fail(w) \/ Die(w) PROVE CloseMayFail
  <2>1. UNCHANGED <<event, open, silent, counts, peers, prev, stored, published, stalled, reordered>>
        /\ job' \in {job, NoJob}
    BY <1>5 DEF Fail, Die, history
  <2>2. done' = done
    BY <1>5 DEF Fail, Die, HandlerRaises, Crash
  <2>3. ASSUME faults' = faults, Poison = {} PROVE FALSE
    <3>1. faults' = faults + 1
      BY <1>5, <2>3 DEF Fail, Die, HandlerRaises, Crash
    <3>2. QED
      BY <2>3, <3>1 DEF BusInv, TypeOK
  <2>4. QED
    BY <2>1, <2>2, <2>3 DEF CloseMayFail
<1>6. ASSUME BusOnly PROVE CloseMayFail
  <2>1. done' = done
    BY <1>6 DEF BusOnly, Publish, GoIdle, LoopStep, Reclaim, Read, Ack, Signal, ReclaimDue, Start
  <2>2. QED
    BY <1>6, <2>1 DEF BusOnly, CloseMayFail, featureVars
<1>7. ASSUME BusOnly \/ \E w \in Worker : Fail(w) \/ Die(w) PROVE [Next]_busVars
  BY <1>7 DEF BusOnly, Fail, Die, Next, Environment
<1>8. CASE BusOnly \/ \E w \in Worker : Fail(w) \/ Die(w)
  <2>1. CloseMayFail
    BY <1>5, <1>6, <1>8
  <2>2. BusInv' /\ SoleInv'
    BY <1>2, <1>7, <1>8
  <2>3. /\ faults' \in {faults, faults + 1}
        /\ faults' = faults => Settled \subseteq Settled'
        /\ \E x : Settled \subseteq Settled' \union {x}
    BY <1>7, <1>8, SettledStays
  <2>4. event' = event /\ done' = done
    BY <2>1 DEF CloseMayFail
  <2>5. QED
    BY <2>1, <2>2, <2>3, <2>4
<1>9. CASE \E w \in Worker : DropLate(w) \/ accumulate(w)
  <2>1. PICK w \in Worker : DropLate(w) \/ accumulate(w)
    BY <1>9
  <2>2. HandlerReturns(w) /\ event' = event
    BY <2>1 DEF DropLate, accumulate, featureVars
  <2>3. BusInv' /\ SoleInv'
    BY <1>2, <2>2 DEF Next
  <2>4. done \subseteq done' /\ faults' = faults
    BY <2>2 DEF HandlerReturns
  <2>5. QED
    BY <1>9, <2>2, <2>3, <2>4
<1>10. ASSUME FallSilent \/ CloseStep \/ \E w \in Worker : CloseByEvent(w) \/ watchdog_tick(w)
       PROVE  UNCHANGED busVars
  BY <1>10 DEF FallSilent, CloseByEvent, watchdog_tick, CloseStep, record_peers,
     save, publish, write_history, discard_window, clear_open
<1>11. CASE UNCHANGED vars
  BY <1>3, <1>11 DEF vars
<1>12. QED
  BY <1>3, <1>4, <1>8, <1>9, <1>10, <1>11 DEF FeaturesNext

-----------------------------------------------------------------------------
\* The windows a host was published in are windows, and a new vector adds its own.
LEMMA PublishedFacts ==
    ASSUME published \in Seq(Vector)
    PROVE  /\ Published \subseteq Vector
           /\ \A h \in Host : PublishedTs(h) \subseteq Ts
           /\ published' = published => Published' = Published
           /\ \A v \in Vector : published' = Append(published, v) =>
                 /\ Published' = Published \union {v}
                 /\ \A h \in Host : PublishedTs(h)' =
                       PublishedTs(h) \union (IF v.host = h THEN {v.ts} ELSE {})
<1>1. Published \subseteq Vector
  BY DEF Published
<1>2. \A h \in Host : PublishedTs(h) \subseteq Ts
  BY <1>1 DEF PublishedTs, Vector
<1>3. published' = published => Published' = Published
  BY DEF Published
<1>4. ASSUME NEW v \in Vector, published' = Append(published, v)
      PROVE  /\ Published' = Published \union {v}
             /\ \A h \in Host : PublishedTs(h)' =
                   PublishedTs(h) \union (IF v.host = h THEN {v.ts} ELSE {})
  <2>1. PICK s : s = Append(published, v)
    OBVIOUS
  <2>2. PICK n \in Nat : n = Len(published)
    OBVIOUS
  <2>3. /\ s \in Seq(Vector) /\ Len(s) = n + 1 /\ s[n + 1] = v
        /\ \A i \in 1..n : s[i] = published[i]
    BY <2>1, <2>2
  <2>4. DOMAIN published = 1..n /\ DOMAIN s = 1..n + 1
    BY <2>2, <2>3
  <2>5. {s[i] : i \in 1..n + 1} = {published[i] : i \in 1..n} \union {v}
    <3>1. \A i \in 1..n + 1 : i \in 1..n \/ i = n + 1
      BY <2>2
    <3>2. 1..n \subseteq 1..n + 1 /\ n + 1 \in 1..n + 1
      BY <2>2
    <3>3. QED
      BY <2>3, <3>1, <3>2
  <2>6. Published' = Published \union {v}
    BY <1>4, <2>1, <2>4, <2>5 DEF Published
  <2>7. QED
    BY <2>6 DEF PublishedTs
<1>5. QED
  BY <1>1, <1>2, <1>3, <1>4

\* Entries are finitely many, those of one host and window among them.
LEMMA EventsFinite ==
    ASSUME NEW S \in SUBSET Id
    PROVE  IsFiniteSet(S) /\ Cardinality(S) \in Nat /\ Cardinality(S) <= MaxPublished
<1>1. IsFiniteSet(Id) /\ Cardinality(Id) = MaxPublished
  <2>1. Cardinality(1..MaxPublished) = IF 1 > MaxPublished THEN 0 ELSE MaxPublished - 1 + 1
    BY FS_Interval, FeaturesConstants
  <2>2. QED
    BY <2>1, FS_Interval, FeaturesConstants DEF Id
<1>2. QED
  BY <1>1, FS_Subset, FS_CardinalityType, FeaturesConstants

\* What a close in progress is, and that none is no close.
LEMMA CloseFacts ==
    ASSUME FeaturesTypeOK
    PROVE  /\ NoJob \notin Job
           /\ job # NoJob =>
                 /\ job \in Job /\ job.win \in Ts /\ job.hosts \subseteq Host /\ job.phase \in Phases
                 /\ job.hosts # {} => Least(job.hosts) \in job.hosts /\ Least(job.hosts) \in Host
<1>1. NoJob \notin Job
  <2>1. \A j \in Job : j.by \in {"event", "watchdog"}
    BY DEF Job
  <2>2. NoJob.by = "nobody"
    BY DEF NoJob
  <2>3. QED
    BY <2>1, <2>2
<1>2. ASSUME job # NoJob
      PROVE  job \in Job /\ job.win \in Ts /\ job.hosts \subseteq Host /\ job.phase \in Phases
  <2>1. job \in Job
    BY <1>2 DEF FeaturesTypeOK
  <2>2. QED
    BY <2>1 DEF Job
<1>3. QED
  BY <1>1, <1>2, HostAtHand

\* A close that takes up its next window holds nothing that is not so.
LEMMA EmittingNext ==
    ASSUME NEW e \in Job, NEW h \in Host, NEW n \in Nat, ToEmit(e, h, n),
           NEW from \in Ts \union {NoWindow}, NEW G, n <= DueLen(from, e.win),
           \A t \in e.win - DueLen(from, e.win) + 1 .. e.win - n : t \in G
    PROVE  /\ Emitting(e, h, from, G)
           /\ e.phase \in {"history", "peers", "save"}
           /\ e.phase = "save" => e.vector = zero_features(h, e.win - n + 1) /\ e.win - n + 1 \in Ts
<1>1. e.win \in Ts
  BY DEF Job
<1>2. /\ DueLen(from, e.win) \in Nat
      /\ \A m \in 0..DueLen(from, e.win) : m > 0 => e.win - m + 1 \in Ts
  BY <1>1, DueIsRun
<1>3. n \in 0..DueLen(from, e.win)
  BY <1>2
<1>4. CASE n = 0
  BY <1>3, <1>4 DEF ToEmit, Emitting
<1>5. CASE n = 1
  BY <1>3, <1>5 DEF ToEmit, Emitting
<1>6. CASE n > 1
  <2>1. e.win - n + 1 \in Ts
    BY <1>2, <1>3, <1>6
  <2>2. PICK t : t = e.win - n + 1
    OBVIOUS
  <2>3. e.vector = zero_features(h, t) /\ e.phase = "save"
    BY <1>6, <2>2 DEF ToEmit
  <2>4. e.vector \in Vector /\ e.vector.host = h /\ e.vector.ts = t
    BY <2>1, <2>2, <2>3, ZeroIsVector
  <2>5. Emitting(e, h, from, G)
    BY <1>3, <1>6, <2>2, <2>3, <2>4 DEF ToEmit, Emitting
  <2>6. QED
    BY <2>1, <2>2, <2>3, <2>5
<1>7. QED
  BY <1>4, <1>5, <1>6

\* A silent window counts nothing.
LEMMA ZeroAtHand ==
    ASSUME NEW e \in Job, NEW h \in Host, e.phase \in {"history", "peers", "save", "discard"},
           e.phase = "save" => \E t \in Ts : e.vector = zero_features(h, t),
           faults' \in Nat, event' \in [Id -> [host : Host, ts : Ts]]
    PROVE  AtHand(e)'
<1>1. CASE e.phase = "save"
  <2>1. PICK t \in Ts : e.vector = zero_features(h, t)
    BY <1>1
  <2>2. e.vector.events = 0 /\ e.vector.host = h /\ e.vector.ts = t
    BY <2>1, ZeroIsVector
  <2>3. EventsOf(h, t)' \in SUBSET Id
    BY DEF EventsOf
  <2>4. Cardinality(EventsOf(h, t))' \in Nat
    BY <2>3, EventsFinite
  <2>5. QED
    BY <1>1, <2>2, <2>4 DEF AtHand
<1>2. CASE e.phase # "save"
  BY <1>2 DEF AtHand
<1>3. QED
  BY <1>1, <1>2

-----------------------------------------------------------------------------
\* Before the first event there is nothing to close.
LEMMA FeatInit == FeaturesInit => FeatInv
<1> SUFFICES ASSUME FeaturesInit PROVE FeatInv
  OBVIOUS
<1>1. BusInv /\ SoleInv
  BY InitBusInv, InitSoleInv DEF FeaturesInit
<1>2. published \in Seq(Vector) /\ DOMAIN published = {} /\ Published = {}
  BY DEF FeaturesInit, Published
<1>3. FeaturesTypeOK
  <2>1. \A k \in DOMAIN stored : FALSE
    BY DEF FeaturesInit
  <2>2. 0 \in 0..MaxPublished + MaxFaults
    BY FeaturesConstants
  <2>3. QED
    BY <1>1, <1>2, <2>1, <2>2 DEF FeaturesInit, FeaturesTypeOK, BusInv
<1>4. CountInv
  <2>1. done = {} /\ faults = 0 /\ \A h \in Host, t \in Ts : counts[h][t] = 0
    BY DEF FeaturesInit, Init
  <2>2. \A h, t : EventsOf(h, t) \intersect done = {} /\ Recount(h, t) = {}
    BY <2>1 DEF Recount
  <2>3. Cardinality({}) = 0
    BY FS_EmptySet
  <2>4. QED
    BY <2>1, <2>2, <2>3 DEF CountInv
<1>5. job = NoJob
  BY DEF FeaturesInit
<1>6. QED
  BY <1>1, <1>2, <1>3, <1>4, <1>5 DEF FeatInv, StoredBeforePublished, OvercountBoundedByFaults

\* The counters stay accounted for as long as nothing is counted.
LEMMA CountsStay ==
    ASSUME FeatInv, UNCHANGED <<counts, open, event>>, done \subseteq done', BusInv',
           faults' \in {faults, faults + 1},
           NEW x, \A h \in Host, t \in Ts : Recount(h, t)' \subseteq Recount(h, t) \union {x},
           faults' = faults => \A h \in Host, t \in Ts : Recount(h, t)' \subseteq Recount(h, t)
    PROVE  CountInv'
<1>1. ASSUME NEW h \in Host, NEW t \in Ts
      PROVE  counts'[h][t] + Cardinality(Recount(h, t)')
                <= Cardinality(EventsOf(h, t)' \intersect done') + faults'
  <2>1. PICK R, Q, E, F : /\ R = Recount(h, t) /\ Q = Recount(h, t)'
                          /\ E = EventsOf(h, t) \intersect done
                          /\ F = EventsOf(h, t)' \intersect done'
    OBVIOUS
  <2>2. R \in SUBSET Id /\ Q \in SUBSET Id /\ E \in SUBSET Id /\ F \in SUBSET Id /\ E \subseteq F
    BY <2>1 DEF Recount, EventsOf
  <2>3. /\ Cardinality(R) \in Nat /\ Cardinality(Q) \in Nat
        /\ Cardinality(E) \in Nat /\ Cardinality(F) \in Nat
        /\ IsFiniteSet(R) /\ IsFiniteSet(F)
    BY <2>2, EventsFinite
  <2>4. Cardinality(E) <= Cardinality(F)
    BY <2>2, <2>3, FS_Subset
  <2>5. counts[h][t] + Cardinality(R) <= Cardinality(E) + faults
    BY <2>1 DEF FeatInv, CountInv
  <2>6. counts[h][t] \in Nat /\ faults \in Nat
    BY FeaturesConstants DEF FeatInv, FeaturesTypeOK, TypeOK
  <2>7. CASE faults' = faults
    <3>1. Q \subseteq R
      BY <2>1, <2>7
    <3>2. Cardinality(Q) <= Cardinality(R)
      BY <2>3, <3>1, FS_Subset
    <3>3. QED
      BY <2>1, <2>3, <2>4, <2>5, <2>6, <2>7, <3>2
  <2>8. CASE faults' = faults + 1
    <3>1. IsFiniteSet(R \union {x}) /\ Cardinality(R \union {x}) \in Nat
          /\ Cardinality(R \union {x}) <= Cardinality(R) + 1
      <4>1. /\ IsFiniteSet(R \union {x})
            /\ Cardinality(R \union {x}) = IF x \in R THEN Cardinality(R) ELSE Cardinality(R) + 1
        BY <2>3, FS_AddElement
      <4>2. QED
        BY <2>3, <4>1
    <3>2. Q \subseteq R \union {x}
      BY <2>1
    <3>3. Cardinality(Q) <= Cardinality(R) + 1
      BY <2>3, <3>1, <3>2, FS_Subset
    <3>4. QED
      BY <2>1, <2>3, <2>4, <2>5, <2>6, <2>8, <3>3
  <2>9. QED
    BY <2>7, <2>8
<1>2. \A h \in Host, t \in Ts : counts'[h][t] > 0 => t = open'
  BY DEF FeatInv, CountInv
<1>3. QED
  BY <1>1, <1>2 DEF CountInv

\* A failed close is forgotten, and the rest is as it was.
LEMMA CloseMayFailKeeps ==
    ASSUME FeatInv, BusInv', SoleInv', event' = event, faults' \in {faults, faults + 1},
           CloseMayFail, faults' = faults => Settled \subseteq Settled',
           \E x : Settled \subseteq Settled' \union {x}
    PROVE  FeatInv'
<1>1. FeaturesTypeOK'
  <2>1. job' \in Job \union {NoJob}
    BY DEF FeatInv, FeaturesTypeOK, CloseMayFail
  <2>2. TypeOK'
    BY DEF BusInv
  <2>3. QED
    BY <2>1, <2>2 DEF FeatInv, FeaturesTypeOK, CloseMayFail
<1>2. CountInv'
  <2>1. PICK x : Settled \subseteq Settled' \union {x}
    OBVIOUS
  <2>2. \A h \in Host, t \in Ts : Recount(h, t)' \subseteq Recount(h, t) \union {x}
    BY <2>1 DEF Recount, EventsOf, CloseMayFail
  <2>3. faults' = faults => \A h \in Host, t \in Ts : Recount(h, t)' \subseteq Recount(h, t)
    BY DEF Recount, EventsOf, CloseMayFail
  <2>4. QED
    BY <2>2, <2>3, CountsStay DEF CloseMayFail
<1>3. faults \in Nat /\ faults' \in Nat
  BY FeaturesConstants DEF FeatInv, FeaturesTypeOK, TypeOK
<1>4. /\ Published' = Published /\ \A h : PublishedTs(h)' = PublishedTs(h)
      /\ \A h, t : EventsOf(h, t)' = EventsOf(h, t)
  BY DEF CloseMayFail, Published, PublishedTs, EventsOf
<1>5. \A h \in Host, t \in Ts : Cardinality(EventsOf(h, t)) \in Nat
  <2>1. \A h, t : EventsOf(h, t) \in SUBSET Id
    BY DEF EventsOf
  <2>2. QED
    BY <2>1, EventsFinite
<1>6. ASSUME job' # NoJob PROVE CloseInv(job)'
  <2>1. PICK e : e = job
    OBVIOUS
  <2>2. job' = e /\ CloseInv(e) /\ e \in Job
    BY <1>6, <2>1, CloseFacts DEF CloseMayFail, FeatInv
  <2>3. AtHand(e)'
    <3>1. CASE e.phase \in {"save", "publish"}
      <4>1. e.hosts # {} /\ e.win \in Ts
        BY <2>2, <3>1 DEF CloseInv, Job
      <4>2. e.vector \in Vector
        BY <2>2, <3>1, <4>1 DEF CloseInv, Emitting
      <4>3. PICK h \in Host, t \in Ts : h = e.vector.host /\ t = e.vector.ts
        BY <4>2 DEF Vector
      <4>4. e.vector.events \in Nat
        BY <4>2, FeaturesConstants DEF Vector
      <4>5. e.vector.events <= Cardinality(EventsOf(h, t)) + faults
        BY <2>2, <3>1, <4>3 DEF CloseInv, AtHand
      <4>6. e.vector.events <= Cardinality(EventsOf(h, t)) + faults'
        BY <1>3, <1>5, <4>4, <4>5
      <4>7. e.phase = "publish" => Key(e.vector) \in DOMAIN stored'
        BY <2>2 DEF CloseInv, AtHand, CloseMayFail
      <4>8. QED
        BY <1>4, <4>3, <4>6, <4>7 DEF AtHand
    <3>2. CASE e.phase \notin {"save", "publish"}
      BY <3>2 DEF AtHand
    <3>3. QED
      BY <3>1, <3>2
  <2>4. CloseInv(e)'
    BY <1>4, <2>2, <2>3 DEF CloseInv, HostsOf, CloseMayFail
  <2>5. QED
    BY <2>2, <2>4 DEF CloseInv, AtHand
<1>7. StoredBeforePublished'
  BY <1>4 DEF FeatInv, StoredBeforePublished, CloseMayFail
<1>8. OvercountBoundedByFaults'
  <2>1. ASSUME NEW v \in Published'
        PROVE  v.events <= Cardinality(EventsOf(v.host, v.ts)') + faults'
    <3>1. v \in Vector /\ v \in Published
      BY <1>4, <2>1, PublishedFacts DEF FeatInv, FeaturesTypeOK
    <3>2. PICK h \in Host, t \in Ts : h = v.host /\ t = v.ts
      BY <3>1 DEF Vector
    <3>3. v.events \in Nat
      BY <3>1, FeaturesConstants DEF Vector
    <3>4. v.events <= Cardinality(EventsOf(h, t)) + faults
      BY <3>1, <3>2 DEF FeatInv, OvercountBoundedByFaults
    <3>5. v.events <= Cardinality(EventsOf(h, t)) + faults'
      BY <1>3, <1>5, <3>3, <3>4
    <3>6. QED
      BY <1>4, <3>2, <3>5
  <2>2. QED
    BY <2>1 DEF OvercountBoundedByFaults
<1>9. QED
  BY <1>1, <1>2, <1>6, <1>7, <1>8 DEF FeatInv

\* What was published and stored stays sound while nothing is added to it.
LEMMA VectorsStay ==
    ASSUME FeatInv, UNCHANGED <<event, stored, published, faults>>
    PROVE  StoredBeforePublished' /\ OvercountBoundedByFaults'
<1>1. Published' = Published /\ \A h, t : EventsOf(h, t)' = EventsOf(h, t)
  BY DEF Published, EventsOf
<1>2. QED
  BY <1>1 DEF FeatInv, StoredBeforePublished, OvercountBoundedByFaults

\* The handler returns for an entry, which is not settled before and is then.
LEMMA ReturnFacts ==
    ASSUME FeatInv, NEW w \in Worker, HandlerReturns(w)
    PROVE  /\ worker[w].now \in Id \ Settled /\ worker[w].now \in pending
           /\ done' = done \union {worker[w].now} /\ faults' = faults
           /\ Settled' = Settled \union {worker[w].now}
<1>1. OneConsumer /\ BusInv /\ SoleInv /\ worker \in [Worker -> Process]
  BY FeaturesConstants DEF FeatInv, BusInv, TypeOK
<1>2. worker[w].pc = "handling" /\ acked' = acked /\ faults' = faults
      /\ done' = done \union {worker[w].now} /\ worker' = [worker EXCEPT ![w].pc = "ack"]
  BY DEF HandlerReturns, redisVars
<1>3. worker[w].now \in pending
  BY <1>1, <1>2 DEF SoleInv, Sole
<1>4. worker[w].now \in Id \ acked
  BY <1>1, <1>3 DEF BusInv, TypeOK, SettledStaysSettled
<1>5. \A v \in Worker : v = w
  BY <1>1 DEF OneConsumer
<1>6. worker'[w].pc = "ack" /\ worker'[w].now = worker[w].now
  BY <1>1, <1>2 DEF Process
<1>7. Settled = acked
  BY <1>2, <1>5 DEF Settled
<1>8. Settled' = acked \union {worker[w].now}
  BY <1>2, <1>5, <1>6 DEF Settled
<1>9. QED
  BY <1>2, <1>3, <1>4, <1>7, <1>8

\* A late event is dropped.
LEMMA DropLateKeeps ==
    ASSUME FeatInv, BusInv', SoleInv', NEW w \in Worker, DropLate(w)
    PROVE  FeatInv'
<1>1. HandlerReturns(w) /\ UNCHANGED featureVars
  BY DEF DropLate
<1>2. CountInv'
  <2>1. \A h \in Host, t \in Ts : Recount(h, t)' \subseteq Recount(h, t)
    BY <1>1, ReturnFacts DEF Recount, EventsOf, featureVars
  <2>2. done \subseteq done' /\ faults' = faults /\ UNCHANGED <<counts, open, event>>
    BY <1>1, ReturnFacts DEF featureVars
  <2>3. \A h \in Host, t \in Ts : Recount(h, t)' \subseteq Recount(h, t) \union {0}
    BY <2>1
  <2>4. faults' \in {faults, faults + 1}
    BY <2>2
  <2>5. QED
    BY <2>1, <2>2, <2>3, <2>4, CountsStay
<1>3. FeaturesTypeOK'
  BY <1>1 DEF FeatInv, FeaturesTypeOK, BusInv, featureVars
<1>4. job' = NoJob
  BY <1>1 DEF DropLate, Handling, featureVars
<1>5. StoredBeforePublished' /\ OvercountBoundedByFaults'
  BY <1>1, ReturnFacts, VectorsStay DEF featureVars
<1>6. QED
  BY <1>2, <1>3, <1>4, <1>5 DEF FeatInv

\* An event is counted, for the first time, or again after a fault.
LEMMA accumulateKeeps ==
    ASSUME FeatInv, BusInv', SoleInv', NEW w \in Worker, accumulate(w)
    PROVE  FeatInv'
<1>1. PICK m, l, s : m = worker[w].now /\ l = event[m].host /\ s = event[m].ts
  OBVIOUS
<1>2. HandlerReturns(w) /\ event' = event /\ job' = NoJob
  BY DEF accumulate, Handling
<1>3. /\ m \in Id /\ m \notin Settled /\ done' = done \union {m} /\ faults' = faults
      /\ Settled' = Settled \union {m}
  BY <1>1, <1>2, ReturnFacts
<1>4. event[m] \in [host : Host, ts : Ts] /\ l \in Host /\ s \in Ts
      /\ event[m] = [host |-> l, ts |-> s]
  <2>1. event[m] \in [host : Host, ts : Ts]
    BY <1>3 DEF FeatInv, FeaturesTypeOK, Captures
  <2>2. QED
    BY <1>1, <2>1
<1>5. /\ counts \in [Host -> [Ts -> 0..MaxPublished + MaxFaults]]
      /\ faults \in Nat /\ faults <= MaxFaults
  BY FeaturesConstants DEF FeatInv, FeaturesTypeOK, TypeOK
<1>6. counts' = [counts EXCEPT ![l][s] = @ + 1] /\ open \in {NoWindow, s} /\ open' = s
  BY <1>1 DEF accumulate, Now
<1>7. \A h \in Host, t \in Ts :
         counts'[h][t] = IF h = l /\ t = s THEN counts[h][t] + 1 ELSE counts[h][t]
  BY <1>4, <1>5, <1>6
<1>8. ASSUME NEW h \in Host, NEW t \in Ts
      PROVE  /\ counts'[h][t] + Cardinality(Recount(h, t)')
                  <= Cardinality(EventsOf(h, t)' \intersect done') + faults'
             /\ counts'[h][t] \in 0..MaxPublished + MaxFaults
  <2>1. PICK R, Q, D, F : /\ R = Recount(h, t) /\ Q = Recount(h, t)'
                          /\ D = EventsOf(h, t) \intersect done
                          /\ F = EventsOf(h, t)' \intersect done'
    OBVIOUS
  <2>2. /\ R \in SUBSET Id /\ Q \in SUBSET Id /\ D \in SUBSET Id /\ F \in SUBSET Id
        /\ R = D \ Settled /\ Q = F \ Settled'
        /\ F = EventsOf(h, t) \intersect done'
    BY <1>2, <2>1 DEF Recount, EventsOf
  <2>3. PICK c, r, q, d, f : /\ c = counts[h][t] /\ r = Cardinality(R) /\ q = Cardinality(Q)
                             /\ d = Cardinality(D) /\ f = Cardinality(F)
    OBVIOUS
  <2>4. /\ c \in Nat /\ r \in Nat /\ q \in Nat /\ d \in Nat /\ f \in Nat /\ f <= MaxPublished
        /\ IsFiniteSet(R) /\ IsFiniteSet(D)
    BY <1>5, <2>2, <2>3, EventsFinite
  <2>5. c + r <= d + faults
    BY <2>1, <2>3 DEF FeatInv, CountInv
  <2>6. m \in EventsOf(h, t) <=> h = l /\ t = s
    BY <1>3, <1>4 DEF EventsOf
  <2>7. CASE h = l /\ t = s /\ m \in done
    <3>1. F = D /\ m \in R /\ Q = R \ {m}
      BY <1>3, <2>1, <2>2, <2>6, <2>7
    <3>2. q = r - 1 /\ f = d
      BY <2>3, <2>4, <3>1, FS_RemoveElement
    <3>3. counts'[h][t] = c + 1
      BY <1>7, <2>3, <2>7
    <3>4. counts'[h][t] + q <= f + faults /\ counts'[h][t] \in Nat
      BY <1>5, <2>4, <2>5, <3>2, <3>3
    <3>5. QED
      BY <1>3, <1>5, <2>1, <2>3, <2>4, <3>4, FeaturesConstants
  <2>8. CASE h = l /\ t = s /\ m \notin done
    <3>1. F = D \union {m} /\ m \notin D /\ Q = R
      BY <1>3, <2>1, <2>2, <2>6, <2>8
    <3>2. q = r /\ f = d + 1
      BY <2>3, <2>4, <3>1, FS_AddElement
    <3>3. counts'[h][t] = c + 1
      BY <1>7, <2>3, <2>8
    <3>4. counts'[h][t] + q <= f + faults /\ counts'[h][t] \in Nat
      BY <1>5, <2>4, <2>5, <3>2, <3>3
    <3>5. QED
      BY <1>3, <1>5, <2>1, <2>3, <2>4, <3>4, FeaturesConstants
  <2>9. CASE ~(h = l /\ t = s)
    <3>1. F = D /\ Q = R
      BY <1>3, <2>1, <2>2, <2>6, <2>9
    <3>2. q = r /\ f = d
      BY <2>3, <3>1
    <3>3. counts'[h][t] = c
      BY <1>7, <2>3, <2>9
    <3>4. counts'[h][t] + q <= f + faults /\ counts'[h][t] \in Nat
      BY <1>5, <2>4, <2>5, <3>2, <3>3
    <3>5. QED
      BY <1>3, <1>5, <2>1, <2>3, <2>4, <3>4, FeaturesConstants
  <2>10. QED
    BY <2>7, <2>8, <2>9
<1>9. CountInv'
  <2>1. ASSUME NEW h \in Host, NEW t \in Ts, counts'[h][t] > 0 PROVE t = open'
    <3>1. CASE h = l /\ t = s
      BY <1>6, <3>1
    <3>2. CASE ~(h = l /\ t = s)
      <4>1. t = open
        BY <1>7, <2>1, <3>2 DEF FeatInv, CountInv
      <4>2. t # NoWindow
        BY FeaturesConstants DEF NoWindow
      <4>3. QED
        BY <1>6, <4>1, <4>2
    <3>3. QED
      BY <3>1, <3>2
  <2>2. QED
    BY <1>8, <2>1 DEF CountInv
<1>10. FeaturesTypeOK'
  <2>1. counts' \in [Host -> [Ts -> 0..MaxPublished + MaxFaults]]
    <3>1. counts' \in [Host -> [Ts -> Int]]
      BY <1>4, <1>5, <1>6
    <3>2. QED
      BY <1>8, <3>1
  <2>2. reordered' \in BOOLEAN /\ silent' = FALSE
        /\ UNCHANGED <<event, peers, prev, stored, published, job, stalled>>
    BY DEF accumulate, FeatInv, FeaturesTypeOK
  <2>3. TypeOK'
    BY DEF BusInv
  <2>4. QED
    BY <1>4, <1>6, <2>1, <2>2, <2>3 DEF FeatInv, FeaturesTypeOK
<1>11. StoredBeforePublished' /\ OvercountBoundedByFaults'
  <2>1. UNCHANGED <<event, stored, published, faults>>
    BY <1>3 DEF accumulate
  <2>2. QED
    BY <2>1, VectorsStay
<1>12. QED
  BY <1>2, <1>9, <1>10, <1>11 DEF FeatInv

-----------------------------------------------------------------------------
\* The counters are as accounted for as before when neither they nor the bus moved.
LEMMA CountInvStays ==
    ASSUME CountInv, UNCHANGED <<busVars, event, counts, open>>
    PROVE  CountInv'
<1>1. Settled' = Settled
  BY DEF busVars, redisVars, Settled
<1>2. \A h, t : EventsOf(h, t)' = EventsOf(h, t) /\ Recount(h, t)' = Recount(h, t)
  BY <1>1 DEF EventsOf, Recount, busVars
<1>3. QED
  BY <1>2 DEF CountInv, busVars

\* A close that takes up its next host is as a close should be there.
LEMMA NextHostEmits ==
    ASSUME NEW j \in Job, NEW last_ts \in [Host -> Ts \union {NoWindow}],
           faults' \in Nat, event' \in [Id -> [host : Host, ts : Ts]]
    PROVE  \A e : e = NextHost(j, last_ts) =>
              /\ e \in Job /\ SameClose(e, j) /\ AtHand(e)'
              /\ e.hosts = {} <=> e.phase \in {"discard", "clear"}
              /\ e.phase # "clear"
              /\ e.hosts # {} => \A G : Emitting(e, Least(e.hosts), last_ts[Least(e.hosts)], G)
<1> TAKE e
<1> HAVE e = NextHost(j, last_ts)
<1>1. /\ e \in Job /\ SameClose(e, j)
      /\ j.hosts = {} <=> e.phase = "discard"
      /\ j.hosts # {} => ToEmit(e, Least(j.hosts), DueLen(last_ts[Least(j.hosts)], j.win))
  BY NextHostIs
<1>2. e.hosts = j.hosts /\ e.win = j.win
  BY <1>1 DEF SameClose
<1>3. CASE e.hosts = {}
  <2>1. e.phase = "discard"
    BY <1>1, <1>2, <1>3
  <2>2. AtHand(e)'
    BY <2>1 DEF AtHand
  <2>3. QED
    BY <1>1, <1>3, <2>1, <2>2
<1>4. CASE e.hosts # {}
  <2>1. PICK h, from, n : h = Least(e.hosts) /\ from = last_ts[h] /\ n = DueLen(from, e.win)
    OBVIOUS
  <2>2. h \in Host /\ from \in Ts \union {NoWindow} /\ e.win \in Ts /\ e.hosts \in SUBSET Host
    BY <1>1, <1>4, <2>1, HostAtHand DEF Job
  <2>3. n \in Nat /\ ToEmit(e, h, n) /\ e.win \in Int
    <3>1. Least(j.hosts) = h
      BY <1>2, <2>1
    <3>2. DueLen(last_ts[h], j.win) = n
      BY <1>2, <2>1
    <3>3. ToEmit(e, h, n)
      BY <1>1, <1>2, <1>4, <3>1, <3>2
    <3>4. n \in Nat
      BY <2>1, <2>2, DueIsRun
    <3>5. QED
      BY <2>2, <3>3, <3>4, FeaturesConstants
  <2>4. \A t \in e.win - n + 1 .. e.win - n : FALSE
    BY <2>3
  <2>5. /\ \A G : Emitting(e, h, from, G)
        /\ e.phase \in {"history", "peers", "save"}
        /\ e.phase = "save" => e.vector = zero_features(h, e.win - n + 1) /\ e.win - n + 1 \in Ts
    <3>1. ASSUME NEW G
          PROVE  /\ Emitting(e, h, from, G)
                 /\ e.phase \in {"history", "peers", "save"}
                 /\ e.phase = "save" => e.vector = zero_features(h, e.win - n + 1) /\ e.win - n + 1 \in Ts
      <4>1. n <= DueLen(from, e.win)
        BY <2>1, <2>3
      <4>2. \A t \in e.win - DueLen(from, e.win) + 1 .. e.win - n : t \in G
        BY <2>1, <2>4
      <4>3. QED
        BY <1>1, <2>2, <2>3, <4>1, <4>2, EmittingNext
    <3>2. QED
      BY <3>1
  <2>6. AtHand(e)'
    <3>1. e.phase \in {"history", "peers", "save", "discard"}
      BY <2>5
    <3>2. e.phase = "save" => \E t \in Ts : e.vector = zero_features(h, t)
      BY <2>5
    <3>3. QED
      BY <1>1, <2>2, <3>1, <3>2, ZeroAtHand
  <2>7. QED
    BY <1>1, <1>4, <2>1, <2>5, <2>6
<1>5. QED
  BY <1>3, <1>4

\* The grace elapses.
LEMMA FallSilentKeeps ==
    ASSUME FeatInv, BusInv', SoleInv', FallSilent
    PROVE  FeatInv'
<1>1. /\ UNCHANGED <<busVars, event, open, counts, peers, prev, stored, published, job, reordered>>
      /\ silent' = TRUE /\ stalled' \in BOOLEAN
  BY DEF FallSilent, FeatInv, FeaturesTypeOK
<1>2. FeaturesTypeOK'
  BY <1>1 DEF FeatInv, FeaturesTypeOK, BusInv
<1>3. CountInv'
  BY <1>1, CountInvStays DEF FeatInv
<1>4. StoredBeforePublished' /\ OvercountBoundedByFaults'
  BY <1>1, VectorsStay DEF busVars
<1>5. job' # NoJob => CloseInv(job)'
  <2>1. /\ \A h : PublishedTs(h)' = PublishedTs(h)
        /\ \A h, t : EventsOf(h, t)' = EventsOf(h, t)
    BY <1>1 DEF Published, PublishedTs, EventsOf
  <2>2. QED
    BY <1>1, <2>1 DEF FeatInv, CloseInv, AtHand, HostsOf, busVars
<1>6. QED
  BY <1>2, <1>3, <1>4, <1>5 DEF FeatInv

\* A close begins, with all hosts of the window to send.
LEMMA CloseBegins ==
    ASSUME FeatInv, BusInv', SoleInv', NEW w \in Worker, CloseByEvent(w) \/ watchdog_tick(w)
    PROVE  /\ FeatInv'
           /\ job = NoJob /\ open \in Ts /\ job' # NoJob /\ job'.win = open
           /\ job'.hosts = HostsOf(open) /\ job'.phase # "clear"
           /\ job'.hosts # {} => ToEmit(job', Least(job'.hosts), DueLen(prev[Least(job'.hosts)], open))
<1>1. /\ UNCHANGED <<busVars, event, open, silent, counts, peers, prev, stored, published, stalled, reordered>>
      /\ job = NoJob /\ open # NoWindow
      /\ \E who \in {"event", "watchdog"} : _close_window(who)
  BY DEF CloseByEvent, watchdog_tick, Handling, history
<1>2. open \in Ts /\ FeaturesTypeOK
  BY <1>1 DEF FeatInv, FeaturesTypeOK
<1>3. PICK who \in {"event", "watchdog"} : _close_window(who)
  BY <1>1
<1>4. PICK j : j = [by |-> who, win |-> open, hosts |-> HostsOf(open), todo |-> <<>>,
                    vector |-> <<>>, phase |-> "discard"]
  OBVIOUS
<1>5. j \in Job /\ j.win = open /\ j.hosts = HostsOf(open)
  <2>1. <<>> \in Seq(Ts) /\ HostsOf(open) \subseteq Host
    BY DEF HostsOf
  <2>2. QED
    BY <1>2, <1>4, <2>1 DEF Job, Phases
<1>6. PICK e : e = NextHost(j, prev)
  OBVIOUS
<1>7. job' = e
  BY <1>3, <1>4, <1>6 DEF _close_window
<1>8. prev \in [Host -> Ts \union {NoWindow}] /\ faults' \in Nat
      /\ event' \in [Id -> [host : Host, ts : Ts]]
  BY <1>1, <1>2, FeaturesConstants DEF FeaturesTypeOK, TypeOK, busVars, Captures
<1>9. /\ e \in Job /\ SameClose(e, j) /\ AtHand(e)'
      /\ e.hosts = {} <=> e.phase \in {"discard", "clear"}
      /\ e.phase # "clear"
      /\ e.hosts # {} => \A G : Emitting(e, Least(e.hosts), prev[Least(e.hosts)], G)
  BY <1>5, <1>6, <1>8, NextHostEmits
<1>10. e.hosts = HostsOf(open) /\ e.win = open
  BY <1>5, <1>9 DEF SameClose
<1>11. CloseInv(e)'
  BY <1>1, <1>9, <1>10 DEF CloseInv, HostsOf
<1>12. FeaturesTypeOK'
  BY <1>1, <1>7, <1>9 DEF FeatInv, FeaturesTypeOK, BusInv
<1>13. CountInv'
  BY <1>1, CountInvStays DEF FeatInv
<1>14. StoredBeforePublished' /\ OvercountBoundedByFaults'
  BY <1>1, VectorsStay DEF busVars
<1>15. CloseInv(job)'
  BY <1>7, <1>11 DEF CloseInv, AtHand
<1>16. e.hosts # {} => ToEmit(e, Least(e.hosts), DueLen(prev[Least(e.hosts)], open))
  BY <1>5, <1>6, <1>8, <1>10, NextHostIs
<1>17. job' # NoJob
  BY <1>2, <1>7, <1>9, CloseFacts
<1>18. QED
  BY <1>1, <1>2, <1>7, <1>9, <1>10, <1>12, <1>13, <1>14, <1>15, <1>16, <1>17 DEF FeatInv

-----------------------------------------------------------------------------
\* A close that stays at its host leaves what it has done as it was.
LEMMA CloseGoesOn ==
    ASSUME FeatInv, job # NoJob, job.hosts # {}, UNCHANGED <<open, counts, prev>>,
           \A h \in Host : PublishedTs(h) \subseteq PublishedTs(h)',
           NEW e \in Job, SameClose(e, job), e.phase \in {"peers", "save", "publish", "history"},
           NEW h \in Host, h = Least(job.hosts), Emitting(e, h, prev[h], PublishedTs(h)'), AtHand(e)'
    PROVE  CloseInv(e)'
<1>1. CloseInv(job) /\ e.hosts = job.hosts /\ e.win = job.win
  BY DEF FeatInv, SameClose
<1>2. HostsOf(e.win)' = HostsOf(job.win)
  BY <1>1 DEF HostsOf
<1>3. \A l \in HostsOf(e.win) \ e.hosts : prev[l] = e.win /\ e.win \in PublishedTs(l)'
  <2>1. HostsOf(e.win) \subseteq Host
    BY DEF HostsOf
  <2>2. QED
    BY <1>1, <2>1 DEF CloseInv
<1>4. Emitting(e, h, prev[h], PublishedTs(h))'
  BY DEF Emitting
<1>5. h = Least(e.hosts)
  BY <1>1
<1>6. QED
  BY <1>1, <1>2, <1>3, <1>4, <1>5 DEF CloseInv

\* Where a close stands with the host at hand.
LEMMA AtHost ==
    ASSUME FeatInv, job # NoJob, job.phase \in {"peers", "save", "publish", "history"}
    PROVE  \E h \in Host, from \in Ts \union {NoWindow}, n \in Nat :
              /\ h = Least(job.hosts) /\ h \in job.hosts /\ from = prev[h]
              /\ job \in Job /\ CloseInv(job) /\ job.hosts # {}
              /\ job.win \in Ts /\ job.win = open /\ counts[h][open] > 0
              /\ DueLen(from, job.win) \in Nat /\ DueLen(from, job.win) > 0
              /\ n <= DueLen(from, job.win) /\ n \in 0..DueLen(from, job.win)
              /\ n > 0 => job.win - n + 1 \in Ts
              /\ job.todo = Run(job.win, n)
              /\ \A t \in job.win - DueLen(from, job.win) + 1 .. job.win - n : t \in PublishedTs(h)
              /\ n = 0 <=> job.phase = "history"
              /\ job.phase = "peers" => n = 1
              /\ job.phase \in {"save", "publish"} =>
                    /\ job.vector \in Vector /\ job.vector.host = h
                    /\ job.vector.ts = job.win - n + 1
<1>1. FeaturesTypeOK /\ CloseInv(job)
  BY DEF FeatInv
<1>2. /\ job \in Job /\ job.win \in Ts /\ job.hosts \subseteq Host /\ job.hosts # {}
      /\ Least(job.hosts) \in job.hosts /\ Least(job.hosts) \in Host
  BY <1>1, CloseFacts DEF CloseInv
<1>3. PICK h \in Host : h = Least(job.hosts) /\ h \in job.hosts
  BY <1>2
<1>4. PICK from \in Ts \union {NoWindow} : from = prev[h]
  BY <1>1 DEF FeaturesTypeOK
<1>5. Emitting(job, h, from, PublishedTs(h))
  BY <1>1, <1>2, <1>3, <1>4 DEF CloseInv
<1>6. /\ DueLen(from, job.win) \in Nat /\ DueLen(from, job.win) > 0
      /\ \A m \in 0..DueLen(from, job.win) : m > 0 => job.win - m + 1 \in Ts
  BY <1>2, DueIsRun
<1>7. PICK n \in 0..DueLen(from, job.win) :
        /\ job.todo = Run(job.win, n)
        /\ \A t \in job.win - DueLen(from, job.win) + 1 .. job.win - n : t \in PublishedTs(h)
        /\ n = 0 <=> job.phase = "history"
        /\ job.phase = "peers" => n = 1
        /\ job.phase \in {"save", "publish"} =>
              job.vector \in Vector /\ job.vector.host = h /\ job.vector.ts = job.win - n + 1
  BY <1>5 DEF Emitting
<1>8. n \in Nat /\ n <= DueLen(from, job.win) /\ (n > 0 => job.win - n + 1 \in Ts)
  BY <1>6, <1>7
<1>9. job.win = open /\ counts[h][open] > 0
  BY <1>1, <1>3 DEF CloseInv, HostsOf
<1>10. QED
  BY <1>1, <1>2, <1>3, <1>4, <1>6, <1>7, <1>8, <1>9

\* The last vector of a host counts its events.
LEMMA record_peersKeeps ==
    ASSUME FeatInv, BusInv', SoleInv', record_peers
    PROVE  FeatInv'
<1>1. /\ job # NoJob /\ job.phase = "peers"
      /\ UNCHANGED <<busVars, event, open, silent, counts, prev, stored, published, stalled, reordered>>
  BY DEF record_peers, history
<1>2. PICK h \in Host, from \in Ts \union {NoWindow}, n \in Nat :
              /\ h = Least(job.hosts) /\ h \in job.hosts /\ from = prev[h]
              /\ job \in Job /\ CloseInv(job) /\ job.hosts # {}
              /\ job.win \in Ts /\ n \in 0..DueLen(from, job.win)
              /\ job.todo = Run(job.win, n)
              /\ \A t \in job.win - DueLen(from, job.win) + 1 .. job.win - n : t \in PublishedTs(h)
              /\ job.phase = "peers" => n = 1
  BY <1>1, AtHost
<1>3. PICK v : v = [host |-> h, ts |-> job.win, events |-> counts[h][job.win], new_peer |-> h \notin peers]
  OBVIOUS
<1>4. PICK e : e = [job EXCEPT !.phase = "save", !.vector = v]
  OBVIOUS
<1>5. job' = e /\ peers' = peers \union {h}
  BY <1>2, <1>3, <1>4 DEF record_peers
<1>6. /\ v \in Vector /\ v.host = h /\ v.ts = job.win /\ v.events = counts[h][job.win]
      /\ v.events \in Nat
  <2>1. counts[h][job.win] \in 0..MaxPublished + MaxFaults
    BY <1>2 DEF FeatInv, FeaturesTypeOK
  <2>2. (h \notin peers) \in BOOLEAN
    OBVIOUS
  <2>3. QED
    BY <1>2, <1>3, <2>1, <2>2, FeaturesConstants DEF Vector
<1>7. /\ e \in Job /\ e.phase = "save" /\ e.vector = v /\ SameClose(e, job)
      /\ e.todo = job.todo /\ e.win = job.win
  BY <1>2, <1>4, <1>6 DEF Job, Phases, SameClose
<1>8. /\ Published' = Published /\ \A l : PublishedTs(l)' = PublishedTs(l)
      /\ \A l, t : EventsOf(l, t)' = EventsOf(l, t)
  BY <1>1 DEF Published, PublishedTs, EventsOf
<1>9. Emitting(e, h, from, PublishedTs(h))
  <2>1. n = 1 /\ job.win - n + 1 = job.win
    BY <1>1, <1>2, FeaturesConstants
  <2>2. QED
    BY <1>2, <1>6, <1>7, <2>1 DEF Emitting
<1>10. AtHand(e)'
  <2>1. PICK R, D, E : /\ R = Recount(h, job.win) /\ E = EventsOf(h, job.win)
                       /\ D = EventsOf(h, job.win) \intersect done
    OBVIOUS
  <2>2. R \in SUBSET Id /\ D \in SUBSET Id /\ E \in SUBSET Id /\ D \subseteq E
    BY <2>1 DEF Recount, EventsOf
  <2>3. /\ Cardinality(R) \in Nat /\ Cardinality(D) \in Nat /\ Cardinality(E) \in Nat
        /\ Cardinality(D) <= Cardinality(E)
    BY <2>2, EventsFinite, FS_Subset
  <2>4. counts[h][job.win] + Cardinality(R) <= Cardinality(D) + faults
    BY <1>2, <2>1 DEF FeatInv, CountInv
  <2>5. faults \in Nat
    BY FeaturesConstants DEF FeatInv, FeaturesTypeOK, TypeOK
  <2>6. v.events <= Cardinality(E) + faults
    BY <1>6, <2>3, <2>4, <2>5
  <2>7. QED
    BY <1>1, <1>6, <1>7, <1>8, <2>1, <2>6 DEF AtHand, busVars
<1>11. CloseInv(e)'
  <2>1. Emitting(e, h, prev[h], PublishedTs(h)')
    BY <1>2, <1>8, <1>9
  <2>2. \A l \in Host : PublishedTs(l) \subseteq PublishedTs(l)'
    BY <1>8
  <2>3. QED
    BY <1>1, <1>2, <1>7, <1>10, <2>1, <2>2, CloseGoesOn
<1>12. FeaturesTypeOK'
  BY <1>1, <1>5, <1>7 DEF FeatInv, FeaturesTypeOK, BusInv
<1>13. CountInv'
  BY <1>1, CountInvStays DEF FeatInv
<1>14. StoredBeforePublished' /\ OvercountBoundedByFaults'
  BY <1>1, VectorsStay DEF busVars
<1>15. CloseInv(job)'
  BY <1>5, <1>11 DEF CloseInv, AtHand
<1>16. QED
  BY <1>12, <1>13, <1>14, <1>15 DEF FeatInv

\* The vector is durable, be it this one or one of an earlier attempt.
LEMMA saveKeeps ==
    ASSUME FeatInv, BusInv', SoleInv', save
    PROVE  FeatInv'
<1>1. /\ job # NoJob /\ job.phase = "save"
      /\ UNCHANGED <<busVars, event, open, silent, counts, peers, prev, published, stalled, reordered>>
  BY DEF save, history
<1>2. PICK h \in Host, from \in Ts \union {NoWindow}, n \in Nat :
              /\ h = Least(job.hosts) /\ h \in job.hosts /\ from = prev[h]
              /\ job \in Job /\ CloseInv(job) /\ job.hosts # {}
              /\ job.win \in Ts /\ n \in 0..DueLen(from, job.win)
              /\ job.todo = Run(job.win, n)
              /\ \A t \in job.win - DueLen(from, job.win) + 1 .. job.win - n : t \in PublishedTs(h)
              /\ n = 0 <=> job.phase = "history"
              /\ job.phase \in {"save", "publish"} =>
                    /\ job.vector \in Vector /\ job.vector.host = h
                    /\ job.vector.ts = job.win - n + 1
  BY <1>1, AtHost
<1>3. PICK e, v : e = [job EXCEPT !.phase = "publish"] /\ v = job.vector
  OBVIOUS
<1>4. /\ job' = e /\ v \in Vector
      /\ stored' = IF Key(v) \in DOMAIN stored THEN stored
                   ELSE [k \in DOMAIN stored \union {Key(v)} |->
                            IF k = Key(v) THEN v ELSE stored[k]]
  BY <1>1, <1>2, <1>3 DEF save
<1>5. /\ DOMAIN stored' = DOMAIN stored \union {Key(v)}
      /\ \A k \in DOMAIN stored' : stored'[k] \in Vector /\ k = Key(stored'[k])
  <2>1. \A k \in DOMAIN stored : stored[k] \in Vector /\ k = Key(stored[k])
    BY DEF FeatInv, FeaturesTypeOK
  <2>2. PICK x : x = Key(v)
    OBVIOUS
  <2>3. CASE x \in DOMAIN stored
    BY <1>4, <2>1, <2>2, <2>3
  <2>4. CASE x \notin DOMAIN stored
    <3>1. stored' = [k \in DOMAIN stored \union {x} |-> IF k = x THEN v ELSE stored[k]]
      BY <1>4, <2>2, <2>4
    <3>2. DOMAIN stored' = DOMAIN stored \union {x}
      BY <3>1
    <3>3. \A k \in DOMAIN stored' : stored'[k] \in Vector /\ k = Key(stored'[k])
      BY <1>4, <2>1, <2>2, <3>1
    <3>4. QED
      BY <2>2, <3>2, <3>3
  <2>5. QED
    BY <2>3, <2>4
<1>6. /\ e \in Job /\ e.phase = "publish" /\ e.vector = v /\ SameClose(e, job)
      /\ e.todo = job.todo /\ e.win = job.win
  BY <1>2, <1>3 DEF Job, Phases, SameClose
<1>7. /\ Published' = Published /\ \A l : PublishedTs(l)' = PublishedTs(l)
      /\ \A l, t : EventsOf(l, t)' = EventsOf(l, t)
  BY <1>1 DEF Published, PublishedTs, EventsOf
<1>8. Emitting(e, h, from, PublishedTs(h))
  BY <1>1, <1>2, <1>3, <1>6 DEF Emitting
<1>9. AtHand(e)'
  <2>1. v.events <= Cardinality(EventsOf(v.host, v.ts)) + faults
    BY <1>1, <1>2, <1>3 DEF CloseInv, AtHand
  <2>2. QED
    BY <1>1, <1>5, <1>6, <1>7, <2>1 DEF AtHand, busVars
<1>10. CloseInv(e)'
  <2>1. Emitting(e, h, prev[h], PublishedTs(h)')
    BY <1>2, <1>7, <1>8
  <2>2. \A l \in Host : PublishedTs(l) \subseteq PublishedTs(l)'
    BY <1>7
  <2>3. QED
    BY <1>1, <1>2, <1>6, <1>9, <2>1, <2>2, CloseGoesOn
<1>11. FeaturesTypeOK'
  BY <1>1, <1>4, <1>5, <1>6 DEF FeatInv, FeaturesTypeOK, BusInv
<1>12. CountInv'
  BY <1>1, CountInvStays DEF FeatInv
<1>13. StoredBeforePublished' /\ OvercountBoundedByFaults'
  BY <1>1, <1>5, <1>7 DEF FeatInv, StoredBeforePublished, OvercountBoundedByFaults, busVars
<1>14. CloseInv(job)'
  BY <1>4, <1>10 DEF CloseInv, AtHand
<1>15. QED
  BY <1>11, <1>12, <1>13, <1>14 DEF FeatInv

\* The vector is out, and the next window of the host is taken up.
LEMMA publishKeeps ==
    ASSUME FeatInv, BusInv', SoleInv', publish
    PROVE  FeatInv'
<1>1. /\ job # NoJob /\ job.phase = "publish"
      /\ UNCHANGED <<busVars, event, open, silent, counts, peers, prev, stored, stalled, reordered>>
      /\ published' = Append(published, job.vector)
  BY DEF publish, history
<1>2. PICK h \in Host, from \in Ts \union {NoWindow}, n \in Nat :
              /\ h = Least(job.hosts) /\ h \in job.hosts /\ from = prev[h]
              /\ job \in Job /\ CloseInv(job) /\ job.hosts # {}
              /\ job.win \in Ts
              /\ DueLen(from, job.win) \in Nat
              /\ n \in 0..DueLen(from, job.win)
              /\ job.todo = Run(job.win, n)
              /\ \A t \in job.win - DueLen(from, job.win) + 1 .. job.win - n : t \in PublishedTs(h)
              /\ n = 0 <=> job.phase = "history"
              /\ job.phase \in {"save", "publish"} =>
                    /\ job.vector \in Vector /\ job.vector.host = h
                    /\ job.vector.ts = job.win - n + 1
  BY <1>1, AtHost
<1>3. PICK v, t, d : v = job.vector /\ t = job.win /\ d = DueLen(from, t)
  OBVIOUS
<1>4. /\ v \in Vector /\ v.host = h /\ v.ts = t - n + 1 /\ n \in Nat /\ n > 0 /\ t \in Int
      /\ d \in Nat /\ n <= d
  BY <1>1, <1>2, <1>3, FeaturesConstants
<1>5. \A m \in 0..d : (m > 0 => t - m + 1 \in Ts) /\ Run(t, m) \in Seq(Ts)
  BY <1>2, <1>3, DueIsRun
<1>6. PICK m \in Nat : m = n - 1
  BY <1>4
<1>7. Tail(job.todo) = Run(t, m) /\ Run(t, m) \in Seq(Ts)
  <2>1. m \in 0..d
    BY <1>4, <1>6
  <2>2. Tail(Run(t, n)) = Run(t, n - 1)
    BY <1>4, RunFacts
  <2>3. QED
    BY <1>2, <1>3, <1>5, <1>6, <2>1, <2>2
<1>8. PICK j : j = [job EXCEPT !.todo = Run(t, m)]
  OBVIOUS
<1>9. j \in Job /\ j.todo = Run(j.win, m) /\ j.hosts = job.hosts /\ j.win = t /\ SameClose(j, job)
  BY <1>2, <1>3, <1>7, <1>8 DEF Job, SameClose
<1>10. PICK e : e = NextVector(j)
  OBVIOUS
<1>11. job' = e
  <2>1. j = [job EXCEPT !.todo = Tail(@)]
    BY <1>2, <1>7, <1>8 DEF Job
  <2>2. QED
    BY <1>10, <2>1 DEF publish
<1>12. e \in Job /\ SameClose(e, j) /\ ToEmit(e, h, m)
  <2>1. m > 0 => j.win - m + 1 \in Ts
    <3>1. m \in 0..d
      BY <1>4, <1>6
    <3>2. QED
      BY <1>5, <1>9, <3>1
  <2>2. NextVector(j) \in Job /\ SameClose(NextVector(j), j) /\ ToEmit(NextVector(j), Least(j.hosts), m)
    BY <1>2, <1>9, <2>1, NextVectorIs
  <2>3. Least(j.hosts) = h
    BY <1>2, <1>9
  <2>4. QED
    BY <1>10, <2>2, <2>3
<1>13. e.win = t /\ e.hosts = job.hosts /\ SameClose(e, job)
  BY <1>9, <1>12 DEF SameClose
<1>14. /\ Published' = Published \union {v}
       /\ \A l \in Host : PublishedTs(l) \subseteq PublishedTs(l)'
       /\ PublishedTs(h)' = PublishedTs(h) \union {t - n + 1}
       /\ \A l, u : EventsOf(l, u)' = EventsOf(l, u)
  <2>1. published \in Seq(Vector) /\ published' = Append(published, v)
    BY <1>1, <1>3 DEF FeatInv, FeaturesTypeOK
  <2>2. /\ Published' = Published \union {v}
        /\ \A l \in Host : PublishedTs(l)' =
              PublishedTs(l) \union (IF v.host = l THEN {v.ts} ELSE {})
    BY <1>4, <2>1, PublishedFacts
  <2>3. QED
    BY <1>1, <1>4, <2>2 DEF EventsOf
<1>15. /\ Emitting(e, h, from, PublishedTs(h)')
       /\ e.phase \in {"history", "peers", "save"}
       /\ e.phase = "save" => e.vector = zero_features(h, t - m + 1) /\ t - m + 1 \in Ts
  <2>1. PICK G : G = PublishedTs(h)'
    OBVIOUS
  <2>2. \A u \in t - d + 1 .. t - m : u \in G
    <3>1. ASSUME NEW u \in t - d + 1 .. t - m PROVE u \in G
      <4>1. u \in t - d + 1 .. t - n \/ u = t - n + 1
        BY <1>4, <1>6, <3>1
      <4>2. u \in t - d + 1 .. t - n => u \in PublishedTs(h)
        BY <1>2, <1>3
      <4>3. QED
        BY <1>14, <2>1, <4>1, <4>2
    <3>2. QED
      BY <3>1
  <2>3. m <= d /\ d = DueLen(from, e.win)
    BY <1>3, <1>4, <1>6, <1>13
  <2>4. \A u \in e.win - DueLen(from, e.win) + 1 .. e.win - m : u \in G
    BY <1>13, <2>2, <2>3
  <2>5. m <= DueLen(from, e.win)
    BY <2>3
  <2>6. /\ Emitting(e, h, from, G)
        /\ e.phase \in {"history", "peers", "save"}
        /\ e.phase = "save" => e.vector = zero_features(h, e.win - m + 1) /\ e.win - m + 1 \in Ts
    BY <1>12, <2>4, <2>5, EmittingNext
  <2>7. QED
    BY <1>13, <2>1, <2>6
<1>16. AtHand(e)'
  <2>1. e.phase = "save" => \E u \in Ts : e.vector = zero_features(h, u)
    BY <1>15
  <2>2. faults' \in Nat /\ event' \in [Id -> [host : Host, ts : Ts]]
    BY <1>1, FeaturesConstants DEF FeatInv, FeaturesTypeOK, TypeOK, busVars, Captures
  <2>3. QED
    BY <1>12, <1>15, <2>1, <2>2, ZeroAtHand
<1>17. CloseInv(e)'
  <2>1. Emitting(e, h, prev[h], PublishedTs(h)')
    BY <1>2, <1>15
  <2>2. e.phase \in {"peers", "save", "publish", "history"}
    BY <1>15
  <2>3. QED
    BY <1>1, <1>2, <1>12, <1>13, <1>14, <1>16, <2>1, <2>2, CloseGoesOn
<1>18. FeaturesTypeOK'
  <2>1. published' \in Seq(Vector)
    BY <1>1, <1>3, <1>4 DEF FeatInv, FeaturesTypeOK
  <2>2. QED
    BY <1>1, <1>11, <1>12, <2>1 DEF FeatInv, FeaturesTypeOK, BusInv
<1>19. CountInv'
  BY <1>1, CountInvStays DEF FeatInv
<1>20. StoredBeforePublished' /\ OvercountBoundedByFaults'
  <2>1. Key(v) \in DOMAIN stored /\ v.events <= Cardinality(EventsOf(v.host, v.ts)) + faults
    BY <1>1, <1>2, <1>3 DEF CloseInv, AtHand
  <2>2. stored' = stored /\ faults' = faults
    BY <1>1 DEF busVars
  <2>3. QED
    BY <1>14, <2>1, <2>2 DEF FeatInv, StoredBeforePublished, OvercountBoundedByFaults
<1>21. CloseInv(job)'
  BY <1>11, <1>17 DEF CloseInv, AtHand
<1>22. QED
  BY <1>18, <1>19, <1>20, <1>21 DEF FeatInv

\* The host is remembered as sent, and the close moves on to the next one.
LEMMA write_historyKeeps ==
    ASSUME FeatInv, BusInv', SoleInv', write_history
    PROVE  FeatInv'
<1>1. /\ job # NoJob /\ job.phase = "history"
      /\ UNCHANGED <<busVars, event, open, silent, counts, peers, stored, published, stalled, reordered>>
  BY DEF write_history, history
<1>2. PICK h \in Host, from \in Ts \union {NoWindow}, n \in Nat :
              /\ h = Least(job.hosts) /\ h \in job.hosts /\ from = prev[h]
              /\ job \in Job /\ CloseInv(job) /\ job.hosts # {}
              /\ job.win \in Ts
              /\ DueLen(from, job.win) \in Nat /\ DueLen(from, job.win) > 0
              /\ \A t \in job.win - DueLen(from, job.win) + 1 .. job.win - n : t \in PublishedTs(h)
              /\ n = 0 <=> job.phase = "history"
  BY <1>1, AtHost
<1>3. PICK t : t = job.win
  OBVIOUS
<1>4. t \in PublishedTs(h) /\ t \in Ts /\ open = t
  <2>1. n = 0 /\ t \in Int /\ DueLen(from, t) \in Nat /\ DueLen(from, t) > 0
    BY <1>1, <1>2, <1>3, FeaturesConstants
  <2>2. t \in t - DueLen(from, t) + 1 .. t - n
    BY <2>1
  <2>3. QED
    BY <1>2, <1>3, <2>2 DEF CloseInv
<1>5. prev' = [prev EXCEPT ![h] = t] /\ prev' \in [Host -> Ts \union {NoWindow}]
      /\ prev'[h] = t /\ \A l \in Host : l # h => prev'[l] = prev[l]
  <2>1. prev' = [prev EXCEPT ![h] = t] /\ prev \in [Host -> Ts \union {NoWindow}]
    BY <1>2, <1>3 DEF write_history, FeatInv, FeaturesTypeOK
  <2>2. QED
    BY <1>4, <2>1
<1>6. PICK j : j = [job EXCEPT !.hosts = job.hosts \ {h}]
  OBVIOUS
<1>7. j \in Job /\ j.win = t /\ j.hosts = job.hosts \ {h}
  BY <1>2, <1>3, <1>6 DEF Job
<1>8. PICK e : e = NextHost(j, prev')
  OBVIOUS
<1>9. job' = e
  <2>1. j = [job EXCEPT !.hosts = @ \ {h}]
    BY <1>2, <1>6 DEF Job
  <2>2. QED
    BY <1>2, <1>8, <2>1 DEF write_history
<1>10. /\ e \in Job /\ SameClose(e, j) /\ AtHand(e)'
       /\ e.hosts = {} <=> e.phase \in {"discard", "clear"}
       /\ e.phase # "clear"
       /\ e.hosts # {} => \A G : Emitting(e, Least(e.hosts), prev'[Least(e.hosts)], G)
  <2>1. faults' \in Nat /\ event' \in [Id -> [host : Host, ts : Ts]]
    BY <1>1, FeaturesConstants DEF FeatInv, FeaturesTypeOK, TypeOK, busVars, Captures
  <2>2. QED
    BY <1>5, <1>7, <1>8, <2>1, NextHostEmits
<1>11. e.win = t /\ e.hosts = job.hosts \ {h}
  BY <1>7, <1>10 DEF SameClose
<1>12. CloseInv(e)'
  <2>1. HostsOf(e.win)' = HostsOf(t) /\ HostsOf(t) \subseteq Host
    BY <1>1, <1>11 DEF HostsOf
  <2>2. \A l \in HostsOf(t) \ e.hosts : prev'[l] = t /\ t \in PublishedTs(l)
    <3>1. ASSUME NEW l \in HostsOf(t) \ e.hosts PROVE prev'[l] = t /\ t \in PublishedTs(l)
      <4>1. CASE l = h
        BY <1>4, <1>5, <4>1
      <4>2. CASE l # h
        BY <1>2, <1>3, <1>5, <1>11, <2>1, <4>2 DEF CloseInv
      <4>3. QED
        BY <4>1, <4>2
    <3>2. QED
      BY <3>1
  <2>3. e.hosts \subseteq HostsOf(t) /\ open' = t
    BY <1>1, <1>2, <1>3, <1>4, <1>11 DEF CloseInv
  <2>4. \A l : PublishedTs(l)' = PublishedTs(l)
    BY <1>1 DEF Published, PublishedTs
  <2>5. e.hosts # {} =>
           Emitting(e, Least(e.hosts), prev[Least(e.hosts)], PublishedTs(Least(e.hosts)))'
    BY <1>10 DEF Emitting
  <2>6. QED
    BY <1>10, <1>11, <2>1, <2>2, <2>3, <2>4, <2>5 DEF CloseInv
<1>13. FeaturesTypeOK'
  BY <1>1, <1>5, <1>9, <1>10 DEF FeatInv, FeaturesTypeOK, BusInv
<1>14. CountInv'
  BY <1>1, CountInvStays DEF FeatInv
<1>15. StoredBeforePublished' /\ OvercountBoundedByFaults'
  BY <1>1, VectorsStay DEF busVars
<1>16. CloseInv(job)'
  BY <1>9, <1>12 DEF CloseInv, AtHand
<1>17. QED
  BY <1>13, <1>14, <1>15, <1>16 DEF FeatInv

\* All hosts of the window are sent, and its counters go.
LEMMA discard_windowKeeps ==
    ASSUME FeatInv, BusInv', SoleInv', discard_window
    PROVE  /\ FeatInv'
           /\ \A h \in Host : \A t \in Ts :
                 counts[h][t] > 0 /\ counts'[h][t] = 0 => t \in PublishedTs(h)
<1>1. /\ job # NoJob /\ job.phase = "discard"
      /\ UNCHANGED <<busVars, event, open, silent, peers, prev, stored, published, stalled, reordered>>
      /\ job' = [job EXCEPT !.phase = "clear"]
      /\ counts' = [h \in Host |-> [counts[h] EXCEPT ![job.win] = 0]]
  BY DEF discard_window, history
<1>2. job \in Job /\ job.win \in Ts /\ CloseInv(job)
  BY <1>1, CloseFacts DEF FeatInv
<1>3. PICK t : t = job.win
  OBVIOUS
<1>4. t \in Ts /\ open = t
  BY <1>2, <1>3 DEF CloseInv
<1>5. /\ counts \in [Host -> [Ts -> 0..MaxPublished + MaxFaults]]
      /\ 0 \in 0..MaxPublished + MaxFaults
  BY FeaturesConstants DEF FeatInv, FeaturesTypeOK
<1>6. /\ counts' \in [Host -> [Ts -> 0..MaxPublished + MaxFaults]]
      /\ \A l \in Host, u \in Ts : counts'[l][u] = IF u = t THEN 0 ELSE counts[l][u]
  <2>1. \A l \in Host : counts[l] \in [Ts -> 0..MaxPublished + MaxFaults]
    BY <1>5
  <2>2. \A l \in Host : counts'[l] = [counts[l] EXCEPT ![t] = 0]
    BY <1>1, <1>3
  <2>3. \A l \in Host : /\ counts'[l] \in [Ts -> 0..MaxPublished + MaxFaults]
                        /\ \A u \in Ts : counts'[l][u] = IF u = t THEN 0 ELSE counts[l][u]
    <3>1. ASSUME NEW l \in Host
          PROVE  /\ counts'[l] \in [Ts -> 0..MaxPublished + MaxFaults]
                 /\ \A u \in Ts : counts'[l][u] = IF u = t THEN 0 ELSE counts[l][u]
      <4>1. PICK f, g : f = counts[l] /\ g = counts'[l]
        OBVIOUS
      <4>2. f \in [Ts -> 0..MaxPublished + MaxFaults] /\ g = [f EXCEPT ![t] = 0]
        BY <2>1, <2>2, <4>1
      <4>3. /\ g \in [Ts -> 0..MaxPublished + MaxFaults]
            /\ \A u \in Ts : g[u] = IF u = t THEN 0 ELSE f[u]
        BY <1>4, <1>5, <4>2
      <4>4. QED
        BY <4>1, <4>3
    <3>2. QED
      BY <3>1
  <2>4. DOMAIN counts' = Host /\ counts' = [l \in Host |-> counts'[l]]
    BY <1>1
  <2>5. QED
    BY <2>3, <2>4
<1>7. ASSUME NEW l \in Host, counts[l][t] > 0 PROVE t \in PublishedTs(l)
  <2>1. job.hosts = {} /\ l \in HostsOf(job.win)
    BY <1>1, <1>2, <1>3, <1>7 DEF CloseInv, HostsOf
  <2>2. QED
    BY <1>2, <1>3, <2>1 DEF CloseInv
<1>8. PICK e : e = [job EXCEPT !.phase = "clear"]
  OBVIOUS
<1>9. /\ e \in Job /\ e.phase = "clear" /\ e.win = t /\ e.hosts = job.hosts /\ job' = e
  BY <1>1, <1>2, <1>3, <1>8 DEF Job, Phases
<1>10. CloseInv(e)'
  <2>1. HostsOf(e.win)' = {}
    BY <1>4, <1>6, <1>9 DEF HostsOf
  <2>2. e.hosts = {}
    BY <1>1, <1>2, <1>9 DEF CloseInv
  <2>3. open' = e.win
    BY <1>1, <1>4, <1>9
  <2>4. AtHand(e)'
    BY <1>9 DEF AtHand
  <2>5. QED
    BY <1>9, <2>1, <2>2, <2>3, <2>4 DEF CloseInv
<1>11. CountInv'
  <2>1. Settled' = Settled
    BY <1>1 DEF busVars, redisVars, Settled
  <2>2. \A l, u : EventsOf(l, u)' = EventsOf(l, u) /\ Recount(l, u)' = Recount(l, u)
    BY <1>1, <2>1 DEF EventsOf, Recount, busVars
  <2>3. done' = done /\ faults' = faults /\ open' = open
    BY <1>1 DEF busVars
  <2>4. ASSUME NEW l \in Host, NEW u \in Ts
        PROVE  /\ counts'[l][u] > 0 => u = open
               /\ counts'[l][u] + Cardinality(Recount(l, u))
                     <= Cardinality(EventsOf(l, u) \intersect done) + faults
    <3>1. PICK r, d, c : /\ r = Cardinality(Recount(l, u)) /\ c = counts[l][u]
                         /\ d = Cardinality(EventsOf(l, u) \intersect done)
      OBVIOUS
    <3>2. Recount(l, u) \in SUBSET Id /\ EventsOf(l, u) \intersect done \in SUBSET Id
      BY DEF Recount, EventsOf
    <3>3. r \in Nat /\ d \in Nat /\ c \in Nat /\ faults \in Nat
      BY <1>5, <3>1, <3>2, EventsFinite, FeaturesConstants DEF FeatInv, FeaturesTypeOK, TypeOK
    <3>4. c + r <= d + faults /\ (c > 0 => u = open)
      BY <3>1 DEF FeatInv, CountInv
    <3>5. counts'[l][u] = 0 \/ counts'[l][u] = c
      BY <1>6, <3>1
    <3>6. r <= d + faults
      BY <3>3, <3>4
    <3>7. QED
      BY <3>1, <3>3, <3>4, <3>5, <3>6
  <2>5. QED
    BY <2>2, <2>3, <2>4 DEF CountInv
<1>12. FeaturesTypeOK'
  BY <1>1, <1>6, <1>9 DEF FeatInv, FeaturesTypeOK, BusInv
<1>13. StoredBeforePublished' /\ OvercountBoundedByFaults'
  BY <1>1, VectorsStay DEF busVars
<1>14. CloseInv(job)'
  BY <1>9, <1>10 DEF CloseInv, AtHand
<1>15. FeatInv'
  BY <1>11, <1>12, <1>13, <1>14 DEF FeatInv
<1>16. ASSUME NEW h \in Host, NEW u \in Ts, counts[h][u] > 0, counts'[h][u] = 0
       PROVE  u \in PublishedTs(h)
  <2>1. u = t
    BY <1>4, <1>16 DEF FeatInv, CountInv
  <2>2. QED
    BY <1>7, <1>16, <2>1
<1>17. QED
  BY <1>15, <1>16

\* The window is over.
LEMMA clear_openKeeps ==
    ASSUME FeatInv, BusInv', SoleInv', clear_open
    PROVE  FeatInv' /\ open' = NoWindow
<1>1. /\ job # NoJob /\ job.phase = "clear" /\ job' = NoJob /\ silent' = FALSE
      /\ UNCHANGED <<busVars, event, counts, peers, prev, stored, published, stalled, reordered>>
      /\ open' = IF open = job.win THEN NoWindow ELSE open
  BY DEF clear_open, history
<1>2. CloseInv(job) /\ job.win \in Ts
  BY <1>1, CloseFacts DEF FeatInv
<1>3. open = job.win /\ open' = NoWindow /\ HostsOf(open) = {}
  BY <1>1, <1>2 DEF CloseInv
<1>4. CountInv'
  <2>1. Settled' = Settled
    BY <1>1 DEF busVars, redisVars, Settled
  <2>2. \A l, u : EventsOf(l, u)' = EventsOf(l, u) /\ Recount(l, u)' = Recount(l, u)
    BY <1>1, <2>1 DEF EventsOf, Recount, busVars
  <2>3. \A l \in Host, u \in Ts : ~(counts[l][u] > 0)
    BY <1>3 DEF FeatInv, CountInv, HostsOf
  <2>4. QED
    BY <1>1, <2>2, <2>3 DEF FeatInv, CountInv, busVars
<1>5. FeaturesTypeOK'
  BY <1>1, <1>3 DEF FeatInv, FeaturesTypeOK, BusInv
<1>6. StoredBeforePublished' /\ OvercountBoundedByFaults'
  BY <1>1, VectorsStay DEF busVars
<1>7. QED
  BY <1>1, <1>3, <1>4, <1>5, <1>6 DEF FeatInv

\* Every step keeps the invariant, and discards only what was published.
LEMMA FeatNext ==
    ASSUME FeatInv, [FeaturesNext]_vars
    PROVE  /\ FeatInv'
           /\ \A h \in Host : \A t \in Ts :
                 counts[h][t] > 0 /\ counts'[h][t] = 0 => t \in PublishedTs(h)
<1> DEFINE Drops == \A h \in Host : \A t \in Ts :
                       counts[h][t] > 0 /\ counts'[h][t] = 0 => t \in PublishedTs(h)
<1>1. /\ BusInv' /\ SoleInv'
      /\ event' = event /\ done \subseteq done' /\ faults' \in {faults, faults + 1}
      /\ \/ CloseMayFail /\ (faults' = faults => Settled \subseteq Settled')
                         /\ \E x : Settled \subseteq Settled' \union {x}
         \/ \E w \in Worker : DropLate(w) \/ accumulate(w)
         \/ \E w \in Worker : CloseByEvent(w) \/ watchdog_tick(w)
         \/ FallSilent
         \/ CloseStep
  BY FeaturesStepOfBus DEF FeatInv
<1>2. ASSUME counts' = counts PROVE Drops
  BY <1>2
<1>3. CASE CloseMayFail /\ (faults' = faults => Settled \subseteq Settled')
           /\ \E x : Settled \subseteq Settled' \union {x}
  BY <1>1, <1>2, <1>3, CloseMayFailKeeps DEF CloseMayFail
<1>4. ASSUME NEW w \in Worker, DropLate(w) PROVE FeatInv' /\ Drops
  BY <1>1, <1>2, <1>4, DropLateKeeps DEF DropLate, featureVars
<1>5. ASSUME NEW w \in Worker, accumulate(w) PROVE FeatInv' /\ Drops
  <2>1. FeatInv'
    BY <1>1, <1>5, accumulateKeeps
  <2>2. PICK l, s : counts' = [counts EXCEPT ![l][s] = @ + 1]
    BY <1>5 DEF accumulate
  <2>3. /\ counts \in [Host -> [Ts -> 0..MaxPublished + MaxFaults]]
        /\ counts' \in [Host -> [Ts -> 0..MaxPublished + MaxFaults]]
        /\ MaxPublished + MaxFaults \in Nat
    BY <2>1, FeaturesConstants DEF FeatInv, FeaturesTypeOK
  <2>4. ASSUME NEW h \in Host, NEW t \in Ts, counts[h][t] > 0 PROVE counts'[h][t] # 0
    BY <2>2, <2>3, <2>4
  <2>5. QED
    BY <2>1, <2>4
<1>6. ASSUME NEW w \in Worker, CloseByEvent(w) \/ watchdog_tick(w) PROVE FeatInv' /\ Drops
  BY <1>1, <1>2, <1>6, CloseBegins DEF CloseByEvent, watchdog_tick
<1>7. CASE FallSilent
  BY <1>1, <1>2, <1>7, FallSilentKeeps DEF FallSilent
<1>8. CASE CloseStep
  <2>1. CASE record_peers
    BY <1>1, <1>2, <2>1, record_peersKeeps DEF record_peers
  <2>2. CASE save
    BY <1>1, <1>2, <2>2, saveKeeps DEF save
  <2>3. CASE publish
    BY <1>1, <1>2, <2>3, publishKeeps DEF publish
  <2>4. CASE write_history
    BY <1>1, <1>2, <2>4, write_historyKeeps DEF write_history
  <2>5. CASE discard_window
    BY <1>1, <2>5, discard_windowKeeps
  <2>6. CASE clear_open
    BY <1>1, <1>2, <2>6, clear_openKeeps DEF clear_open
  <2>7. QED
    BY <1>8, <2>1, <2>2, <2>3, <2>4, <2>5, <2>6 DEF CloseStep
<1>9. QED
  BY <1>1, <1>3, <1>4, <1>5, <1>6, <1>7, <1>8

\* The features worker's state is well formed, every published vector is durable,
\* and faults pay for what is counted twice, whatever step of a close fails.
THEOREM FeaturesInvariant == FeaturesSpec => []FeatInv
<1>1. FeaturesInit => FeatInv
  BY FeatInit
<1>2. FeatInv /\ [FeaturesNext]_vars => FeatInv'
  BY FeatNext
<1>3. QED
  BY <1>1, <1>2, PTL DEF FeaturesSpec

\* Counters are discarded only when the vector of their host and window has been
\* published: DEL of discard_window comes after the last write_history.
THEOREM DiscardedAfterPublishHolds == FeaturesSpec => DiscardedAfterPublish
<1>1. FeatInv /\ [FeaturesNext]_vars =>
         [\A h \in Host : \A t \in Ts :
             counts[h][t] > 0 /\ counts'[h][t] = 0 => t \in PublishedTs(h)]_vars
  BY FeatNext
<1>2. QED
  BY <1>1, FeaturesInvariant, PTL DEF FeaturesSpec, DiscardedAfterPublish

-----------------------------------------------------------------------------
\* What is counted in the order of time: the open window is the latest that
\* began, and nothing is sent of a window that did not begin.
OrdInv ==
    /\ open # NoWindow => /\ \E m \in done : event[m].ts = open
                          /\ \A m \in done : event[m].ts <= open
    /\ \A h \in Host : prev[h] # NoWindow => \E m \in done : prev[h] <= event[m].ts
    /\ \A h \in Host : \A t \in PublishedTs(h) : \E m \in done : t <= event[m].ts

\* Window t was sent by an attempt at the close that is due, and so was all that
\* comes before it in that close; a repeated attempt begins at the same window.
InRun(h, t) ==
    /\ open # NoWindow /\ counts[h][open] > 0
    /\ open - DueLen(prev[h], open) < t /\ t <= open
    /\ \A u \in open - DueLen(prev[h], open) + 1 .. t : u \in PublishedTs(h)

\* The first window of a host, the one next to an earlier one, or one that
\* follows more than the windows that are filled in.
NoHole(t, G) ==
    \/ \A u \in G : t <= u
    \/ t - 1 \in G
    \/ \A u \in G : u < t => t - u > MaxGap + 1

HoleInv(h) ==
    /\ prev[h] # NoWindow => prev[h] \in PublishedTs(h)
    /\ \A t \in PublishedTs(h) : (prev[h] # NoWindow /\ t <= prev[h]) \/ InRun(h, t)
    /\ \A t \in PublishedTs(h) : NoHole(t, PublishedTs(h))

AxisInv == ~reordered => OrdInv /\ \A h \in Host : HoleInv(h)

\* Nothing is sent before anything is counted.
LEMMA AxisInit == FeaturesInit => AxisInv
<1> SUFFICES ASSUME FeaturesInit PROVE AxisInv
  OBVIOUS
<1>1. published = <<>> /\ open = NoWindow /\ prev = [h \in Host |-> NoWindow] /\ done = {}
  BY DEF FeaturesInit, Init
<1>2. \A h : PublishedTs(h) = {}
  BY <1>1 DEF Published, PublishedTs
<1>3. QED
  BY <1>1, <1>2 DEF AxisInv, OrdInv, HoleInv

\* Where the axis is not touched it is as it was.
LEMMA AxisSame ==
    ASSUME AxisInv, UNCHANGED <<event, open, counts, prev, published, done, reordered>>
    PROVE  AxisInv'
<1>1. \A h : PublishedTs(h)' = PublishedTs(h)
  BY DEF Published, PublishedTs
<1>2. QED
  BY <1>1 DEF AxisInv, OrdInv, HoleInv, InRun, NoHole

\* The host and the window of an entry.
LEMMA EventFacts ==
    ASSUME FeaturesTypeOK, NEW m \in Id
    PROVE  /\ event[m] \in [host : Host, ts : Ts]
           /\ event[m].ts \in Nat /\ event[m].ts > 0
           /\ event[m].host \in Host /\ event[m].ts \in Ts
<1>1. event \in [Id -> [host : Host, ts : Ts]]
  BY DEF FeaturesTypeOK, Captures
<1>2. QED
  BY <1>1, FeaturesConstants

\* Dropping a late event leaves the open window the latest.
LEMMA DropLateAxis ==
    ASSUME FeatInv, AxisInv, NEW w \in Worker, DropLate(w)
    PROVE  AxisInv'
<1> SUFFICES ASSUME ~reordered PROVE OrdInv' /\ \A h \in Host : HoleInv(h)'
  BY DEF AxisInv, DropLate, featureVars
<1>1. /\ HandlerReturns(w) /\ open # NoWindow /\ event[worker[w].now].ts < open
      /\ UNCHANGED <<event, open, counts, prev, published>>
  BY DEF DropLate, Now, featureVars
<1>2. /\ worker[w].now \in Id /\ done' = done \union {worker[w].now}
      /\ FeaturesTypeOK /\ OrdInv /\ \A h \in Host : HoleInv(h)
  BY <1>1, ReturnFacts DEF FeatInv, AxisInv
<1>3. event[worker[w].now].ts <= open
  <2>1. open \in Nat /\ event[worker[w].now].ts \in Nat
    BY <1>1, <1>2, EventFacts, FeaturesConstants DEF FeaturesTypeOK
  <2>2. QED
    BY <1>1, <2>1
<1>4. \A h : PublishedTs(h)' = PublishedTs(h)
  BY <1>1 DEF Published, PublishedTs
<1>5. OrdInv'
  BY <1>1, <1>2, <1>3, <1>4 DEF OrdInv
<1>6. \A h \in Host : HoleInv(h)'
  BY <1>1, <1>2, <1>4 DEF HoleInv, InRun, NoHole
<1>7. QED
  BY <1>5, <1>6

\* An event that is counted in turn belongs to the open window, which is the
\* latest, or opens it.
LEMMA accumulateAxis ==
    ASSUME FeatInv, FeatInv', AxisInv, NEW w \in Worker, accumulate(w)
    PROVE  AxisInv'
<1> SUFFICES ASSUME ~reordered' PROVE OrdInv' /\ \A h \in Host : HoleInv(h)'
  BY DEF AxisInv
<1>1. PICK m, s : m = worker[w].now /\ s = event[m].ts
  OBVIOUS
<1>2. /\ HandlerReturns(w) /\ UNCHANGED <<event, prev, published>>
      /\ open \in {NoWindow, s} /\ open' = s /\ ~reordered /\ ~OutOfTurn(m)
      /\ counts' = [counts EXCEPT ![event[m].host][s] = @ + 1]
  BY <1>1 DEF accumulate, Now
<1>3. m \in Id /\ done' = done \union {m} /\ done \subseteq Id /\ FeaturesTypeOK
  BY <1>1, <1>2, ReturnFacts DEF FeatInv, FeaturesTypeOK, TypeOK
<1>4. s \in Nat /\ s > 0 /\ s \in Ts /\ event[m].host \in Host
  BY <1>1, <1>3, EventFacts
<1>5. \A n \in done : ~(s < event[n].ts)
  BY <1>1, <1>2 DEF OutOfTurn
<1>6. OrdInv /\ \A h \in Host : HoleInv(h)
  BY <1>2 DEF AxisInv
<1>7. \A h : PublishedTs(h)' = PublishedTs(h)
  BY <1>2 DEF Published, PublishedTs
<1>8. \A n \in done' : event[n].ts <= s
  <2>1. ASSUME NEW n \in done' PROVE event[n].ts <= s
    <3>1. event[n].ts \in Nat
      BY <1>3, <2>1, EventFacts
    <3>2. QED
      BY <1>1, <1>3, <1>4, <1>5, <2>1, <3>1
  <2>2. QED
    BY <2>1
<1>9. OrdInv'
  <2>2. /\ \E d \in done' : event[d].ts = s
        /\ \A d \in done' : event[d].ts <= s
    BY <1>1, <1>3, <1>8
  <2>3. \A h \in Host : prev[h] # NoWindow => \E d \in done' : prev[h] <= event[d].ts
    BY <1>3, <1>6 DEF OrdInv
  <2>4. \A h \in Host : \A t \in PublishedTs(h) : \E d \in done' : t <= event[d].ts
    BY <1>3, <1>6 DEF OrdInv
  <2>5. QED
    BY <1>2, <1>7, <2>2, <2>3, <2>4 DEF OrdInv
<1>10. \A h \in Host : counts[h][s] > 0 => counts'[h][s] > 0
  <2>1. counts \in [Host -> [Ts -> 0..MaxPublished + MaxFaults]] /\ MaxPublished + MaxFaults \in Nat
    BY FeaturesConstants DEF FeatInv, FeaturesTypeOK
  <2>2. QED
    BY <1>2, <1>4, <2>1
<1>11. ASSUME NEW h \in Host PROVE HoleInv(h)'
  <2>1. HoleInv(h)
    BY <1>6
  <2>2. ASSUME NEW t \in PublishedTs(h), InRun(h, t) PROVE InRun(h, t)'
    <3>1. open = s
      BY <1>2, <2>2 DEF InRun
    <3>2. QED
      BY <1>2, <1>7, <1>10, <2>2, <3>1 DEF InRun
  <2>3. \A t \in PublishedTs(h) : (prev[h] # NoWindow /\ t <= prev[h]) \/ InRun(h, t)'
    BY <2>1, <2>2 DEF HoleInv
  <2>4. QED
    BY <1>2, <1>7, <2>1, <2>3 DEF HoleInv, NoHole
<1>12. QED
  BY <1>9, <1>11

\* The next window of a run that is due makes no hole among those sent, be it the
\* first time it is sent or not.
LEMMA RunLeavesNoHole ==
    ASSUME NEW G \in SUBSET Ts, NEW from \in Ts \union {NoWindow}, NEW t \in Ts,
           NEW n \in Nat, n > 0, n <= DueLen(from, t),
           from # NoWindow => from \in G /\ from <= t,
           \A u \in G : \/ from # NoWindow /\ u <= from
                        \/ /\ t - DueLen(from, t) < u /\ u <= t
                           /\ \A x \in t - DueLen(from, t) + 1 .. u : x \in G,
           \A x \in t - DueLen(from, t) + 1 .. t - n : x \in G,
           \A u \in G : NoHole(u, G)
    PROVE  \A u \in G \union {t - n + 1} : NoHole(u, G \union {t - n + 1})
<1>1. PICK d, b : d = DueLen(from, t) /\ b = t - n + 1
  OBVIOUS
<1>2. /\ d \in Nat /\ d > 0 /\ t \in Nat /\ t > 0 /\ from \in Nat /\ MaxGap \in Nat
      /\ G \subseteq Nat /\ \A u \in G : u > 0
      /\ \/ d = t - from /\ from \in Ts /\ from < t
         \/ d = 1 /\ (from = NoWindow \/ from >= t \/ t - from > MaxGap + 1)
  <2>1. t \in Nat /\ t > 0 /\ MaxGap \in Nat /\ G \subseteq Nat /\ \A u \in G : u > 0
    BY FeaturesConstants
  <2>2. from \in Nat
    BY FeaturesConstants DEF NoWindow
  <2>3. /\ d \in Nat /\ d > 0
        /\ \/ d = t - from /\ from \in Ts /\ from < t
           \/ d = 1 /\ (from = NoWindow \/ from >= t \/ t - from > MaxGap + 1)
    BY <1>1, DueIsRun
  <2>4. QED
    BY <2>1, <2>2, <2>3
<1>3. b \in Int /\ n <= d /\ t - d + 1 <= b /\ b <= t
  BY <1>1, <1>2
<1>4. CASE b \in G
  <2>1. G \union {b} = G
    BY <1>4
  <2>2. QED
    BY <1>1, <2>1
<1>5. CASE b \notin G
  \* An earlier run did not reach b, so nothing after it was sent.
  <2>1. ASSUME NEW u \in G PROVE u < b
    <3>1. CASE from # NoWindow /\ u <= from
      <4>1. from \in G /\ from <= t
        BY <3>1
      <4>2. from < b
        <5>1. CASE d = t - from
          BY <1>2, <1>3, <5>1
        <5>2. CASE d = 1
          <6>1. b = t
            BY <1>2, <1>3, <5>2
          <6>2. from # b
            BY <1>5, <4>1
          <6>3. QED
            BY <1>2, <4>1, <6>1, <6>2
        <5>3. QED
          BY <1>2, <5>1, <5>2
      <4>3. QED
        BY <1>2, <1>3, <3>1, <4>2
    <3>2. CASE \A x \in t - d + 1 .. u : x \in G
      <4>1. b \notin t - d + 1 .. u
        BY <1>5, <3>2
      <4>2. u \in Nat
        BY <1>2
      <4>3. QED
        BY <1>2, <1>3, <4>1, <4>2
    <3>3. QED
      BY <1>1, <2>1, <3>1, <3>2
  <2>2. ASSUME NEW u \in G PROVE NoHole(u, G \union {b})
    <3>1. NoHole(u, G) /\ u < b /\ u \in Nat
      BY <1>2, <2>1
    <3>2. ~(b < u) /\ u <= b
      BY <1>3, <3>1
    <3>3. QED
      BY <3>1, <3>2 DEF NoHole
  <2>3. NoHole(b, G \union {b})
    <3>1. CASE d = t - from /\ from \in Ts /\ from < t
      <4>1. from \in G /\ from # NoWindow
        BY <3>1, FeaturesConstants DEF NoWindow
      <4>2. b - 1 = from \/ b - 1 \in t - d + 1 .. t - n
        BY <1>1, <1>2, <1>3, <3>1
      <4>3. b - 1 \in G
        BY <1>1, <4>1, <4>2
      <4>4. QED
        BY <4>3 DEF NoHole
    <3>2. CASE d = 1 /\ (from = NoWindow \/ from >= t \/ t - from > MaxGap + 1)
      <4>1. b = t
        BY <1>2, <1>3, <3>2
      <4>2. ASSUME NEW u \in G PROVE from # NoWindow /\ u <= from
        <5>1. u < t /\ u \in Nat
          BY <1>2, <2>1, <4>1
        <5>2. ~(t - d < u)
          BY <1>2, <3>2, <5>1
        <5>3. QED
          BY <1>1, <5>2
      <4>3. CASE from = NoWindow
        <5>1. \A u \in G \union {b} : b <= u
          BY <1>3, <4>2, <4>3
        <5>2. QED
          BY <5>1 DEF NoHole
      <4>4. CASE from # NoWindow /\ from >= t
        <5>1. from = t /\ from \in G
          BY <1>2, <4>4
        <5>2. QED
          BY <1>5, <4>1, <5>1
      <4>5. CASE t - from > MaxGap + 1
        <5>1. ASSUME NEW u \in G PROVE b - u > MaxGap + 1
          BY <1>2, <4>1, <4>2, <4>5
        <5>2. \A u \in G \union {b} : u < b => b - u > MaxGap + 1
          BY <1>3, <5>1
        <5>3. QED
          BY <5>2 DEF NoHole
      <4>6. QED
        BY <3>2, <4>3, <4>4, <4>5
    <3>3. QED
      BY <1>2, <3>1, <3>2
  <2>4. QED
    BY <1>1, <2>2, <2>3
<1>6. QED
  BY <1>4, <1>5

\* No host is remembered for a window later than the one that is open.
LEMMA PrevBehindOpen ==
    ASSUME FeaturesTypeOK, OrdInv, open # NoWindow, NEW h \in Host, prev[h] # NoWindow
    PROVE  prev[h] <= open
<1>1. PICK m \in done : prev[h] <= event[m].ts
  BY DEF OrdInv
<1>2. event[m].ts <= open
  BY DEF OrdInv
<1>3. event[m].ts \in Nat /\ prev[h] \in Nat /\ open \in Nat
  <2>1. m \in Id
    BY <1>1 DEF FeaturesTypeOK, TypeOK
  <2>2. prev[h] \in Ts /\ open \in Ts
    BY DEF FeaturesTypeOK
  <2>3. QED
    BY <2>1, <2>2, EventFacts, FeaturesConstants
<1>4. QED
  BY <1>1, <1>2, <1>3

\* Nothing later than the open window was sent.
LEMMA SentBehindOpen ==
    ASSUME FeatInv, AxisInv, ~reordered, open # NoWindow, NEW h \in Host, NEW t \in PublishedTs(h)
    PROVE  t <= open
<1>1. FeaturesTypeOK /\ OrdInv /\ HoleInv(h) /\ PublishedTs(h) \subseteq Ts
  BY PublishedFacts DEF FeatInv, AxisInv, FeaturesTypeOK
<1>2. CASE prev[h] # NoWindow /\ t <= prev[h]
  <2>1. prev[h] <= open
    BY <1>1, <1>2, PrevBehindOpen
  <2>2. t \in Nat /\ prev[h] \in Nat /\ open \in Nat
    <3>1. prev[h] \in Ts /\ open \in Ts /\ t \in Ts
      BY <1>1, <1>2 DEF FeaturesTypeOK
    <3>2. QED
      BY <3>1, FeaturesConstants
  <2>3. QED
    BY <1>2, <2>1, <2>2
<1>3. CASE InRun(h, t)
  BY <1>3 DEF InRun
<1>4. QED
  BY <1>1, <1>2, <1>3 DEF HoleInv

\* Publishing the next window of a host leaves no hole in its axis.
LEMMA publishAxis ==
    ASSUME FeatInv, AxisInv, publish
    PROVE  AxisInv'
<1> SUFFICES ASSUME ~reordered PROVE OrdInv' /\ \A h \in Host : HoleInv(h)'
  BY DEF AxisInv, publish, history
<1>1. /\ job # NoJob /\ job.phase = "publish"
      /\ UNCHANGED <<busVars, event, open, silent, counts, peers, prev, stored, stalled, reordered>>
      /\ published' = Append(published, job.vector)
      /\ OrdInv /\ \A h \in Host : HoleInv(h)
  BY DEF publish, history, AxisInv
<1>2. PICK h \in Host, from \in Ts \union {NoWindow}, n \in Nat :
              /\ from = prev[h] /\ h \in job.hosts
              /\ job.win \in Ts /\ job.win = open /\ counts[h][open] > 0
              /\ DueLen(from, job.win) \in Nat
              /\ n <= DueLen(from, job.win)
              /\ n > 0 => job.win - n + 1 \in Ts
              /\ \A t \in job.win - DueLen(from, job.win) + 1 .. job.win - n : t \in PublishedTs(h)
              /\ n = 0 <=> job.phase = "history"
              /\ job.phase \in {"save", "publish"} =>
                    /\ job.vector \in Vector /\ job.vector.host = h
                    /\ job.vector.ts = job.win - n + 1
  BY <1>1, AtHost
<1>3. PICK t, d, b, G : t = job.win /\ d = DueLen(from, t) /\ b = t - n + 1 /\ G = PublishedTs(h)
  OBVIOUS
<1>4. /\ n > 0 /\ t \in Nat /\ t > 0 /\ d \in Nat /\ n <= d /\ b \in Nat /\ b <= t /\ t = open
      /\ t # NoWindow
  BY <1>1, <1>2, <1>3, FeaturesConstants DEF NoWindow
<1>5. /\ \A l \in Host : l # h => PublishedTs(l)' = PublishedTs(l)
      /\ PublishedTs(h)' = G \union {b}
      /\ G \in SUBSET Ts
  <2>1. published \in Seq(Vector)
    BY DEF FeatInv, FeaturesTypeOK
  <2>2. \A l \in Host : PublishedTs(l) \subseteq Ts
        /\ PublishedTs(l)' = PublishedTs(l) \union (IF job.vector.host = l THEN {job.vector.ts} ELSE {})
    BY <1>1, <1>2, <2>1, PublishedFacts
  <2>3. job.vector.host = h /\ job.vector.ts = b
    BY <1>1, <1>2, <1>3
  <2>4. PublishedTs(h)' = PublishedTs(h) \union {b}
    BY <2>2, <2>3
  <2>5. \A l \in Host : l # h => PublishedTs(l)' = PublishedTs(l)
    BY <2>2, <2>3
  <2>6. QED
    BY <1>3, <2>2, <2>4, <2>5
<1>6. FeaturesTypeOK /\ HoleInv(h)
  BY <1>1 DEF FeatInv
<1>7. OrdInv'
  <2>1. ASSUME NEW l \in Host, NEW u \in PublishedTs(l)' PROVE \E m \in done : u <= event[m].ts
    <3>1. CASE u \in PublishedTs(l)
      BY <1>1, <3>1 DEF OrdInv
    <3>2. CASE u = b
      <4>1. \E m \in done : event[m].ts = t
        BY <1>1, <1>4 DEF OrdInv
      <4>2. QED
        BY <1>4, <3>2, <4>1
    <3>3. QED
      BY <1>3, <1>5, <2>1, <3>1, <3>2
  <2>2. done' = done /\ event' = event /\ open' = open /\ prev' = prev
    BY <1>1 DEF busVars
  <2>3. \A l \in Host : \A u \in PublishedTs(l)' : \E m \in done' : u <= event'[m].ts
    BY <2>1, <2>2
  <2>4. QED
    BY <1>1, <2>2, <2>3 DEF OrdInv
<1>8. ASSUME NEW l \in Host, l # h PROVE HoleInv(l)'
  BY <1>1, <1>5, <1>8 DEF HoleInv, InRun, NoHole
<1>9. HoleInv(h)'
  <2>1. ASSUME NEW u \in G PROVE (from # NoWindow /\ u <= from) \/ InRun(h, u)
    BY <1>2, <1>3, <1>6 DEF HoleInv
  <2>2. ASSUME NEW u \in G, InRun(h, u) PROVE InRun(h, u)'
    BY <1>1, <1>3, <1>5, <2>2 DEF InRun
  <2>3. InRun(h, b)'
    <3>1. t - d < b
      BY <1>3, <1>4
    <3>2. ASSUME NEW u \in t - d + 1 .. b PROVE u \in G \union {b}
      <4>1. u \in t - d + 1 .. t - n \/ u = b
        BY <1>3, <1>4, <3>2
      <4>2. QED
        BY <1>2, <1>3, <4>1
    <3>3. QED
      BY <1>1, <1>2, <1>3, <1>4, <1>5, <3>1, <3>2 DEF InRun
  <2>4. \A u \in G \union {b} : NoHole(u, G \union {b})
    <3>1. from # NoWindow => from \in G /\ from <= t
      BY <1>1, <1>2, <1>3, <1>4, <1>6, PrevBehindOpen DEF HoleInv
    <3>2. \A u \in G : \/ from # NoWindow /\ u <= from
                       \/ /\ t - DueLen(from, t) < u /\ u <= t
                          /\ \A x \in t - DueLen(from, t) + 1 .. u : x \in G
      BY <1>2, <1>3, <1>4, <2>1 DEF InRun
    <3>3. \A x \in t - DueLen(from, t) + 1 .. t - n : x \in G
      BY <1>2, <1>3
    <3>4. \A u \in G : NoHole(u, G)
      BY <1>3, <1>6 DEF HoleInv
    <3>5. n <= DueLen(from, t) /\ t \in Ts
      BY <1>2, <1>3
    <3>6. QED
      BY <1>3, <1>4, <1>5, <3>1, <3>2, <3>3, <3>4, <3>5, RunLeavesNoHole
  <2>5. prev'[h] # NoWindow => prev'[h] \in PublishedTs(h)'
    BY <1>1, <1>3, <1>5, <1>6 DEF HoleInv
  <2>6. \A u \in PublishedTs(h)' : (prev'[h] # NoWindow /\ u <= prev'[h]) \/ InRun(h, u)'
    BY <1>1, <1>2, <1>5, <2>1, <2>2, <2>3
  <2>7. QED
    BY <1>5, <2>4, <2>5, <2>6 DEF HoleInv, NoHole
<1>10. QED
  BY <1>7, <1>8, <1>9

\* A host that is remembered has nothing later on the bus.
LEMMA write_historyAxis ==
    ASSUME FeatInv, AxisInv, write_history
    PROVE  AxisInv'
<1> SUFFICES ASSUME ~reordered PROVE OrdInv' /\ \A h \in Host : HoleInv(h)'
  BY DEF AxisInv, write_history, history
<1>1. /\ job # NoJob /\ job.phase = "history"
      /\ UNCHANGED <<busVars, event, open, silent, counts, peers, stored, published, stalled, reordered>>
      /\ OrdInv /\ \A h \in Host : HoleInv(h)
  BY DEF write_history, history, AxisInv
<1>2. PICK h \in Host, from \in Ts \union {NoWindow}, n \in Nat :
              /\ h = Least(job.hosts)
              /\ from = prev[h]
              /\ job.win \in Ts /\ job.win = open
              /\ DueLen(from, job.win) \in Nat /\ DueLen(from, job.win) > 0
              /\ \A t \in job.win - DueLen(from, job.win) + 1 .. job.win - n : t \in PublishedTs(h)
              /\ n = 0 <=> job.phase = "history"
  BY <1>1, AtHost
<1>3. PICK t : t = job.win
  OBVIOUS
<1>4. t \in Nat /\ t > 0 /\ t # NoWindow /\ t = open /\ t \in PublishedTs(h)
  <2>1. n = 0 /\ t \in Nat /\ t > 0 /\ DueLen(from, t) \in Nat /\ DueLen(from, t) > 0
    BY <1>1, <1>2, <1>3, FeaturesConstants
  <2>2. t \in t - DueLen(from, t) + 1 .. t - n
    BY <2>1
  <2>3. QED
    BY <1>2, <1>3, <2>1, <2>2 DEF NoWindow
<1>5. /\ prev'[h] = t /\ \A l \in Host : l # h => prev'[l] = prev[l]
  <2>1. prev' = [prev EXCEPT ![h] = t] /\ prev \in [Host -> Ts \union {NoWindow}]
    BY <1>2, <1>3 DEF write_history, FeatInv, FeaturesTypeOK
  <2>2. QED
    BY <2>1
<1>6. \A l : PublishedTs(l)' = PublishedTs(l)
  BY <1>1 DEF Published, PublishedTs
<1>7. OrdInv'
  <2>1. \E m \in done : t <= event[m].ts
    <3>1. \E m \in done : event[m].ts = t
      BY <1>1, <1>4 DEF OrdInv
    <3>2. QED
      BY <1>4, <3>1
  <2>2. ASSUME NEW l \in Host, prev'[l] # NoWindow PROVE \E m \in done : prev'[l] <= event[m].ts
    <3>1. CASE l = h
      BY <1>5, <2>1, <3>1
    <3>2. CASE l # h
      BY <1>1, <1>5, <2>2, <3>2 DEF OrdInv
    <3>3. QED
      BY <3>1, <3>2
  <2>3. done' = done /\ event' = event /\ open' = open
    BY <1>1 DEF busVars
  <2>4. QED
    BY <1>1, <1>6, <2>2, <2>3 DEF OrdInv
<1>8. ASSUME NEW l \in Host, l # h PROVE HoleInv(l)'
  BY <1>1, <1>5, <1>6, <1>8 DEF HoleInv, InRun, NoHole
<1>9. HoleInv(h)'
  <2>1. HoleInv(h) /\ FeaturesTypeOK /\ PublishedTs(h) \subseteq Ts
    BY <1>1, PublishedFacts DEF FeatInv, FeaturesTypeOK
  <2>2. ASSUME NEW u \in PublishedTs(h) PROVE u <= t
    BY <1>4, SentBehindOpen
  <2>3. QED
    BY <1>4, <1>5, <1>6, <2>1, <2>2 DEF HoleInv, NoHole
<1>10. QED
  BY <1>7, <1>8, <1>9

\* When the counters go, every window that was sent is remembered, or earlier.
LEMMA discard_windowAxis ==
    ASSUME FeatInv, AxisInv, discard_window
    PROVE  AxisInv'
<1> SUFFICES ASSUME ~reordered PROVE OrdInv' /\ \A h \in Host : HoleInv(h)'
  BY DEF AxisInv, discard_window, history
<1>1. /\ job # NoJob /\ job.phase = "discard"
      /\ UNCHANGED <<busVars, event, open, silent, peers, prev, stored, published, stalled, reordered>>
      /\ OrdInv /\ \A h \in Host : HoleInv(h) /\ CloseInv(job)
  BY DEF discard_window, history, AxisInv, FeatInv
<1>2. \A l : PublishedTs(l)' = PublishedTs(l)
  BY <1>1 DEF Published, PublishedTs
<1>3. OrdInv'
  BY <1>1, <1>2 DEF OrdInv, busVars
<1>4. ASSUME NEW h \in Host PROVE HoleInv(h)'
  <2>1. HoleInv(h)
    BY <1>1
  <2>2. ASSUME NEW u \in PublishedTs(h), InRun(h, u) PROVE prev[h] # NoWindow /\ u <= prev[h]
    <3>1. open # NoWindow /\ counts[h][open] > 0 /\ u <= open
      BY <2>2 DEF InRun
    <3>2. open = job.win /\ job.hosts = {} /\ h \in HostsOf(job.win)
      BY <1>1, <3>1 DEF CloseInv, HostsOf
    <3>3. prev[h] = open
      BY <1>1, <3>2 DEF CloseInv
    <3>4. QED
      BY <3>1, <3>3
  <2>3. QED
    BY <1>1, <1>2, <2>1, <2>2 DEF HoleInv, NoHole
<1>5. QED
  BY <1>3, <1>4

\* A window that is over has no counters left.
LEMMA clear_openAxis ==
    ASSUME FeatInv, AxisInv, clear_open
    PROVE  AxisInv'
<1> SUFFICES ASSUME ~reordered PROVE OrdInv' /\ \A h \in Host : HoleInv(h)'
  BY DEF AxisInv, clear_open, history
<1>1. /\ job # NoJob /\ job.phase = "clear"
      /\ UNCHANGED <<busVars, event, counts, peers, prev, stored, published, stalled, reordered>>
      /\ OrdInv /\ \A h \in Host : HoleInv(h) /\ CloseInv(job)
      /\ open' = NoWindow /\ open = job.win
  BY DEF clear_open, history, AxisInv, FeatInv, CloseInv
<1>2. \A l : PublishedTs(l)' = PublishedTs(l)
  BY <1>1 DEF Published, PublishedTs
<1>3. OrdInv'
  BY <1>1, <1>2 DEF OrdInv, busVars
<1>4. ASSUME NEW h \in Host PROVE HoleInv(h)'
  <2>1. HoleInv(h)
    BY <1>1
  <2>2. ASSUME NEW u PROVE ~InRun(h, u)
    BY <1>1 DEF CloseInv, HostsOf, InRun
  <2>3. QED
    BY <1>1, <1>2, <2>1, <2>2 DEF HoleInv, NoHole
<1>5. QED
  BY <1>3, <1>4

\* Every step keeps the axis of every host whole.
LEMMA AxisNext ==
    ASSUME FeatInv, FeatInv', AxisInv, [FeaturesNext]_vars
    PROVE  AxisInv'
<1>1. /\ \/ CloseMayFail
         \/ \E w \in Worker : DropLate(w) \/ accumulate(w)
         \/ \E w \in Worker : CloseByEvent(w) \/ watchdog_tick(w)
         \/ FallSilent
         \/ CloseStep
  BY FeaturesStepOfBus DEF FeatInv
<1>2. CASE CloseMayFail \/ FallSilent \/ record_peers \/ save
           \/ \E w \in Worker : CloseByEvent(w) \/ watchdog_tick(w)
  <2>1. UNCHANGED <<event, open, counts, prev, published, done, reordered>>
    BY <1>2 DEF CloseMayFail, FallSilent, record_peers, save, CloseByEvent, watchdog_tick,
       busVars, history
  <2>2. QED
    BY <2>1, AxisSame
<1>3. QED
  BY <1>1, <1>2, DropLateAxis, accumulateAxis, publishAxis, write_historyAxis,
     discard_windowAxis, clear_openAxis DEF CloseStep

\* A whole axis has no short hole.
LEMMA AxisHasNoShortHole ==
    ASSUME FeaturesTypeOK, AxisInv
    PROVE  NoShortHole
<1> SUFFICES ASSUME ~reordered, NEW h \in Host, NEW t \in PublishedTs(h),
                    {u \in PublishedTs(h) : u < t} # {},
                    ~(t - Greatest({u \in PublishedTs(h) : u < t}) > MaxGap + 1)
             PROVE  t - Greatest({u \in PublishedTs(h) : u < t}) = 1
  BY DEF NoShortHole
<1>1. PICK S, g : S = {u \in PublishedTs(h) : u < t} /\ g = Greatest(S)
  OBVIOUS
<1>2. PublishedTs(h) \subseteq Ts
  BY PublishedFacts DEF FeaturesTypeOK
<1>3. t \in Nat /\ S \in SUBSET (1..t)
  <2>1. t \in Nat /\ \A u \in S : u \in Nat /\ u > 0 /\ u < t
    BY <1>1, <1>2, FeaturesConstants
  <2>2. QED
    BY <2>1
<1>4. g \in S /\ \A n \in S : n <= g
  BY <1>1, <1>3, GreatestIsMember
<1>5. NoHole(t, PublishedTs(h))
  BY DEF AxisInv, HoleInv
<1>6. g \in PublishedTs(h) /\ g < t /\ g \in Nat
  BY <1>1, <1>3, <1>4
<1>7. CASE t - 1 \in PublishedTs(h)
  <2>1. t - 1 \in S
    BY <1>1, <1>3, <1>7
  <2>2. t - 1 <= g
    BY <1>4, <2>1
  <2>3. QED
    BY <1>1, <1>3, <1>6, <2>2
<1>8. CASE \A u \in PublishedTs(h) : t <= u
  BY <1>3, <1>6, <1>8
<1>9. CASE \A u \in PublishedTs(h) : u < t => t - u > MaxGap + 1
  BY <1>1, <1>6, <1>9
<1>10. QED
  BY <1>5, <1>7, <1>8, <1>9 DEF NoHole

-----------------------------------------------------------------------------
\* Nothing failed, was dropped or stalled.
Exact == NothingLost /\ faults = 0 /\ ~stalled

\* The stream goes past window t before it goes on to any event of it.
Passed(t) == \A n \in Id \ done : \E k \in Id \ done : k <= n /\ event[k].ts > t

\* The events are handled in turn, and a window that was left, is silent or is
\* being closed is passed.
WindowsDone ==
    /\ ~reordered
    /\ \A m \in done, n \in Id : n < m => n \in done
    /\ open = NoWindow => \A m \in done : Passed(event[m].ts)
    /\ silent /\ open # NoWindow => Passed(open)
    /\ job # NoJob => Passed(job.win)

Clearing == job # NoJob /\ job.phase = "clear"

\* What is done is on the bus or in the counters.
Counted ==
    /\ \A m \in done : \/ Regressed(m)
                       \/ event[m].ts \in PublishedTs(event[m].host)
                       \/ event[m].ts = open /\ ~Clearing
    /\ open # NoWindow /\ ~Clearing =>
          \A h \in Host : counts[h][open] = Cardinality(InTime(h, open) \intersect done)

\* The open window was not sent before its close, and what was sent is remembered
\* when the close is through with the host.
SentOnce ==
    /\ open # NoWindow => \A h \in Host :
          \/ \A t \in PublishedTs(h) : t < open
          \/ job # NoJob /\ h \notin job.hosts
          \/ job # NoJob /\ job.hosts # {} /\ h = Least(job.hosts) /\ job.phase = "history"
    /\ \A h \in Host :
          \/ \A t \in PublishedTs(h) : t <= prev[h]
          \/ job # NoJob /\ job.hosts # {} /\ h = Least(job.hosts)

\* The vector at hand is exact, and nothing as late was sent.
EmitExact(e, h) ==
    /\ e.phase # "history" => \A t \in PublishedTs(h) : t < Head(e.todo)
    /\ e.phase \in {"save", "publish"} =>
          e.vector.events = Cardinality(InTime(e.vector.host, e.vector.ts))

Closing == job # NoJob /\ job.hosts # {} => EmitExact(job, Least(job.hosts))

InOrder ==
    /\ \A i, j \in DOMAIN published :
          i < j /\ published[i].host = published[j].host => published[i].ts < published[j].ts
    /\ \A v \in Published : v.events = Cardinality(InTime(v.host, v.ts))

ExactInv == Exact => WindowsDone /\ Counted /\ SentOnce /\ Closing /\ InOrder

\* What a step that ends without a fault, an eviction or a stall begins with.
ExactStep ==
    /\ FeatInv /\ FeatInv' /\ AxisInv /\ ExactInv
    /\ Exact /\ Exact' /\ faults' = faults
    /\ WindowsDone /\ Counted /\ SentOnce /\ Closing /\ InOrder

\* Nothing is done yet.
LEMMA ExactInit == FeaturesInit => ExactInv
<1> SUFFICES ASSUME FeaturesInit PROVE ExactInv
  OBVIOUS
<1>1. published = <<>> /\ open = NoWindow /\ done = {} /\ job = NoJob /\ ~reordered /\ ~silent
  BY DEF FeaturesInit, Init
<1>2. Published = {} /\ \A h : PublishedTs(h) = {}
  BY <1>1 DEF Published, PublishedTs
<1>3. QED
  BY <1>1, <1>2 DEF ExactInv, WindowsDone, Counted, SentOnce, Closing, InOrder

\* Failures, evictions and stalls are not taken back.
LEMMA ExactBefore ==
    ASSUME FeatInv, FeatInv', AxisInv, ExactInv, [FeaturesNext]_vars, Exact'
    PROVE  ExactStep
<1>1. faults' \in {faults, faults + 1} /\ faults \in Nat /\ trim \in Nat
  BY FeaturesStepOfBus, FeaturesConstants DEF FeatInv, FeaturesTypeOK, TypeOK
<1>2. faults = 0 /\ faults' = faults
  BY <1>1 DEF Exact
<1>3. trim' = trim \/ Publish
  BY DEF FeaturesNext, BusOnly, LoopStep, Reclaim, Read, Ack, GoIdle, Signal, ReclaimDue, Start,
     CloseStep, record_peers, save, publish, write_history, discard_window, clear_open,
     FallSilent, WatchdogFails, DropLate, CloseByEvent, accumulate, watchdog_tick, Fail, Die,
     HandlerReturns, HandlerRaises, Crash, busVars, redisVars, vars
<1>4. trim = 0
  <2>1. trim' = 0
    BY DEF Exact, NothingLost
  <2>2. ASSUME Publish PROVE trim' >= trim
    <3>1. last \in Nat
      BY FeaturesConstants DEF FeatInv, FeaturesTypeOK, TypeOK
    <3>2. trim' \in trim..last + 1
      BY <2>2 DEF Publish
    <3>3. QED
      BY <1>1, <3>1, <3>2
  <2>3. QED
    BY <1>1, <1>3, <2>1, <2>2
<1>5. ~stalled
  <2>1. stalled' = stalled \/ FallSilent
    BY DEF FeaturesNext, BusOnly, CloseStep, record_peers, save, publish, write_history,
       discard_window, clear_open, WatchdogFails, DropLate, CloseByEvent, accumulate,
       watchdog_tick, Fail, Die, featureVars, history, vars
  <2>2. QED
    BY <2>1 DEF FallSilent, Exact
<1>6. Exact
  BY <1>2, <1>4, <1>5 DEF Exact, NothingLost
<1>7. QED
  BY <1>2, <1>6 DEF ExactStep, ExactInv

\* An entry that is handled is the next one of the stream.
LEMMA HandledInTurn ==
    ASSUME FeatInv, Exact, NEW w \in Worker, Handling(w)
    PROVE  /\ worker[w].now \in Id \ done
           /\ \A n \in Id : n < worker[w].now => n \in done
           /\ \A n \in done : n < worker[w].now
<1>1. BusInv /\ Sole(worker[w]) /\ InTurn(worker[w]) /\ Poison = {} /\ trim = 0 /\ done \subseteq Id
  BY DEF FeatInv, SoleInv, Exact, NothingLost, FeaturesTypeOK, TypeOK
<1>2. worker[w].pc = "handling" /\ worker[w].now \in pending
  BY <1>1 DEF Handling, Sole
<1>3. worker[w].now \in Delivered
  BY <1>1, <1>2 DEF BusInv
<1>4. PICK m : m = worker[w].now
  OBVIOUS
<1>5. m \in Id /\ m \in Nat /\ m <= cursor
  BY <1>3, <1>4 DEF Delivered, Id
<1>6. \A n \in done : n < m
  BY <1>1, <1>2, <1>4 DEF InTurn
<1>7. m \notin done
  BY <1>5, <1>6
<1>8. ASSUME NEW n \in Id, n < m PROVE n \in done
  <2>1. cursor \in Int
    BY <1>1, FeaturesConstants DEF BusInv, TypeOK, NoGroup
  <2>2. n \in Delivered /\ n # m /\ n \in Nat
    BY <1>5, <1>8, <2>1 DEF Delivered, Id
  <2>3. n \notin Evicted
    BY <1>1, <2>2 DEF Evicted, Id
  <2>4. n \notin worker[w].hand
    <3>1. \A k \in worker[w].hand : m < k
      BY <1>1, <1>2, <1>4 DEF InTurn
    <3>2. QED
      BY <1>5, <1>8, <2>2, <3>1
  <2>5. QED
    BY <1>1, <1>2, <1>4, <2>2, <2>3, <2>4 DEF InTurn
<1>9. QED
  BY <1>4, <1>5, <1>6, <1>7, <1>8

\* What is not touched stays exact.
LEMMA ExactSame ==
    ASSUME ExactStep, UNCHANGED <<event, open, silent, counts, prev, published, job, reordered>>,
           done' = done
    PROVE  WindowsDone' /\ Counted' /\ SentOnce' /\ Closing' /\ InOrder'
<1>1. /\ Published' = Published /\ \A h : PublishedTs(h)' = PublishedTs(h)
      /\ \A h, t : InTime(h, t)' = InTime(h, t)
      /\ \A d : Regressed(d)' = Regressed(d)
      /\ \A t : Passed(t)' = Passed(t)
      /\ Clearing' = Clearing
  BY DEF Published, PublishedTs, InTime, EventsOf, Regressed, Passed, Clearing
<1>2. WindowsDone' /\ Counted' /\ SentOnce' /\ InOrder'
  BY <1>1 DEF ExactStep, WindowsDone, Counted, SentOnce, InOrder
<1>3. Closing'
  BY <1>1 DEF ExactStep, Closing, EmitExact
<1>4. QED
  BY <1>2, <1>3

\* The grace elapses only when the window is complete.
LEMMA FallSilentExact ==
    ASSUME ExactStep, FallSilent
    PROVE  WindowsDone' /\ Counted' /\ SentOnce' /\ Closing' /\ InOrder'
<1>1. /\ UNCHANGED <<busVars, event, open, counts, prev, published, job, reordered>>
      /\ open # NoWindow /\ ~Unfinished /\ done' = done
  BY DEF FallSilent, ExactStep, Exact, busVars
<1>2. /\ Published' = Published /\ \A h : PublishedTs(h)' = PublishedTs(h)
      /\ \A h, t : InTime(h, t)' = InTime(h, t)
      /\ \A d : Regressed(d)' = Regressed(d)
      /\ \A t : Passed(t)' = Passed(t)
      /\ Clearing' = Clearing
  BY <1>1 DEF Published, PublishedTs, InTime, EventsOf, Regressed, Passed, Clearing
<1>3. Passed(open)
  <2> SUFFICES ASSUME NEW n \in Id \ done PROVE n <= n /\ event[n].ts > open
    BY DEF Passed
  <2>1. FeaturesTypeOK /\ open \in Nat /\ n \in Nat
    BY <1>1, FeaturesConstants DEF ExactStep, FeatInv, FeaturesTypeOK, Id
  <2>2. event[n].ts \in Nat /\ ~(event[n].ts <= open)
    BY <1>1, <2>1, EventFacts DEF Unfinished
  <2>3. QED
    BY <2>1, <2>2
<1>4. WindowsDone'
  BY <1>1, <1>2, <1>3 DEF ExactStep, WindowsDone
<1>5. Counted' /\ SentOnce' /\ InOrder'
  BY <1>1, <1>2 DEF ExactStep, Counted, SentOnce, InOrder
<1>6. Closing'
  BY <1>1, <1>2 DEF ExactStep, Closing, EmitExact
<1>7. QED
  BY <1>4, <1>5, <1>6

\* An event is counted once, in the counters of a window that has not been sent.
LEMMA accumulateExact ==
    ASSUME ExactStep, NEW w \in Worker, accumulate(w)
    PROVE  WindowsDone' /\ Counted' /\ SentOnce' /\ Closing' /\ InOrder'
<1>1. PICK m, l, s : m = worker[w].now /\ l = event[m].host /\ s = event[m].ts
  OBVIOUS
<1>2. /\ HandlerReturns(w) /\ Handling(w) /\ UNCHANGED <<event, prev, published>>
      /\ job = NoJob /\ job' = NoJob
      /\ open \in {NoWindow, s} /\ open' = s /\ silent' = FALSE
      /\ reordered' = (reordered \/ OutOfTurn(m))
      /\ counts' = [counts EXCEPT ![l][s] = @ + 1]
  BY <1>1 DEF accumulate, Now, Handling
<1>3. FeatInv /\ FeaturesTypeOK /\ Exact /\ WindowsDone /\ Counted /\ SentOnce /\ InOrder
      /\ done \subseteq Id
  BY DEF ExactStep, FeatInv, FeaturesTypeOK, TypeOK
<1>4. /\ m \in Id /\ m \notin done /\ done' = done \union {m}
      /\ \A n \in Id : n < m => n \in done
      /\ \A n \in done : n < m
  BY <1>1, <1>2, <1>3, HandledInTurn, ReturnFacts
<1>5. s \in Nat /\ s > 0 /\ s \in Ts /\ l \in Host /\ s # NoWindow
      /\ event[m] = [host |-> l, ts |-> s]
  <2>1. event[m] \in [host : Host, ts : Ts]
    BY <1>3, <1>4, EventFacts
  <2>2. QED
    BY <1>1, <1>3, <1>4, <2>1, EventFacts DEF NoWindow
<1>6. ASSUME NEW d \in done, open = NoWindow PROVE event[d].ts < s /\ event[d].ts \in Nat
  <2>1. event[d].ts \in Nat /\ m \in Nat
    BY <1>3, <1>4, EventFacts DEF Id
  <2>2. Passed(event[d].ts)
    BY <1>3, <1>6 DEF WindowsDone
  <2>3. PICK k \in Id \ done : k <= m /\ event[k].ts > event[d].ts
    BY <1>4, <2>2 DEF Passed
  <2>4. k = m
    <3>1. k \in Nat /\ ~(k < m)
      BY <1>4 DEF Id
    <3>2. QED
      BY <2>1, <2>3, <3>1
  <2>5. QED
    BY <1>1, <1>5, <2>1, <2>3, <2>4
<1>14. \A n \in done : event[n].ts \in Nat /\ event[n].ts <= s
  <2> SUFFICES ASSUME NEW n \in done PROVE event[n].ts \in Nat /\ event[n].ts <= s
    OBVIOUS
  <2>1. event[n].ts \in Nat
    BY <1>3, EventFacts
  <2>2. CASE open = s
    BY <1>3, <1>5, <2>1, <2>2 DEF ExactStep, AxisInv, OrdInv, WindowsDone
  <2>3. CASE open = NoWindow
    BY <1>5, <1>6, <2>1, <2>3
  <2>4. QED
    BY <1>2, <2>2, <2>3
<1>15. ~Regressed(m)
  <2> SUFFICES ASSUME NEW n \in Id, n < m, event[n].ts > s PROVE FALSE
    BY <1>1 DEF Regressed
  <2>1. n \in done
    BY <1>4
  <2>2. QED
    BY <1>5, <1>14, <2>1
<1>7. /\ Published' = Published /\ \A h : PublishedTs(h)' = PublishedTs(h)
      /\ \A h, t : InTime(h, t)' = InTime(h, t)
      /\ \A d : Regressed(d)' = Regressed(d)
      /\ ~Clearing'
  BY <1>2, <1>4 DEF Published, PublishedTs, InTime, EventsOf, Regressed, Clearing
<1>8. WindowsDone'
  <2>1. ~reordered'
    <3>1. m \in Nat /\ \A n \in done : n \in Nat
      BY <1>3, <1>4 DEF Id
    <3>2. \A n \in done : ~(m < n)
      BY <1>4, <3>1
    <3>3. \A n \in done : ~(s < event[n].ts)
      BY <1>3, <1>5, <1>14
    <3>4. ~OutOfTurn(m)
      BY <1>1, <1>4, <3>2, <3>3 DEF OutOfTurn
    <3>5. QED
      BY <1>2, <1>3, <3>4 DEF WindowsDone
  <2>2. \A d \in done', n \in Id : n < d => n \in done'
    BY <1>3, <1>4 DEF WindowsDone
  <2>3. QED
    BY <1>2, <1>5, <2>1, <2>2 DEF WindowsDone
<1>9. Counted'
  <2>1. ASSUME NEW d \in done'
        PROVE  Regressed(d) \/ event[d].ts \in PublishedTs(event[d].host) \/ event[d].ts = s
    <3>1. CASE d = m
      BY <1>1, <3>1
    <3>2. CASE d \in done
      <4>1. event[d].ts # NoWindow
        BY <1>3, <3>2, EventFacts DEF NoWindow
      <4>2. QED
        BY <1>2, <1>3, <3>2, <4>1 DEF Counted
    <3>3. QED
      BY <1>4, <2>1, <3>1, <3>2
  <2>2. ASSUME NEW h \in Host
        PROVE  counts'[h][s] = Cardinality(InTime(h, s) \intersect done')
    <3>1. PICK D, F : D = InTime(h, s) \intersect done /\ F = InTime(h, s) \intersect done'
      OBVIOUS
    <3>2. D \in SUBSET Id /\ IsFiniteSet(D) /\ Cardinality(D) \in Nat /\ m \notin D
      <4>1. D \in SUBSET Id
        BY <3>1 DEF InTime, EventsOf, Regressed
      <4>2. QED
        BY <1>4, <3>1, <4>1, EventsFinite
    <3>3. counts[h][s] = Cardinality(D)
      <4>1. CASE open = s
        BY <1>2, <1>3, <1>5, <3>1, <4>1 DEF Counted, Clearing
      <4>2. CASE open = NoWindow
        <5>1. D = {}
          <6>1. ASSUME NEW d \in D PROVE FALSE
            <7>1. d \in done /\ event[d].ts = s
              BY <3>1, <6>1 DEF InTime, EventsOf, Regressed
            <7>2. event[d].ts < s
              BY <1>6, <4>2, <7>1
            <7>3. QED
              BY <1>5, <7>1, <7>2
          <6>2. QED
            BY <6>1
        <5>2. ~(counts[h][s] > 0)
          BY <1>3, <1>5, <4>2 DEF FeatInv, CountInv
        <5>3. counts[h][s] \in Nat
          BY <1>3, <1>5, FeaturesConstants DEF FeaturesTypeOK
        <5>4. Cardinality(D) = 0
          BY <5>1, FS_EmptySet
        <5>5. QED
          BY <5>2, <5>3, <5>4
      <4>3. QED
        BY <1>2, <4>1, <4>2
    <3>4. m \in InTime(h, s) <=> h = l
      BY <1>4, <1>5, <1>15 DEF InTime, EventsOf
    <3>5. /\ counts \in [Host -> [Ts -> 0..MaxPublished + MaxFaults]]
      BY <1>3 DEF FeaturesTypeOK
    <3>6. CASE h = l
      <4>1. F = D \union {m}
        BY <1>4, <3>1, <3>4, <3>6
      <4>2. Cardinality(F) = Cardinality(D) + 1
        BY <3>2, <4>1, FS_AddElement
      <4>3. counts'[h][s] = counts[h][s] + 1
        BY <1>2, <1>5, <3>5, <3>6
      <4>4. QED
        BY <3>1, <3>3, <4>2, <4>3
    <3>7. CASE h # l
      <4>1. F = D
        BY <1>4, <3>1, <3>4, <3>7
      <4>2. counts'[h][s] = counts[h][s]
        BY <1>2, <1>5, <3>5, <3>7
      <4>3. QED
        BY <3>1, <3>3, <4>1, <4>2
    <3>8. QED
      BY <3>6, <3>7
  <2>3. \A d \in done' : \/ Regressed(d)'
                         \/ event'[d].ts \in PublishedTs(event[d].host)'
                         \/ event'[d].ts = open'
    BY <1>2, <1>7, <2>1
  <2>4. \A h \in Host : counts'[h][open'] = Cardinality(InTime(h, open)' \intersect done')
    BY <1>2, <2>2 DEF InTime, EventsOf, Regressed
  <2>5. QED
    BY <1>7, <2>3, <2>4 DEF Counted
<1>10. SentOnce'
  <2>1. ASSUME NEW h \in Host, NEW t \in PublishedTs(h) PROVE t < s
    <3>1. CASE open = s
      BY <1>2, <1>3, <1>5, <3>1 DEF SentOnce
    <3>2. CASE open = NoWindow
      <4>1. PICK d \in done : t <= event[d].ts
        BY <1>3 DEF ExactStep, AxisInv, OrdInv, WindowsDone
      <4>2. event[d].ts < s /\ event[d].ts \in Nat
        BY <1>6, <3>2
      <4>3. t \in Nat
        BY <1>3, PublishedFacts, FeaturesConstants DEF FeaturesTypeOK
      <4>4. QED
        BY <1>5, <4>1, <4>2, <4>3
    <3>3. QED
      BY <1>2, <3>1, <3>2
  <2>2. \A h \in Host : \A t \in PublishedTs(h) : t <= prev[h]
    BY <1>2, <1>3 DEF SentOnce
  <2>3. QED
    BY <1>2, <1>7, <2>1, <2>2 DEF SentOnce
<1>11. Closing'
  BY <1>2 DEF Closing
<1>12. InOrder'
  BY <1>2, <1>3, <1>7 DEF InOrder
<1>13. QED
  BY <1>8, <1>9, <1>10, <1>11, <1>12

\* An event that is dropped came after a regression.
LEMMA DropLateExact ==
    ASSUME ExactStep, NEW w \in Worker, DropLate(w)
    PROVE  WindowsDone' /\ Counted' /\ SentOnce' /\ Closing' /\ InOrder'
<1>1. PICK m : m = worker[w].now
  OBVIOUS
<1>2. /\ HandlerReturns(w) /\ Handling(w) /\ open # NoWindow /\ event[m].ts < open /\ job = NoJob
      /\ UNCHANGED <<event, open, silent, counts, prev, published, job, reordered>>
  BY <1>1 DEF DropLate, Now, Handling, featureVars, history
<1>3. FeatInv /\ FeaturesTypeOK /\ Exact /\ WindowsDone /\ Counted /\ SentOnce /\ InOrder
      /\ done \subseteq Id
  BY DEF ExactStep, FeatInv, FeaturesTypeOK, TypeOK
<1>4. /\ m \in Id /\ m \notin done /\ done' = done \union {m}
      /\ \A n \in Id : n < m => n \in done
      /\ \A n \in done : n < m
  BY <1>1, <1>2, <1>3, HandledInTurn, ReturnFacts
<1>5. m \in Nat /\ open \in Nat /\ event[m].ts \in Nat
  BY <1>2, <1>3, <1>4, EventFacts, FeaturesConstants DEF FeaturesTypeOK, Id
<1>6. Regressed(m)
  <2>1. PICK d \in done : event[d].ts = open
    BY <1>2, <1>3 DEF ExactStep, AxisInv, OrdInv, WindowsDone
  <2>2. d \in Id /\ d < m /\ event[d].ts > event[m].ts
    BY <1>2, <1>3, <1>4, <1>5, <2>1
  <2>3. QED
    BY <2>2 DEF Regressed
<1>7. ~silent
  <2> SUFFICES ASSUME silent PROVE FALSE
    OBVIOUS
  <2>1. PICK k \in Id \ done : k <= m /\ event[k].ts > open
    BY <1>2, <1>3, <1>4 DEF WindowsDone, Passed
  <2>2. k \in Nat /\ ~(k < m)
    BY <1>4 DEF Id
  <2>3. k = m
    BY <1>5, <2>1, <2>2
  <2>4. QED
    BY <1>2, <1>5, <2>1, <2>3
<1>8. /\ Published' = Published /\ \A h : PublishedTs(h)' = PublishedTs(h)
      /\ \A h, t : InTime(h, t)' = InTime(h, t)
      /\ \A h, t : m \notin InTime(h, t)
      /\ \A d : Regressed(d)' = Regressed(d)
      /\ Clearing' = Clearing
  BY <1>2, <1>6 DEF Published, PublishedTs, InTime, EventsOf, Regressed, Clearing
<1>9. WindowsDone'
  <2>1. \A d \in done', n \in Id : n < d => n \in done'
    BY <1>3, <1>4 DEF WindowsDone
  <2>2. QED
    BY <1>2, <1>3, <1>7, <2>1 DEF WindowsDone
<1>10. Counted'
  <2>1. \A d \in done' : \/ Regressed(d)
                         \/ event[d].ts \in PublishedTs(event[d].host)
                         \/ event[d].ts = open /\ ~Clearing
    BY <1>3, <1>4, <1>6 DEF Counted
  <2>2. \A h, t : InTime(h, t) \intersect done' = InTime(h, t) \intersect done
    BY <1>4, <1>8
  <2>3. QED
    BY <1>2, <1>3, <1>8, <2>1, <2>2 DEF Counted
<1>11. SentOnce' /\ Closing' /\ InOrder'
  BY <1>2, <1>3, <1>8 DEF SentOnce, Closing, InOrder
<1>12. QED
  BY <1>9, <1>10, <1>11

\* A window that was passed and not sent had no event that came in time.
LEMMA NothingToSend ==
    ASSUME ExactStep, open # NoWindow, NEW h \in Host, NEW t \in Ts, t < open, t \notin PublishedTs(h)
    PROVE  InTime(h, t) = {}
<1>1. FeaturesTypeOK /\ OrdInv /\ done \subseteq Id /\ Counted
  BY DEF ExactStep, FeatInv, FeaturesTypeOK, TypeOK, AxisInv, WindowsDone
<1>2. ASSUME NEW m \in InTime(h, t) PROVE FALSE
  <2>1. m \in Id /\ event[m].ts = t /\ event[m].host = h /\ ~Regressed(m)
    BY <1>2 DEF InTime, EventsOf
  <2>2. m \in done
    <3>1. PICK d \in done : event[d].ts = open
      BY <1>1 DEF OrdInv
    <3>2. t \in Nat /\ open \in Nat /\ d \in Nat /\ m \in Nat /\ d \in Id
      BY <1>1, <2>1, FeaturesConstants DEF FeaturesTypeOK, Id
    <3>3. ~(d < m) /\ d # m
      BY <2>1, <3>1, <3>2 DEF Regressed
    <3>4. m < d
      BY <3>2, <3>3
    <3>5. QED
      BY <2>1, <3>4 DEF ExactStep, WindowsDone
  <2>3. t = open
    BY <1>1, <2>1, <2>2 DEF Counted
  <2>4. t \in Nat
    BY FeaturesConstants
  <2>5. QED
    BY <2>3, <2>4
<1>3. QED
  BY <1>2

\* A host that is taken up, or its next window, is sent exactly.
LEMMA ToEmitExact ==
    ASSUME ExactStep, open # NoWindow, NEW e \in Job, e.win = open, NEW h \in Host, NEW n \in Nat,
           ToEmit(e, h, n), n > 0 => open - n + 1 \in Ts, NEW G,
           n > 0 => \A t \in G : t < open - n + 1,
           PublishedTs(h) \subseteq G
    PROVE  /\ e.phase # "history" => \A t \in G : t < Head(e.todo)
           /\ e.phase \in {"save", "publish"} =>
                 e.vector.events = Cardinality(InTime(e.vector.host, e.vector.ts))
<1>1. open \in Int
  BY FeaturesConstants DEF ExactStep, FeatInv, FeaturesTypeOK
<1>2. CASE n = 0
  BY <1>2 DEF ToEmit
<1>3. ASSUME n > 0 PROVE \A t \in G : t < Head(e.todo)
  <2>1. e.todo = Run(open, n)
    BY DEF ToEmit
  <2>2. Head(e.todo) = open - n + 1
    BY <1>1, <1>3, <2>1, RunFacts
  <2>3. QED
    BY <1>3, <2>2
<1>4. CASE n = 1
  BY <1>3, <1>4 DEF ToEmit
<1>5. CASE n > 1
  <2>1. PICK t : t = open - n + 1
    OBVIOUS
  <2>2. t \in Ts /\ t < open /\ t \notin PublishedTs(h) /\ t \in Nat
    <3>1. t \in Ts /\ t \in Nat /\ t < open
      BY <1>1, <1>5, <2>1, FeaturesConstants
    <3>2. \A u \in G : u < t
      BY <1>5, <2>1
    <3>3. QED
      BY <3>1, <3>2
  <2>3. InTime(h, t) = {}
    BY <2>2, NothingToSend
  <2>4. e.vector = zero_features(h, t)
    BY <1>5, <2>1 DEF ToEmit
  <2>5. e.vector.events = 0 /\ e.vector.host = h /\ e.vector.ts = t
    BY <2>2, <2>4, ZeroIsVector
  <2>6. e.vector.events = Cardinality(InTime(e.vector.host, e.vector.ts))
    BY <2>3, <2>5, FS_EmptySet
  <2>7. QED
    BY <1>3, <1>5, <2>6
<1>6. QED
  BY <1>2, <1>4, <1>5

\* All that is due for a host of which nothing as late was sent, and nothing
\* that is not remembered.
LEMMA DueExact ==
    ASSUME ExactStep, open \in Ts, NEW e \in Job, e.win = open, NEW h \in Host,
           NEW from \in Ts \union {NoWindow}, ToEmit(e, h, DueLen(from, open)),
           \A t \in PublishedTs(h) : t < open /\ t <= from
    PROVE  EmitExact(e, h)
<1>1. PICK n, G : n = DueLen(from, open) /\ G = PublishedTs(h)
  OBVIOUS
<1>2. /\ n \in Nat /\ n > 0
      /\ (n = open - from /\ from \in Ts /\ from < open) \/ n = 1
      /\ \A m \in 0..n : m > 0 => open - m + 1 \in Ts
  BY <1>1, DueIsRun
<1>3. n \in 0..n /\ open - n + 1 \in Ts
  BY <1>2
<1>4. G \subseteq Ts
  BY <1>1, PublishedFacts DEF ExactStep, FeatInv, FeaturesTypeOK
<1>5. ASSUME NEW t \in G PROVE t < open - n + 1
  <2>1. t \in Nat /\ open \in Nat /\ t < open /\ t <= from
    BY <1>1, <1>4, FeaturesConstants
  <2>2. CASE n = 1
    BY <2>1, <2>2
  <2>3. CASE n = open - from /\ from \in Ts
    <3>1. from \in Nat
      BY <2>3, FeaturesConstants
    <3>2. QED
      BY <2>1, <2>3, <3>1
  <2>4. QED
    BY <1>2, <2>2, <2>3
<1>6. open # NoWindow
  BY FeaturesConstants DEF NoWindow
<1>7. ToEmit(e, h, n)
  BY <1>1
<1>8. PublishedTs(h) \subseteq G
  BY <1>1
<1>9. /\ e.phase # "history" => \A t \in G : t < Head(e.todo)
      /\ e.phase \in {"save", "publish"} =>
            e.vector.events = Cardinality(InTime(e.vector.host, e.vector.ts))
  BY <1>2, <1>3, <1>5, <1>6, <1>7, <1>8, ToEmitExact
<1>10. QED
  BY <1>1, <1>9 DEF EmitExact

\* A close begins, by the next event or by the watchdog, when its window is complete.
LEMMA CloseBeginsExact ==
    ASSUME ExactStep, NEW w \in Worker, CloseByEvent(w) \/ watchdog_tick(w)
    PROVE  WindowsDone' /\ Counted' /\ SentOnce' /\ Closing' /\ InOrder'
<1>1. /\ UNCHANGED <<busVars, event, open, silent, counts, prev, published, reordered>>
      /\ done' = done
  BY DEF CloseByEvent, watchdog_tick, history, busVars
<1>2. /\ FeatInv /\ FeaturesTypeOK /\ Exact /\ WindowsDone /\ Counted /\ SentOnce /\ InOrder
      /\ BusInv' /\ SoleInv' /\ FeatInv'
  BY DEF ExactStep, FeatInv
<1>3. /\ job = NoJob /\ open \in Ts /\ job' # NoJob /\ job'.win = open
      /\ job'.hosts = HostsOf(open) /\ job'.phase # "clear"
      /\ job'.hosts # {} => ToEmit(job', Least(job'.hosts), DueLen(prev[Least(job'.hosts)], open))
  BY <1>2, CloseBegins
<1>4. /\ Published' = Published /\ \A h : PublishedTs(h)' = PublishedTs(h)
      /\ \A h, t : InTime(h, t)' = InTime(h, t)
      /\ \A d : Regressed(d)' = Regressed(d)
      /\ \A t : Passed(t)' = Passed(t)
      /\ ~Clearing /\ ~Clearing' /\ open # NoWindow
  BY <1>1, <1>3, FeaturesConstants DEF Published, PublishedTs, InTime, EventsOf, Regressed, Passed, Clearing, NoWindow
<1>5. Passed(open)
  <2>1. CASE CloseByEvent(w)
    <3>1. PICK m : m = worker[w].now
      OBVIOUS
    <3>2. Handling(w) /\ event[m].ts > open
      BY <2>1, <3>1 DEF CloseByEvent, Now
    <3>3. m \in Id \ done /\ \A k \in Id : k < m => k \in done
      BY <1>2, <3>1, <3>2, HandledInTurn
    <3>4. ASSUME NEW n \in Id \ done PROVE m <= n
      <4>1. m \in Nat /\ n \in Nat /\ ~(n < m)
        BY <3>3, <3>4 DEF Id
      <4>2. QED
        BY <4>1
    <3>5. QED
      BY <3>2, <3>3, <3>4 DEF Passed
  <2>2. CASE watchdog_tick(w)
    BY <1>2, <2>2 DEF watchdog_tick, WindowsDone
  <2>3. QED
    BY <2>1, <2>2
<1>6. WindowsDone'
  BY <1>1, <1>2, <1>3, <1>4, <1>5 DEF WindowsDone
<1>7. Counted'
  BY <1>1, <1>2, <1>4 DEF Counted
<1>8. \A h \in Host : \A t \in PublishedTs(h) : t < open /\ t <= prev[h]
  BY <1>2, <1>3, <1>4 DEF SentOnce
<1>9. SentOnce'
  BY <1>1, <1>4, <1>8 DEF SentOnce
<1>10. Closing'
  <2>1. CASE job'.hosts = {}
    BY <2>1 DEF Closing
  <2>2. CASE job'.hosts # {}
    <3>1. PICK h, e, from : h = Least(job'.hosts) /\ e = job' /\ from = prev[h]
      OBVIOUS
    <3>2. e \in Job /\ e.win = open
      BY <1>2, <1>3, <3>1 DEF FeatInv, FeaturesTypeOK
    <3>3. h \in Host
      <4>1. e.hosts \in SUBSET Host /\ e.hosts # {} /\ h = Least(e.hosts)
        BY <2>2, <3>1, <3>2 DEF Job
      <4>2. QED
        BY <4>1, HostAtHand
    <3>4. from \in Ts \union {NoWindow} /\ ToEmit(e, h, DueLen(from, open))
      BY <1>2, <1>3, <2>2, <3>1, <3>3 DEF FeaturesTypeOK
    <3>5. \A t \in PublishedTs(h) : t < open /\ t <= from
      BY <1>8, <3>1, <3>3
    <3>6. EmitExact(e, h)
      BY <1>3, <3>2, <3>3, <3>4, <3>5, DueExact
    <3>7. QED
      BY <1>4, <3>1, <3>6 DEF Closing, EmitExact
  <2>3. QED
    BY <2>1, <2>2
<1>11. InOrder'
  BY <1>1, <1>2, <1>4 DEF InOrder
<1>12. QED
  BY <1>6, <1>7, <1>9, <1>10, <1>11

\* The vector at hand is made, or made durable.
LEMMA VectorAtHandExact ==
    ASSUME ExactStep, UNCHANGED <<event, open, silent, counts, prev, published, reordered>>,
           done' = done, job # NoJob, job.phase \in {"peers", "save"},
           job' # NoJob, SameClose(job', job), job'.todo = job.todo,
           job'.phase \in {"save", "publish"},
           job'.vector.events = Cardinality(InTime(job'.vector.host, job'.vector.ts))
    PROVE  WindowsDone' /\ Counted' /\ SentOnce' /\ Closing' /\ InOrder'
<1>1. /\ Published' = Published /\ \A h : PublishedTs(h)' = PublishedTs(h)
      /\ \A h, t : InTime(h, t)' = InTime(h, t)
      /\ \A d : Regressed(d)' = Regressed(d)
      /\ \A t : Passed(t)' = Passed(t)
      /\ ~Clearing /\ ~Clearing'
      /\ job'.win = job.win /\ job'.hosts = job.hosts
  BY DEF Published, PublishedTs, InTime, EventsOf, Regressed, Passed, Clearing, SameClose
<1>2. WindowsDone /\ Counted /\ SentOnce /\ Closing /\ InOrder
  BY DEF ExactStep
<1>3. WindowsDone'
  BY <1>1, <1>2 DEF WindowsDone
<1>4. Counted'
  BY <1>1, <1>2 DEF Counted
<1>5. SentOnce'
  <2>1. job.phase # "history"
    OBVIOUS
  <2>2. QED
    BY <1>1, <1>2, <2>1 DEF SentOnce
<1>6. Closing'
  <2>1. CASE job.hosts = {}
    BY <1>1, <2>1 DEF Closing
  <2>2. CASE job.hosts # {}
    <3>1. PICK h : h = Least(job.hosts)
      OBVIOUS
    <3>2. \A t \in PublishedTs(h) : t < Head(job.todo)
      <4>1. EmitExact(job, h)
        BY <1>2, <2>2, <3>1 DEF Closing
      <4>2. QED
        BY <4>1 DEF EmitExact
    <3>3. EmitExact(job, h)'
      BY <1>1, <3>1, <3>2 DEF EmitExact
    <3>4. QED
      BY <1>1, <3>1, <3>3 DEF Closing, EmitExact
  <2>3. QED
    BY <2>1, <2>2
<1>7. InOrder'
  BY <1>1, <1>2 DEF InOrder
<1>8. QED
  BY <1>3, <1>4, <1>5, <1>6, <1>7

\* The counters of a complete window hold each of its events once.
LEMMA record_peersExact ==
    ASSUME ExactStep, record_peers
    PROVE  WindowsDone' /\ Counted' /\ SentOnce' /\ Closing' /\ InOrder'
<1>1. /\ job # NoJob /\ job.phase = "peers"
      /\ UNCHANGED <<busVars, event, open, silent, counts, prev, stored, published, reordered>>
      /\ done' = done
  BY DEF record_peers, history, busVars
<1>2. PICK h \in Host : /\ h = Least(job.hosts) /\ job \in Job /\ job.win \in Ts /\ job.win = open
                        /\ CloseInv(job)
  BY <1>1, AtHost DEF ExactStep
<1>3. PICK v : v = [host |-> h, ts |-> job.win, events |-> counts[h][job.win], new_peer |-> h \notin peers]
  OBVIOUS
<1>4. PICK e : e = [job EXCEPT !.phase = "save", !.vector = v]
  OBVIOUS
<1>5. job' = e
  BY <1>2, <1>3, <1>4 DEF record_peers
<1>6. /\ e.phase = "save" /\ e.vector = v /\ SameClose(e, job) /\ e.todo = job.todo
      /\ v.host = h /\ v.ts = open /\ v.events = counts[h][open]
  BY <1>2, <1>3, <1>4 DEF Job, SameClose
<1>7. job' # NoJob
  <2>1. job' \in Job \union {NoJob} /\ NoJob.by = "nobody"
    BY DEF ExactStep, FeatInv, FeaturesTypeOK, NoJob
  <2>2. e.by \in {"event", "watchdog"}
    BY <1>2, <1>6 DEF SameClose, Job
  <2>3. QED
    BY <1>5, <2>1, <2>2
<1>8. v.events = Cardinality(InTime(v.host, v.ts))
  <2>1. open # NoWindow /\ ~Clearing
    BY <1>1, <1>2, FeaturesConstants DEF NoWindow, Clearing
  <2>2. counts[h][open] = Cardinality(InTime(h, open) \intersect done)
    BY <2>1 DEF ExactStep, Counted
  <2>3. InTime(h, open) \subseteq done
    <3>1. Passed(open)
      BY <1>1, <1>2 DEF ExactStep, WindowsDone
    <3>2. ASSUME NEW n \in InTime(h, open), n \notin done PROVE FALSE
      <4>1. n \in Id /\ event[n].ts = open /\ ~Regressed(n)
        BY <3>2 DEF InTime, EventsOf
      <4>2. PICK k \in Id \ done : k <= n /\ event[k].ts > open
        BY <3>1, <3>2, <4>1 DEF Passed
      <4>3. k \in Nat /\ n \in Nat /\ open \in Nat
        BY <1>2, <4>1, FeaturesConstants DEF Id
      <4>4. ~(k < n)
        BY <4>1, <4>2 DEF Regressed
      <4>5. QED
        BY <4>1, <4>2, <4>3, <4>4
    <3>3. QED
      BY <3>2
  <2>4. InTime(h, open) \intersect done = InTime(h, open)
    BY <2>3
  <2>5. QED
    BY <1>6, <2>2, <2>4
<1>9. QED
  BY <1>1, <1>5, <1>6, <1>7, <1>8, VectorAtHandExact

\* The vector does not change when it is stored.
LEMMA saveExact ==
    ASSUME ExactStep, save
    PROVE  WindowsDone' /\ Counted' /\ SentOnce' /\ Closing' /\ InOrder'
<1>1. /\ job # NoJob /\ job.phase = "save"
      /\ UNCHANGED <<busVars, event, open, silent, counts, prev, published, reordered>>
      /\ done' = done
  BY DEF save, history, busVars
<1>2. PICK h \in Host : h = Least(job.hosts) /\ job \in Job /\ job.hosts # {}
  BY <1>1, AtHost DEF ExactStep
<1>3. PICK e : e = [job EXCEPT !.phase = "publish"]
  OBVIOUS
<1>4. job' = e
  BY <1>3 DEF save
<1>5. /\ e.phase = "publish" /\ e.vector = job.vector /\ SameClose(e, job) /\ e.todo = job.todo
  BY <1>2, <1>3 DEF Job, SameClose
<1>6. job' # NoJob
  <2>1. NoJob.by = "nobody"
    BY DEF NoJob
  <2>2. e.by \in {"event", "watchdog"}
    BY <1>2, <1>5 DEF SameClose, Job
  <2>3. QED
    BY <1>4, <2>1, <2>2
<1>7. job.vector.events = Cardinality(InTime(job.vector.host, job.vector.ts))
  <2>1. EmitExact(job, h)
    BY <1>1, <1>2 DEF ExactStep, Closing
  <2>2. QED
    BY <1>1, <2>1 DEF EmitExact
<1>8. QED
  BY <1>1, <1>4, <1>5, <1>6, <1>7, VectorAtHandExact

\* The next window of the host at hand, after one is published.
LEMMA PublishGoesOn ==
    ASSUME FeatInv, publish
    PROVE  \E h \in Host, n \in Nat :
              /\ job # NoJob /\ job.hosts # {} /\ h = Least(job.hosts) /\ h \in job.hosts
              /\ n > 0 /\ open \in Ts /\ job.win = open /\ open - n + 1 \in Ts
              /\ job.todo = Run(open, n)
              /\ job.vector \in Vector /\ job.vector.host = h /\ job.vector.ts = open - n + 1
              /\ job' \in Job /\ SameClose(job', job) /\ job' # NoJob
              /\ ToEmit(job', h, n - 1) /\ (n - 1 > 0 => open - (n - 1) + 1 \in Ts)
<1>1. job # NoJob /\ job.phase = "publish" /\ job' = NextVector([job EXCEPT !.todo = Tail(@)])
  BY DEF publish
<1>2. PICK h \in Host, from \in Ts \union {NoWindow}, n \in Nat :
              /\ h = Least(job.hosts) /\ h \in job.hosts
              /\ job \in Job /\ job.hosts # {}
              /\ job.win \in Ts /\ job.win = open
              /\ DueLen(from, job.win) \in Nat
              /\ n \in 0..DueLen(from, job.win)
              /\ job.todo = Run(job.win, n)
              /\ n = 0 <=> job.phase = "history"
              /\ job.phase \in {"save", "publish"} =>
                    /\ job.vector \in Vector /\ job.vector.host = h
                    /\ job.vector.ts = job.win - n + 1
  BY <1>1, AtHost
<1>3. PICK t, d : t = job.win /\ d = DueLen(from, t)
  OBVIOUS
<1>4. /\ n > 0 /\ t \in Int /\ t = open /\ d \in Nat /\ n <= d /\ n \in 0..d
  BY <1>1, <1>2, <1>3, FeaturesConstants
<1>5. \A m \in 0..d : (m > 0 => t - m + 1 \in Ts) /\ Run(t, m) \in Seq(Ts)
  BY <1>2, <1>3, DueIsRun
<1>6. PICK m \in Nat : m = n - 1
  BY <1>4
<1>7. m \in 0..d /\ (m > 0 => t - m + 1 \in Ts) /\ t - n + 1 \in Ts
  <2>1. m \in 0..d
    BY <1>4, <1>6
  <2>2. m > 0 => t - m + 1 \in Ts
    BY <1>5, <2>1
  <2>3. t - n + 1 \in Ts
    BY <1>4, <1>5
  <2>4. QED
    BY <2>1, <2>2, <2>3
<1>8. Tail(job.todo) = Run(t, m) /\ Run(t, m) \in Seq(Ts)
  <2>1. Tail(Run(t, n)) = Run(t, n - 1)
    BY <1>4, RunFacts
  <2>2. QED
    BY <1>2, <1>3, <1>5, <1>6, <1>7, <2>1
<1>9. PICK j : j = [job EXCEPT !.todo = Run(t, m)]
  OBVIOUS
<1>10. j \in Job /\ j.todo = Run(j.win, m) /\ j.hosts = job.hosts /\ j.win = t /\ SameClose(j, job)
  BY <1>2, <1>3, <1>8, <1>9 DEF Job, SameClose
<1>11. PICK e : e = NextVector(j)
  OBVIOUS
<1>12. job' = e
  <2>1. j = [job EXCEPT !.todo = Tail(@)]
    BY <1>2, <1>8, <1>9 DEF Job
  <2>2. QED
    BY <1>1, <1>11, <2>1
<1>13. e \in Job /\ SameClose(e, j) /\ ToEmit(e, h, m)
  <2>1. NextVector(j) \in Job /\ SameClose(NextVector(j), j) /\ ToEmit(NextVector(j), Least(j.hosts), m)
    BY <1>2, <1>7, <1>10, NextVectorIs
  <2>2. Least(j.hosts) = h
    BY <1>2, <1>10
  <2>3. QED
    BY <1>11, <2>1, <2>2
<1>14. SameClose(e, job) /\ e # NoJob
  <2>1. NoJob.by = "nobody"
    BY DEF NoJob
  <2>2. e.by \in {"event", "watchdog"}
    BY <1>13 DEF Job
  <2>3. QED
    BY <1>10, <1>13, <2>1, <2>2 DEF SameClose
<1>15. n - 1 = m /\ job.todo = Run(t, n) /\ job.vector.ts = t - n + 1
  BY <1>1, <1>2, <1>3, <1>6
<1>16. QED
  BY <1>1, <1>2, <1>3, <1>4, <1>7, <1>12, <1>13, <1>14, <1>15

\* The vector that is published is later than what was, and the next one later still.
LEMMA publishExact ==
    ASSUME ExactStep, publish
    PROVE  WindowsDone' /\ Counted' /\ SentOnce' /\ Closing' /\ InOrder'
<1>1. /\ UNCHANGED <<busVars, event, open, silent, counts, prev, stored, reordered>>
      /\ job.phase = "publish" /\ published' = Append(published, job.vector) /\ done' = done
  BY DEF publish, history, busVars
<1>2. /\ FeatInv /\ FeaturesTypeOK /\ WindowsDone /\ Counted /\ SentOnce /\ Closing /\ InOrder
      /\ FeatInv'
  BY DEF ExactStep, FeatInv
<1>3. PICK h \in Host, n \in Nat :
              /\ job # NoJob /\ job.hosts # {} /\ h = Least(job.hosts) /\ h \in job.hosts
              /\ n > 0 /\ open \in Ts /\ job.win = open /\ open - n + 1 \in Ts
              /\ job.todo = Run(open, n)
              /\ job.vector \in Vector /\ job.vector.host = h /\ job.vector.ts = open - n + 1
              /\ job' \in Job /\ SameClose(job', job) /\ job' # NoJob
              /\ ToEmit(job', h, n - 1) /\ (n - 1 > 0 => open - (n - 1) + 1 \in Ts)
  BY <1>2, PublishGoesOn
<1>4. PICK b, v, G, m : b = open - n + 1 /\ v = job.vector /\ G = PublishedTs(h) \union {b} /\ m = n - 1
  OBVIOUS
<1>5. /\ open \in Nat /\ open # NoWindow /\ b \in Nat /\ b <= open /\ m \in Nat
      /\ m > 0 => b < open - m + 1 /\ b < open
      /\ v \in Vector /\ v.host = h /\ v.ts = b
  BY <1>3, <1>4, FeaturesConstants DEF NoWindow
<1>6. EmitExact(job, h)
  BY <1>2, <1>3 DEF Closing
<1>7. /\ \A t \in PublishedTs(h) : t < b
      /\ v.events = Cardinality(InTime(v.host, v.ts))
  <2>1. Head(job.todo) = b
    BY <1>3, <1>4, <1>5, RunFacts
  <2>2. QED
    BY <1>1, <1>4, <1>6, <2>1 DEF EmitExact
<1>8. /\ Published' = Published \union {v}
      /\ PublishedTs(h)' = G
      /\ \A l \in Host : l # h => PublishedTs(l)' = PublishedTs(l)
      /\ \A l \in Host : PublishedTs(l) \subseteq Ts
      /\ published \in Seq(Vector)
  <2>1. published \in Seq(Vector) /\ published' = Append(published, v)
    BY <1>1, <1>2, <1>4 DEF FeaturesTypeOK
  <2>2. /\ Published' = Published \union {v}
        /\ \A l \in Host : PublishedTs(l) \subseteq Ts
        /\ \A l \in Host : PublishedTs(l)' =
              PublishedTs(l) \union (IF v.host = l THEN {v.ts} ELSE {})
    BY <1>5, <2>1, PublishedFacts
  <2>3. PublishedTs(h)' = PublishedTs(h) \union {b}
    <3>1. PublishedTs(h)' = PublishedTs(h) \union (IF v.host = h THEN {v.ts} ELSE {})
      BY <2>2
    <3>2. v.host = h /\ v.ts = b
      BY <1>5
    <3>3. QED
      BY <3>1, <3>2
  <2>4. \A l \in Host : l # h => PublishedTs(l)' = PublishedTs(l)
    BY <1>5, <2>2
  <2>5. QED
    BY <1>4, <2>1, <2>2, <2>3, <2>4
<1>9. /\ \A l, t : InTime(l, t)' = InTime(l, t)
      /\ \A d : Regressed(d)' = Regressed(d)
      /\ \A t : Passed(t)' = Passed(t)
      /\ ~Clearing /\ ~Clearing'
      /\ job'.win = open /\ job'.hosts = job.hosts
  <2>1. job'.phase \in {"history", "peers", "save"}
    <3>1. n = 1 \/ n > 1
      BY <1>3
    <3>2. QED
      BY <1>3, <3>1 DEF ToEmit
  <2>2. QED
    BY <1>1, <1>3, <2>1 DEF InTime, EventsOf, Regressed, Passed, Clearing, SameClose
<1>10. WindowsDone'
  BY <1>1, <1>2, <1>3, <1>9 DEF WindowsDone
<1>11. Counted'
  <2>1. \A l \in Host : PublishedTs(l) \subseteq PublishedTs(l)'
    BY <1>4, <1>8
  <2>2. \A d \in done : event[d].host \in Host
    BY <1>2, EventFacts DEF FeaturesTypeOK, TypeOK
  <2>3. QED
    BY <1>1, <1>2, <1>9, <2>1, <2>2 DEF Counted
<1>12. SentOnce'
  <2>1. ASSUME NEW l \in Host
        PROVE  \/ \A t \in PublishedTs(l)' : t < open
               \/ l \notin job.hosts
               \/ l = h /\ job'.phase = "history"
    <3>1. CASE l # h
      <4>1. (\A t \in PublishedTs(l) : t < open) \/ l \notin job.hosts
        BY <1>1, <1>2, <1>3, <1>5, <3>1 DEF SentOnce
      <4>2. QED
        BY <1>8, <3>1, <4>1
    <3>2. CASE l = h /\ n = 1
      BY <1>3, <3>2 DEF ToEmit
    <3>3. CASE l = h /\ n > 1
      <4>1. b < open
        BY <1>4, <1>5, <3>3
      <4>2. ASSUME NEW t \in G PROVE t < open
        <5>1. t \in Nat
          BY <1>3, <1>4, <1>5, <1>8, FeaturesConstants
        <5>2. t < b \/ t = b
          BY <1>4, <1>7
        <5>3. QED
          BY <1>5, <4>1, <5>1, <5>2
      <4>3. QED
        BY <1>8, <3>3, <4>2
    <3>4. n = 1 \/ n > 1
      BY <1>3
    <3>5. QED
      BY <3>1, <3>2, <3>3, <3>4
  <2>2. ASSUME NEW l \in Host, l # h PROVE \A t \in PublishedTs(l)' : t <= prev[l]
    BY <1>2, <1>3, <1>8, <2>2 DEF SentOnce
  <2>3. h = Least(job'.hosts)
    BY <1>3, <1>9
  <2>4. QED
    BY <1>1, <1>3, <1>9, <2>1, <2>2, <2>3 DEF SentOnce
<1>13. Closing'
  <2>1. PICK e : e = job'
    OBVIOUS
  <2>2. /\ e \in Job /\ e.win = open /\ ToEmit(e, h, m) /\ (m > 0 => open - m + 1 \in Ts)
    BY <1>3, <1>4, <1>9, <2>1
  <2>3. ASSUME m > 0, NEW t \in G PROVE t < open - m + 1
    <3>1. t \in Nat
      BY <1>3, <1>4, <1>5, <1>8, FeaturesConstants
    <3>2. t < b \/ t = b
      BY <1>4, <1>7
    <3>3. QED
      BY <1>5, <2>3, <3>1, <3>2
  <2>4. PublishedTs(h) \subseteq G
    BY <1>4
  <2>5. /\ e.phase # "history" => \A t \in G : t < Head(e.todo)
        /\ e.phase \in {"save", "publish"} =>
              e.vector.events = Cardinality(InTime(e.vector.host, e.vector.ts))
    BY <1>5, <2>2, <2>3, <2>4, ToEmitExact
  <2>6. h = Least(job'.hosts)
    BY <1>3, <1>9
  <2>7. QED
    BY <1>8, <1>9, <2>1, <2>5, <2>6 DEF Closing, EmitExact
<1>14. InOrder'
  <2>1. ASSUME NEW i \in DOMAIN published', NEW k \in DOMAIN published', i < k,
               published'[i].host = published'[k].host
        PROVE  published'[i].ts < published'[k].ts
    <3>1. PICK N : N = Len(published)
      OBVIOUS
    <3>2. /\ N \in Nat /\ DOMAIN published = 1..N /\ DOMAIN published' = 1..N + 1
          /\ published'[N + 1] = v /\ \A x \in 1..N : published'[x] = published[x]
      BY <1>1, <1>4, <1>5, <1>8, <3>1
    <3>3. i \in 1..N /\ published'[i] = published[i] /\ published[i] \in Published
      BY <2>1, <3>2 DEF Published
    <3>4. CASE k \in 1..N
      BY <1>2, <2>1, <3>2, <3>3, <3>4 DEF InOrder
    <3>5. CASE k = N + 1
      <4>1. published[i].ts \in PublishedTs(h)
        BY <1>5, <2>1, <3>2, <3>3, <3>5 DEF PublishedTs
      <4>2. QED
        BY <1>5, <1>7, <3>2, <3>3, <3>5, <4>1
    <3>6. k \in 1..N \/ k = N + 1
      BY <3>2
    <3>7. QED
      BY <3>4, <3>5, <3>6
  <2>2. \A u \in Published' : u.events = Cardinality(InTime(u.host, u.ts)')
    BY <1>2, <1>7, <1>8, <1>9 DEF InOrder
  <2>3. QED
    BY <2>1, <2>2 DEF InOrder
<1>15. QED
  BY <1>10, <1>11, <1>12, <1>13, <1>14

\* The host is remembered, and the next one is taken up.
LEMMA write_historyExact ==
    ASSUME ExactStep, write_history
    PROVE  WindowsDone' /\ Counted' /\ SentOnce' /\ Closing' /\ InOrder'
<1>1. /\ UNCHANGED <<busVars, event, open, silent, counts, stored, published, reordered>>
      /\ job # NoJob /\ job.phase = "history" /\ done' = done
  BY DEF write_history, history, busVars
<1>2. /\ FeatInv /\ FeaturesTypeOK /\ AxisInv /\ WindowsDone /\ Counted /\ SentOnce /\ InOrder
      /\ FeatInv'
  BY DEF ExactStep, FeatInv
<1>3. PICK h \in Host : /\ h = Least(job.hosts) /\ h \in job.hosts /\ job \in Job /\ job.hosts # {}
                        /\ job.win \in Ts /\ job.win = open
  BY <1>1, <1>2, AtHost
<1>4. open # NoWindow
  BY <1>3, FeaturesConstants DEF NoWindow
<1>5. prev'[h] = open /\ prev' \in [Host -> Ts \union {NoWindow}]
      /\ \A l \in Host : l # h => prev'[l] = prev[l]
  <2>1. prev' = [prev EXCEPT ![h] = open] /\ prev \in [Host -> Ts \union {NoWindow}]
    BY <1>2, <1>3 DEF write_history, FeaturesTypeOK
  <2>2. QED
    BY <1>3, <2>1
<1>6. PICK j : j = [job EXCEPT !.hosts = job.hosts \ {h}]
  OBVIOUS
<1>7. j \in Job /\ j.win = open /\ j.hosts = job.hosts \ {h}
  BY <1>3, <1>6 DEF Job
<1>8. PICK e : e = NextHost(j, prev')
  OBVIOUS
<1>9. job' = e
  <2>1. j = [job EXCEPT !.hosts = @ \ {h}]
    BY <1>3, <1>6 DEF Job
  <2>2. QED
    BY <1>3, <1>8, <2>1 DEF write_history
<1>10. /\ e \in Job /\ e.win = open /\ e.hosts = job.hosts \ {h} /\ e.phase # "clear" /\ e # NoJob
       /\ e.hosts # {} => ToEmit(e, Least(e.hosts), DueLen(prev'[Least(e.hosts)], open))
  <2>1. faults' \in Nat /\ event' \in [Id -> [host : Host, ts : Ts]]
    BY <1>1, <1>2, FeaturesConstants DEF FeaturesTypeOK, TypeOK, busVars, Captures
  <2>2. e \in Job /\ SameClose(e, j) /\ e.phase # "clear"
    BY <1>5, <1>7, <1>8, <2>1, NextHostEmits
  <2>3. e.win = open /\ e.hosts = job.hosts \ {h}
    BY <1>7, <2>2 DEF SameClose
  <2>4. e.hosts # {} => ToEmit(e, Least(e.hosts), DueLen(prev'[Least(e.hosts)], open))
    BY <1>5, <1>7, <1>8, <2>3, NextHostIs
  <2>5. e # NoJob
    <3>1. NoJob.by = "nobody" /\ e.by \in {"event", "watchdog"}
      BY <2>2 DEF NoJob, Job
    <3>2. QED
      BY <3>1
  <2>6. QED
    BY <2>2, <2>3, <2>4, <2>5
<1>11. /\ Published' = Published /\ \A l : PublishedTs(l)' = PublishedTs(l)
       /\ \A l, t : InTime(l, t)' = InTime(l, t)
       /\ \A d : Regressed(d)' = Regressed(d)
       /\ \A t : Passed(t)' = Passed(t)
       /\ ~Clearing /\ ~Clearing'
  BY <1>1, <1>9, <1>10 DEF Published, PublishedTs, InTime, EventsOf, Regressed, Passed, Clearing
<1>12. WindowsDone'
  BY <1>1, <1>2, <1>3, <1>9, <1>10, <1>11 DEF WindowsDone
<1>13. Counted'
  BY <1>1, <1>2, <1>11 DEF Counted
<1>14. ASSUME NEW l \in Host, l # h
       PROVE  /\ (\A t \in PublishedTs(l) : t < open) \/ l \notin job.hosts
              /\ \A t \in PublishedTs(l) : t <= prev[l]
  BY <1>1, <1>2, <1>3, <1>4, <1>14 DEF SentOnce
<1>15. SentOnce'
  <2>1. ASSUME NEW l \in Host
        PROVE  /\ (\A t \in PublishedTs(l) : t < open) \/ l \notin e.hosts
               /\ \A t \in PublishedTs(l) : t <= prev'[l]
    <3>1. CASE l = h
      <4>1. ~reordered
        BY <1>2 DEF WindowsDone
      <4>2. \A t \in PublishedTs(h) : t <= open
        BY <1>2, <1>4, <4>1, SentBehindOpen
      <4>3. QED
        BY <1>5, <1>10, <3>1, <4>2
    <3>2. CASE l # h
      BY <1>5, <1>10, <1>14, <3>2
    <3>3. QED
      BY <3>1, <3>2
  <2>2. QED
    BY <1>1, <1>9, <1>10, <1>11, <2>1 DEF SentOnce
<1>16. Closing'
  <2>1. CASE e.hosts = {}
    BY <1>9, <2>1 DEF Closing
  <2>2. CASE e.hosts # {}
    <3>1. PICK g, from : g = Least(e.hosts) /\ from = prev'[g]
      OBVIOUS
    <3>2. g \in job.hosts /\ g # h /\ g \in Host
      <4>1. e.hosts \in SUBSET Host
        BY <1>10 DEF Job
      <4>2. g \in e.hosts /\ g \in Host
        BY <2>2, <3>1, <4>1, HostAtHand
      <4>3. QED
        BY <1>10, <4>2
    <3>3. from \in Ts \union {NoWindow} /\ from = prev[g] /\ ToEmit(e, g, DueLen(from, open))
      BY <1>5, <1>10, <2>2, <3>1, <3>2
    <3>4. \A t \in PublishedTs(g) : t < open /\ t <= from
      BY <1>14, <3>2, <3>3
    <3>5. EmitExact(e, g)
      BY <1>3, <1>10, <3>2, <3>3, <3>4, DueExact
    <3>6. QED
      BY <1>9, <1>11, <3>1, <3>5 DEF Closing, EmitExact
  <2>3. QED
    BY <2>1, <2>2
<1>17. InOrder'
  BY <1>1, <1>2, <1>11 DEF InOrder
<1>18. QED
  BY <1>12, <1>13, <1>15, <1>16, <1>17

\* What the counters held is on the bus before they go.
LEMMA discard_windowExact ==
    ASSUME ExactStep, discard_window
    PROVE  WindowsDone' /\ Counted' /\ SentOnce' /\ Closing' /\ InOrder'
<1>1. /\ UNCHANGED <<busVars, event, open, silent, prev, stored, published, reordered>>
      /\ job # NoJob /\ job.phase = "discard" /\ done' = done
  BY DEF discard_window, history, busVars
<1>2. /\ FeaturesTypeOK /\ WindowsDone /\ Counted /\ SentOnce /\ InOrder /\ CloseInv(job)
      /\ done \subseteq Id
  BY <1>1 DEF ExactStep, FeatInv, FeaturesTypeOK, TypeOK
<1>3. job \in Job /\ job.hosts = {} /\ job.win = open /\ open \in Ts /\ open # NoWindow /\ ~Clearing
  <2>1. job \in Job /\ job.win \in Ts
    BY <1>1, <1>2 DEF FeaturesTypeOK, Job
  <2>2. QED
    BY <1>1, <1>2, <2>1, FeaturesConstants DEF CloseInv, Clearing, NoWindow
<1>4. PICK e : e = [job EXCEPT !.phase = "clear"]
  OBVIOUS
<1>5. job' = e
  BY <1>4 DEF discard_window
<1>6. e.phase = "clear" /\ e.hosts = {} /\ e.win = open /\ e # NoJob
  <2>1. e.phase = "clear" /\ e.hosts = {} /\ e.win = open /\ e.by = job.by
    BY <1>3, <1>4 DEF Job
  <2>2. NoJob.by = "nobody" /\ job.by \in {"event", "watchdog"}
    BY <1>3 DEF NoJob, Job
  <2>3. QED
    BY <2>1, <2>2
<1>7. /\ Published' = Published /\ \A l : PublishedTs(l)' = PublishedTs(l)
      /\ \A l, t : InTime(l, t)' = InTime(l, t)
      /\ \A d : Regressed(d)' = Regressed(d)
      /\ \A t : Passed(t)' = Passed(t)
      /\ Clearing'
  BY <1>1, <1>5, <1>6 DEF Published, PublishedTs, InTime, EventsOf, Regressed, Passed, Clearing
<1>8. WindowsDone'
  BY <1>1, <1>2, <1>3, <1>5, <1>6, <1>7 DEF WindowsDone
<1>9. Counted'
  <2>1. ASSUME NEW d \in done, ~Regressed(d) PROVE event[d].ts \in PublishedTs(event[d].host)
    <3>1. CASE event[d].ts = open
      <4>1. PICK h, D : h = event[d].host /\ D = InTime(h, open) \intersect done
        OBVIOUS
      <4>2. h \in Host /\ d \in Id /\ event[d] \in [host : Host, ts : Ts]
        BY <1>2, <4>1, EventFacts
      <4>3. d \in D
        BY <2>1, <3>1, <4>1, <4>2 DEF InTime, EventsOf
      <4>4. D \in SUBSET Id
        BY <4>1 DEF InTime, EventsOf, Regressed
      <4>5. IsFiniteSet(D) /\ Cardinality(D) \in Nat /\ Cardinality(D) # 0
        BY <4>3, <4>4, EventsFinite, FS_EmptySet
      <4>6. counts[h][open] = Cardinality(D)
        BY <1>2, <1>3, <4>1, <4>2 DEF Counted
      <4>7. h \in HostsOf(job.win)
        BY <1>3, <4>2, <4>5, <4>6 DEF HostsOf
      <4>8. QED
        BY <1>2, <1>3, <3>1, <4>1, <4>7 DEF CloseInv
    <3>2. CASE event[d].ts # open
      BY <1>2, <2>1, <3>2 DEF Counted
    <3>3. QED
      BY <3>1, <3>2
  <2>2. QED
    BY <1>1, <1>7, <2>1 DEF Counted
<1>10. SentOnce'
  BY <1>1, <1>2, <1>3, <1>5, <1>6, <1>7 DEF SentOnce
<1>11. Closing'
  BY <1>5, <1>6 DEF Closing
<1>12. InOrder'
  BY <1>1, <1>2, <1>7 DEF InOrder
<1>13. QED
  BY <1>8, <1>9, <1>10, <1>11, <1>12

\* A window that is over is complete and on the bus.
LEMMA clear_openExact ==
    ASSUME ExactStep, clear_open
    PROVE  WindowsDone' /\ Counted' /\ SentOnce' /\ Closing' /\ InOrder'
<1>1. /\ UNCHANGED <<busVars, event, counts, prev, stored, published, reordered>>
      /\ job # NoJob /\ job.phase = "clear" /\ job' = NoJob /\ silent' = FALSE /\ done' = done
  BY DEF clear_open, history, busVars
<1>2. WindowsDone /\ Counted /\ SentOnce /\ InOrder /\ CloseInv(job)
  BY <1>1 DEF ExactStep, FeatInv
<1>3. job.hosts = {} /\ job.win = open /\ open' = NoWindow /\ Clearing
  BY <1>1, <1>2 DEF clear_open, CloseInv, Clearing
<1>4. /\ Published' = Published /\ \A l : PublishedTs(l)' = PublishedTs(l)
      /\ \A l, t : InTime(l, t)' = InTime(l, t)
      /\ \A d : Regressed(d)' = Regressed(d)
      /\ \A t : Passed(t)' = Passed(t)
  BY <1>1 DEF Published, PublishedTs, InTime, EventsOf, Regressed, Passed
<1>5. WindowsDone'
  <2>1. ASSUME NEW d \in done PROVE Passed(event[d].ts)
    <3>1. FeaturesTypeOK /\ done \subseteq Id /\ open \in Ts
      BY <1>1, <1>3 DEF ExactStep, FeatInv, FeaturesTypeOK, TypeOK, Job
    <3>2. open # NoWindow
      BY <3>1, FeaturesConstants DEF NoWindow
    <3>3. Passed(open) /\ event[d].ts <= open
      BY <1>1, <1>2, <1>3, <3>2 DEF ExactStep, AxisInv, OrdInv, WindowsDone
    <3>4. /\ open \in Nat /\ event[d].ts \in Nat
          /\ \A k \in Id : event[k].ts \in Nat
      BY <3>1, EventFacts, FeaturesConstants
    <3>5. QED
      BY <3>3, <3>4 DEF Passed
  <2>2. QED
    BY <1>1, <1>2, <1>3, <1>4, <2>1 DEF WindowsDone
<1>6. Counted'
  BY <1>1, <1>2, <1>3, <1>4 DEF Counted
<1>7. SentOnce'
  BY <1>1, <1>2, <1>3, <1>4 DEF SentOnce
<1>8. Closing' /\ InOrder'
  BY <1>1, <1>2, <1>4 DEF Closing, InOrder
<1>9. QED
  BY <1>5, <1>6, <1>7, <1>8

\* Every step keeps what is exact exact.
LEMMA ExactNext ==
    ASSUME FeatInv, FeatInv', AxisInv, ExactInv, [FeaturesNext]_vars
    PROVE  ExactInv'
<1> SUFFICES ASSUME Exact' PROVE WindowsDone' /\ Counted' /\ SentOnce' /\ Closing' /\ InOrder'
  BY DEF ExactInv
<1>1. ExactStep
  BY ExactBefore
<1>2. \/ CloseMayFail
      \/ \E w \in Worker : DropLate(w) \/ accumulate(w)
      \/ \E w \in Worker : CloseByEvent(w) \/ watchdog_tick(w)
      \/ FallSilent
      \/ CloseStep
  BY FeaturesStepOfBus DEF FeatInv
<1>3. CASE CloseMayFail
  <2>1. UNCHANGED <<event, open, silent, counts, prev, published, job, reordered>> /\ done' = done
    BY <1>1, <1>3 DEF CloseMayFail, ExactStep, Exact, NothingLost
  <2>2. QED
    BY <1>1, <2>1, ExactSame
<1>4. ASSUME NEW w \in Worker, DropLate(w)
      PROVE  WindowsDone' /\ Counted' /\ SentOnce' /\ Closing' /\ InOrder'
  BY <1>1, <1>4, DropLateExact
<1>5. QED
  BY <1>1, <1>2, <1>3, <1>4, accumulateExact, CloseBeginsExact, FallSilentExact, record_peersExact,
     saveExact, publishExact, write_historyExact, discard_windowExact, clear_openExact DEF CloseStep

\* What is exact is in order, whole and counted.
LEMMA ExactIsSound ==
    ASSUME FeatInv, AxisInv, ExactInv
    PROVE  VectorsAreSound
<1>1. FeaturesTypeOK /\ StoredBeforePublished /\ OvercountBoundedByFaults
  BY DEF FeatInv
<1>2. NoShortHole
  BY <1>1, AxisHasNoShortHole
<1>3. ExactInOrder
  BY DEF ExactInOrder, ExactInv, Exact, InOrder
<1>4. NothingUncounted
  <2> SUFFICES ASSUME Exact, NEW m \in done, ~Regressed(m), event[m].ts \notin PublishedTs(event[m].host)
               PROVE  counts[event[m].host][event[m].ts]
                        = Cardinality(InTime(event[m].host, event[m].ts) \intersect done)
    BY DEF NothingUncounted, Exact
  <2>1. Counted /\ done \subseteq Id
    BY <1>1 DEF ExactInv, FeaturesTypeOK, TypeOK
  <2>2. event[m].host \in Host /\ event[m].ts > 0 /\ event[m].ts \in Nat
    BY <1>1, <2>1, EventFacts
  <2>3. event[m].ts = open /\ ~Clearing /\ open # NoWindow
    BY <2>1, <2>2 DEF Counted, NoWindow
  <2>4. QED
    BY <2>1, <2>2, <2>3 DEF Counted
<1>5. QED
  BY <1>1, <1>2, <1>3, <1>4 DEF VectorsAreSound, AxisIsSound, CountsAreSound

\* Every vector on the bus is durable, on a time axis without a short hole, and
\* counts an event once more at most for each fault; without a fault, an
\* eviction or a stall each window comes once, in order, with exactly
\* the events that came in time, and none of those that were handled is missing
\* from counters and vectors alike.
THEOREM VectorsAreSoundHolds == FeaturesSpec => []VectorsAreSound
<1> DEFINE IInv == FeatInv /\ AxisInv /\ ExactInv
<1>1. FeaturesInit => IInv
  BY FeatInit, AxisInit, ExactInit
<1>2. IInv /\ [FeaturesNext]_vars => IInv'
  BY FeatNext, AxisNext, ExactNext
<1>3. IInv => VectorsAreSound
  BY ExactIsSound
<1> HIDE DEF IInv
<1>4. QED
  BY <1>1, <1>2, <1>3, PTL DEF FeaturesSpec
=============================================================================
