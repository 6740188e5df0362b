---------------------------- MODULE InferenceProofs ----------------------------
(***************************************************************************)
(* Proofs about the inference worker, for every stream of windows and      *)
(* every number of replicas, faults and expiries: what a forecast is made  *)
(* from whatever races, how many windows have none, and, for one consumer, *)
(* which history it is made from.  They build on BusInv and SoleInv, since *)
(* every step is a step of the bus.                                        *)
(* And about the episodes that the forecasts of a host are folded into.    *)
(***************************************************************************)
EXTENDS Inference, EpisodeLifecycle, StreamBusProofs, SequenceTheorems

-----------------------------------------------------------------------------
\* How far a process got: a context in hand is full and ends with its entry,
\* since it was read back in the transaction that pushed it.
TaskInv(w) ==
    LET t == task[w]
    IN  /\ t.step # "start" => worker[w].pc = "handling" /\ worker[w].now \notin Poison
        /\ t.step = "publish" => /\ Len(t.context) = L
                                 /\ t.context[L] = worker[w].now

\* The inductive invariant for any number of replicas.
InferenceInv ==
    /\ BusInv
    /\ InferenceTypeOK
    /\ ContextEndsAtOrigin
    /\ \A w \in Worker : TaskInv(w)

\* The windows that were completed or are in the list, and those of them for which
\* no forecast was made or is about to be.
Handled == {window[m] : m \in done} \union {window[seq[i]] : i \in DOMAIN seq}
Lost == Handled \ (Origins \union InHand)

\* What the list grew by since it was empty, as far as no forecast was due.
Fill(n) == IF n < L THEN n ELSE L - 1

\* A push that fills the list, or a fault, accounts for every window of them.
LostInv == Cardinality(Lost) <= faults + lapses * (L - 1) + Fill(Len(seq))

\* What a single consumer keeps of the list, whatever fails: the window it is about
\* to push is not the tail, and the one it pushed is, unless the list expired.
TailInv ==
    /\ NoImmediateRepeat
    /\ \A w \in Worker :
          /\ task[w].step = "push" => ~IsTail(seq, worker[w].now)
          /\ task[w].step = "publish" => seq = <<>> \/ IsTail(seq, worker[w].now)

\* What it keeps of the history while nothing failed and nothing was lost.  The list
\* is a run of the stream, and what came after its tail was the same window again.
ListInOrder ==
    seq # <<>> =>
        LET tail == seq[Len(seq)]
        IN  /\ Successive(seq)
            /\ \A m \in done : tail < m => window[m] = window[tail]
            /\ tail \in done \/ \E w \in Worker : task[w].step = "publish" /\ worker[w].now = tail

ForecastsInOrder ==
    /\ \A i \in DOMAIN forecasts :
          Successive(forecasts[i].context) /\ forecasts[i].context[L] \in done
    /\ \A i, j \in DOMAIN forecasts :
          i < j => forecasts[i].context[L] < forecasts[j].context[L]

ContextInOrder ==
    \A w \in Worker : task[w].step = "publish" => Successive(task[w].context)

OrderInv == ListInOrder /\ ForecastsInOrder /\ ContextInOrder

\* The inductive invariant for one consumer.
HistoryInv ==
    /\ InferenceInv /\ SoleInv
    /\ TailInv
    /\ NothingLost /\ faults = 0 => OrderInv

-----------------------------------------------------------------------------
\* The new window is the last of the list, the list grows up to L, and what
\* precedes the new window are the newest of those that were there.
Grown(s, x, q) ==
    /\ q \in Seq(Id) /\ q # <<>>
    /\ Len(q) = IF Len(s) = L THEN L ELSE Len(s) + 1
    /\ q[Len(q)] = x
    /\ \A i \in 1..Len(q) - 1 : q[i] = s[i + (Len(s) + 1 - Len(q))]

\* RPUSH and LTRIM do that.
LEMMA PushedIs ==
    ASSUME NEW s \in Seq(Id), Len(s) <= L, NEW x \in Id, NEW q, q = Pushed(s, x)
    PROVE  Grown(s, x, q)
<1> DEFINE longer == Append(s, x)
<1>1. /\ longer \in Seq(Id) /\ longer # <<>> /\ Len(longer) = Len(s) + 1
      /\ \A i \in 1..Len(s) : longer[i] = s[i]
      /\ longer[Len(s) + 1] = x
  BY AppendProperties
<1>2. Len(s) \in Nat /\ L \in Nat /\ L > 0
  BY InferenceAssumption, LenProperties DEF InferenceAssumption
<1>3. q = IF Len(longer) > L THEN SubSeq(longer, Len(longer) - L + 1, Len(longer)) ELSE longer
  BY DEF Pushed
<1> HIDE DEF longer
<1>4. CASE Len(s) < L
  <2>1. q = longer
    BY <1>1, <1>2, <1>3, <1>4
  <2>2. Len(q) = Len(s) + 1 /\ Len(s) # L
    BY <1>1, <1>2, <1>4, <2>1
  <2>3. ASSUME NEW i \in 1..Len(q) - 1
        PROVE  q[i] = s[i + (Len(s) + 1 - Len(q))]
    <3>1. i \in 1..Len(s) /\ i + (Len(s) + 1 - Len(q)) = i
      BY <1>2, <2>2, <2>3
    <3>2. QED
      BY <1>1, <2>1, <3>1
  <2>4. QED
    BY <1>1, <2>1, <2>2, <2>3 DEF Grown
<1>5. CASE Len(s) = L
  <2>1. PICK n \in Int : n = L + 1
    BY <1>2
  <2>2. q = SubSeq(longer, 2, n) /\ \A i \in 2..n : longer[i] \in Id
    <3>1. q = SubSeq(longer, 2, n)
      BY <1>1, <1>2, <1>3, <1>5, <2>1
    <3>2. ASSUME NEW i \in 2..n PROVE longer[i] \in Id
      <4>1. i \in 1..Len(longer)
        BY <1>1, <1>2, <1>5, <2>1, <3>2
      <4>2. QED
        BY <1>1, <4>1, ElementOfSeq
    <3>3. QED
      BY <3>1, <3>2
  <2>3. /\ q \in Seq(Id) /\ Len(q) = L
        /\ \A i \in 1..L : q[i] = longer[i + 1]
    <3>1. 2 \in Int
      OBVIOUS
    <3>2. /\ SubSeq(longer, 2, n) \in Seq(Id)
          /\ Len(SubSeq(longer, 2, n)) = IF 2 <= n THEN n - 2 + 1 ELSE 0
          /\ \A i \in 1..n - 2 + 1 : SubSeq(longer, 2, n)[i] = longer[2 + i - 1]
      BY <2>2, <3>1, SubSeqProperties
    <3>3. QED
      BY <1>2, <2>1, <2>2, <3>2
  <2>4. q # <<>>
    BY <1>2, <2>3
  <2>5. QED
    BY <1>1, <1>2, <1>5, <2>3, <2>4 DEF Grown
<1>6. QED
  BY <1>2, <1>4, <1>5

\* The tail of a list that is not empty.
LEMMA TailIs ==
    ASSUME NEW s \in Seq(Id), s # <<>>
    PROVE  /\ Len(s) \in Nat /\ Len(s) > 0 /\ DOMAIN s = 1..Len(s)
           /\ s[Len(s)] \in Id
BY EmptySeq, LenProperties, ElementOfSeq

\* The steps of the bus leave a process that runs its handler alone, and complete
\* nothing; they evict nothing that they would bring back.
LEMMA BusStepsSpare ==
    ASSUME TypeOK, Environment \/ \E v \in Worker : LoopStep(v)
    PROVE  /\ done' = done /\ trim' >= trim
           /\ faults' = faults \/ faults' = faults + 1
           /\ \A w \in Worker : worker[w].pc = "handling" =>
                 worker'[w].pc = "handling" /\ worker'[w].now = worker[w].now
<1>0. worker \in [Worker -> Process] /\ trim \in Nat /\ last \in Nat
  BY BusAssumption DEF TypeOK, BusAssumption
<1>1. CASE Publish \/ \E m \in Id : GoIdle(m)
  BY <1>0, <1>1 DEF Publish, GoIdle
<1>2. ASSUME NEW v \in Worker, Signal(v) \/ ReclaimDue(v)
      PROVE  /\ done' = done /\ trim' = trim
             /\ faults' = faults \/ faults' = faults + 1
             /\ \A w \in Worker : worker'[w].pc = worker[w].pc /\ worker'[w].now = worker[w].now
  BY <1>0, <1>2 DEF Signal, ReclaimDue, Process, redisVars
<1>3. ASSUME NEW v \in Worker, Start(v) \/ LoopStep(v)
      PROVE  /\ done' = done /\ trim' = trim /\ faults' = faults
             /\ worker[v].pc # "handling"
             /\ \A w \in Worker \ {v} : worker'[w] = worker[w]
  BY <1>0, <1>3 DEF Start, LoopStep, Reclaim, Read, Ack
<1>4. QED
  BY <1>0, <1>1, <1>2, <1>3 DEF Environment

\* Every step of the worker is a step of the bus, or changes nothing of it.
LEMMA BusSteps == [InferenceNext]_vars => [Next]_busVars
BY DEF InferenceNext, BusOnly, Next, CheckTail, DropDuplicate, Push, PublishForecast, Raise, Die,
   Expire, vars

\* A process that runs its handler works on an entry of the stream.
LEMMA EntryType ==
    ASSUME InferenceInv, NEW w \in Worker, worker[w].pc = "handling"
    PROVE  worker[w].now \in Id /\ window[worker[w].now] \in Id
<1>1. worker[w].now \in Id
  BY DEF InferenceInv, BusInv, Holds, Delivered
<1>2. QED
  BY <1>1 DEF InferenceInv, InferenceTypeOK, WindowsOf

-----------------------------------------------------------------------------
\* Nothing was published, and no process runs.
LEMMA InitInferenceInv == InferenceInit => InferenceInv
<1> SUFFICES ASSUME InferenceInit PROVE InferenceInv
  OBVIOUS
<1>1. BusInv
  BY InitBusInv DEF InferenceInit
<1>2. seq = <<>> /\ forecasts = <<>> /\ lapses = 0 /\ window \in WindowsOf
  BY DEF InferenceInit
<1>3. Len(<<>>) = 0 /\ DOMAIN <<>> = {} /\ L \in Nat /\ MaxLapses \in Nat
  BY InferenceAssumption, EmptySeq DEF InferenceAssumption
<1>4. seq \in Seq(Id) /\ Len(seq) <= L /\ lapses \in 0..MaxLapses
      /\ forecasts \in Seq([origin_ts : Id, context : Seq(Id)])
  BY <1>2, <1>3, EmptySeq
<1>5. Idle \in [step : {"start", "push", "publish"}, context : Seq(Id)] /\ Idle.step = "start"
  BY EmptySeq DEF Idle
<1>6. /\ task \in [Worker -> [step : {"start", "push", "publish"}, context : Seq(Id)]]
      /\ \A w \in Worker : task[w].step = "start"
  BY <1>5 DEF InferenceInit
<1>7. ContextEndsAtOrigin
  BY <1>2, <1>3 DEF ContextEndsAtOrigin
<1>8. QED
  BY <1>1, <1>2, <1>4, <1>6, <1>7 DEF InferenceInv, InferenceTypeOK, BusInv, TaskInv

\* A step of the bus alone.
LEMMA BusOnlyInference ==
    ASSUME InferenceInv, BusInv', BusOnly
    PROVE  InferenceInv'
<1>1. UNCHANGED <<window, seq, forecasts, lapses, task>> /\ TypeOK
  BY DEF BusOnly, inferenceVars, InferenceInv, BusInv
<1>2. \A w \in Worker : worker[w].pc = "handling" =>
            worker'[w].pc = "handling" /\ worker'[w].now = worker[w].now
  BY <1>1, BusStepsSpare DEF BusOnly
<1>3. ASSUME NEW w \in Worker PROVE TaskInv(w)'
  <2>1. CASE task[w].step = "start"
    BY <1>1, <2>1 DEF TaskInv
  <2>2. CASE task[w].step # "start"
    BY <1>1, <1>2, <2>2 DEF InferenceInv, TaskInv
  <2>3. QED
    BY <2>1, <2>2
<1>4. InferenceTypeOK' /\ ContextEndsAtOrigin'
  BY <1>1 DEF InferenceInv, BusInv, InferenceTypeOK, ContextEndsAtOrigin
<1>5. QED
  BY <1>3, <1>4 DEF InferenceInv

\* What a step of one process may do to the others: they hold what they held.
LEMMA OthersKeep ==
    ASSUME InferenceInv, NEW w \in Worker, NEW t, task' = [task EXCEPT ![w] = t],
           window' = window, \A v \in Worker \ {w} : worker'[v] = worker[v]
    PROVE  \A v \in Worker \ {w} : TaskInv(v)' /\ task'[v] = task[v]
<1> SUFFICES ASSUME NEW v \in Worker \ {w}
             PROVE  TaskInv(v)' /\ task'[v] = task[v]
  OBVIOUS
<1>1. task'[v] = task[v]
  BY DEF InferenceInv, InferenceTypeOK
<1>2. QED
  BY <1>1 DEF InferenceInv, TaskInv

\* The first two steps of `process`, and a failure of it, publish nothing.
LEMMA EarlyStepsInference ==
    ASSUME InferenceInv, BusInv', NEW w \in Worker,
           CheckTail(w) \/ DropDuplicate(w) \/ Raise(w) \/ Die(w)
    PROVE  InferenceInv'
<1>1. /\ UNCHANGED <<window, seq, forecasts, lapses>>
      /\ task \in [Worker -> [step : {"start", "push", "publish"}, context : Seq(Id)]]
      /\ worker \in [Worker -> Process] /\ TypeOK'
  BY DEF CheckTail, DropDuplicate, Raise, Die, inferenceVars, InferenceInv, InferenceTypeOK,
         TypeOK, BusInv
<1>2. \A v \in Worker \ {w} : worker'[v] = worker[v]
  BY <1>1 DEF CheckTail, DropDuplicate, Raise, Die, HandlerReturns, HandlerRaises, Crash, busVars
<1>3. Idle \in [step : {"start", "push", "publish"}, context : Seq(Id)] /\ Idle.step = "start"
  BY EmptySeq DEF Idle
<1>4. PICK t \in [step : {"start", "push", "publish"}, context : Seq(Id)] :
            /\ task' = [task EXCEPT ![w] = t]
            /\ \/ t.step = "start"
               \/ /\ t.step = "push" /\ worker'[w].pc = "handling"
                  /\ worker'[w].now \notin Poison
  <2>1. CASE CheckTail(w)
    <3>1. PICK t : t = [task[w] EXCEPT !.step = "push"]
      OBVIOUS
    <3>2. /\ t \in [step : {"start", "push", "publish"}, context : Seq(Id)] /\ t.step = "push"
      BY <1>1, <3>1
    <3>3. /\ task' = [task EXCEPT ![w] = t] /\ worker'[w].pc = "handling"
          /\ worker'[w].now \notin Poison
      BY <2>1, <3>1 DEF CheckTail, At, busVars
    <3>4. QED
      BY <3>2, <3>3
  <2>2. CASE DropDuplicate(w)
    <3>1. task' = task /\ task[w].step = "start"
      BY <2>2 DEF DropDuplicate, inferenceVars, At
    <3>2. task' = [task EXCEPT ![w] = task[w]]
      BY <1>1, <3>1
    <3>3. QED
      BY <1>1, <3>1, <3>2
  <2>3. CASE Raise(w) \/ Die(w)
    BY <1>3, <2>3 DEF Raise, Die
  <2>4. QED
    BY <2>1, <2>2, <2>3
<1>5. /\ task' \in [Worker -> [step : {"start", "push", "publish"}, context : Seq(Id)]]
      /\ task'[w] = t
  BY <1>1, <1>4
<1>6. \A v \in Worker \ {w} : TaskInv(v)'
  BY <1>1, <1>2, <1>4, OthersKeep
<1>7. TaskInv(w)'
  BY <1>4, <1>5 DEF TaskInv
<1>8. InferenceTypeOK' /\ ContextEndsAtOrigin'
  BY <1>1, <1>5 DEF InferenceInv, InferenceTypeOK, ContextEndsAtOrigin
<1>9. QED
  BY <1>6, <1>7, <1>8 DEF InferenceInv

\* The push returns the list as it left it: full, and ending with the window.
LEMMA PushInference ==
    ASSUME InferenceInv, BusInv', NEW w \in Worker, Push(w)
    PROVE  InferenceInv'
<1> DEFINE x == worker[w].now
<1>1. /\ UNCHANGED <<window, forecasts, lapses>> /\ seq' = Pushed(seq, x)
      /\ worker[w].pc = "handling"
      /\ task \in [Worker -> [step : {"start", "push", "publish"}, context : Seq(Id)]]
      /\ worker \in [Worker -> Process] /\ TypeOK' /\ x \notin Poison
  BY DEF Push, At, InferenceInv, InferenceTypeOK, TypeOK, BusInv, TaskInv
<1>2. seq \in Seq(Id) /\ Len(seq) <= L /\ x \in Id
  BY <1>1, EntryType DEF InferenceInv, InferenceTypeOK
<1> HIDE DEF x
<1>3. /\ seq' \in Seq(Id) /\ Len(seq') \in Nat /\ Len(seq') <= L
      /\ seq'[Len(seq')] = x
  BY <1>1, <1>2, PushedIs, LenProperties, InferenceAssumption DEF InferenceAssumption, Grown
<1>4. \A v \in Worker \ {w} : worker'[v] = worker[v]
  BY <1>1 DEF Push, HandlerReturns, busVars
<1>5. Idle \in [step : {"start", "push", "publish"}, context : Seq(Id)] /\ Idle.step = "start"
  BY EmptySeq DEF Idle
<1>6. PICK t \in [step : {"start", "push", "publish"}, context : Seq(Id)] :
            /\ task' = [task EXCEPT ![w] = t]
            /\ \/ t.step = "start"
               \/ /\ t.step = "publish" /\ Len(t.context) = L /\ t.context[L] = x
                  /\ worker' = worker
  <2>1. CASE Len(seq') < L
    BY <1>5, <2>1 DEF Push
  <2>2. CASE ~(Len(seq') < L)
    <3>1. Len(seq') = L
      BY <1>3, <2>2, InferenceAssumption DEF InferenceAssumption
    <3>2. PICK t : t = [step |-> "publish", context |-> seq']
      OBVIOUS
    <3>3. t \in [step : {"start", "push", "publish"}, context : Seq(Id)]
          /\ t.step = "publish" /\ t.context = seq'
      BY <1>3, <3>2
    <3>4. task' = [task EXCEPT ![w] = t] /\ worker' = worker
      BY <2>2, <3>2 DEF Push, busVars
    <3>5. QED
      BY <1>3, <3>1, <3>3, <3>4
  <2>3. QED
    BY <2>1, <2>2
<1>7. /\ task' \in [Worker -> [step : {"start", "push", "publish"}, context : Seq(Id)]]
      /\ task'[w] = t
  BY <1>1, <1>6
<1>8. \A v \in Worker \ {w} : TaskInv(v)'
  BY <1>1, <1>4, <1>6, OthersKeep
<1>9. TaskInv(w)'
  BY <1>1, <1>6, <1>7 DEF TaskInv, x
<1>10. InferenceTypeOK' /\ ContextEndsAtOrigin'
  BY <1>1, <1>3, <1>7 DEF InferenceInv, InferenceTypeOK, ContextEndsAtOrigin
<1>11. QED
  BY <1>8, <1>9, <1>10 DEF InferenceInv

\* A forecast that is published, and the ones before it.
LEMMA AppendedForecast ==
    ASSUME InferenceInv, NEW w \in Worker, PublishForecast(w),
           NEW f, f = [origin_ts |-> window[worker[w].now], context |-> task[w].context]
    PROVE  /\ f \in [origin_ts : Id, context : Seq(Id)]
           /\ f.origin_ts = window[worker[w].now] /\ f.context = task[w].context
           /\ forecasts' \in Seq([origin_ts : Id, context : Seq(Id)])
           /\ Len(forecasts) \in Nat /\ DOMAIN forecasts = 1..Len(forecasts)
           /\ DOMAIN forecasts' = 1..Len(forecasts) + 1
           /\ \A i \in DOMAIN forecasts : forecasts'[i] = forecasts[i]
           /\ forecasts'[Len(forecasts) + 1] = f
<1>1. /\ forecasts' = Append(forecasts, f) /\ worker[w].pc = "handling"
      /\ forecasts \in Seq([origin_ts : Id, context : Seq(Id)])
      /\ task[w].context \in Seq(Id)
  BY DEF PublishForecast, At, InferenceInv, InferenceTypeOK
<1>2. f \in [origin_ts : Id, context : Seq(Id)]
  BY <1>1, EntryType
<1>3. /\ forecasts' \in Seq([origin_ts : Id, context : Seq(Id)])
      /\ Len(forecasts') = Len(forecasts) + 1
      /\ \A i \in 1..Len(forecasts) : forecasts'[i] = forecasts[i]
      /\ forecasts'[Len(forecasts) + 1] = f
  BY <1>1, <1>2, AppendProperties
<1>4. /\ Len(forecasts) \in Nat /\ DOMAIN forecasts = 1..Len(forecasts)
      /\ DOMAIN forecasts' = 1..Len(forecasts')
  BY <1>1, <1>3, LenProperties
<1>5. QED
  BY <1>2, <1>3, <1>4

\* The forecast that is published is made of the context in hand.
LEMMA PublishInference ==
    ASSUME InferenceInv, BusInv', NEW w \in Worker, PublishForecast(w)
    PROVE  InferenceInv'
<1>1. /\ UNCHANGED <<window, seq, lapses>> /\ task' = [task EXCEPT ![w] = Idle]
      /\ task[w].step = "publish"
      /\ task \in [Worker -> [step : {"start", "push", "publish"}, context : Seq(Id)]]
      /\ worker \in [Worker -> Process] /\ TypeOK'
  BY DEF PublishForecast, At, InferenceInv, InferenceTypeOK, TypeOK, BusInv
<1>2. \A v \in Worker \ {w} : worker'[v] = worker[v]
  BY <1>1 DEF PublishForecast, HandlerReturns
<1>3. Idle \in [step : {"start", "push", "publish"}, context : Seq(Id)] /\ Idle.step = "start"
  BY EmptySeq DEF Idle
<1>4. PICK f : f = [origin_ts |-> window[worker[w].now], context |-> task[w].context]
  OBVIOUS
<1>5. Len(f.context) = L /\ window[f.context[L]] = f.origin_ts
  BY <1>1, <1>4 DEF InferenceInv, TaskInv
<1>6. /\ forecasts' \in Seq([origin_ts : Id, context : Seq(Id)])
      /\ Len(forecasts) \in Nat /\ DOMAIN forecasts = 1..Len(forecasts)
      /\ DOMAIN forecasts' = 1..Len(forecasts) + 1
      /\ \A i \in DOMAIN forecasts : forecasts'[i] = forecasts[i]
      /\ forecasts'[Len(forecasts) + 1] = f
  BY <1>4, AppendedForecast
<1>7. ContextEndsAtOrigin'
  <2>1. ASSUME NEW i \in DOMAIN forecasts'
        PROVE  /\ Len(forecasts'[i].context) = L
               /\ window[forecasts'[i].context[L]] = forecasts'[i].origin_ts
    <3>1. i \in DOMAIN forecasts \/ i = Len(forecasts) + 1
      BY <1>6, <2>1
    <3>2. QED
      BY <1>5, <1>6, <3>1 DEF InferenceInv, ContextEndsAtOrigin
  <2>2. QED
    BY <1>1, <2>1 DEF ContextEndsAtOrigin
<1>8. /\ task' \in [Worker -> [step : {"start", "push", "publish"}, context : Seq(Id)]]
      /\ task'[w].step = "start"
  BY <1>1, <1>3
<1>9. \A v \in Worker \ {w} : TaskInv(v)'
  BY <1>1, <1>2, OthersKeep
<1>10. TaskInv(w)'
  BY <1>8 DEF TaskInv
<1>11. InferenceTypeOK'
  BY <1>1, <1>6, <1>8 DEF InferenceInv, InferenceTypeOK
<1>12. QED
  BY <1>7, <1>9, <1>10, <1>11 DEF InferenceInv

\* An expiry empties the list.
LEMMA ExpireInference ==
    ASSUME InferenceInv, BusInv', Expire
    PROVE  InferenceInv'
<1>1. /\ UNCHANGED <<window, forecasts, task, worker>> /\ seq' = <<>>
      /\ lapses < MaxLapses /\ lapses' = lapses + 1 /\ TypeOK'
  BY DEF Expire, busVars, BusInv
<1>2. seq' \in Seq(Id) /\ Len(seq') <= L /\ lapses' \in 0..MaxLapses
  BY <1>1, EmptySeq, InferenceAssumption DEF InferenceAssumption, InferenceInv, InferenceTypeOK
<1>3. InferenceTypeOK' /\ ContextEndsAtOrigin'
  BY <1>1, <1>2 DEF InferenceInv, InferenceTypeOK, ContextEndsAtOrigin
<1>4. ASSUME NEW w \in Worker PROVE TaskInv(w)'
  BY <1>1 DEF InferenceInv, TaskInv
<1>5. QED
  BY <1>3, <1>4 DEF InferenceInv

\* Every step of the worker preserves the invariant.
LEMMA InferenceNextKeeps == InferenceInv /\ [InferenceNext]_vars => InferenceInv'
<1> SUFFICES ASSUME InferenceInv, [InferenceNext]_vars PROVE InferenceInv'
  OBVIOUS
<1>1. BusInv'
  BY BusSteps, NextKeeps DEF InferenceInv
<1>2. CASE BusOnly
  BY <1>1, <1>2, BusOnlyInference
<1>3. ASSUME NEW w \in Worker,
             CheckTail(w) \/ DropDuplicate(w) \/ Push(w) \/ PublishForecast(w) \/ Raise(w) \/ Die(w)
      PROVE  InferenceInv'
  BY <1>1, <1>3, EarlyStepsInference, PushInference, PublishInference
<1>4. CASE Expire
  BY <1>1, <1>4, ExpireInference
<1>5. CASE UNCHANGED vars
  <2>1. UNCHANGED <<window, seq, forecasts, lapses, task, worker>> /\ TypeOK'
    BY <1>1, <1>5 DEF vars, busVars, inferenceVars, BusInv
  <2>2. InferenceTypeOK' /\ ContextEndsAtOrigin'
    BY <2>1 DEF InferenceInv, InferenceTypeOK, ContextEndsAtOrigin
  <2>3. ASSUME NEW w \in Worker PROVE TaskInv(w)'
    BY <2>1 DEF InferenceInv, TaskInv
  <2>4. QED
    BY <1>1, <2>2, <2>3 DEF InferenceInv
<1>6. QED
  BY <1>2, <1>3, <1>4, <1>5 DEF InferenceNext

\* The invariant holds in every reachable state.
THEOREM InferenceInvariant == InferenceSpec => []InferenceInv
BY InitInferenceInv, InferenceNextKeeps, PTL DEF InferenceSpec

-----------------------------------------------------------------------------
\* The only process of a group.
LEMMA OnlyProcess ==
    ASSUME InferenceInv, OneConsumer, NEW w \in Worker
    PROVE  /\ \A v \in Worker : v = w
           /\ task[w].step # "start" => worker[w].pc = "handling"
           /\ task[w].step \in {"start", "push", "publish"} /\ task[w].context \in Seq(Id)
<1>1. TaskInv(w) /\ task \in [Worker -> [step : {"start", "push", "publish"}, context : Seq(Id)]]
  BY DEF InferenceInv, InferenceTypeOK
<1>2. QED
  BY <1>1 DEF OneConsumer, TaskInv

\* What a step of the handler does to the process and to its task.
LEMMA StepOfOnly ==
    ASSUME InferenceInv, NEW w \in Worker
    PROVE  /\ CheckTail(w) => /\ task[w].step = "start" /\ task'[w].step = "push"
                              /\ UNCHANGED <<busVars, window, seq, forecasts, lapses>>
           /\ DropDuplicate(w) => /\ task[w].step = "start"
                                  /\ UNCHANGED <<trim, faults, window, seq, forecasts, lapses, task>>
                                  /\ done' = done \union {worker[w].now}
           /\ Push(w) => /\ task[w].step = "push"
                         /\ UNCHANGED <<trim, faults, window, forecasts, lapses>>
                         /\ \/ /\ Len(seq') < L /\ task'[w].step = "start"
                               /\ done' = done \union {worker[w].now}
                            \/ /\ ~(Len(seq') < L) /\ task'[w].step = "publish"
                               /\ task'[w].context = seq'
                               /\ UNCHANGED <<done, worker>>
           /\ PublishForecast(w) => /\ task[w].step = "publish" /\ task'[w].step = "start"
                                    /\ UNCHANGED <<trim, faults, window, seq, lapses>>
                                    /\ done' = done \union {worker[w].now}
           /\ Raise(w) \/ Die(w) => /\ task'[w].step = "start"
                                    /\ UNCHANGED <<trim, done, window, seq, forecasts, lapses>>
                                    /\ Poison = {} \/ task[w].step # "start" => faults' = faults + 1
                                    /\ faults' \in {faults, faults + 1}
<1>1. task \in [Worker -> [step : {"start", "push", "publish"}, context : Seq(Id)]]
  BY DEF InferenceInv, InferenceTypeOK
<1>2. CheckTail(w) => /\ task[w].step = "start" /\ task'[w].step = "push"
                      /\ UNCHANGED <<busVars, window, seq, forecasts, lapses>>
  BY <1>1 DEF CheckTail, At
<1>3. DropDuplicate(w) => /\ task[w].step = "start"
                          /\ UNCHANGED <<trim, faults, window, seq, forecasts, lapses, task>>
                          /\ done' = done \union {worker[w].now}
  BY DEF DropDuplicate, At, HandlerReturns, redisVars, inferenceVars
<1>4. ASSUME Push(w)
      PROVE  /\ task[w].step = "push"
             /\ UNCHANGED <<trim, faults, window, forecasts, lapses>>
             /\ \/ /\ Len(seq') < L /\ task'[w].step = "start"
                   /\ done' = done \union {worker[w].now}
                \/ /\ ~(Len(seq') < L) /\ task'[w].step = "publish"
                   /\ task'[w].context = seq'
                   /\ UNCHANGED <<done, worker>>
  <2>1. CASE Len(seq') < L
    BY <1>1, <1>4, <2>1 DEF Push, At, HandlerReturns, redisVars, Idle
  <2>2. CASE ~(Len(seq') < L)
    BY <1>1, <1>4, <2>2 DEF Push, At, busVars
  <2>3. QED
    BY <2>1, <2>2
<1>5. PublishForecast(w) => /\ task[w].step = "publish" /\ task'[w].step = "start"
                            /\ UNCHANGED <<trim, faults, window, seq, lapses>>
                            /\ done' = done \union {worker[w].now}
  BY <1>1 DEF PublishForecast, At, HandlerReturns, redisVars, Idle
<1>6. Raise(w) \/ Die(w) => /\ task'[w].step = "start"
                            /\ UNCHANGED <<trim, done, window, seq, forecasts, lapses>>
                            /\ Poison = {} \/ task[w].step # "start" => faults' = faults + 1
                            /\ faults' \in {faults, faults + 1}
  <2>1. task[w].step # "start" => worker[w].now \notin Poison
    BY DEF InferenceInv, TaskInv
  <2>2. QED
    BY <1>1, <2>1 DEF Raise, Die, HandlerRaises, Crash, redisVars, Idle
<1>7. QED
  BY <1>2, <1>3, <1>4, <1>5, <1>6

\* A push keeps neighbours apart when the window is not the tail already.
LEMMA PushedNoRepeat ==
    ASSUME NEW s \in Seq(Id), Len(s) <= L, NEW x \in Id, NEW q, q = Pushed(s, x),
           \A i, j \in DOMAIN s : j = i + 1 => window[s[i]] # window[s[j]], ~IsTail(s, x)
    PROVE  \A i, j \in DOMAIN q : j = i + 1 => window[q[i]] # window[q[j]]
<1>0. Grown(s, x, q)
  BY PushedIs
<1>1. /\ q \in Seq(Id) /\ q # <<>>
      /\ Len(q) = IF Len(s) = L THEN L ELSE Len(s) + 1
      /\ q[Len(q)] = x
      /\ \A i \in 1..Len(q) - 1 : q[i] = s[i + (Len(s) + 1 - Len(q))]
  BY <1>0 DEF Grown
<1>2. L \in Nat /\ L > 0
  BY InferenceAssumption DEF InferenceAssumption
<1>3. PICK n \in Nat, l \in Nat : n = Len(s) /\ l = Len(q) /\ l > 0
  BY <1>1, EmptySeq, LenProperties
<1>4. DOMAIN q = 1..l /\ DOMAIN s = 1..n
  BY <1>1, <1>3, LenProperties
<1>5. PICK d : d = n + 1 - l
  OBVIOUS
<1>6. /\ d \in Int /\ d >= 0
      /\ \A i \in 1..l - 1 : q[i] = s[i + d] /\ i + d \in 1..n
  <2>1. d \in Int /\ d >= 0 /\ l <= n + 1
    BY <1>1, <1>2, <1>3, <1>5
  <2>2. ASSUME NEW i \in 1..l - 1 PROVE q[i] = s[i + d] /\ i + d \in 1..n
    <3>1. q[i] = s[i + d]
      BY <1>1, <1>3, <1>5, <2>2
    <3>2. i + d \in 1..n
      BY <1>3, <1>5, <2>1, <2>2
    <3>3. QED
      BY <3>1, <3>2
  <2>3. QED
    BY <2>1, <2>2
<1>7. SUFFICES ASSUME NEW i \in 1..l, i + 1 \in 1..l
               PROVE  window[q[i]] # window[q[i + 1]]
  BY <1>4
<1>8. i \in 1..l - 1 /\ q[i] = s[i + d] /\ i + d \in 1..n
  BY <1>3, <1>6, <1>7
<1>9. CASE i + 1 = l
  <2>1. i + d = n
    BY <1>3, <1>5, <1>9
  <2>2. s # <<>> /\ n > 0
    BY <1>3, <1>8, EmptySeq
  <2>3. window[s[n]] # window[x]
    BY <1>3, <2>2 DEF IsTail
  <2>4. q[l] = x
    BY <1>1, <1>3
  <2>5. QED
    BY <1>8, <1>9, <2>1, <2>3, <2>4
<1>10. CASE i + 1 # l
  <2>1. i + 1 \in 1..l - 1
    BY <1>3, <1>7, <1>10
  <2>2. q[i + 1] = s[i + 1 + d] /\ i + 1 + d \in 1..n
    BY <1>6, <2>1
  <2>3. PICK j : j = i + d
    OBVIOUS
  <2>4. j \in DOMAIN s /\ j + 1 \in DOMAIN s /\ q[i] = s[j] /\ q[i + 1] = s[j + 1]
    <3>1. j \in 1..n /\ q[i] = s[j]
      BY <1>8, <2>3
    <3>2. i + 1 + d = j + 1
      BY <1>6, <2>3
    <3>3. j + 1 \in 1..n /\ q[i + 1] = s[j + 1]
      BY <2>2, <3>2
    <3>4. QED
      BY <1>4, <3>1, <3>3
  <2>5. QED
    BY <2>4
<1>11. QED
  BY <1>9, <1>10

\* The dedupe and the transaction keep what a single consumer knows of the tail.
LEMMA NextKeepsTail ==
    ASSUME InferenceInv, OneConsumer, TailInv, [InferenceNext]_vars
    PROVE  TailInv'
<1>1. CASE BusOnly
  <2>1. UNCHANGED <<window, seq, task>> /\ TypeOK
    BY <1>1 DEF BusOnly, inferenceVars, InferenceInv, BusInv
  <2>2. \A w \in Worker : task[w].step # "start" => worker'[w].now = worker[w].now
    BY <1>1, <2>1, BusStepsSpare, OnlyProcess DEF BusOnly
  <2>3. QED
    BY <2>1, <2>2 DEF TailInv, NoImmediateRepeat, IsTail
<1>2. ASSUME NEW w \in Worker,
             CheckTail(w) \/ DropDuplicate(w) \/ PublishForecast(w) \/ Raise(w) \/ Die(w)
      PROVE  TailInv'
  <2>1. UNCHANGED <<window, seq>> /\ \A v \in Worker : v = w
    BY <1>2, StepOfOnly, OnlyProcess
  <2>2. CASE CheckTail(w)
    <3>1. ~IsTail(seq, worker[w].now) /\ worker' = worker /\ task'[w].step = "push"
      BY <2>2, StepOfOnly DEF CheckTail, busVars
    <3>2. QED
      BY <2>1, <3>1 DEF TailInv, NoImmediateRepeat, IsTail
  <2>3. CASE DropDuplicate(w) \/ PublishForecast(w) \/ Raise(w) \/ Die(w)
    <3>1. task'[w].step = "start"
      BY <2>3, StepOfOnly
    <3>2. QED
      BY <2>1, <3>1 DEF TailInv, NoImmediateRepeat
  <2>4. QED
    BY <1>2, <2>2, <2>3
<1>3. ASSUME NEW w \in Worker, Push(w) PROVE TailInv'
  <2>1. PICK x : x = worker[w].now
    OBVIOUS
  <2>2. /\ seq' = Pushed(seq, x) /\ seq \in Seq(Id) /\ Len(seq) <= L /\ x \in Id
        /\ worker[w].pc = "handling" /\ \A v \in Worker : v = w
    BY <1>3, <2>1, EntryType, OnlyProcess DEF Push, At, InferenceInv, InferenceTypeOK
  <2>3. ~IsTail(seq, x) /\ (OneConsumer => \A i, j \in DOMAIN seq : j = i + 1 => window[seq[i]] # window[seq[j]])
    BY <1>3, <2>1, StepOfOnly DEF TailInv, NoImmediateRepeat
  <2>4. \A i, j \in DOMAIN seq' : j = i + 1 => window[seq'[i]] # window[seq'[j]]
    BY <2>2, <2>3, PushedNoRepeat
  <2>5. IsTail(seq', x)
    <3>1. Grown(seq, x, seq')
      BY <2>2, PushedIs
    <3>2. QED
      BY <3>1 DEF Grown, IsTail
  <2>6. /\ task'[w].step # "push" /\ window' = window
        /\ task'[w].step = "publish" => worker' = worker
    BY <1>3, StepOfOnly
  <2>7. QED
    BY <2>1, <2>2, <2>4, <2>5, <2>6 DEF TailInv, NoImmediateRepeat, IsTail
<1>4. CASE Expire
  <2>1. seq' = <<>> /\ UNCHANGED <<window, task, worker>>
    BY <1>4 DEF Expire, busVars
  <2>2. DOMAIN <<>> = {}
    BY EmptySeq
  <2>3. QED
    BY <2>1, <2>2 DEF TailInv, NoImmediateRepeat, IsTail
<1>5. CASE UNCHANGED vars
  BY <1>5 DEF vars, busVars, inferenceVars, TailInv, NoImmediateRepeat, IsTail
<1>6. QED
  BY <1>1, <1>2, <1>3, <1>4, <1>5 DEF InferenceNext

-----------------------------------------------------------------------------
\* As long as nothing failed and nothing was lost, the only process works on the
\* entry after the ones it completed.
LEMMA CleanTurn ==
    ASSUME InferenceInv, SoleInv, OneConsumer, NothingLost, faults = 0,
           NEW w \in Worker, worker[w].pc = "handling", NEW n, n = worker[w].now
    PROVE  /\ n \in Id
           /\ \A m \in done : m \in Id /\ m < n
           /\ \A m \in Id : m < n => m \in done
<1>1. n \in Id /\ done \subseteq Id
  BY EntryType DEF InferenceInv, BusInv, TypeOK
<1>2. /\ \A m \in done : m < n
      /\ Delivered \subseteq done \union Evicted \union worker[w].hand \union {n}
      /\ \A m \in worker[w].hand : n < m
  BY DEF SoleInv, InTurn, NothingLost
<1>3. Evicted = {} /\ n \in Delivered
  BY <1>1 DEF NothingLost, Evicted, Id, InferenceInv, BusInv, Holds
<1>4. ASSUME NEW m \in Id, m < n PROVE m \in done
  <2>1. cursor \in Int /\ n <= cursor
    BY <1>1, <1>3 DEF Delivered, InferenceInv, BusInv, TypeOK, NoGroup, Id
  <2>2. m \in Delivered
    BY <1>1, <1>4, <2>1 DEF Delivered, Id
  <2>3. n \in Int /\ m \in Int
    BY <1>1, <1>4 DEF Id
  <2>4. m \notin worker[w].hand /\ m # n
    BY <1>2, <1>4, <2>3
  <2>5. QED
    BY <1>2, <1>3, <2>2, <2>4
<1>5. QED
  BY <1>1, <1>2, <1>4

\* A push prolongs a run, when what came since the tail was the same window.
LEMMA PushedRun ==
    ASSUME window \in [Id -> Id], NEW s \in Seq(Id), Len(s) <= L, NEW n \in Id,
           NEW q, q = Pushed(s, n), s # <<>> => Successive(s), ~IsTail(s, n),
           s # <<>> => /\ s[Len(s)] < n
                       /\ \A m \in Id : s[Len(s)] < m /\ m < n => window[m] = window[s[Len(s)]]
    PROVE  Successive(q)
<1>0. Grown(s, n, q)
  BY PushedIs
<1>1. /\ q \in Seq(Id) /\ q # <<>>
      /\ Len(q) = IF Len(s) = L THEN L ELSE Len(s) + 1
      /\ q[Len(q)] = n
      /\ \A i \in 1..Len(q) - 1 : q[i] = s[i + (Len(s) + 1 - Len(q))]
  BY <1>0 DEF Grown
<1>2. L \in Nat /\ L > 0
  BY InferenceAssumption DEF InferenceAssumption
<1>3. PICK k \in Nat, l \in Nat : k = Len(s) /\ l = Len(q) /\ l > 0
  BY <1>1, EmptySeq, LenProperties
<1>4. DOMAIN q = 1..l /\ DOMAIN s = 1..k
  BY <1>1, <1>3, LenProperties
<1>5. PICK d : d = k + 1 - l
  OBVIOUS
<1>13. d \in Int /\ d >= 0 /\ l <= k + 1
  BY <1>1, <1>2, <1>3, <1>5
<1>6. SUFFICES ASSUME NEW i \in 1..l, i + 1 \in 1..l
               PROVE  /\ q[i] < q[i + 1] /\ window[q[i]] # window[q[i + 1]]
                      /\ \A m \in q[i]..q[i + 1] - 1 : window[m] = window[q[i]]
  BY <1>4 DEF Successive
<1>7. PICK j : j = i + d
  OBVIOUS
<1>8. i \in 1..l - 1 /\ q[i] = s[j] /\ j \in 1..k
  <2>1. i \in 1..l - 1
    BY <1>3, <1>6
  <2>2. q[i] = s[j]
    BY <1>1, <1>3, <1>5, <1>7, <2>1
  <2>3. j \in 1..k
    BY <1>3, <1>5, <1>7, <1>13, <2>1
  <2>4. QED
    BY <2>1, <2>2, <2>3
<1>9. s # <<>>
  BY <1>3, <1>8, EmptySeq
<1>10. CASE i + 1 = l
  <2>1. j = k
    BY <1>3, <1>5, <1>7, <1>10
  <2>2. q[i] = s[k] /\ q[i + 1] = n /\ s[k] \in Id
    BY <1>1, <1>3, <1>8, <1>10, <2>1, ElementOfSeq
  <2>3. /\ s[k] < n /\ window[s[k]] # window[n]
        /\ \A m \in Id : s[k] < m /\ m < n => window[m] = window[s[k]]
    BY <1>3, <1>9 DEF IsTail
  <2>4. ASSUME NEW m \in s[k]..n - 1 PROVE window[m] = window[s[k]]
    <3>1. PICK a \in Id : a = s[k]
      BY <2>2
    <3>2. m \in Id /\ m < n /\ (m = a \/ a < m)
      <4>1. MaxPublished \in Nat /\ n \in 1..MaxPublished /\ a \in 1..MaxPublished /\ m \in a..n - 1
        BY <2>4, <3>1, BusAssumption DEF BusAssumption, Id
      <4>2. m \in 1..MaxPublished /\ m < n /\ (m = a \/ a < m)
        BY <4>1
      <4>3. QED
        BY <4>2 DEF Id
    <3>3. QED
      BY <2>3, <3>1, <3>2
  <2>5. QED
    BY <2>2, <2>3, <2>4
<1>11. CASE i + 1 # l
  <2>1. i + 1 \in 1..l - 1 /\ i + 1 + d = j + 1
    BY <1>3, <1>5, <1>6, <1>7, <1>11, <1>13
  <2>6. q[i + 1] = s[i + 1 + d]
    BY <1>1, <1>3, <1>5, <2>1
  <2>2. q[i + 1] = s[j + 1] /\ j + 1 \in 1..k
    BY <1>3, <1>5, <1>13, <2>1, <2>6
  <2>3. Successive(s)
    BY <1>9
  <2>4. /\ s[j] < s[j + 1] /\ window[s[j]] # window[s[j + 1]]
        /\ \A m \in s[j]..s[j + 1] - 1 : window[m] = window[s[j]]
    BY <1>4, <1>8, <2>2, <2>3 DEF Successive
  <2>5. QED
    BY <1>8, <2>2, <2>4
<1>12. QED
  BY <1>10, <1>11

\* A step that leaves the list, the forecasts and what was handled alone.
LEMMA OrderKept ==
    ASSUME OrderInv, OneConsumer, NEW w \in Worker, \A v \in Worker : v = w,
           UNCHANGED <<window, seq, forecasts, done>>,
           \/ task'[w].step # "publish" /\ task[w].step # "publish"
           \/ task'[w] = task[w] /\ worker'[w].now = worker[w].now
    PROVE  OrderInv'
<1>1. \A q : Successive(q) => Successive(q)'
  BY DEF Successive
<1>2. ListInOrder'
  BY DEF OrderInv, ListInOrder, Successive
<1>3. ForecastsInOrder'
  BY DEF OrderInv, ForecastsInOrder, Successive
<1>4. ContextInOrder'
  BY DEF OrderInv, ContextInOrder, Successive
<1>5. QED
  BY <1>2, <1>3, <1>4 DEF OrderInv

\* A duplicate is the tail already.
LEMMA DropDuplicateOrder ==
    ASSUME InferenceInv, OneConsumer, OrderInv, NEW w \in Worker, DropDuplicate(w)
    PROVE  OrderInv'
<1>1. /\ UNCHANGED <<window, seq, forecasts, task>> /\ \A v \in Worker : v = w
      /\ task[w].step = "start" /\ IsTail(seq, worker[w].now)
      /\ done' = done \union {worker[w].now}
  BY StepOfOnly, OnlyProcess DEF DropDuplicate
<1>2. seq # <<>> /\ window[seq[Len(seq)]] = window[worker[w].now]
  BY <1>1 DEF IsTail
<1>3. PICK tail, n : tail = seq[Len(seq)] /\ n = worker[w].now
  OBVIOUS
<1>4. /\ Successive(seq) /\ \A m \in done : tail < m => window[m] = window[tail]
      /\ tail \in done
  BY <1>1, <1>2, <1>3 DEF OrderInv, ListInOrder
<1>5. ListInOrder'
  BY <1>1, <1>2, <1>3, <1>4 DEF ListInOrder, Successive
<1>6. ForecastsInOrder'
  BY <1>1 DEF OrderInv, ForecastsInOrder, Successive
<1>7. ContextInOrder'
  BY <1>1 DEF ContextInOrder
<1>8. QED
  BY <1>5, <1>6, <1>7 DEF OrderInv

\* The list that a push leaves, and the entry it ends with.
LEMMA PushOrder ==
    ASSUME InferenceInv, SoleInv, TailInv, OneConsumer, NothingLost, faults = 0,
           OrderInv, NEW w \in Worker, Push(w)
    PROVE  OrderInv'
<1>1. PICK n : n = worker[w].now
  OBVIOUS
<1>2. /\ seq' = Pushed(seq, n) /\ worker[w].pc = "handling" /\ \A v \in Worker : v = w
      /\ seq \in Seq(Id) /\ Len(seq) <= L /\ window \in [Id -> Id]
      /\ UNCHANGED <<window, forecasts>> /\ task[w].step = "push"
  BY <1>1, OnlyProcess, StepOfOnly DEF Push, At, InferenceInv, InferenceTypeOK, WindowsOf
<1>3. /\ n \in Id /\ \A m \in done : m \in Id /\ m < n
      /\ \A m \in Id : m < n => m \in done
  BY <1>1, <1>2, CleanTurn
<1>4. ~IsTail(seq, n)
  BY <1>1, <1>2 DEF TailInv
<1>5. ASSUME seq # <<>>
      PROVE  /\ Successive(seq) /\ seq[Len(seq)] < n
             /\ \A m \in Id : seq[Len(seq)] < m /\ m < n => window[m] = window[seq[Len(seq)]]
  <2>1. /\ Successive(seq) /\ seq[Len(seq)] \in done
        /\ \A m \in done : seq[Len(seq)] < m => window[m] = window[seq[Len(seq)]]
    BY <1>2, <1>5 DEF OrderInv, ListInOrder
  <2>2. QED
    BY <1>3, <2>1
<1>6. PICK q : q = Pushed(seq, n)
  OBVIOUS
<1>7. Successive(q)
  BY <1>2, <1>3, <1>4, <1>5, <1>6, PushedRun
<1>8. q # <<>> /\ q[Len(q)] = n /\ seq' = q
  BY <1>2, <1>3, <1>6, PushedIs DEF Grown
<1>9. \/ task'[w].step = "start" /\ done' = done \union {n}
      \/ /\ task'[w].step = "publish" /\ task'[w].context = q
         /\ done' = done /\ worker' = worker
  BY <1>1, <1>8, StepOfOnly
<1>10. n \in Int /\ \A m \in done' : ~(n < m)
  <2>1. n \in Int /\ \A m \in done : m \in Int /\ m < n
    BY <1>3 DEF Id
  <2>2. done' \subseteq done \union {n}
    BY <1>9
  <2>3. QED
    BY <2>1, <2>2
<1>11. ListInOrder'
  <2>1. n \in done' \/ (task'[w].step = "publish" /\ worker'[w].now = n)
    BY <1>1, <1>9
  <2>2. Successive(seq)'
    BY <1>2, <1>7, <1>8 DEF Successive
  <2>3. QED
    BY <1>8, <1>10, <2>1, <2>2 DEF ListInOrder
<1>12. ForecastsInOrder'
  <2>1. done \subseteq done'
    BY <1>9
  <2>2. QED
    BY <1>2, <2>1 DEF OrderInv, ForecastsInOrder, Successive
<1>13. ContextInOrder'
  BY <1>2, <1>7, <1>9 DEF ContextInOrder, Successive
<1>14. QED
  BY <1>11, <1>12, <1>13 DEF OrderInv

\* The forecast that is published is newer than the others, and its context a run.
LEMMA PublishOrder ==
    ASSUME InferenceInv, SoleInv, TailInv, OneConsumer, NothingLost, faults = 0,
           OrderInv, NEW w \in Worker, PublishForecast(w)
    PROVE  OrderInv'
<1>1. PICK n : n = worker[w].now
  OBVIOUS
<1>2. /\ worker[w].pc = "handling" /\ \A v \in Worker : v = w
      /\ UNCHANGED <<window, seq>> /\ task[w].step = "publish" /\ task'[w].step = "start"
      /\ done' = done \union {n}
  BY <1>1, OnlyProcess, StepOfOnly DEF PublishForecast, At
<1>3. n \in Id /\ \A m \in done : m < n
  BY <1>1, <1>2, CleanTurn
<1>4. seq = <<>> \/ IsTail(seq, n)
  BY <1>1, <1>2 DEF TailInv
<1>5. PICK f : f = [origin_ts |-> window[n], context |-> task[w].context]
  OBVIOUS
<1>6. Successive(f.context) /\ f.context[L] = n
  BY <1>1, <1>2, <1>5 DEF OrderInv, ContextInOrder, InferenceInv, TaskInv
<1>7. /\ Len(forecasts) \in Nat /\ DOMAIN forecasts = 1..Len(forecasts)
      /\ DOMAIN forecasts' = 1..Len(forecasts) + 1
      /\ \A i \in DOMAIN forecasts : forecasts'[i] = forecasts[i]
      /\ forecasts'[Len(forecasts) + 1] = f
  BY <1>1, <1>5, AppendedForecast
<1>8. ListInOrder'
  <2>1. SUFFICES ASSUME seq # <<>> PROVE ListInOrder'
    BY <1>2 DEF ListInOrder
  <2>2. PICK tail : tail = seq[Len(seq)]
    OBVIOUS
  <2>3. /\ Successive(seq) /\ \A m \in done : tail < m => window[m] = window[tail]
        /\ tail \in done \/ tail = n
    BY <1>1, <1>2, <2>1, <2>2 DEF OrderInv, ListInOrder
  <2>4. window[tail] = window[n]
    BY <1>4, <2>1, <2>2 DEF IsTail
  <2>5. QED
    BY <1>2, <2>1, <2>2, <2>3, <2>4 DEF ListInOrder, Successive
<1>9. ForecastsInOrder'
  <2>1. \A i \in DOMAIN forecasts' : i \in DOMAIN forecasts \/ i = Len(forecasts) + 1
    BY <1>7
  <2>2. ASSUME NEW i \in DOMAIN forecasts'
        PROVE  Successive(forecasts'[i].context) /\ forecasts'[i].context[L] \in done'
    BY <1>2, <1>6, <1>7, <2>1, <2>2 DEF OrderInv, ForecastsInOrder
  <2>3. ASSUME NEW i \in DOMAIN forecasts', NEW j \in DOMAIN forecasts', i < j
        PROVE  forecasts'[i].context[L] < forecasts'[j].context[L]
    <3>1. i \in DOMAIN forecasts
      BY <1>7, <2>3
    <3>2. CASE j \in DOMAIN forecasts
      BY <1>7, <2>3, <3>1, <3>2 DEF OrderInv, ForecastsInOrder
    <3>3. CASE j = Len(forecasts) + 1
      BY <1>3, <1>6, <1>7, <3>1, <3>3 DEF OrderInv, ForecastsInOrder
    <3>4. QED
      BY <2>1, <3>2, <3>3
  <2>4. QED
    BY <1>2, <2>2, <2>3 DEF ForecastsInOrder, Successive
<1>10. ContextInOrder'
  BY <1>2 DEF ContextInOrder
<1>11. QED
  BY <1>8, <1>9, <1>10 DEF OrderInv

\* Every step of a single consumer that nothing fails keeps the order.
LEMMA NextKeepsOrder ==
    ASSUME InferenceInv, SoleInv, TailInv, OneConsumer, NothingLost, faults' = 0, faults = 0,
           OrderInv, [InferenceNext]_vars
    PROVE  OrderInv'
<1>1. CASE BusOnly
  <2>1. UNCHANGED <<window, seq, forecasts, lapses, task>> /\ TypeOK
    BY <1>1 DEF BusOnly, inferenceVars, InferenceInv, BusInv
  <2>2. /\ done' = done
        /\ \A w \in Worker : task[w].step # "start" => worker'[w].now = worker[w].now
    BY <1>1, <2>1, BusStepsSpare, OnlyProcess DEF BusOnly
  <2>3. CASE Worker = {}
    BY <2>1, <2>2, <2>3 DEF OrderInv, ListInOrder, ForecastsInOrder, ContextInOrder, Successive
  <2>4. ASSUME NEW w \in Worker PROVE OrderInv'
    <3>1. \A v \in Worker : v = w
      BY OnlyProcess
    <3>2. \/ task'[w].step # "publish" /\ task[w].step # "publish"
          \/ task'[w] = task[w] /\ worker'[w].now = worker[w].now
      BY <2>1, <2>2
    <3>3. QED
      BY <2>1, <2>2, <3>1, <3>2, OrderKept
  <2>5. QED
    BY <2>3, <2>4
<1>2. ASSUME NEW w \in Worker, CheckTail(w) PROVE OrderInv'
  <2>1. /\ task[w].step # "publish" /\ task'[w].step # "publish" /\ \A v \in Worker : v = w
        /\ UNCHANGED <<window, seq, forecasts, done>>
    BY <1>2, StepOfOnly, OnlyProcess DEF busVars
  <2>2. QED
    BY <2>1, OrderKept
<1>3. ASSUME NEW w \in Worker, DropDuplicate(w) PROVE OrderInv'
  BY <1>3, DropDuplicateOrder
<1>4. ASSUME NEW w \in Worker, Push(w) \/ PublishForecast(w) PROVE OrderInv'
  BY <1>4, PushOrder, PublishOrder
<1>5. ASSUME NEW w \in Worker, Raise(w) \/ Die(w) PROVE FALSE
  <2>1. faults' = faults + 1
    BY <1>5, StepOfOnly DEF NothingLost
  <2>2. QED
    BY <2>1
<1>6. CASE Expire
  <2>1. seq' = <<>> /\ UNCHANGED <<window, forecasts, task, worker, done>>
    BY <1>6 DEF Expire, busVars
  <2>2. QED
    BY <2>1 DEF OrderInv, ListInOrder, ForecastsInOrder, ContextInOrder, Successive
<1>7. CASE UNCHANGED vars
  <2>1. UNCHANGED <<window, seq, forecasts, task, worker, done>>
    BY <1>7 DEF vars, busVars, inferenceVars
  <2>2. QED
    BY <2>1 DEF OrderInv, ListInOrder, ForecastsInOrder, ContextInOrder, Successive
<1>8. QED
  BY <1>1, <1>2, <1>3, <1>4, <1>5, <1>6, <1>7 DEF InferenceNext

-----------------------------------------------------------------------------
\* What is counted.
LEMMA LostTypes ==
    ASSUME InferenceInv
    PROVE  /\ Lost \in SUBSET Id /\ IsFiniteSet(Lost) /\ Cardinality(Lost) \in Nat
           /\ faults \in Nat /\ lapses \in Nat /\ Len(seq) \in Nat /\ L - 1 \in Nat
           /\ Fill(Len(seq)) \in Nat /\ Fill(Len(seq)) <= L - 1
           /\ DOMAIN seq = 1..Len(seq) /\ \A i \in DOMAIN seq : seq[i] \in Id
<1>1. L \in Nat /\ L > 0 /\ MaxPublished \in Nat /\ MaxFaults \in Nat /\ MaxLapses \in Nat
  BY BusAssumption, InferenceAssumption DEF BusAssumption, InferenceAssumption
<1>2. /\ faults \in Nat /\ lapses \in Nat /\ Len(seq) \in Nat
      /\ DOMAIN seq = 1..Len(seq) /\ \A i \in DOMAIN seq : seq[i] \in Id
      /\ window \in [Id -> Id] /\ done \subseteq Id
  BY <1>1, LenProperties, ElementOfSeq
     DEF InferenceInv, InferenceTypeOK, WindowsOf, BusInv, TypeOK
<1>3. Lost \in SUBSET Id
  BY <1>2 DEF Lost, Handled
<1>4. IsFiniteSet(Id)
  BY <1>1, FS_Interval DEF Id
<1>5. IsFiniteSet(Lost) /\ Cardinality(Lost) \in Nat
  BY <1>3, <1>4, FS_Subset, FS_CardinalityType
<1>6. QED
  BY <1>1, <1>2, <1>3, <1>5 DEF Fill

\* A step that loses no window, or one for a fault or for a place of the list.
LEMMA LostGrows ==
    ASSUME InferenceInv, InferenceInv', LostInv, NEW x, NEW d \in {0, 1},
           d = 0 => Lost' \subseteq Lost, Lost' \subseteq Lost \union {x}, lapses' = lapses,
           \/ faults' >= faults + d /\ Fill(Len(seq')) >= Fill(Len(seq))
           \/ faults' >= faults /\ Fill(Len(seq')) >= Fill(Len(seq)) + d
    PROVE  LostInv'
<1>1. /\ IsFiniteSet(Lost) /\ Cardinality(Lost) \in Nat /\ faults \in Nat /\ lapses \in Nat
      /\ Fill(Len(seq)) \in Nat /\ L - 1 \in Nat
  BY LostTypes
<1>2. PICK T : T = Lost'
  OBVIOUS
<1>3. IsFiniteSet(T) /\ Cardinality(T) <= Cardinality(Lost) + d
  <2>1. CASE d = 0
    <3>1. T \subseteq Lost
      BY <1>2, <2>1
    <3>2. QED
      BY <1>1, <2>1, <3>1, FS_Subset
  <2>2. CASE d = 1
    <3>1. IsFiniteSet(Lost \union {x}) /\ Cardinality(Lost \union {x}) <= Cardinality(Lost) + 1
      BY <1>1, FS_AddElement
    <3>2. IsFiniteSet(T) /\ Cardinality(T) <= Cardinality(Lost \union {x})
      BY <1>2, <3>1, FS_Subset
    <3>3. Cardinality(T) \in Nat /\ Cardinality(Lost \union {x}) \in Nat
      BY <3>1, <3>2, FS_CardinalityType
    <3>4. QED
      BY <1>1, <2>2, <3>1, <3>2, <3>3
  <2>3. QED
    BY <2>1, <2>2
<1>4. PICK c \in Int, e \in Int, g \in Int, h \in Int, a \in Int, f \in Int, p \in Int :
         /\ c = Cardinality(Lost) /\ e = Cardinality(T) /\ g = Fill(Len(seq)) /\ h = Fill(Len(seq'))
         /\ a = faults /\ f = faults' /\ p = lapses * (L - 1)
  <2>1. Cardinality(T) \in Nat
    BY <1>3, FS_CardinalityType
  <2>2. faults' \in Nat /\ Fill(Len(seq')) \in Nat
    <3>1. L \in Nat /\ MaxFaults \in Nat /\ L > 0
      BY BusAssumption, InferenceAssumption DEF BusAssumption, InferenceAssumption
    <3>2. seq' \in Seq(Id) /\ faults' \in 0..MaxFaults
      BY DEF InferenceInv, InferenceTypeOK, BusInv, TypeOK
    <3>3. Len(seq') \in Nat
      BY <3>2, LenProperties
    <3>4. QED
      BY <3>1, <3>2, <3>3 DEF Fill
  <2>3. QED
    BY <1>1, <2>1, <2>2
<1>5. c <= a + p + g
  BY <1>4 DEF LostInv
<1>6. e <= c + d /\ ((f >= a + d /\ h >= g) \/ (f >= a /\ h >= g + d))
  BY <1>3, <1>4
<1>7. e <= f + p + h
  BY <1>5, <1>6
<1>8. Cardinality(Lost)' = e /\ faults' = f /\ lapses' * (L - 1) = p /\ Fill(Len(seq))' = h
  BY <1>2, <1>4 DEF Fill
<1>9. QED
  BY <1>7, <1>8 DEF LostInv

\* The windows in hand, when one process takes up a context, gives it up, or neither.
LEMMA InHandOf ==
    ASSUME InferenceInv, NEW w \in Worker, NEW t, task' = [task EXCEPT ![w] = t],
           window' = window, \A v \in Worker \ {w} : worker'[v] = worker[v]
    PROVE  /\ InHand \subseteq InHand' \union {window[worker[w].now]}
           /\ task[w].step # "publish" => InHand \subseteq InHand'
           /\ t.step = "publish" /\ worker'[w].now = worker[w].now
                 => window[worker[w].now] \in InHand'
<1>1. task'[w] = t /\ \A v \in Worker \ {w} : task'[v] = task[v]
  BY DEF InferenceInv, InferenceTypeOK
<1>2. \A v \in Worker \ {w} :
         task[v].step = "publish" => task'[v].step = "publish" /\ worker'[v].now = worker[v].now
  BY <1>1
<1>3. \A y \in InHand : \/ y \in InHand'
                        \/ task[w].step = "publish" /\ y = window[worker[w].now]
  BY <1>2 DEF InHand
<1>4. QED
  BY <1>1, <1>3 DEF InHand

\* What a push does to the windows that count: its own is added.
LEMMA PushLost ==
    ASSUME InferenceInv, InferenceInv', LostInv, NEW w \in Worker, Push(w)
    PROVE  LostInv'
<1>1. PICK n, q : n = worker[w].now /\ q = Pushed(seq, n)
  OBVIOUS
<1>2. /\ seq' = q /\ n \in Id /\ seq \in Seq(Id) /\ Len(seq) <= L
      /\ UNCHANGED <<faults, window, forecasts, lapses>> /\ task[w].step = "push"
      /\ \A v \in Worker \ {w} : worker'[v] = worker[v]
  BY <1>1, EntryType, StepOfOnly
     DEF Push, At, InferenceInv, InferenceTypeOK, HandlerReturns, busVars, BusInv, TypeOK
<1>3. /\ q \in Seq(Id) /\ q # <<>>
      /\ Len(q) = IF Len(seq) = L THEN L ELSE Len(seq) + 1
      /\ q[Len(q)] = n
      /\ \A i \in 1..Len(q) - 1 : q[i] = seq[i + (Len(seq) + 1 - Len(q))]
  <2>1. Grown(seq, n, q)
    BY <1>1, <1>2, PushedIs
  <2>2. QED
    BY <2>1 DEF Grown
<1>4. L \in Nat /\ L > 0 /\ Len(seq) \in Nat /\ faults \in Nat
  BY LostTypes, InferenceAssumption DEF InferenceAssumption
<1>5. done' \subseteq done \union {n}
  BY <1>1, StepOfOnly
<1>6. \A i \in DOMAIN q : q[i] = n \/ \E j \in DOMAIN seq : q[i] = seq[j]
  <2>1. TAKE i \in DOMAIN q
  <2>2. PICK k \in Nat, l \in Nat : k = Len(seq) /\ l = Len(q) /\ DOMAIN q = 1..l /\ DOMAIN seq = 1..k
    BY <1>2, <1>3, LenProperties
  <2>3. CASE i = l
    BY <1>3, <2>2, <2>3
  <2>4. CASE i # l
    <3>1. PICK j : j = i + (k + 1 - l)
      OBVIOUS
    <3>4. k \in Int /\ k <= L /\ (IF k = L THEN l = L ELSE l = k + 1)
      BY <1>2, <1>3, <2>2
    <3>2. i \in 1..l - 1 /\ j \in 1..k
      <4>1. i \in 1..l /\ i # l
        BY <2>1, <2>2, <2>4
      <4>2. CASE k = L
        <5>1. l = k /\ j = i + 1
          BY <2>2, <3>1, <3>4, <4>1, <4>2
        <5>2. QED
          BY <2>2, <4>1, <5>1
      <4>3. CASE k # L
        <5>1. l = k + 1 /\ j = i
          BY <2>2, <3>1, <3>4, <4>1, <4>3
        <5>2. QED
          BY <2>2, <4>1, <5>1
      <4>4. QED
        BY <4>2, <4>3
    <3>3. q[i] = seq[j]
      BY <1>3, <2>2, <3>1, <3>2
    <3>5. QED
      BY <2>2, <3>2, <3>3
  <2>5. QED
    BY <2>3, <2>4
<1>7. Handled' \subseteq Handled \union {window[n]} /\ Origins' = Origins
  BY <1>2, <1>5, <1>6 DEF Handled, Origins
<1>8. PICK t : /\ task' = [task EXCEPT ![w] = t]
               /\ ~(Len(q) < L) => t.step = "publish" /\ worker' = worker
  <2>1. CASE Len(q) < L
    BY <1>1, <1>2, <2>1 DEF Push
  <2>2. CASE ~(Len(q) < L)
    <3>1. PICK t : t = [step |-> "publish", context |-> seq']
      OBVIOUS
    <3>2. task' = [task EXCEPT ![w] = t] /\ t.step = "publish" /\ worker' = worker
      BY <1>1, <1>2, <2>2, <3>1 DEF Push, busVars
    <3>3. QED
      BY <3>2
  <2>3. QED
    BY <2>1, <2>2
<1>9. InHand \subseteq InHand'
  BY <1>2, <1>8, InHandOf
<1>10. Lost' \subseteq Lost \union {window[n]}
  BY <1>7, <1>9 DEF Lost
<1>11. CASE Len(q) < L
  <2>1. Fill(Len(q)) >= Fill(Len(seq)) + 1
    BY <1>3, <1>4, <1>11 DEF Fill
  <2>2. QED
    BY <1>2, <1>4, <1>10, <2>1, LostGrows
<1>12. CASE ~(Len(q) < L)
  <2>1. window[n] \in InHand'
    BY <1>1, <1>2, <1>8, <1>12, InHandOf
  <2>2. Lost' \subseteq Lost
    BY <1>10, <2>1 DEF Lost
  <2>3. Len(q) \in Nat /\ Fill(Len(q)) >= Fill(Len(seq))
    BY <1>2, <1>3, <1>4, <1>12, LenProperties DEF Fill
  <2>4. QED
    BY <1>2, <1>4, <1>10, <2>2, <2>3, LostGrows
<1>13. QED
  BY <1>11, <1>12

\* A handler that returns or fails: its window is in the list, has its forecast, or is
\* charged to the fault.
LEMMA ReturnLost ==
    ASSUME InferenceInv, InferenceInv', LostInv, NEW w \in Worker,
           CheckTail(w) \/ DropDuplicate(w) \/ PublishForecast(w) \/ Raise(w) \/ Die(w)
    PROVE  LostInv'
<1>1. PICK n : n = worker[w].now
  OBVIOUS
<1>2. /\ UNCHANGED <<window, seq, lapses>> /\ faults \in Nat /\ Fill(Len(seq)) \in Nat
      /\ \A v \in Worker \ {w} : worker'[v] = worker[v]
      /\ \E t : task' = [task EXCEPT ![w] = t]
  <2>1. UNCHANGED <<window, seq, lapses>> /\ faults \in Nat /\ Fill(Len(seq)) \in Nat
    BY StepOfOnly, LostTypes
  <2>2. \A v \in Worker \ {w} : worker'[v] = worker[v]
    BY DEF CheckTail, DropDuplicate, PublishForecast, Raise, Die, HandlerReturns, HandlerRaises,
           Crash, busVars, InferenceInv, BusInv, TypeOK
  <2>3. task' = task => task' = [task EXCEPT ![w] = task[w]]
    BY DEF InferenceInv, InferenceTypeOK
  <2>4. \E t : task' = [task EXCEPT ![w] = t]
    BY <2>3 DEF CheckTail, DropDuplicate, PublishForecast, Raise, Die, inferenceVars
  <2>5. QED
    BY <2>1, <2>2, <2>4
<1>3. /\ InHand \subseteq InHand' \union {window[n]}
      /\ task[w].step # "publish" => InHand \subseteq InHand'
  BY <1>1, <1>2, InHandOf
<1>4. CASE CheckTail(w)
  <2>1. done' = done /\ forecasts' = forecasts /\ task[w].step # "publish" /\ faults' = faults
    BY <1>4, StepOfOnly DEF busVars
  <2>2. Lost' \subseteq Lost
    BY <1>2, <1>3, <2>1 DEF Lost, Handled, Origins
  <2>3. QED
    BY <1>2, <2>1, <2>2, LostGrows
<1>5. CASE DropDuplicate(w)
  <2>1. /\ done' = done \union {n} /\ forecasts' = forecasts /\ task[w].step # "publish"
        /\ faults' = faults /\ IsTail(seq, n)
    BY <1>1, <1>5, StepOfOnly DEF DropDuplicate
  <2>2. window[n] \in Handled
    <3>1. seq # <<>> /\ window[seq[Len(seq)]] = window[n]
      BY <2>1 DEF IsTail
    <3>2. Len(seq) \in DOMAIN seq
      <4>1. seq \in Seq(Id)
        BY DEF InferenceInv, InferenceTypeOK
      <4>2. QED
        BY <3>1, <4>1, TailIs
    <3>3. QED
      BY <3>1, <3>2 DEF Handled
  <2>3. Handled' \subseteq Handled /\ Origins' = Origins
    BY <1>2, <2>1, <2>2 DEF Handled, Origins
  <2>4. Lost' \subseteq Lost
    BY <1>3, <2>1, <2>3 DEF Lost
  <2>5. QED
    BY <1>2, <2>1, <2>4, LostGrows
<1>6. CASE PublishForecast(w)
  <2>1. PICK f : f = [origin_ts |-> window[n], context |-> task[w].context]
    OBVIOUS
  <2>2. /\ Len(forecasts) \in Nat /\ DOMAIN forecasts = 1..Len(forecasts)
        /\ DOMAIN forecasts' = 1..Len(forecasts) + 1
        /\ \A i \in DOMAIN forecasts : forecasts'[i] = forecasts[i]
        /\ forecasts'[Len(forecasts) + 1] = f
    BY <1>1, <1>6, <2>1, AppendedForecast
  <2>3. Origins \union {window[n]} \subseteq Origins'
    <3>1. f.origin_ts = window[n] /\ Len(forecasts) + 1 \in DOMAIN forecasts'
      BY <2>1, <2>2
    <3>2. \A i \in DOMAIN forecasts : i \in DOMAIN forecasts'
      BY <2>2
    <3>3. QED
      BY <2>2, <3>1, <3>2 DEF Origins
  <2>4. done' = done \union {n} /\ faults' = faults
    BY <1>1, <1>6, StepOfOnly
  <2>5. Handled' \subseteq Handled \union {window[n]}
    BY <1>2, <2>4 DEF Handled
  <2>6. Lost' \subseteq Lost
    BY <1>3, <2>3, <2>5 DEF Lost
  <2>7. QED
    BY <1>2, <2>4, <2>6, LostGrows
<1>7. CASE Raise(w) \/ Die(w)
  <2>1. /\ done' = done /\ forecasts' = forecasts /\ faults' \in {faults, faults + 1}
        /\ task[w].step # "start" => faults' = faults + 1
    BY <1>7, StepOfOnly
  <2>2. Handled' = Handled /\ Origins' = Origins
    BY <1>2, <2>1 DEF Handled, Origins
  <2>3. CASE task[w].step = "publish"
    <3>1. Lost' \subseteq Lost \union {window[n]}
      BY <1>3, <2>2 DEF Lost
    <3>2. faults' >= faults + 1 /\ Fill(Len(seq')) >= Fill(Len(seq)) /\ lapses' = lapses
      BY <1>2, <2>1, <2>3
    <3>3. 1 \in {0, 1} /\ 1 # 0
      OBVIOUS
    <3>4. QED
      BY <3>1, <3>2, <3>3, LostGrows
  <2>4. CASE task[w].step # "publish"
    <3>1. Lost' \subseteq Lost
      BY <1>3, <2>2, <2>4 DEF Lost
    <3>2. QED
      BY <1>2, <2>1, <3>1, LostGrows
  <2>5. QED
    BY <2>3, <2>4
<1>8. QED
  BY <1>4, <1>5, <1>6, <1>7

\* An expiry costs the places of the list.
LEMMA ExpireLost ==
    ASSUME InferenceInv, LostInv, Expire
    PROVE  LostInv'
<1>1. /\ seq' = <<>> /\ UNCHANGED <<window, forecasts, task, worker, done, faults>>
      /\ lapses' = lapses + 1
  BY DEF Expire, busVars
<1>2. Lost' \subseteq Lost
  BY <1>1, EmptySeq DEF Lost, Handled, Origins, InHand
<1>3. PICK T : T = Lost'
  OBVIOUS
<1>4. /\ IsFiniteSet(Lost) /\ faults \in Nat /\ lapses \in Nat /\ L - 1 \in Nat
      /\ Fill(Len(seq)) \in Nat /\ Fill(Len(seq)) <= L - 1
  BY LostTypes
<1>5. IsFiniteSet(T) /\ Cardinality(T) <= Cardinality(Lost)
  BY <1>2, <1>3, <1>4, FS_Subset
<1>6. PICK c \in Int, e \in Int, g \in Int, a \in Int, b \in Nat, k \in Nat, p \in Int :
         /\ c = Cardinality(Lost) /\ e = Cardinality(T) /\ g = Fill(Len(seq))
         /\ a = faults /\ b = L - 1 /\ k = lapses /\ p = k * b
  <2>1. Cardinality(T) \in Nat /\ Cardinality(Lost) \in Nat
    BY <1>4, <1>5, FS_CardinalityType
  <2>2. QED
    BY <1>4, <2>1
<1>7. c <= a + p + g
  BY <1>6 DEF LostInv
<1>8. e <= c /\ g <= b /\ a \in Int /\ b \in Int /\ p \in Int /\ c \in Int /\ e \in Int /\ g \in Int
  BY <1>4, <1>5, <1>6
<1>9. (k + 1) * b = p + b
  BY <1>6
<1>10. Fill(0) >= 0
  BY InferenceAssumption DEF InferenceAssumption, Fill
<1>11. Len(seq') = 0
  BY <1>1, EmptySeq
<1>12. Fill(0) = 0
  BY InferenceAssumption DEF InferenceAssumption, Fill
<1>13. Cardinality(T) <= faults' + lapses' * (L - 1) + Fill(Len(seq'))
  <2>1. e <= a + (p + b) + 0
    BY <1>7, <1>8
  <2>2. faults' = a /\ lapses' * (L - 1) = p + b /\ Fill(Len(seq')) = 0
    BY <1>1, <1>6, <1>9, <1>11, <1>12
  <2>3. QED
    BY <1>6, <2>1, <2>2
<1>14. QED
  BY <1>3, <1>13 DEF LostInv, Fill

\* No step of any replica loses more than it is charged for.
LEMMA NextKeepsLost ==
    InferenceInv /\ LostInv /\ InferenceInv' /\ [InferenceNext]_vars => LostInv'
<1> SUFFICES ASSUME InferenceInv, LostInv, InferenceInv', [InferenceNext]_vars PROVE LostInv'
  OBVIOUS
<1>1. faults \in Nat /\ Fill(Len(seq)) \in Nat
  BY LostTypes
<1>2. CASE BusOnly
  <2>1. UNCHANGED <<window, seq, forecasts, lapses, task>> /\ TypeOK
    BY <1>2 DEF BusOnly, inferenceVars, InferenceInv, BusInv
  <2>2. /\ done' = done /\ (faults' = faults \/ faults' = faults + 1)
        /\ \A w \in Worker : worker[w].pc = "handling" => worker'[w].now = worker[w].now
    BY <1>2, <2>1, BusStepsSpare DEF BusOnly
  <2>3. \A w \in Worker : task[w].step = "publish" => worker'[w].now = worker[w].now
    BY <2>2 DEF InferenceInv, TaskInv
  <2>4. Lost' = Lost
    BY <2>1, <2>2, <2>3 DEF Lost, Handled, Origins, InHand
  <2>5. QED
    BY <1>1, <2>1, <2>2, <2>4, LostGrows
<1>3. ASSUME NEW w \in Worker,
             CheckTail(w) \/ DropDuplicate(w) \/ Push(w) \/ PublishForecast(w) \/ Raise(w) \/ Die(w)
      PROVE  LostInv'
  BY <1>3, PushLost, ReturnLost
<1>4. CASE Expire
  BY <1>4, ExpireLost
<1>5. CASE UNCHANGED vars
  BY <1>5 DEF vars, busVars, inferenceVars, LostInv, Lost, Handled, Origins, InHand, Fill
<1>6. QED
  BY <1>2, <1>3, <1>4, <1>5 DEF InferenceNext

\* Every window that was acknowledged was completed.
LEMMA FewAreMissed ==
    ASSUME InferenceInv, LostInv
    PROVE  MissedBoundedByFaults
<1>1. Missed \subseteq Lost
  BY DEF Missed, Lost, Handled, InferenceInv, BusInv, AtLeastOnceDelivery
<1>2. /\ IsFiniteSet(Lost) /\ Cardinality(Lost) \in Nat /\ faults \in Nat /\ lapses \in Nat
      /\ L - 1 \in Nat /\ Fill(Len(seq)) \in Nat /\ Fill(Len(seq)) <= L - 1
  BY LostTypes
<1>3. Cardinality(Missed) \in Nat /\ Cardinality(Missed) <= Cardinality(Lost)
  BY <1>1, <1>2, FS_Subset, FS_CardinalityType
<1>4. PICK b \in Nat, k \in Nat, p \in Int : b = L - 1 /\ k = lapses /\ p = k * b
  BY <1>2
<1>5. (k + 1) * b = p + b
  BY <1>4
<1>6. Cardinality(Lost) <= faults + p + Fill(Len(seq))
  BY <1>4 DEF LostInv
<1>7. Cardinality(Missed) <= faults + (p + b)
  <2>1. PICK c \in Nat, e \in Nat, a \in Nat, g \in Nat :
           /\ c = Cardinality(Lost) /\ e = Cardinality(Missed) /\ a = faults /\ g = Fill(Len(seq))
    BY <1>2, <1>3
  <2>2. c <= a + p + g /\ e <= c /\ g <= b
    BY <1>2, <1>3, <1>4, <1>6, <2>1
  <2>3. e <= a + (p + b)
    BY <1>4, <2>2
  <2>4. QED
    BY <2>1, <2>3
<1>8. QED
  BY <1>4, <1>5, <1>7 DEF MissedBoundedByFaults

-----------------------------------------------------------------------------
\* Nothing was handled.
LEMMA InitHistoryInv == InferenceInit => HistoryInv /\ LostInv
<1> SUFFICES ASSUME InferenceInit PROVE HistoryInv /\ LostInv
  OBVIOUS
<1>1. InferenceInv /\ SoleInv
  BY InitInferenceInv, InitSoleInv DEF InferenceInit
<1>2. /\ seq = <<>> /\ forecasts = <<>> /\ lapses = 0 /\ done = {} /\ faults = 0
      /\ \A w \in Worker : task[w].step = "start"
  BY DEF InferenceInit, Init, Idle
<1>3. DOMAIN forecasts = {} /\ DOMAIN seq = {} /\ Len(seq) = 0
  BY <1>2, EmptySeq
<1>4. TailInv
  BY <1>2, <1>3 DEF TailInv, NoImmediateRepeat
<1>5. OrderInv
  BY <1>2, <1>3 DEF OrderInv, ListInOrder, ForecastsInOrder, ContextInOrder
<1>6. LostInv
  <2>1. Lost = {}
    BY <1>2, <1>3 DEF Lost, Handled
  <2>2. Cardinality(Lost) = 0
    BY <2>1, FS_EmptySet
  <2>3. Fill(Len(seq)) = 0 /\ L - 1 \in Int
    BY <1>3, InferenceAssumption DEF InferenceAssumption, Fill
  <2>4. 0 * (L - 1) = 0
    BY <2>3
  <2>5. QED
    BY <1>2, <2>2, <2>3, <2>4 DEF LostInv
<1>7. QED
  BY <1>1, <1>4, <1>5, <1>6 DEF HistoryInv

\* Faults and evictions are not taken back.
LEMMA FaultsStay ==
    ASSUME InferenceInv, InferenceInv', [InferenceNext]_vars
    PROVE  /\ NothingLost' => NothingLost
           /\ faults' = 0 => faults = 0
<1>1. trim \in Nat /\ trim' \in Nat /\ faults \in Nat /\ TypeOK
  BY BusAssumption DEF BusAssumption, InferenceInv, BusInv, TypeOK
<1>2. CASE BusOnly
  BY <1>1, <1>2, BusStepsSpare DEF BusOnly, NothingLost
<1>3. ASSUME NEW w \in Worker,
             CheckTail(w) \/ DropDuplicate(w) \/ Push(w) \/ PublishForecast(w) \/ Raise(w) \/ Die(w)
      PROVE  trim' = trim /\ faults' \in {faults, faults + 1}
  BY <1>3, StepOfOnly DEF busVars
<1>4. CASE Expire \/ UNCHANGED vars
  BY <1>4 DEF Expire, vars, busVars, NothingLost
<1>5. QED
  BY <1>1, <1>2, <1>3, <1>4 DEF InferenceNext, NothingLost

\* Every step of a single consumer preserves the invariant.
LEMMA NextKeepsHistory ==
    OneConsumer /\ HistoryInv /\ [InferenceNext]_vars => HistoryInv'
<1> SUFFICES ASSUME OneConsumer, HistoryInv, [InferenceNext]_vars PROVE HistoryInv'
  OBVIOUS
<1>1. InferenceInv /\ SoleInv /\ TailInv /\ InferenceInv'
  BY InferenceNextKeeps DEF HistoryInv
<1>2. SoleInv'
  BY <1>1, BusSteps, NextKeepsSole DEF InferenceInv
<1>3. TailInv'
  BY <1>1, NextKeepsTail
<1>4. NothingLost' /\ faults' = 0 => OrderInv'
  BY <1>1, FaultsStay, NextKeepsOrder DEF HistoryInv
<1>5. QED
  BY <1>1, <1>2, <1>3, <1>4 DEF HistoryInv

\* The invariants give what is promised of a host's forecasts.
LEMMA HistoryIsSound ==
    InferenceInv /\ LostInv /\ (OneConsumer => HistoryInv) => ForecastsAreSound
<1> SUFFICES ASSUME InferenceInv, LostInv, OneConsumer => HistoryInv PROVE ForecastsAreSound
  OBVIOUS
<1>1. ContextEndsAtOrigin
  BY DEF InferenceInv
<1>2. NoImmediateRepeat
  BY DEF HistoryInv, TailInv, NoImmediateRepeat
<1>3. ContextIsHistory
  BY DEF ContextIsHistory, HistoryInv, OrderInv, ForecastsInOrder
<1>4. QED
  BY <1>1, <1>2, <1>3, FewAreMissed DEF ForecastsAreSound, ContextIsSound

\* What a single consumer knows of a host's history holds in every reachable state.
THEOREM HistoryInvariant == ASSUME OneConsumer PROVE InferenceSpec => []HistoryInv
<1>1. HistoryInv /\ [InferenceNext]_vars => HistoryInv'
  BY NextKeepsHistory
<1>2. QED
  BY <1>1, InitHistoryInv, PTL DEF InferenceSpec

\* A forecast is made from a full context that ends with its window, whatever races or
\* fails, and faults and expiries cost no more forecasts than the windows they hit and
\* the ones it takes to fill the list again; with one consumer a forecast is made from
\* the windows that came one after the other up to its own.
THEOREM ForecastsAreSoundHolds == InferenceSpec => []ForecastsAreSound
<1>1. InferenceSpec => []LostInv
  BY InitHistoryInv, NextKeepsLost, InferenceInvariant, PTL DEF InferenceSpec
<1>2. CASE OneConsumer
  <2>1. HistoryInv /\ LostInv => ForecastsAreSound
    BY HistoryIsSound DEF HistoryInv
  <2>2. QED
    BY <1>1, <1>2, <2>1, HistoryInvariant, PTL
<1>3. CASE ~OneConsumer
  <2>1. InferenceInv /\ LostInv => ForecastsAreSound
    BY <1>3, HistoryIsSound
  <2>2. QED
    BY <1>1, <2>1, InferenceInvariant, PTL
<1>4. QED
  BY <1>2, <1>3

-----------------------------------------------------------------------------
(***************************************************************************)
(* The episodes that forecasts make of a host, for every threshold, every  *)
(* length of the debounce and of the cool-down, and every sequence of      *)
(* forecasts: the counters that `advance` carries from one forecast to the *)
(* next say what the episode list promises in terms of all of them.        *)
(***************************************************************************)
Forecast == Summary(Ts, Risk)
Above == {f \in Forecast : IsAbove(f)}
Quiet == {f \in Forecast : ~IsAbove(f)}

\* Forecast f ends a run of n forecasts of S that all lie in A.
RunIn(S, f, n, A) ==
    \E g \in S : /\ Cardinality(Between(S, g.origin_ts - 1, f.origin_ts)) = n
                 /\ Between(S, g.origin_ts - 1, f.origin_ts) \subseteq A

\* The run of forecasts of A that S ends with.
Trail(S, A) == {f \in S : \A g \in S : f.origin_ts <= g.origin_ts => g \in A}

Inside(r) == {f \in seen : Covers(r, f)}

\* AlertIsDebounced and ClosedByQuiet, of one row and the forecasts inside it.
AlertOf(r, S) ==
    LET alerts == {f \in S : RunIn(S, f, LeadTimeM, Above)}
    IN  IF alerts = {} THEN r.first_alert_at = Never
        ELSE \E f \in alerts : /\ r.first_alert_at = f.origin_ts
                               /\ \A g \in alerts : f.origin_ts <= g.origin_ts

QuietOf(r, S) ==
    LET quiet == {f \in S : RunIn(S, f, CloseAfter, Quiet)}
    IN  /\ \A f \in quiet : f.origin_ts = r.ended_at
        /\ IsOpen(r) <=> quiet = {}

PeakOf(r, S) ==
    /\ \E f \in S : f.max_p_compromise = r.peak_risk
    /\ \A f \in S : f.max_p_compromise <= r.peak_risk

RowInv(r) == AlertOf(r, Inside(r)) /\ QuietOf(r, Inside(r)) /\ PeakOf(r, Inside(r))

\* The forecasts that moved the state came in order and lie behind the watermark, and so
\* do the rows.
SeenInv ==
    /\ IsFiniteSet(seen)
    /\ \A f \in seen : f.origin_ts <= state.last_ts
    /\ \A i \in DOMAIN rows : rows[i].started_at <= state.last_ts /\ rows[i].ended_at <= state.last_ts

\* The open aggregate is its row, and its counters are the lengths of the runs that
\* the episode ends with so far; neither run was long enough yet to be acted on.
OpenInv ==
    state.episode # NoEpisode =>
        LET e == state.episode
            S == Inside(rows[e.id])
        IN  /\ e.id \in DOMAIN rows /\ rows[e.id] = RowOf(e, Never)
            /\ e.above = Cardinality(Trail(S, Above))
            /\ e.below = Cardinality(Trail(S, Quiet))
            /\ e.first_alert_at = Never => e.above < LeadTimeM
            /\ e.below < CloseAfter

\* The inductive invariant.
LifecycleInv ==
    /\ EpisodeTypeOK /\ IsFiniteSet(DOMAIN rows)
    /\ OneOpenRow
    /\ EpisodesPartition
    /\ SeenInv
    /\ OpenInv
    /\ \A i \in DOMAIN rows : RowInv(rows[i])

-----------------------------------------------------------------------------
\* The types of a forecast.
LEMMA ForecastType ==
    ASSUME NEW f \in Forecast
    PROVE  /\ f.origin_ts \in Ts /\ f.origin_ts \in Nat /\ f.origin_ts > 0
           /\ f.max_p_compromise \in Risk /\ f.max_p_compromise \in Int
           /\ f \in Above <=> IsAbove(f)
           /\ f \in Quiet <=> ~IsAbove(f)
<1>1. f.origin_ts \in Ts /\ f.max_p_compromise \in Risk
  BY DEF Forecast, Summary
<1>2. f.origin_ts \in Nat \ {0} /\ f.max_p_compromise \in Int
  BY <1>1, LifecycleAssumption DEF LifecycleAssumption
<1>3. QED
  BY <1>1, <1>2 DEF Above, Quiet

\* A forecast that is newer than all the others prolongs the run they end with, or
\* ends it.
LEMMA TrailGrows ==
    ASSUME NEW S \in SUBSET Forecast, NEW x \in Forecast, NEW A,
           \A g \in S : g.origin_ts < x.origin_ts
    PROVE  /\ x \in A => Trail(S \union {x}, A) = Trail(S, A) \union {x}
           /\ x \notin A => Trail(S \union {x}, A) = {}
<1>1. x.origin_ts \in Nat /\ \A g \in S : g.origin_ts \in Nat
  BY ForecastType
<1>2. x \notin A => Trail(S \union {x}, A) = {}
  BY <1>1 DEF Trail
<1>3. ASSUME x \in A PROVE Trail(S \union {x}, A) = Trail(S, A) \union {x}
  <2>1. ASSUME NEW f \in S
        PROVE  f \in Trail(S \union {x}, A) <=> f \in Trail(S, A)
    BY <1>1, <1>3, <2>1 DEF Trail
  <2>2. x \in Trail(S \union {x}, A)
    <3>1. \A g \in S \union {x} : x.origin_ts <= g.origin_ts => g = x
      BY <1>1
    <3>2. QED
      BY <1>3, <3>1 DEF Trail
  <2>3. Trail(S \union {x}, A) \subseteq S \union {x} /\ Trail(S, A) \subseteq S
    BY DEF Trail
  <2>4. QED
    BY <2>1, <2>2, <2>3
<1>4. QED
  BY <1>2, <1>3

\* And it makes it longer by one.
LEMMA TrailCounts ==
    ASSUME NEW S \in SUBSET Forecast, IsFiniteSet(S), NEW x \in Forecast, NEW A,
           \A g \in S : g.origin_ts < x.origin_ts
    PROVE  /\ Cardinality(Trail(S, A)) \in Nat
           /\ Cardinality(Trail(S \union {x}, A)) =
                 IF x \in A THEN Cardinality(Trail(S, A)) + 1 ELSE 0
<1>1. IsFiniteSet(Trail(S, A)) /\ Cardinality(Trail(S, A)) \in Nat
  <2>1. Trail(S, A) \subseteq S
    BY DEF Trail
  <2>2. QED
    BY <2>1, FS_Subset, FS_CardinalityType
<1>2. x \notin Trail(S, A)
  <2>1. x \notin S
    BY ForecastType
  <2>2. QED
    BY <2>1 DEF Trail
<1>3. Cardinality(Trail(S, A) \union {x}) = Cardinality(Trail(S, A)) + 1
  BY <1>1, <1>2, FS_AddElement
<1>4. QED
  BY <1>1, <1>3, TrailGrows, FS_EmptySet

\* A run that ends with the newest forecast is no longer than the run all of
\* them end with.
LEMMA RunWithinTrail ==
    ASSUME NEW S \in SUBSET Forecast, IsFiniteSet(S), NEW x \in S, NEW n \in Nat, NEW A,
           \A g \in S : g.origin_ts <= x.origin_ts, RunIn(S, x, n, A)
    PROVE  n <= Cardinality(Trail(S, A))
<1>1. PICK g \in S : /\ Cardinality(Between(S, g.origin_ts - 1, x.origin_ts)) = n
                     /\ Between(S, g.origin_ts - 1, x.origin_ts) \subseteq A
  BY DEF RunIn
<1>2. PICK B : B = Between(S, g.origin_ts - 1, x.origin_ts)
  OBVIOUS
<1>3. \A f \in S : f.origin_ts \in Nat
  BY ForecastType
<1>4. B \subseteq Trail(S, A)
  <2>1. SUFFICES ASSUME NEW f \in B PROVE f \in Trail(S, A)
    OBVIOUS
  <2>2. f \in S /\ g.origin_ts - 1 < f.origin_ts
    BY <1>2 DEF Between
  <2>3. ASSUME NEW h \in S, f.origin_ts <= h.origin_ts PROVE h \in A
    <3>1. g.origin_ts - 1 < h.origin_ts /\ h.origin_ts <= x.origin_ts
      BY <1>3, <2>2, <2>3
    <3>2. h \in B
      BY <1>2, <3>1 DEF Between
    <3>3. QED
      BY <1>1, <1>2, <3>2
  <2>4. QED
    BY <2>2, <2>3 DEF Trail
<1>5. IsFiniteSet(Trail(S, A)) /\ Trail(S, A) \subseteq S
  <2>1. Trail(S, A) \subseteq S
    BY DEF Trail
  <2>2. QED
    BY <2>1, FS_Subset
<1>6. Cardinality(B) <= Cardinality(Trail(S, A))
  BY <1>4, <1>5, FS_Subset
<1>7. QED
  BY <1>1, <1>2, <1>6

\* Of finitely many forecasts one is oldest.
LEMMA OldestExists ==
    ASSUME NEW S \in SUBSET Forecast, IsFiniteSet(S), S # {}
    PROVE  \E g \in S : \A f \in S : g.origin_ts <= f.origin_ts
<1> DEFINE Older(g) == {f \in S : f.origin_ts < g.origin_ts}
           U == {Older(g) : g \in S}
<1>1. \A f \in S : f.origin_ts \in Nat
  BY ForecastType
<1>2. U \subseteq FiniteSubsetsOf(S) /\ U # {}
  <2>1. ASSUME NEW g \in S PROVE Older(g) \in FiniteSubsetsOf(S)
    BY FS_Subset DEF FiniteSubsetsOf
  <2>2. QED
    BY <2>1
<1>3. \E x \in U : \A y \in U : <<y, x>> \notin StrictSubsetOrdering(S)
  BY <1>2, FS_StrictSubsetOrderingWellFounded, WFMin
<1>4. PICK g \in S : \A f \in S : <<Older(f), Older(g)>> \notin StrictSubsetOrdering(S)
  BY <1>3
<1>5. ASSUME NEW f \in S, f.origin_ts < g.origin_ts PROVE FALSE
  <2>1. Older(f) \subseteq Older(g) /\ f \in Older(g) /\ f \notin Older(f)
    BY <1>1, <1>5
  <2>2. <<Older(f), Older(g)>> \in StrictSubsetOrdering(S)
    BY <2>1 DEF StrictSubsetOrdering
  <2>3. QED
    BY <1>4, <2>2
<1>6. QED
  BY <1>1, <1>5

\* The run all of them end with is a run that ends with the newest.
LEMMA TrailIsRun ==
    ASSUME NEW S \in SUBSET Forecast, IsFiniteSet(S), NEW x \in S, NEW A,
           \A g \in S : g.origin_ts <= x.origin_ts, Trail(S, A) # {}
    PROVE  RunIn(S, x, Cardinality(Trail(S, A)), A)
<1>1. Trail(S, A) \subseteq S /\ IsFiniteSet(Trail(S, A)) /\ Trail(S, A) \subseteq A
  <2>1. Trail(S, A) \subseteq S
    BY DEF Trail
  <2>2. Trail(S, A) \subseteq A
    <3>1. SUFFICES ASSUME NEW f \in Trail(S, A) PROVE f \in A
      OBVIOUS
    <3>2. f.origin_ts <= f.origin_ts
      BY <2>1, ForecastType
    <3>3. QED
      BY <3>2 DEF Trail
  <2>3. QED
    BY <2>1, <2>2, FS_Subset
<1>2. PICK g \in Trail(S, A) : \A f \in Trail(S, A) : g.origin_ts <= f.origin_ts
  BY <1>1, OldestExists
<1>3. \A f \in S : f.origin_ts \in Nat
  BY ForecastType
<1>4. Between(S, g.origin_ts - 1, x.origin_ts) = Trail(S, A)
  <2>1. ASSUME NEW f \in S
        PROVE  f \in Trail(S, A) <=> g.origin_ts - 1 < f.origin_ts
    <3>1. f \in Trail(S, A) => g.origin_ts - 1 < f.origin_ts
      BY <1>1, <1>2, <1>3
    <3>2. ASSUME g.origin_ts - 1 < f.origin_ts PROVE f \in Trail(S, A)
      <4>1. g.origin_ts <= f.origin_ts
        BY <1>1, <1>2, <1>3, <3>2
      <4>2. ASSUME NEW h \in S, f.origin_ts <= h.origin_ts PROVE h \in A
        <5>1. g.origin_ts <= h.origin_ts
          BY <1>1, <1>2, <1>3, <4>1, <4>2
        <5>2. QED
          BY <1>2, <4>2, <5>1 DEF Trail
      <4>3. QED
        BY <4>2 DEF Trail
    <3>3. QED
      BY <3>1, <3>2
  <2>2. QED
    BY <1>1, <2>1 DEF Between
<1>5. QED
  BY <1>1, <1>2, <1>4 DEF RunIn

\* A newer forecast does not change which runs the older ones end.
LEMMA RunOlder ==
    ASSUME NEW S \in SUBSET Forecast, NEW x \in Forecast, NEW f \in S, NEW A,
           NEW n \in Nat \ {0}, \A g \in S : g.origin_ts < x.origin_ts
    PROVE  RunIn(S \union {x}, f, n, A) <=> RunIn(S, f, n, A)
<1>1. /\ x.origin_ts \in Nat /\ \A g \in S : g.origin_ts \in Nat
      /\ f.origin_ts < x.origin_ts
  BY ForecastType
<1>2. \A t : Between(S \union {x}, t, f.origin_ts) = Between(S, t, f.origin_ts)
  BY <1>1 DEF Between
<1>3. Between(S, x.origin_ts - 1, f.origin_ts) = {}
  BY <1>1 DEF Between
<1>4. Cardinality({}) = 0
  BY FS_EmptySet
<1>5. QED
  BY <1>2, <1>3, <1>4 DEF RunIn

-----------------------------------------------------------------------------
\* The alert of a row whose forecasts are those of S and one that is newer.  Until the
\* debounce is complete the alert is None; the forecast that completes it is the
\* alert; and it stays.
LEMMA AlertStep ==
    ASSUME LeadTimeM > 0, NEW S \in SUBSET Forecast, IsFiniteSet(S), NEW x \in Forecast,
           \A g \in S : g.origin_ts < x.origin_ts,
           NEW r, AlertOf(r, S),
           r.first_alert_at = Never => Cardinality(Trail(S, Above)) < LeadTimeM,
           NEW q, q.first_alert_at =
              IF r.first_alert_at = Never /\ Cardinality(Trail(S \union {x}, Above)) >= LeadTimeM
              THEN x.origin_ts ELSE r.first_alert_at
    PROVE  /\ AlertOf(q, S \union {x})
           /\ q.first_alert_at = Never => Cardinality(Trail(S \union {x}, Above)) < LeadTimeM
<1> DEFINE R == S \union {x}
           old == {f \in S : RunIn(S, f, LeadTimeM, Above)}
           new == {f \in R : RunIn(R, f, LeadTimeM, Above)}
           n == Cardinality(Trail(R, Above))
<1>1. /\ R \in SUBSET Forecast /\ IsFiniteSet(R) /\ x \in R /\ x \notin S
      /\ x.origin_ts \in Nat /\ x.origin_ts > 0
      /\ \A g \in S : g.origin_ts \in Nat /\ g.origin_ts > 0
      /\ \A g \in R : g.origin_ts <= x.origin_ts
  <2>1. IsFiniteSet(R)
    BY FS_AddElement
  <2>2. /\ x.origin_ts \in Nat /\ x.origin_ts > 0
        /\ \A g \in S : g.origin_ts \in Nat /\ g.origin_ts > 0
    BY ForecastType
  <2>3. QED
    BY <2>1, <2>2
<1>2. LeadTimeM \in Nat \ {0}
  BY RulesAssumption DEF RulesAssumption
<1>3. \A f \in S : f \in new <=> f \in old
  BY <1>2, RunOlder
<1>4. /\ Cardinality(Trail(S, Above)) \in Nat /\ n \in Nat
      /\ n <= Cardinality(Trail(S, Above)) + 1
  <2>1. /\ Cardinality(Trail(S, Above)) \in Nat
        /\ n = IF x \in Above THEN Cardinality(Trail(S, Above)) + 1 ELSE 0
    BY TrailCounts
  <2>2. QED
    BY <2>1
<1>5. ASSUME RunIn(R, x, LeadTimeM, Above) PROVE n >= LeadTimeM
  BY <1>1, <1>2, <1>5, RunWithinTrail
<1>6. ASSUME n = LeadTimeM PROVE RunIn(R, x, LeadTimeM, Above)
  <2>1. Trail(R, Above) # {}
    BY <1>2, <1>6, FS_EmptySet
  <2>2. RunIn(R, x, n, Above)
    BY <1>1, <2>1, TrailIsRun
  <2>3. QED
    BY <1>6, <2>2
<1> HIDE DEF n
<1>7. CASE r.first_alert_at = Never
  <2>1. old = {}
    BY <1>1, <1>7 DEF AlertOf, Never
  <2>2. CASE n >= LeadTimeM
    <3>1. n = LeadTimeM
      BY <1>2, <1>4, <1>7, <2>2
    <3>2. new = {x}
      BY <1>3, <1>6, <2>1, <3>1
    <3>3. q.first_alert_at = x.origin_ts
      BY <1>7, <2>2 DEF n
    <3>4. q.first_alert_at # Never
      BY <1>1, <3>3 DEF Never
    <3>5. QED
      BY <1>1, <3>2, <3>3, <3>4 DEF AlertOf
  <2>3. CASE ~(n >= LeadTimeM)
    <3>1. new = {}
      BY <1>3, <1>5, <2>1, <2>3
    <3>2. q.first_alert_at = Never
      BY <1>7, <2>3 DEF n
    <3>3. n < LeadTimeM
      BY <1>2, <1>4, <2>3
    <3>4. QED
      BY <3>1, <3>2, <3>3 DEF AlertOf, n
  <2>4. QED
    BY <2>2, <2>3
<1>8. CASE r.first_alert_at # Never
  <2>1. q.first_alert_at = r.first_alert_at
    BY <1>8
  <2>2. PICK f \in old : /\ r.first_alert_at = f.origin_ts
                         /\ \A g \in old : f.origin_ts <= g.origin_ts
    BY <1>8 DEF AlertOf
  <2>3. f \in new /\ \A g \in new : f.origin_ts <= g.origin_ts
    BY <1>1, <1>3, <2>2
  <2>4. QED
    BY <1>8, <2>1, <2>2, <2>3 DEF AlertOf
<1>9. QED
  BY <1>7, <1>8

\* The end of a row: it stays open until the cool-down is complete, and the forecast
\* that completes it is the end.
LEMMA QuietStep ==
    ASSUME CloseAfter > 0, NEW S \in SUBSET Forecast, IsFiniteSet(S), NEW x \in Forecast,
           \A g \in S : g.origin_ts < x.origin_ts,
           NEW r, QuietOf(r, S), IsOpen(r), Cardinality(Trail(S, Quiet)) < CloseAfter,
           NEW q, q.ended_at =
              IF Cardinality(Trail(S \union {x}, Quiet)) >= CloseAfter THEN x.origin_ts ELSE Never
    PROVE  QuietOf(q, S \union {x})
<1> DEFINE R == S \union {x}
           old == {f \in S : RunIn(S, f, CloseAfter, Quiet)}
           new == {f \in R : RunIn(R, f, CloseAfter, Quiet)}
           n == Cardinality(Trail(R, Quiet))
<1>1. /\ R \in SUBSET Forecast /\ IsFiniteSet(R) /\ x \in R
      /\ x.origin_ts \in Nat /\ x.origin_ts > 0
      /\ \A g \in R : g.origin_ts <= x.origin_ts
  <2>1. IsFiniteSet(R)
    BY FS_AddElement
  <2>2. x.origin_ts \in Nat /\ x.origin_ts > 0 /\ \A g \in S : g.origin_ts \in Nat
    BY ForecastType
  <2>3. QED
    BY <2>1, <2>2
<1>2. CloseAfter \in Nat \ {0}
  BY RulesAssumption DEF RulesAssumption
<1>3. \A f \in S : f \in new <=> f \in old
  BY <1>2, RunOlder
<1>4. /\ Cardinality(Trail(S, Quiet)) \in Nat /\ n \in Nat
      /\ n <= Cardinality(Trail(S, Quiet)) + 1
  <2>1. /\ Cardinality(Trail(S, Quiet)) \in Nat
        /\ n = IF x \in Quiet THEN Cardinality(Trail(S, Quiet)) + 1 ELSE 0
    BY TrailCounts
  <2>2. QED
    BY <2>1
<1>5. ASSUME RunIn(R, x, CloseAfter, Quiet) PROVE n >= CloseAfter
  BY <1>1, <1>2, <1>5, RunWithinTrail
<1>6. ASSUME n = CloseAfter PROVE RunIn(R, x, CloseAfter, Quiet)
  <2>1. Trail(R, Quiet) # {}
    BY <1>2, <1>6, FS_EmptySet
  <2>2. RunIn(R, x, n, Quiet)
    BY <1>1, <2>1, TrailIsRun
  <2>3. QED
    BY <1>6, <2>2
<1> HIDE DEF n
<1>7. old = {}
  BY DEF QuietOf
<1>8. CASE n >= CloseAfter
  <2>1. n = CloseAfter
    BY <1>2, <1>4, <1>8
  <2>2. new = {x}
    BY <1>3, <1>6, <1>7, <2>1
  <2>3. q.ended_at = x.origin_ts /\ ~IsOpen(q)
    BY <1>1, <1>8 DEF n, IsOpen, Never
  <2>4. QED
    BY <2>2, <2>3 DEF QuietOf
<1>9. CASE ~(n >= CloseAfter)
  <2>1. new = {}
    BY <1>3, <1>5, <1>7, <1>9
  <2>2. IsOpen(q)
    BY <1>9 DEF n, IsOpen
  <2>3. QED
    BY <2>1, <2>2 DEF QuietOf
<1>10. QED
  BY <1>8, <1>9

\* The peak.
LEMMA PeakStep ==
    ASSUME NEW S \in SUBSET Forecast, NEW x \in Forecast, NEW r, PeakOf(r, S),
           NEW q, q.peak_risk = IF x.max_p_compromise > r.peak_risk
                                THEN x.max_p_compromise ELSE r.peak_risk
    PROVE  PeakOf(q, S \union {x})
<1>1. x.max_p_compromise \in Int /\ \A f \in S : f.max_p_compromise \in Int
  BY ForecastType
<1>2. PICK g \in S : g.max_p_compromise = r.peak_risk
  BY DEF PeakOf
<1>3. r.peak_risk \in Int
  BY <1>1, <1>2
<1>4. CASE x.max_p_compromise > r.peak_risk
  BY <1>1, <1>3, <1>4 DEF PeakOf
<1>5. CASE ~(x.max_p_compromise > r.peak_risk)
  BY <1>1, <1>2, <1>3, <1>5 DEF PeakOf
<1>6. QED
  BY <1>4, <1>5

-----------------------------------------------------------------------------
\* The three ways a forecast is folded in: it lies between episodes, it opens one, or
\* it belongs to the open one and may close it.
After(f, e) == [last_ts |-> f.origin_ts, episode |-> e]

FoldsBetween(f) ==
    /\ state.episode = NoEpisode /\ ~IsAbove(f)
    /\ state' = After(f, NoEpisode)
    /\ rows' = rows

FoldsOpening(f) ==
    /\ state.episode = NoEpisode /\ IsAbove(f)
    /\ state' = After(f, Opening(f, NewId))
    /\ rows' = [i \in DOMAIN rows \union {NewId} |->
                   IF i = NewId THEN RowOf(Opening(f, NewId), Never) ELSE rows[i]]

EndOf(e, f) == IF IsClosing(e, f) THEN f.origin_ts ELSE Never

FoldsInto(e, f) ==
    /\ state.episode = e /\ e # NoEpisode
    /\ state' = After(f, IF IsClosing(e, f) THEN NoEpisode ELSE Updated(e, f))
    /\ rows' = [i \in DOMAIN rows |->
                   IF i = Updated(e, f).id
                   THEN [RowOf(Updated(e, f), EndOf(e, f)) EXCEPT !.started_at = rows[i].started_at]
                   ELSE rows[i]]

\* The fields of an updated aggregate.
LEMMA UpdatedIs ==
    ASSUME NEW e \in OpenEpisode(Ts, Risk), NEW f \in Forecast, NEW u, u = Updated(e, f)
    PROVE  /\ u \in OpenEpisode(Ts, Risk)
           /\ u.id = e.id /\ u.started_at = e.started_at
           /\ u.peak_risk = IF f.max_p_compromise > e.peak_risk
                            THEN f.max_p_compromise ELSE e.peak_risk
           /\ u.above = IF IsAbove(f) THEN e.above + 1 ELSE 0
           /\ u.below = IF IsAbove(f) THEN 0 ELSE e.below + 1
           /\ u.first_alert_at = IF e.first_alert_at = Never /\ u.above >= LeadTimeM
                                 THEN f.origin_ts ELSE e.first_alert_at
<1>1. f.origin_ts \in Ts /\ f.max_p_compromise \in Risk
  BY ForecastType
<1>2. /\ e.id \in Nat \ {0} /\ e.started_at \in Ts /\ e.peak_risk \in Risk
      /\ e.first_alert_at \in Ts \union {Never} /\ e.above \in Nat /\ e.below \in Nat
      /\ e = [id |-> e.id, started_at |-> e.started_at, peak_risk |-> e.peak_risk,
              first_alert_at |-> e.first_alert_at, above |-> e.above, below |-> e.below]
  BY DEF OpenEpisode
<1>3. PICK a \in Nat, b \in Nat :
          /\ a = IF IsAbove(f) THEN e.above + 1 ELSE 0
          /\ b = IF IsAbove(f) THEN 0 ELSE e.below + 1
  BY <1>2
<1>4. u = [e EXCEPT
             !.peak_risk = IF f.max_p_compromise > @ THEN f.max_p_compromise ELSE @,
             !.above = a, !.below = b,
             !.first_alert_at = IF @ = Never /\ a >= LeadTimeM THEN f.origin_ts ELSE @]
  BY <1>3 DEF Updated
<1>5. /\ u.id = e.id /\ u.started_at = e.started_at /\ u.above = a /\ u.below = b
      /\ u.peak_risk = IF f.max_p_compromise > e.peak_risk
                       THEN f.max_p_compromise ELSE e.peak_risk
      /\ u.first_alert_at = IF e.first_alert_at = Never /\ a >= LeadTimeM
                            THEN f.origin_ts ELSE e.first_alert_at
  BY <1>2, <1>4 DEF OpenEpisode
<1>6. u \in OpenEpisode(Ts, Risk)
  BY <1>1, <1>2, <1>4 DEF OpenEpisode
<1>7. QED
  BY <1>3, <1>5, <1>6

\* `advance` and the write do one of the three.
LEMMA FoldIs ==
    ASSUME EpisodeTypeOK, NEW f \in Forecast, Fold(f)
    PROVE  /\ state.last_ts < f.origin_ts /\ state'.last_ts = f.origin_ts
           /\ seen' = seen \union {f}
           /\ FoldsBetween(f) \/ FoldsOpening(f) \/ FoldsInto(state.episode, f)
<1>1. PICK t : /\ t = advance(state, f, NewId) /\ t # NoTransition
               /\ state' = t.state /\ rows' = WriteEpisode(rows, t)
               /\ seen' = seen \union {f}
  BY DEF Fold
<1>2. ~IsStale(state, f)
  BY <1>1 DEF advance
<1>3. state.last_ts < f.origin_ts
  <2>1. /\ state.last_ts \in Ts \union {Never}
        /\ f.origin_ts \in Nat /\ f.origin_ts > 0
    BY ForecastType DEF EpisodeTypeOK, HostEpisodeState
  <2>2. state.last_ts \in Nat
    <3>1. CASE state.last_ts \in Ts
      BY <3>1, LifecycleAssumption DEF LifecycleAssumption
    <3>2. CASE state.last_ts = Never
      BY <3>2 DEF Never
    <3>3. QED
      BY <2>1, <3>1, <3>2
  <2>3. QED
    BY <1>2, <2>1, <2>2 DEF IsStale, Never
<1>4. CASE state.episode = NoEpisode /\ ~IsAbove(f)
  <2>1. t = Transition(NoEpisode, f, NoEpisode, "none", Never)
    BY <1>1, <1>2, <1>4 DEF advance
  <2>2. t.state = [last_ts |-> f.origin_ts, episode |-> NoEpisode] /\ t.write = "none"
    BY <2>1 DEF Transition
  <2>3. rows' = rows
    BY <1>1, <2>2 DEF WriteEpisode
  <2>4. QED
    BY <1>1, <1>3, <1>4, <2>2, <2>3 DEF FoldsBetween, After
<1>5. CASE state.episode = NoEpisode /\ IsAbove(f)
  <2>1. PICK e : e = Opening(f, NewId)
    OBVIOUS
  <2>2. t = Transition(e, f, e, "insert", Never) /\ e.id = NewId
    BY <1>1, <1>2, <1>5, <2>1 DEF advance, Opening
  <2>3. /\ t.state = [last_ts |-> f.origin_ts, episode |-> e] /\ t.write = "insert"
        /\ t.episode = e /\ t.ended_at = Never
    BY <2>2 DEF Transition
  <2>4. rows' = [i \in DOMAIN rows \union {NewId} |->
                    IF i = NewId THEN RowOf(e, Never) ELSE rows[i]]
    BY <1>1, <2>2, <2>3 DEF WriteEpisode
  <2>5. QED
    BY <1>1, <1>3, <1>5, <2>1, <2>3, <2>4 DEF FoldsOpening, After
<1>6. CASE state.episode # NoEpisode
  <2>1. PICK e, u : e = state.episode /\ u = Updated(e, f)
    OBVIOUS
  <2>2. t = Transition(IF IsClosing(e, f) THEN NoEpisode ELSE u, f, u, "update", EndOf(e, f))
    <3>1. CASE IsClosing(e, f)
      BY <1>1, <1>2, <1>6, <2>1, <3>1 DEF advance, EndOf
    <3>2. CASE ~IsClosing(e, f)
      BY <1>1, <1>2, <1>6, <2>1, <3>2 DEF advance, EndOf
    <3>3. QED
      BY <3>1, <3>2
  <2>3. /\ t.state = [last_ts |-> f.origin_ts,
                      episode |-> IF IsClosing(e, f) THEN NoEpisode ELSE u]
        /\ t.write = "update" /\ t.episode = u /\ t.ended_at = EndOf(e, f)
    BY <2>2 DEF Transition
  <2>4. rows' = [i \in DOMAIN rows |->
                    IF i = u.id
                    THEN [RowOf(u, EndOf(e, f)) EXCEPT !.started_at = rows[i].started_at]
                    ELSE rows[i]]
    BY <1>1, <2>3 DEF WriteEpisode
  <2>5. QED
    BY <1>1, <1>3, <1>6, <2>1, <2>3, <2>4 DEF FoldsInto, After
<1>7. QED
  BY <1>4, <1>5, <1>6

-----------------------------------------------------------------------------
\* What a fold meets: the forecasts that moved the state, and the rows, are older.
FoldMeets(f) ==
    /\ LifecycleInv /\ f \in Forecast
    /\ state.last_ts < f.origin_ts /\ state'.last_ts = f.origin_ts
    /\ seen' = seen \union {f}

\* A forecast that is folded is newer than all that was seen and than every row.
LEMMA OlderThan ==
    ASSUME NEW f, FoldMeets(f)
    PROVE  /\ f.origin_ts \in Ts /\ f.origin_ts \in Nat /\ f.origin_ts > 0
           /\ \A g \in seen : g \in Forecast /\ g.origin_ts \in Nat /\ g.origin_ts < f.origin_ts
           /\ \A i \in DOMAIN rows :
                 /\ rows[i] \in EpisodeRow(Ts, Risk)
                 /\ rows[i].started_at \in Nat /\ rows[i].started_at < f.origin_ts
                 /\ rows[i].ended_at \in Nat /\ rows[i].ended_at < f.origin_ts
<1>1. f.origin_ts \in Ts /\ f.origin_ts \in Nat /\ f.origin_ts > 0
  BY ForecastType DEF FoldMeets
<1>2. state.last_ts \in Nat /\ state.last_ts < f.origin_ts
  <2>1. state.last_ts \in Ts \union {Never}
    BY DEF FoldMeets, LifecycleInv, EpisodeTypeOK, HostEpisodeState
  <2>2. CASE state.last_ts \in Ts
    BY <2>2, LifecycleAssumption DEF LifecycleAssumption, FoldMeets
  <2>3. CASE state.last_ts = Never
    BY <2>3 DEF Never, FoldMeets
  <2>4. QED
    BY <2>1, <2>2, <2>3
<1>3. ASSUME NEW g \in seen
      PROVE  g \in Forecast /\ g.origin_ts \in Nat /\ g.origin_ts < f.origin_ts
  <2>1. g \in Forecast /\ g.origin_ts <= state.last_ts
    BY DEF FoldMeets, LifecycleInv, EpisodeTypeOK, SeenInv, Forecast
  <2>2. g.origin_ts \in Nat
    BY <2>1, ForecastType
  <2>3. QED
    BY <1>1, <1>2, <2>1, <2>2
<1>4. ASSUME NEW i \in DOMAIN rows
      PROVE  /\ rows[i] \in EpisodeRow(Ts, Risk)
             /\ rows[i].started_at \in Nat /\ rows[i].started_at < f.origin_ts
             /\ rows[i].ended_at \in Nat /\ rows[i].ended_at < f.origin_ts
  <2>1. /\ rows[i] \in EpisodeRow(Ts, Risk)
        /\ rows[i].started_at <= state.last_ts /\ rows[i].ended_at <= state.last_ts
    BY DEF FoldMeets, LifecycleInv, EpisodeTypeOK, SeenInv
  <2>2. rows[i].started_at \in Ts /\ rows[i].ended_at \in Ts \union {Never}
    BY <2>1 DEF EpisodeRow
  <2>3. rows[i].started_at \in Nat
    BY <2>2, LifecycleAssumption DEF LifecycleAssumption
  <2>4. rows[i].ended_at \in Nat
    <3>1. CASE rows[i].ended_at \in Ts
      BY <3>1, LifecycleAssumption DEF LifecycleAssumption
    <3>2. CASE rows[i].ended_at = Never
      BY <3>2 DEF Never
    <3>3. QED
      BY <2>2, <3>1, <3>2
  <2>5. QED
    BY <1>1, <1>2, <2>1, <2>3, <2>4
<1>5. QED
  BY <1>1, <1>3, <1>4

\* A forecast after the end of a row is not inside it.
LEMMA ClosedRowKept ==
    ASSUME NEW f, FoldMeets(f), NEW i \in DOMAIN rows, ~IsOpen(rows[i]), rows'[i] = rows[i]
    PROVE  /\ Inside(rows[i])' = Inside(rows[i])
           /\ RowInv(rows[i])'
<1>1. PICK r : r = rows[i]
  OBVIOUS
<1>2. ~Covers(r, f)
  BY <1>1, OlderThan DEF Covers
<1>3. Inside(r)' = Inside(r)
  BY <1>2 DEF Inside, FoldMeets
<1>4. RowInv(r)
  BY <1>1 DEF FoldMeets, LifecycleInv
<1>5. RowInv(r)'
  BY <1>3, <1>4 DEF RowInv
<1>6. r' = r /\ rows[i]' = r
  BY <1>1
<1>7. QED
  BY <1>1, <1>3, <1>5, <1>6

\* The forecasts inside the row of the open episode, after one more.
LEMMA OpenRowGrows ==
    ASSUME NEW f, FoldMeets(f), NEW i \in DOMAIN rows, IsOpen(rows[i]), NEW q,
           q.started_at = rows[i].started_at, q.ended_at \in {Never, f.origin_ts}
    PROVE  Inside(q)' = Inside(rows[i]) \union {f}
<1>1. PICK r : r = rows[i]
  OBVIOUS
<1>2. /\ f.origin_ts \in Nat /\ r.started_at \in Nat /\ r.started_at < f.origin_ts
      /\ \A g \in seen : g.origin_ts \in Nat /\ g.origin_ts < f.origin_ts
  BY <1>1, OlderThan
<1>3. \A g \in seen : Covers(q, g) <=> Covers(r, g)
  BY <1>1, <1>2 DEF Covers, IsOpen
<1>4. Covers(q, f)
  BY <1>1, <1>2 DEF Covers, IsOpen
<1>5. Inside(q)' = {g \in seen \union {f} : Covers(q, g)}
  BY DEF Inside, FoldMeets
<1>6. QED
  BY <1>1, <1>3, <1>4, <1>5 DEF Inside

\* The rows keep their numbers, and a new one takes the next.
LEMMA RowNumbers ==
    ASSUME LifecycleInv
    PROVE  \E n \in Nat : /\ DOMAIN rows = 1..n /\ NewId = n + 1
                          /\ DOMAIN rows \union {NewId} = 1..n + 1
<1>1. PICK n \in Nat : n = Cardinality(DOMAIN rows)
  BY FS_CardinalityType DEF LifecycleInv
<1>2. DOMAIN rows = 1..n /\ NewId = n + 1
  BY <1>1 DEF LifecycleInv, EpisodeTypeOK, NewId
<1>3. 1..n + 1 = (1..n) \union {n + 1}
  OBVIOUS
<1>4. QED
  BY <1>2, <1>3

\* With no episode open every row is closed, and the row of the open one is the last.
LEMMA WhichRowIsOpen ==
    ASSUME LifecycleInv, NEW i \in DOMAIN rows
    PROVE  IsOpen(rows[i]) <=> state.episode # NoEpisode /\ state.episode.id = i
BY DEF LifecycleInv, OneOpenRow

\* Rows are well typed in number as well as in kind.
LEMMA NumberedRows ==
    ASSUME NEW n \in Nat, DOMAIN rows' = 1..n
    PROVE  IsFiniteSet(DOMAIN rows') /\ DOMAIN rows' = 1..Cardinality(DOMAIN rows')
<1>1. IsFiniteSet(1..n) /\ Cardinality(1..n) = n
  <2>1. 1 \in Int /\ n \in Int
    OBVIOUS
  <2>2. IsFiniteSet(1..n) /\ Cardinality(1..n) = IF 1 > n THEN 0 ELSE n - 1 + 1
    BY <2>1, FS_Interval
  <2>3. QED
    BY <2>2
<1>2. QED
  BY <1>1

-----------------------------------------------------------------------------
\* What a new watermark does to the older rows and forecasts.
LEMMA SeenGrows ==
    ASSUME NEW f, FoldMeets(f),
           \A i \in DOMAIN rows' : /\ rows'[i].started_at <= f.origin_ts
                                   /\ rows'[i].ended_at <= f.origin_ts
    PROVE  SeenInv' /\ seen' \subseteq Summary(Ts, Risk)
<1>1. /\ seen' = seen \union {f} /\ f \in Forecast /\ state'.last_ts = f.origin_ts
      /\ IsFiniteSet(seen) /\ seen \subseteq Forecast
  BY DEF FoldMeets, LifecycleInv, SeenInv, EpisodeTypeOK, Forecast
<1>2. IsFiniteSet(seen')
  BY <1>1, FS_AddElement
<1>3. \A g \in seen' : g.origin_ts <= state'.last_ts
  BY <1>1, OlderThan
<1>4. QED
  BY <1>1, <1>2, <1>3 DEF SeenInv, Forecast

\* A forecast between episodes.
LEMMA BetweenKeeps ==
    ASSUME NEW f, FoldMeets(f), FoldsBetween(f)
    PROVE  LifecycleInv'
<1>1. /\ state.episode = NoEpisode /\ ~IsAbove(f) /\ rows' = rows
      /\ state' = [last_ts |-> f.origin_ts, episode |-> NoEpisode]
      /\ LifecycleInv /\ seen' = seen \union {f}
  BY DEF FoldsBetween, After, FoldMeets
<1>2. \A i \in DOMAIN rows : ~IsOpen(rows[i])
  BY <1>1, WhichRowIsOpen
<1>3. SeenInv' /\ seen' \subseteq Summary(Ts, Risk)
  BY <1>1, OlderThan, SeenGrows
<1>4. EpisodeTypeOK' /\ IsFiniteSet(DOMAIN rows)'
  <2>1. state' \in HostEpisodeState(Ts, Risk)
    BY <1>1, OlderThan DEF HostEpisodeState
  <2>2. QED
    BY <1>1, <1>3, <2>1 DEF LifecycleInv, EpisodeTypeOK
<1>5. OneOpenRow'
  BY <1>1, <1>2 DEF OneOpenRow
<1>6. EpisodesPartition'
  <2>1. \A i \in DOMAIN rows : \E g \in seen' : g.origin_ts = rows[i].started_at /\ IsAbove(g)
    BY <1>1 DEF LifecycleInv, EpisodesPartition
  <2>2. \A g \in seen' : IsAbove(g) => \E i \in DOMAIN rows : Covers(rows[i], g)
    BY <1>1 DEF LifecycleInv, EpisodesPartition
  <2>3. QED
    BY <1>1, <2>1, <2>2 DEF LifecycleInv, EpisodesPartition
<1>7. OpenInv'
  BY <1>1 DEF OpenInv
<1>8. ASSUME NEW i \in DOMAIN rows' PROVE RowInv(rows[i])'
  BY <1>1, <1>2, <1>8, ClosedRowKept
<1>9. QED
  BY <1>3, <1>4, <1>5, <1>6, <1>7, <1>8 DEF LifecycleInv

\* The aggregate that opens.
LEMMA OpeningIs ==
    ASSUME NEW f \in Forecast, NEW n \in Nat \ {0}, NEW o, o = Opening(f, n)
    PROVE  /\ o \in OpenEpisode(Ts, Risk) /\ o # NoEpisode /\ o.id = n
           /\ o.started_at = f.origin_ts /\ o.peak_risk = f.max_p_compromise
           /\ o.first_alert_at = IF LeadTimeM <= 1 THEN f.origin_ts ELSE Never
           /\ o.above = 1 /\ o.below = 0
<1>1. f.origin_ts \in Ts /\ f.max_p_compromise \in Risk
  BY ForecastType
<1>2. o = [id |-> n, started_at |-> f.origin_ts, peak_risk |-> f.max_p_compromise,
           first_alert_at |-> IF LeadTimeM <= 1 THEN f.origin_ts ELSE Never,
           above |-> 1, below |-> 0]
  BY DEF Opening
<1>3. o \in OpenEpisode(Ts, Risk)
  BY <1>1, <1>2 DEF OpenEpisode
<1>4. o # NoEpisode
  BY <1>3 DEF OpenEpisode, NoEpisode
<1>5. QED
  BY <1>2, <1>3, <1>4

\* The row of an episode that just opened has one forecast inside.
LEMMA FirstForecast ==
    ASSUME LeadTimeM > 0, CloseAfter > 0, NEW f \in Forecast, IsAbove(f),
           NEW q, q.first_alert_at = IF LeadTimeM <= 1 THEN f.origin_ts ELSE Never,
           q.ended_at = Never, q.peak_risk = f.max_p_compromise
    PROVE  /\ AlertOf(q, {f}) /\ QuietOf(q, {f}) /\ PeakOf(q, {f})
           /\ Cardinality(Trail({f}, Above)) = 1 /\ Cardinality(Trail({f}, Quiet)) = 0
           /\ q.first_alert_at = Never => 1 < LeadTimeM
<1>1. /\ {} \in SUBSET Forecast /\ IsFiniteSet({}) /\ Cardinality({}) = 0
      /\ {} \union {f} = {f} /\ f \in Above /\ f \notin Quiet
      /\ f.origin_ts \in Nat /\ f.origin_ts > 0 /\ f.max_p_compromise \in Int
      /\ LeadTimeM \in Nat /\ CloseAfter \in Nat
  BY FS_EmptySet, ForecastType, RulesAssumption DEF RulesAssumption
<1>2. \A A : Trail({}, A) = {}
  BY DEF Trail
<1>3. Cardinality(Trail({f}, Above)) = 1
  <2>1. Cardinality(Trail({} \union {f}, Above)) = Cardinality(Trail({}, Above)) + 1
    BY <1>1, TrailCounts
  <2>2. QED
    BY <1>1, <1>2, <2>1
<1>4. Cardinality(Trail({f}, Quiet)) = 0
  <2>1. Cardinality(Trail({} \union {f}, Quiet)) = 0
    BY <1>1, TrailCounts
  <2>2. QED
    BY <1>1, <2>1
<1>5. AlertOf(q, {f}) /\ (q.first_alert_at = Never => 1 < LeadTimeM)
  <2>1. PICK r : r = [first_alert_at |-> Never]
    OBVIOUS
  <2>2. AlertOf(r, {})
    BY <2>1 DEF AlertOf
  <2>3. /\ r.first_alert_at = Never /\ Cardinality(Trail({}, Above)) < LeadTimeM
    BY <1>1, <1>2, <2>1
  <2>4. q.first_alert_at =
           IF r.first_alert_at = Never /\ Cardinality(Trail({} \union {f}, Above)) >= LeadTimeM
           THEN f.origin_ts ELSE r.first_alert_at
    BY <1>1, <1>3, <2>3
  <2>5. AlertOf(q, {} \union {f})
    BY <1>1, <2>2, <2>3, <2>4, AlertStep
  <2>6. q.first_alert_at = Never => 1 < LeadTimeM
    BY <1>1 DEF Never
  <2>7. QED
    BY <1>1, <2>5, <2>6
<1>6. QuietOf(q, {f})
  <2>1. PICK r : r = [ended_at |-> Never]
    OBVIOUS
  <2>2. QuietOf(r, {}) /\ IsOpen(r)
    BY <2>1 DEF QuietOf, IsOpen
  <2>3. Cardinality(Trail({}, Quiet)) < CloseAfter
    BY <1>1, <1>2
  <2>4. q.ended_at = IF Cardinality(Trail({} \union {f}, Quiet)) >= CloseAfter
                     THEN f.origin_ts ELSE Never
    BY <1>1, <1>4
  <2>5. QuietOf(q, {} \union {f})
    BY <1>1, <2>2, <2>3, <2>4, QuietStep
  <2>6. QED
    BY <1>1, <2>5
<1>7. PeakOf(q, {f})
  BY <1>1 DEF PeakOf
<1>8. QED
  BY <1>3, <1>4, <1>5, <1>6, <1>7

\* A forecast that opens an episode.
LEMMA OpeningKeeps ==
    ASSUME LeadTimeM > 0, CloseAfter > 0, NEW f, FoldMeets(f), FoldsOpening(f)
    PROVE  LifecycleInv'
<1>1. /\ state.episode = NoEpisode /\ IsAbove(f) /\ f \in Forecast
      /\ LifecycleInv /\ seen' = seen \union {f}
  BY DEF FoldsOpening, FoldMeets
<1>2. PICK n \in Nat : DOMAIN rows = 1..n /\ NewId = n + 1 /\ DOMAIN rows \union {NewId} = 1..n + 1
  BY <1>1, RowNumbers
<1>3. PICK m \in Nat \ {0} : m = n + 1
  BY <1>2
<1>4. PICK o, q : o = Opening(f, m) /\ q = RowOf(o, Never)
  OBVIOUS
<1>5. /\ o \in OpenEpisode(Ts, Risk) /\ o # NoEpisode /\ o.id = m
      /\ o.started_at = f.origin_ts /\ o.peak_risk = f.max_p_compromise
      /\ o.first_alert_at = IF LeadTimeM <= 1 THEN f.origin_ts ELSE Never
      /\ o.above = 1 /\ o.below = 0
  BY <1>1, <1>4, OpeningIs
<1>6. /\ q.started_at = f.origin_ts /\ q.ended_at = Never /\ IsOpen(q)
      /\ q.peak_risk = f.max_p_compromise /\ q.first_alert_at = o.first_alert_at
      /\ q \in EpisodeRow(Ts, Risk)
  BY <1>4, <1>5 DEF RowOf, IsOpen, EpisodeRow, OpenEpisode
<1>7. /\ state' = [last_ts |-> f.origin_ts, episode |-> o]
      /\ rows' = [i \in 1..m |-> IF i = m THEN q ELSE rows[i]]
  BY <1>2, <1>3, <1>4 DEF FoldsOpening, After
<1>8. /\ DOMAIN rows' = 1..m /\ m \notin DOMAIN rows
      /\ rows'[m] = q
      /\ \A i \in DOMAIN rows : i \in 1..m /\ rows'[i] = rows[i] /\ i < m
      /\ \A i \in 1..m : i \in DOMAIN rows \/ i = m
  BY <1>2, <1>3, <1>7
<1>9. \A i \in DOMAIN rows : ~IsOpen(rows[i])
  BY <1>1, WhichRowIsOpen
<1>10. /\ f.origin_ts \in Ts /\ f.origin_ts \in Nat /\ f.origin_ts > 0
       /\ \A g \in seen : g \in Forecast /\ g.origin_ts \in Nat /\ g.origin_ts < f.origin_ts
       /\ \A i \in DOMAIN rows :
             /\ rows[i] \in EpisodeRow(Ts, Risk)
             /\ rows[i].started_at \in Nat /\ rows[i].started_at < f.origin_ts
             /\ rows[i].ended_at \in Nat /\ rows[i].ended_at < f.origin_ts
  BY OlderThan
<1>11. SeenInv' /\ seen' \subseteq Summary(Ts, Risk)
  <2>1. ASSUME NEW i \in DOMAIN rows'
        PROVE  rows'[i].started_at <= f.origin_ts /\ rows'[i].ended_at <= f.origin_ts
    <3>1. CASE i \in DOMAIN rows
      BY <1>8, <1>10, <3>1
    <3>2. CASE i = m
      BY <1>6, <1>8, <1>10, <3>2 DEF Never
    <3>3. QED
      BY <1>8, <3>1, <3>2
  <2>2. QED
    BY <2>1, SeenGrows
<1>12. EpisodeTypeOK' /\ IsFiniteSet(DOMAIN rows)'
  <2>1. state' \in HostEpisodeState(Ts, Risk)
    BY <1>5, <1>7, <1>10 DEF HostEpisodeState
  <2>2. \A i \in DOMAIN rows' : rows'[i] \in EpisodeRow(Ts, Risk)
    BY <1>6, <1>8, <1>10
  <2>3. IsFiniteSet(DOMAIN rows') /\ DOMAIN rows' = 1..Cardinality(DOMAIN rows')
    BY <1>8, NumberedRows
  <2>4. QED
    BY <1>11, <2>1, <2>2, <2>3 DEF EpisodeTypeOK
<1>13. OneOpenRow'
  <2>1. state'.episode = o
    BY <1>7
  <2>2. \A i \in DOMAIN rows' : IsOpen(rows'[i]) <=> i = m
    BY <1>6, <1>8, <1>9
  <2>3. QED
    BY <1>5, <2>1, <2>2 DEF OneOpenRow
<1>14. EpisodesPartition'
  <2>1. \A i, j \in DOMAIN rows' :
           i < j => ~IsOpen(rows'[i]) /\ rows'[i].ended_at < rows'[j].started_at
    <3>1. SUFFICES ASSUME NEW i \in DOMAIN rows', NEW j \in DOMAIN rows', i < j
                   PROVE  ~IsOpen(rows'[i]) /\ rows'[i].ended_at < rows'[j].started_at
      OBVIOUS
    <3>2. i \in DOMAIN rows /\ (j \in DOMAIN rows \/ j = m)
      BY <1>3, <1>8, <3>1
    <3>3. CASE j \in DOMAIN rows
      BY <1>1, <1>8, <3>1, <3>2, <3>3 DEF LifecycleInv, EpisodesPartition
    <3>4. CASE j = m
      BY <1>6, <1>8, <1>9, <1>10, <3>2, <3>4
    <3>5. QED
      BY <3>2, <3>3, <3>4
  <2>2. ASSUME NEW g \in seen', IsAbove(g) PROVE \E i \in DOMAIN rows' : Covers(rows'[i], g)
    <3>1. CASE g \in seen
      <4>1. PICK i \in DOMAIN rows : Covers(rows[i], g)
        BY <1>1, <2>2, <3>1 DEF LifecycleInv, EpisodesPartition
      <4>2. QED
        BY <1>8, <4>1
    <3>2. CASE g = f
      <4>1. Covers(q, f)
        BY <1>6, <1>10 DEF Covers
      <4>2. m \in DOMAIN rows'
        BY <1>3, <1>8
      <4>3. QED
        BY <1>8, <3>2, <4>1, <4>2
    <3>3. QED
      BY <1>1, <2>2, <3>1, <3>2
  <2>3. ASSUME NEW i \in DOMAIN rows'
        PROVE  \E g \in seen' : g.origin_ts = rows'[i].started_at /\ IsAbove(g)
    <3>1. CASE i \in DOMAIN rows
      BY <1>1, <1>8, <3>1 DEF LifecycleInv, EpisodesPartition
    <3>2. CASE i = m
      BY <1>1, <1>6, <1>8, <3>2
    <3>3. QED
      BY <1>8, <3>1, <3>2
  <2>4. QED
    BY <2>1, <2>2, <2>3 DEF EpisodesPartition
<1>15. Inside(q)' = {f}
  <2>1. \A g \in seen : ~Covers(q, g)
    BY <1>6, <1>10 DEF Covers
  <2>2. Covers(q, f)
    BY <1>6, <1>10 DEF Covers
  <2>3. Inside(q)' = {g \in seen \union {f} : Covers(q, g)}
    BY <1>1 DEF Inside
  <2>4. QED
    BY <2>1, <2>2, <2>3
<1>16. /\ AlertOf(q, {f}) /\ QuietOf(q, {f}) /\ PeakOf(q, {f})
       /\ Cardinality(Trail({f}, Above)) = 1 /\ Cardinality(Trail({f}, Quiet)) = 0
       /\ q.first_alert_at = Never => 1 < LeadTimeM
  BY <1>1, <1>5, <1>6, FirstForecast
<1>17. OpenInv'
  <2>1. state'.episode = o /\ rows'[o.id] = q /\ o.id \in DOMAIN rows' /\ o.id = m
    BY <1>3, <1>5, <1>7, <1>8
  <2>2. Inside(rows[state.episode.id])' = {f}
    BY <1>15, <2>1
  <2>3. QED
    BY <1>4, <1>5, <1>6, <1>16, <2>1, <2>2 DEF OpenInv
<1>18. ASSUME NEW i \in DOMAIN rows' PROVE RowInv(rows[i])'
  <2>1. CASE i \in DOMAIN rows
    <3>1. RowInv(rows[i])'
      BY <1>8, <1>9, <2>1, ClosedRowKept
    <3>2. QED
      BY <3>1
  <2>2. CASE i = m
    <3>1. RowInv(q)'
      BY <1>15, <1>16 DEF RowInv
    <3>2. rows[i]' = q
      BY <1>8, <2>2
    <3>3. QED
      BY <3>1, <3>2
  <2>3. QED
    BY <1>8, <1>18, <2>1, <2>2
<1>19. QED
  BY <1>11, <1>12, <1>13, <1>14, <1>17, <1>18 DEF LifecycleInv

\* What the row of the open episode becomes with a forecast of it.
LEMMA IntoRow ==
    ASSUME NEW f, FoldMeets(f), NEW e, FoldsInto(e, f), NEW u, u = Updated(e, f), NEW i, i = e.id
    PROVE  /\ i \in DOMAIN rows /\ IsOpen(rows[i]) /\ DOMAIN rows' = DOMAIN rows
           /\ rows[i] = RowOf(e, Never) /\ e \in OpenEpisode(Ts, Risk)
           /\ rows'[i] = RowOf(u, EndOf(e, f))
           /\ \A j \in DOMAIN rows : j # i => ~IsOpen(rows[j]) /\ rows'[j] = rows[j]
<1>1. /\ state.episode = e /\ e # NoEpisode /\ LifecycleInv
      /\ rows' = [j \in DOMAIN rows |->
                     IF j = u.id
                     THEN [RowOf(u, EndOf(e, f)) EXCEPT !.started_at = rows[j].started_at]
                     ELSE rows[j]]
  BY DEF FoldsInto, FoldMeets
<1>2. e \in OpenEpisode(Ts, Risk)
  BY <1>1 DEF LifecycleInv, EpisodeTypeOK, HostEpisodeState
<1>3. u.id = i /\ u.started_at = e.started_at
  BY <1>2, UpdatedIs DEF FoldMeets
<1>4. i \in DOMAIN rows /\ rows[i] = RowOf(e, Never)
  BY <1>1 DEF LifecycleInv, OpenInv
<1>5. IsOpen(rows[i]) /\ \A j \in DOMAIN rows : j # i => ~IsOpen(rows[j])
  BY <1>1, <1>4, WhichRowIsOpen
<1>6. rows[i].started_at = u.started_at
  BY <1>3, <1>4 DEF RowOf
<1>7. [RowOf(u, EndOf(e, f)) EXCEPT !.started_at = u.started_at] = RowOf(u, EndOf(e, f))
  BY DEF RowOf
<1>8. rows'[i] = RowOf(u, EndOf(e, f))
  BY <1>1, <1>3, <1>4, <1>6, <1>7
<1>9. \A j \in DOMAIN rows : j # i => rows'[j] = rows[j]
  BY <1>1, <1>3
<1>10. QED
  BY <1>1, <1>2, <1>4, <1>5, <1>8, <1>9

\* What the episode promises of its row still holds with the forecast inside.
LEMMA IntoPromise ==
    ASSUME LeadTimeM > 0, CloseAfter > 0, NEW f, FoldMeets(f), NEW e, FoldsInto(e, f),
           NEW u, u = Updated(e, f), NEW r, r = RowOf(e, Never),
           NEW q, q = RowOf(u, EndOf(e, f)), NEW S, S = Inside(r)
    PROVE  /\ AlertOf(q, S \union {f}) /\ QuietOf(q, S \union {f}) /\ PeakOf(q, S \union {f})
           /\ u.above = Cardinality(Trail(S \union {f}, Above))
           /\ u.below = Cardinality(Trail(S \union {f}, Quiet))
           /\ u.first_alert_at = Never => u.above < LeadTimeM
           /\ IsClosing(e, f) <=> u.below >= CloseAfter
<1>1. /\ state.episode = e /\ e # NoEpisode /\ LifecycleInv /\ f \in Forecast
  BY DEF FoldsInto, FoldMeets
<1>2. e.id \in DOMAIN rows /\ rows[e.id] = r /\ IsOpen(r) /\ e \in OpenEpisode(Ts, Risk)
  BY IntoRow
<1>3. /\ e.above = Cardinality(Trail(S, Above))
      /\ e.below = Cardinality(Trail(S, Quiet))
      /\ e.first_alert_at = Never => e.above < LeadTimeM
      /\ e.below < CloseAfter
  BY <1>1, <1>2 DEF LifecycleInv, OpenInv
<1>4. AlertOf(r, S) /\ QuietOf(r, S) /\ PeakOf(r, S)
  BY <1>1, <1>2 DEF LifecycleInv, RowInv
<1>5. /\ S \in SUBSET Forecast /\ IsFiniteSet(S) /\ \A g \in S : g.origin_ts < f.origin_ts
  <2>1. S \subseteq seen
    BY DEF Inside
  <2>2. IsFiniteSet(seen)
    BY <1>1 DEF LifecycleInv, SeenInv
  <2>3. QED
    BY <2>1, <2>2, OlderThan, FS_Subset
<1>6. /\ u.peak_risk = IF f.max_p_compromise > e.peak_risk
                       THEN f.max_p_compromise ELSE e.peak_risk
      /\ u.above = IF IsAbove(f) THEN e.above + 1 ELSE 0
      /\ u.below = IF IsAbove(f) THEN 0 ELSE e.below + 1
      /\ u.first_alert_at = IF e.first_alert_at = Never /\ u.above >= LeadTimeM
                            THEN f.origin_ts ELSE e.first_alert_at
  BY <1>1, <1>2, UpdatedIs
<1>7. /\ f \in Above <=> IsAbove(f)
      /\ f \in Quiet <=> ~IsAbove(f)
  BY <1>1, ForecastType
<1>8. u.above = Cardinality(Trail(S \union {f}, Above))
  BY <1>1, <1>3, <1>5, <1>6, <1>7, TrailCounts
<1>9. u.below = Cardinality(Trail(S \union {f}, Quiet))
  BY <1>1, <1>3, <1>5, <1>6, <1>7, TrailCounts
<1>10. /\ r.first_alert_at = e.first_alert_at /\ r.peak_risk = e.peak_risk
       /\ q.first_alert_at = u.first_alert_at /\ q.peak_risk = u.peak_risk
       /\ q.ended_at = EndOf(e, f)
  BY DEF RowOf
<1>11. IsClosing(e, f) <=> u.below >= CloseAfter
  <2>1. IsAbove(f) => ~(u.below >= CloseAfter)
    BY <1>6, RulesAssumption DEF RulesAssumption
  <2>2. QED
    BY <2>1 DEF IsClosing
<1>12. AlertOf(q, S \union {f}) /\ (q.first_alert_at = Never => u.above < LeadTimeM)
  BY <1>1, <1>3, <1>4, <1>5, <1>6, <1>8, <1>10, AlertStep
<1>13. QuietOf(q, S \union {f})
  <2>1. q.ended_at = IF Cardinality(Trail(S \union {f}, Quiet)) >= CloseAfter
                     THEN f.origin_ts ELSE Never
    BY <1>9, <1>10, <1>11 DEF EndOf
  <2>2. QED
    BY <1>1, <1>2, <1>3, <1>4, <1>5, <2>1, QuietStep
<1>14. PeakOf(q, S \union {f})
  BY <1>1, <1>4, <1>5, <1>6, <1>10, PeakStep
<1>15. QED
  BY <1>8, <1>9, <1>10, <1>11, <1>12, <1>13, <1>14

\* A forecast of the open episode.
LEMMA IntoKeeps ==
    ASSUME LeadTimeM > 0, CloseAfter > 0, NEW f, FoldMeets(f), NEW e, FoldsInto(e, f)
    PROVE  LifecycleInv'
<1>1. PICK i, u, r, q, S : /\ i = e.id /\ u = Updated(e, f) /\ r = RowOf(e, Never)
                           /\ q = RowOf(u, EndOf(e, f)) /\ S = Inside(r)
  OBVIOUS
<1>2. /\ state.episode = e /\ e # NoEpisode /\ LifecycleInv /\ f \in Forecast
      /\ state' = [last_ts |-> f.origin_ts,
                   episode |-> IF IsClosing(e, f) THEN NoEpisode ELSE u]
      /\ seen' = seen \union {f}
  BY <1>1 DEF FoldsInto, FoldMeets, After
<1>3. /\ i \in DOMAIN rows /\ IsOpen(r) /\ DOMAIN rows' = DOMAIN rows
      /\ rows[i] = r /\ rows'[i] = q /\ e \in OpenEpisode(Ts, Risk)
      /\ \A j \in DOMAIN rows : j # i => ~IsOpen(rows[j]) /\ rows'[j] = rows[j]
  BY <1>1, IntoRow
<1>4. /\ AlertOf(q, S \union {f}) /\ QuietOf(q, S \union {f}) /\ PeakOf(q, S \union {f})
      /\ u.above = Cardinality(Trail(S \union {f}, Above))
      /\ u.below = Cardinality(Trail(S \union {f}, Quiet))
      /\ u.first_alert_at = Never => u.above < LeadTimeM
      /\ IsClosing(e, f) <=> u.below >= CloseAfter
  BY <1>1, IntoPromise
<1>5. /\ u \in OpenEpisode(Ts, Risk) /\ u.id = i /\ u.started_at = e.started_at
      /\ u # NoEpisode
  <2>1. u \in OpenEpisode(Ts, Risk) /\ u.id = i /\ u.started_at = e.started_at
    BY <1>1, <1>2, <1>3, UpdatedIs
  <2>2. QED
    BY <2>1 DEF OpenEpisode, NoEpisode
<1>6. /\ f.origin_ts \in Ts /\ f.origin_ts \in Nat /\ f.origin_ts > 0
      /\ \A g \in seen : g \in Forecast /\ g.origin_ts \in Nat /\ g.origin_ts < f.origin_ts
      /\ \A j \in DOMAIN rows :
            /\ rows[j] \in EpisodeRow(Ts, Risk)
            /\ rows[j].started_at \in Nat /\ rows[j].started_at < f.origin_ts
            /\ rows[j].ended_at \in Nat /\ rows[j].ended_at < f.origin_ts
  BY OlderThan
<1>7. /\ q.started_at = r.started_at /\ q.ended_at = EndOf(e, f)
      /\ q.ended_at \in {Never, f.origin_ts}
      /\ IsOpen(q) <=> ~IsClosing(e, f)
      /\ q \in EpisodeRow(Ts, Risk)
  <2>1. /\ q.started_at = r.started_at /\ q.ended_at = EndOf(e, f)
        /\ q.ended_at \in {Never, f.origin_ts}
    BY <1>1, <1>5 DEF RowOf, EndOf
  <2>2. IsOpen(q) <=> ~IsClosing(e, f)
    BY <1>6, <2>1 DEF IsOpen, EndOf, Never
  <2>3. q \in EpisodeRow(Ts, Risk)
    <3>1. EndOf(e, f) \in Ts \union {Never}
      BY <1>6 DEF EndOf
    <3>2. QED
      BY <1>1, <1>5, <3>1 DEF RowOf, EpisodeRow, OpenEpisode
  <2>4. QED
    BY <2>1, <2>2, <2>3
<1>8. r.started_at \in Nat /\ r.started_at < f.origin_ts
  BY <1>3, <1>6
<1>9. Inside(q)' = S \union {f}
  BY <1>1, <1>3, <1>7, OpenRowGrows
<1>10. SeenInv' /\ seen' \subseteq Summary(Ts, Risk)
  <2>1. ASSUME NEW j \in DOMAIN rows'
        PROVE  rows'[j].started_at <= f.origin_ts /\ rows'[j].ended_at <= f.origin_ts
    <3>1. CASE j = i
      BY <1>3, <1>6, <1>7, <1>8, <3>1 DEF Never
    <3>2. CASE j # i
      BY <1>3, <1>6, <2>1, <3>2
    <3>3. QED
      BY <3>1, <3>2
  <2>2. QED
    BY <2>1, SeenGrows
<1>11. EpisodeTypeOK' /\ IsFiniteSet(DOMAIN rows)'
  <2>1. state' \in HostEpisodeState(Ts, Risk)
    BY <1>2, <1>5, <1>6 DEF HostEpisodeState
  <2>2. \A j \in DOMAIN rows' : rows'[j] \in EpisodeRow(Ts, Risk)
    BY <1>3, <1>6, <1>7
  <2>3. IsFiniteSet(DOMAIN rows') /\ DOMAIN rows' = 1..Cardinality(DOMAIN rows')
    BY <1>2, <1>3 DEF LifecycleInv, EpisodeTypeOK
  <2>4. QED
    BY <1>10, <2>1, <2>2, <2>3 DEF EpisodeTypeOK
<1>12. OneOpenRow'
  <2>1. \A j \in DOMAIN rows' : IsOpen(rows'[j]) <=> ~IsClosing(e, f) /\ j = i
    BY <1>3, <1>7
  <2>2. state'.episode = IF IsClosing(e, f) THEN NoEpisode ELSE u
    BY <1>2
  <2>3. QED
    BY <1>5, <2>1, <2>2 DEF OneOpenRow
<1>13. EpisodesPartition'
  <2>1. ASSUME NEW j \in DOMAIN rows', NEW k \in DOMAIN rows', j < k
        PROVE  ~IsOpen(rows'[j]) /\ rows'[j].ended_at < rows'[k].started_at
    <3>1. ~IsOpen(rows[j]) /\ rows[j].ended_at < rows[k].started_at
      BY <1>2, <1>3, <2>1 DEF LifecycleInv, EpisodesPartition
    <3>2. rows'[j] = rows[j] /\ rows'[k].started_at = rows[k].started_at
      BY <1>3, <1>7, <2>1, <3>1
    <3>3. QED
      BY <3>1, <3>2
  <2>2. ASSUME NEW g \in seen', IsAbove(g) PROVE \E j \in DOMAIN rows' : Covers(rows'[j], g)
    <3>1. CASE g \in seen
      <4>1. PICK j \in DOMAIN rows : Covers(rows[j], g)
        BY <1>2, <2>2, <3>1 DEF LifecycleInv, EpisodesPartition
      <4>2. CASE j = i
        <5>1. Covers(q, g)
          BY <1>3, <1>6, <1>7, <3>1, <4>1, <4>2 DEF Covers, IsOpen
        <5>2. QED
          BY <1>3, <5>1
      <4>3. CASE j # i
        BY <1>3, <4>1, <4>3
      <4>4. QED
        BY <4>2, <4>3
    <3>2. CASE g = f
      <4>1. IsOpen(q)
        BY <1>7, <2>2, <3>2 DEF IsClosing
      <4>2. Covers(q, g)
        BY <1>6, <1>7, <1>8, <3>2, <4>1 DEF Covers
      <4>3. QED
        BY <1>3, <4>2
    <3>3. QED
      BY <1>2, <2>2, <3>1, <3>2
  <2>3. ASSUME NEW j \in DOMAIN rows'
        PROVE  \E g \in seen' : g.origin_ts = rows'[j].started_at /\ IsAbove(g)
    <3>1. rows'[j].started_at = rows[j].started_at
      BY <1>3, <1>7, <2>3
    <3>2. QED
      BY <1>2, <1>3, <2>3, <3>1 DEF LifecycleInv, EpisodesPartition
  <2>4. QED
    BY <2>1, <2>2, <2>3 DEF EpisodesPartition
<1>14. OpenInv'
  <2>1. CASE IsClosing(e, f)
    BY <1>2, <2>1 DEF OpenInv
  <2>2. CASE ~IsClosing(e, f)
    <3>1. state'.episode = u /\ rows'[u.id] = q /\ u.id \in DOMAIN rows'
      BY <1>2, <1>3, <1>5, <2>2
    <3>2. q = RowOf(u, Never)
      BY <1>1, <2>2 DEF EndOf
    <3>3. Inside(rows[state.episode.id])' = S \union {f}
      BY <1>9, <3>1
    <3>4. u.below < CloseAfter
      <4>1. u.below \in Nat /\ CloseAfter \in Nat
        BY <1>5, RulesAssumption DEF RulesAssumption, OpenEpisode
      <4>2. QED
        BY <1>4, <2>2, <4>1
    <3>5. QED
      BY <1>4, <3>1, <3>2, <3>3, <3>4 DEF OpenInv
  <2>3. QED
    BY <2>1, <2>2
<1>15. ASSUME NEW j \in DOMAIN rows' PROVE RowInv(rows[j])'
  <2>1. CASE j = i
    <3>1. RowInv(q)'
      BY <1>4, <1>9 DEF RowInv
    <3>2. rows[j]' = q
      BY <1>3, <2>1
    <3>3. QED
      BY <3>1, <3>2
  <2>2. CASE j # i
    BY <1>3, <1>15, <2>2, ClosedRowKept
  <2>3. QED
    BY <2>1, <2>2
<1>16. QED
  BY <1>10, <1>11, <1>12, <1>13, <1>14, <1>15 DEF LifecycleInv

-----------------------------------------------------------------------------
\* No forecast yet.
LEMMA InitLifecycleInv == EpisodeInit => LifecycleInv
<1> SUFFICES ASSUME EpisodeInit PROVE LifecycleInv
  OBVIOUS
<1>1. state = FreshState /\ rows = <<>> /\ seen = {}
  BY DEF EpisodeInit
<1>2. /\ DOMAIN rows = {} /\ IsFiniteSet({}) /\ Cardinality({}) = 0
      /\ state.episode = NoEpisode /\ state.last_ts = Never
  BY <1>1, FS_EmptySet DEF FreshState
<1>3. EpisodeTypeOK
  BY <1>1, <1>2 DEF EpisodeTypeOK, FreshState, HostEpisodeState
<1>4. OneOpenRow /\ EpisodesPartition /\ SeenInv /\ OpenInv
  BY <1>1, <1>2 DEF OneOpenRow, EpisodesPartition, SeenInv, OpenInv
<1>5. QED
  BY <1>2, <1>3, <1>4 DEF LifecycleInv

\* A step folds a forecast in, in one of the three ways, or changes nothing.
LEMMA StepFolds ==
    ASSUME LifecycleInv, EpisodeNext
    PROVE  \/ \E f \in Forecast : /\ FoldMeets(f)
                                  /\ \/ FoldsBetween(f) \/ FoldsOpening(f)
                                     \/ FoldsInto(state.episode, f)
           \/ UNCHANGED lifecycleVars
<1>1. PICK f \in Forecast : Fold(f) \/ Skip(f)
  BY DEF EpisodeNext, Forecast
<1>2. CASE Fold(f)
  <2>1. EpisodeTypeOK
    BY DEF LifecycleInv
  <2>2. /\ state.last_ts < f.origin_ts /\ state'.last_ts = f.origin_ts
        /\ seen' = seen \union {f}
        /\ FoldsBetween(f) \/ FoldsOpening(f) \/ FoldsInto(state.episode, f)
    BY <1>2, <2>1, FoldIs
  <2>3. FoldMeets(f)
    BY <2>2 DEF FoldMeets
  <2>4. QED
    BY <2>2, <2>3
<1>3. CASE Skip(f)
  BY <1>3 DEF Skip
<1>4. QED
  BY <1>1, <1>2, <1>3

\* Every step keeps the invariant.
LEMMA LifecycleNextKeeps ==
    LeadTimeM > 0 /\ CloseAfter > 0 /\ LifecycleInv /\ [EpisodeNext]_lifecycleVars => LifecycleInv'
<1> SUFFICES ASSUME LeadTimeM > 0, CloseAfter > 0, LifecycleInv, [EpisodeNext]_lifecycleVars
             PROVE  LifecycleInv'
  OBVIOUS
<1>1. ASSUME NEW f \in Forecast, FoldMeets(f),
             FoldsBetween(f) \/ FoldsOpening(f) \/ FoldsInto(state.episode, f)
      PROVE  LifecycleInv'
  <2>1. PICK e : e = state.episode
    OBVIOUS
  <2>2. CASE FoldsBetween(f)
    BY <1>1, <2>2, BetweenKeeps
  <2>3. CASE FoldsOpening(f)
    BY <1>1, <2>3, OpeningKeeps
  <2>4. CASE FoldsInto(e, f)
    BY <1>1, <2>4, IntoKeeps
  <2>5. QED
    BY <1>1, <2>1, <2>2, <2>3, <2>4
<1>2. CASE UNCHANGED lifecycleVars
  BY <1>2 DEF lifecycleVars, LifecycleInv, EpisodeTypeOK, OneOpenRow, EpisodesPartition, SeenInv,
              OpenInv, RowInv, Inside
<1>3. QED
  BY <1>1, <1>2, StepFolds

\* A run in the terms of the properties.
LEMMA RunsAgree ==
    ASSUME NEW S \in SUBSET Forecast, NEW f \in S
    PROVE  /\ EndsRun(S, f, LeadTimeM, IsAbove) <=> RunIn(S, f, LeadTimeM, Above)
           /\ EndsRun(S, f, CloseAfter, LAMBDA g : ~IsAbove(g)) <=> RunIn(S, f, CloseAfter, Quiet)
<1>1. \A t, u : Between(S, t, u) \subseteq Forecast
  BY DEF Between
<1>2. \A t, u : /\ (\A x \in Between(S, t, u) : IsAbove(x)) <=> Between(S, t, u) \subseteq Above
                /\ (\A x \in Between(S, t, u) : ~IsAbove(x)) <=> Between(S, t, u) \subseteq Quiet
  BY <1>1 DEF Above, Quiet
<1>3. EndsRun(S, f, LeadTimeM, IsAbove) <=> RunIn(S, f, LeadTimeM, Above)
  BY <1>2 DEF EndsRun, RunIn
<1>4. EndsRun(S, f, CloseAfter, LAMBDA g : ~IsAbove(g)) <=> RunIn(S, f, CloseAfter, Quiet)
  BY <1>2 DEF EndsRun, RunIn
<1>5. QED
  BY <1>3, <1>4

\* What the invariant says of each row is what the properties say of all rows.
LEMMA RowAlert ==
    ASSUME NEW r, Inside(r) \subseteq Forecast, AlertOf(r, Inside(r))
    PROVE  LET inside == {f \in seen : Covers(r, f)}
               alerts == {f \in inside : EndsRun(inside, f, LeadTimeM, IsAbove)}
           IN  IF alerts = {} THEN r.first_alert_at = Never
               ELSE \E f \in alerts :
                       /\ r.first_alert_at = f.origin_ts
                       /\ \A g \in alerts : f.origin_ts <= g.origin_ts
<1>1. PICK S : S = {f \in seen : Covers(r, f)}
  OBVIOUS
<1>2. S \subseteq Forecast /\ AlertOf(r, S)
  BY <1>1 DEF Inside
<1>3. {f \in S : EndsRun(S, f, LeadTimeM, IsAbove)} = {f \in S : RunIn(S, f, LeadTimeM, Above)}
  BY <1>2, RunsAgree
<1>4. QED
  BY <1>1, <1>2, <1>3 DEF AlertOf

\* What the invariant says of a row's quiet runs and peak, in the words of the property.
LEMMA RowQuiet ==
    ASSUME NEW r, Inside(r) \subseteq Forecast, QuietOf(r, Inside(r)), PeakOf(r, Inside(r))
    PROVE  LET inside == {f \in seen : Covers(r, f)}
               quiet == {f \in inside : EndsRun(inside, f, CloseAfter, LAMBDA g : ~IsAbove(g))}
           IN  /\ \A f \in quiet : f.origin_ts = r.ended_at
               /\ IsOpen(r) <=> quiet = {}
               /\ \E f \in inside : f.max_p_compromise = r.peak_risk
               /\ \A f \in inside : f.max_p_compromise <= r.peak_risk
<1>1. PICK S : S = {f \in seen : Covers(r, f)}
  OBVIOUS
<1>2. S \subseteq Forecast /\ QuietOf(r, S) /\ PeakOf(r, S)
  BY <1>1 DEF Inside
<1>3. {f \in S : EndsRun(S, f, CloseAfter, LAMBDA g : ~IsAbove(g))}
         = {f \in S : RunIn(S, f, CloseAfter, Quiet)}
  BY <1>2, RunsAgree
<1>4. QED
  BY <1>1, <1>2, <1>3 DEF QuietOf, PeakOf

\* The invariant has everything LifecycleIsSound says.
LEMMA LifecycleInvIsSound == LifecycleInv => LifecycleIsSound
<1> SUFFICES ASSUME LifecycleInv PROVE LifecycleIsSound
  OBVIOUS
<1>1. ASSUME NEW r PROVE Inside(r) \subseteq Forecast
  BY DEF LifecycleInv, EpisodeTypeOK, Inside, Forecast
<1>2. AlertIsDebounced
  BY <1>1, RowAlert DEF AlertIsDebounced, LifecycleInv, RowInv
<1>3. ClosedByQuiet
  BY <1>1, RowQuiet DEF ClosedByQuiet, LifecycleInv, RowInv
<1>4. QED
  BY <1>2, <1>3 DEF LifecycleInv, LifecycleIsSound

\* No step takes back what a row shows, or moves the watermark back.
LEMMA FoldsAreFinal ==
    ASSUME NEW f \in Forecast, FoldMeets(f),
           FoldsBetween(f) \/ FoldsOpening(f) \/ FoldsInto(state.episode, f)
    PROVE  /\ \A i \in DOMAIN rows :
                 /\ i \in DOMAIN rows'
                 /\ ~IsOpen(rows[i]) => rows'[i] = rows[i]
                 /\ rows[i].first_alert_at # Never =>
                       rows'[i].first_alert_at = rows[i].first_alert_at
           /\ state'.last_ts >= state.last_ts
<1>1. state'.last_ts >= state.last_ts
  <2>1. state.last_ts \in Ts \union {Never}
    BY DEF FoldMeets, LifecycleInv, EpisodeTypeOK, HostEpisodeState
  <2>2. f.origin_ts \in Nat
    BY OlderThan
  <2>3. state.last_ts \in Nat
    <3>1. CASE state.last_ts \in Ts
      BY <3>1, LifecycleAssumption DEF LifecycleAssumption
    <3>2. CASE state.last_ts = Never
      BY <3>2 DEF Never
    <3>3. QED
      BY <2>1, <3>1, <3>2
  <2>4. QED
    BY <2>2, <2>3 DEF FoldMeets
<1>2. CASE FoldsBetween(f)
  BY <1>1, <1>2 DEF FoldsBetween
<1>3. CASE FoldsOpening(f)
  <2>1. PICK n \in Nat : DOMAIN rows = 1..n /\ NewId = n + 1
    BY RowNumbers DEF FoldMeets
  <2>2. \A i \in DOMAIN rows : i # NewId
    BY <2>1
  <2>3. \A i \in DOMAIN rows : i \in DOMAIN rows' /\ rows'[i] = rows[i]
    BY <1>3, <2>2 DEF FoldsOpening
  <2>4. QED
    BY <1>1, <2>3
<1>4. CASE FoldsInto(state.episode, f)
  <2>1. PICK e, u, i : e = state.episode /\ u = Updated(e, f) /\ i = e.id
    OBVIOUS
  <2>2. /\ i \in DOMAIN rows /\ IsOpen(rows[i]) /\ DOMAIN rows' = DOMAIN rows
        /\ rows[i] = RowOf(e, Never) /\ e \in OpenEpisode(Ts, Risk)
        /\ rows'[i] = RowOf(u, EndOf(e, f))
        /\ \A j \in DOMAIN rows : j # i => ~IsOpen(rows[j]) /\ rows'[j] = rows[j]
    BY <1>4, <2>1, IntoRow
  <2>3. e.first_alert_at # Never => u.first_alert_at = e.first_alert_at
    BY <2>1, <2>2, UpdatedIs
  <2>4. rows[i].first_alert_at # Never => rows'[i].first_alert_at = rows[i].first_alert_at
    BY <2>2, <2>3 DEF RowOf
  <2>5. QED
    BY <1>1, <2>2, <2>4
<1>5. QED
  BY <1>2, <1>3, <1>4

\* One forecast changes only the open row, and never its alert.
LEMMA StepIsFinal ==
    ASSUME LifecycleInv, [EpisodeNext]_lifecycleVars
    PROVE  \/ /\ \A i \in DOMAIN rows :
                    /\ i \in DOMAIN rows'
                    /\ ~IsOpen(rows[i]) => rows'[i] = rows[i]
                    /\ rows[i].first_alert_at # Never =>
                          rows'[i].first_alert_at = rows[i].first_alert_at
              /\ state'.last_ts >= state.last_ts
           \/ UNCHANGED lifecycleVars
<1>1. CASE UNCHANGED lifecycleVars
  BY <1>1
<1>2. CASE EpisodeNext /\ ~UNCHANGED lifecycleVars
  BY <1>2, StepFolds, FoldsAreFinal
<1>3. QED
  BY <1>1, <1>2

-----------------------------------------------------------------------------
\* The invariant, for a debounce and a cool-down of at least one forecast
\* (default.yaml sets 2 and 4).
THEOREM LifecycleInvariant ==
    ASSUME LeadTimeM > 0, CloseAfter > 0
    PROVE  EpisodeSpec => []LifecycleInv
<1>1. EpisodeInit => LifecycleInv
  BY InitLifecycleInv
<1>2. LifecycleInv /\ [EpisodeNext]_lifecycleVars => LifecycleInv'
  BY LifecycleNextKeeps
<1>3. QED
  BY <1>1, <1>2, PTL DEF EpisodeSpec

\* The rows of a host are disjoint stretches of time that hold every forecast
\* over the threshold; each has its alert where the debounce puts it, its end
\* where the cool-down puts it, and the largest risk of its forecasts, whatever
\* the order in which forecasts come and however often: state.py:advance.
THEOREM LifecycleIsSoundHolds ==
    ASSUME LeadTimeM > 0, CloseAfter > 0
    PROVE  EpisodeSpec => []LifecycleIsSound
<1>1. EpisodeSpec => []LifecycleInv
  BY LifecycleInvariant
<1>2. LifecycleInv => LifecycleIsSound
  BY LifecycleInvIsSound
<1>3. QED
  BY <1>1, <1>2, PTL

\* A closed row is never written again, an alert keeps its time, no row is lost
\* and the watermark never moves back: _write_episode updates the open row only.
THEOREM HistoryIsFinalHolds ==
    ASSUME LeadTimeM > 0, CloseAfter > 0
    PROVE  EpisodeSpec => HistoryIsFinal
<1>1. EpisodeSpec => []LifecycleInv
  BY LifecycleInvariant
<1>2. LifecycleInv /\ [EpisodeNext]_lifecycleVars =>
          [/\ \A i \in DOMAIN rows :
                 /\ i \in DOMAIN rows'
                 /\ ~IsOpen(rows[i]) => rows'[i] = rows[i]
                 /\ rows[i].first_alert_at # Never =>
                       rows'[i].first_alert_at = rows[i].first_alert_at
           /\ state'.last_ts >= state.last_ts]_lifecycleVars
  BY StepIsFinal
<1>3. QED
  BY <1>1, <1>2, PTL DEF EpisodeSpec, HistoryIsFinal
=============================================================================
