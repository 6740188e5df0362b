------------------------------ MODULE Inference ------------------------------
(***************************************************************************)
(* services/inference/worker.py: the `state_vectors` consumer, on the bus  *)
(* of StreamBus.  The last L windows of a host live in the Redis list      *)
(* seq:{tenant}:{host}, shared by every replica; a process keeps nothing   *)
(* between two messages.  One host is modelled, since the list is keyed by *)
(* tenant and host.                                                        *)
(*                                                                         *)
(* Features may send any windows in any order: one again at once, a gap    *)
(* it filled once more from its start (s, t, s, t) when the write of the   *)
(* history failed, and earlier ones when a capture is uploaded again.      *)
(* Windows are compared for equality only.  A vector is named by the entry *)
(* it came in.                                                             *)
(***************************************************************************)
EXTENDS StreamBus, Sequences

CONSTANTS
    L,          \* context_L: windows of history the encoder consumes
    MaxLapses   \* bound: expiries of the list (SEQ_TTL_S without a push)

ASSUME InferenceAssumption == L \in Nat \ {0} /\ MaxLapses \in Nat

VARIABLES
    window,     \* the window_ts of each entry of the stream
    seq,        \* the Redis list, oldest vector first
    forecasts,  \* the forecasts published, oldest first
    lapses,     \* how often the list expired
    task        \* per process: how far `process` got with the current window

inferenceVars == <<window, seq, forecasts, lapses, task>>
vars == <<busVars, inferenceVars>>

\* Any windows, numbered in the order in which they first appear.
WindowsOf ==
    {f \in [Id -> Id] : \A m \in Id : f[m] <= 1 + Cardinality({f[k] : k \in 1..m - 1})}

Idle == [step |-> "start", context |-> <<>>]

\* RPUSH then LTRIM key -L -1.
Pushed(s, x) ==
    LET longer == Append(s, x)
    IN  IF Len(longer) > L THEN SubSeq(longer, Len(longer) - L + 1, Len(longer))
        ELSE longer

IsTail(s, x) == s # <<>> /\ window[s[Len(s)]] = window[x]

InferenceInit ==
    /\ Init
    /\ window \in WindowsOf
    /\ seq = <<>> /\ forecasts = <<>> /\ lapses = 0
    /\ task = [w \in Worker |-> Idle]

At(w, step) == worker[w].pc = "handling" /\ task[w].step = step

\* The payload parses, and LINDEX key -1 shows another window at the tail.
CheckTail(w) ==
    /\ At(w, "start") /\ worker[w].now \notin Poison
    /\ ~IsTail(seq, worker[w].now)
    /\ task' = [task EXCEPT ![w].step = "push"]
    /\ UNCHANGED <<busVars, window, seq, forecasts, lapses>>

\* The window is already the tail: drop it, and let the entry be acked.
DropDuplicate(w) ==
    /\ At(w, "start")
    /\ IsTail(seq, worker[w].now)
    /\ HandlerReturns(w)
    /\ UNCHANGED inferenceVars

\* Mutant: a context of exactly L windows does not count as full.
PushNeedsMore(w) ==
    /\ At(w, "push")
    /\ seq' = Pushed(seq, worker[w].now)
    /\ IF Len(seq') < L \/ Len(seq) < L
       THEN HandlerReturns(w) /\ task' = [task EXCEPT ![w] = Idle]
       ELSE /\ task' = [task EXCEPT ![w] = [step |-> "publish", context |-> seq']]
            /\ UNCHANGED busVars
    /\ UNCHANGED <<window, forecasts, lapses>>

\* One MULTI: RPUSH, LTRIM, EXPIRE and the LRANGE that is the context.
Push(w) ==
    /\ At(w, "push")
    /\ seq' = Pushed(seq, worker[w].now)
    /\ IF Len(seq') < L
       THEN HandlerReturns(w) /\ task' = [task EXCEPT ![w] = Idle]
       ELSE /\ task' = [task EXCEPT ![w] = [step |-> "publish", context |-> seq']]
            /\ UNCHANGED busVars
    /\ UNCHANGED <<window, forecasts, lapses>>

\* Mutant: the context is read back when the forecast is made.
PublishReadsAgain(w) ==
    /\ At(w, "publish")
    /\ forecasts' = Append(forecasts, [origin_ts |-> window[worker[w].now],
                                       context   |-> seq])
    /\ task' = [task EXCEPT ![w] = Idle]
    /\ HandlerReturns(w)
    /\ UNCHANGED <<window, seq, lapses>>

\* predictor.forecast, then XADD of the forecast; the handler returns.
PublishForecast(w) ==
    /\ At(w, "publish")
    /\ forecasts' = Append(forecasts, [origin_ts |-> window[worker[w].now],
                                       context   |-> task[w].context])
    /\ task' = [task EXCEPT ![w] = Idle]
    /\ HandlerReturns(w)
    /\ UNCHANGED <<window, seq, lapses>>

\* The payload does not parse, Redis is unreachable, or the predictor raises.
Raise(w) ==
    /\ HandlerRaises(w)
    /\ task' = [task EXCEPT ![w] = Idle]
    /\ UNCHANGED <<window, seq, forecasts, lapses>>

\* The process dies between two calls.
Die(w) ==
    /\ Crash(w)
    /\ task' = [task EXCEPT ![w] = Idle]
    /\ UNCHANGED <<window, seq, forecasts, lapses>>

\* Nothing was pushed for SEQ_TTL_S.
Expire ==
    /\ seq # <<>> /\ lapses < MaxLapses
    /\ seq' = <<>>
    /\ lapses' = lapses + 1
    /\ UNCHANGED <<busVars, window, forecasts, task>>

BusOnly ==
    /\ Environment \/ \E w \in Worker : LoopStep(w)
    /\ UNCHANGED inferenceVars

InferenceNext ==
    \/ BusOnly
    \/ Expire
    \/ \E w \in Worker :
          CheckTail(w) \/ DropDuplicate(w) \/ Push(w) \/ PublishForecast(w) \/ Raise(w) \/ Die(w)

InferenceSpec == InferenceInit /\ [][InferenceNext]_vars

\* As for the bus, with the handler's steps in place of its return.
InferenceFairness ==
    /\ \A w \in Worker :
          /\ WF_vars(LoopStep(w) /\ UNCHANGED inferenceVars)
          /\ WF_vars(CheckTail(w) \/ DropDuplicate(w) \/ Push(w) \/ PublishForecast(w) \/ Raise(w))
          /\ WF_vars(Start(w) /\ UNCHANGED inferenceVars)
          /\ WF_vars(ReclaimDue(w) /\ UNCHANGED inferenceVars)
    /\ \A m \in Id : WF_vars(GoIdle(m) /\ UNCHANGED inferenceVars)

FairInferenceSpec == InferenceSpec /\ InferenceFairness

-----------------------------------------------------------------------------
InferenceTypeOK ==
    /\ TypeOK
    /\ window \in WindowsOf
    /\ seq \in Seq(Id) /\ Len(seq) <= L
    /\ forecasts \in Seq([origin_ts : Id, context : Seq(Id)])
    /\ lapses \in 0..MaxLapses
    /\ task \in [Worker -> [step : {"start", "push", "publish"}, context : Seq(Id)]]

Origins == {forecasts[i].origin_ts : i \in DOMAIN forecasts}

\* However replicas race, processes die and the list expires, a forecast is
\* made from a full context that ends with the very window it is dated by:
\* the push and the read-back are one transaction.
ContextEndsAtOrigin ==
    \A i \in DOMAIN forecasts :
        /\ Len(forecasts[i].context) = L
        /\ window[forecasts[i].context[L]] = forecasts[i].origin_ts

\* With one consumer the dedupe keeps a window from standing twice in a row
\* in the list, whatever is redelivered or retried ("a repeat is dropped
\* before it is pushed").
NoImmediateRepeat ==
    OneConsumer => \A i, j \in DOMAIN seq : j = i + 1 => window[seq[i]] # window[seq[j]]

\* Every entry that was published can be handled.
NothingLost == Poison = {} /\ trim = 0

\* Vectors that were published one after the other, where a window that was
\* published several times at once counts once.
Successive(s) ==
    \A i, j \in DOMAIN s : j = i + 1 =>
        /\ s[i] < s[j] /\ window[s[i]] # window[s[j]]
        /\ \A m \in s[i]..s[j] - 1 : window[m] = window[s[i]]

\* With one consumer and no fault, a forecast sees L successive windows of the
\* stream up to its own, and the forecasts come in the order of the stream.
\* That they are different windows, as the module's docstring has it (worker.py:12-16),
\* follows for a stream that never goes back: of s, t, s, t nothing is dropped,
\* as only the tail is looked at.
ContextIsHistory ==
    OneConsumer /\ NothingLost /\ faults = 0 =>
        /\ \A i \in DOMAIN forecasts : Successive(forecasts[i].context)
        /\ \A i, j \in DOMAIN forecasts :
              i < j => forecasts[i].context[L] < forecasts[j].context[L]

\* The contexts forecasts are made from, in whatever order pushes, reads back,
\* crashes, redeliveries and expiries come (worker.py, process and _push).
ContextIsSound == ContextEndsAtOrigin /\ ContextIsHistory /\ NoImmediateRepeat

\* The windows that some process is about to publish a forecast of.
InHand == {window[worker[w].now] : w \in {v \in Worker : task[v].step = "publish"}}

\* The windows that were acknowledged without a forecast.
Missed == {window[m] : m \in acked} \ (Origins \union InHand)

\* The L - 1 windows it takes to fill the list give no forecast, at first and
\* after each expiry; beyond these a fault costs one window at most, whatever
\* the replicas do and whatever is sent.
MissedBoundedByFaults == Cardinality(Missed) <= faults + (lapses + 1) * (L - 1)

\* The forecasts of a host: each of the history it claims, few of them missing.
ForecastsAreSound == ContextIsSound /\ MissedBoundedByFaults

\* The windows of the stream, immediate repeats counted once, and those of them
\* with enough history.
New(m) == m = 1 \/ window[m] # window[m - 1]
Due(m) == New(m) /\ Cardinality({k \in 1..m : New(k)}) >= L

\* Until a fault or an expiry, every window with enough history is eventually
\* forecast, from the entry it came in.
EventuallyForecast ==
    \A m \in Id \ Poison :
        (m <= last /\ Due(m)) ~>
            (\/ m <= trim \/ faults + lapses > 0
             \/ \E i \in DOMAIN forecasts : forecasts[i].context[L] = m)

\* worker.py, handle: raising leaves the message pending and "the dedupe
\* above makes the retry harmless": when the window that completes the list has
\* been retried and is acknowledged, it has its forecast.
RetryIsHarmless == Len(seq) = L /\ seq[L] \in acked => window[seq[L]] \in Origins

\* test_inference.py, the scale-out claim: "either can take the next window of
\* a host the other has been handling": with replicas, too, the list holds the
\* windows of the host in the order in which they came.
ReplicasKeepOrder ==
    faults = 0 => \A i, j \in DOMAIN seq :
        i < j /\ window[seq[i]] # window[seq[j]] => seq[i] < seq[j]
==============================================================================
