------------------------------ MODULE StreamBus ------------------------------
(***************************************************************************)
(* One Redis stream with one consumer group, as nidra_common/bus.py uses   *)
(* it, and the consumer loop of nidra_common/worker.py that every service  *)
(* runs on it.                                                             *)
(*                                                                         *)
(* Stream entries are numbered 1, 2, ... in XADD order.  A pending entry   *)
(* has an owner in Redis, but neither XACK nor XAUTOCLAIM looks at it, so  *)
(* the pending list is a set.  The subset `idle` holds the entries that    *)
(* nobody has touched for min_idle_ms.  The payload is opaque here: the    *)
(* modules that extend this one say what a handler does with it.           *)
(***************************************************************************)
EXTENDS Integers, FiniteSets

CONSTANTS
    Worker,        \* the processes that consume the stream in this group
    Poison,        \* the entries whose handler raises every time
    Count,         \* entries per XREADGROUP / XAUTOCLAIM (DEFAULT_COUNT)
    MaxLen,        \* streams.maxlen, the trimming threshold of XADD
    MaxPublished,  \* bound: entries ever published
    MaxFaults      \* bound: crashes, transient handler failures and SIGTERMs

ASSUME BusAssumption ==
    /\ Count \in Nat \ {0}
    /\ MaxLen \in Nat \ {0}
    /\ MaxPublished \in Nat
    /\ MaxFaults \in Nat
    /\ Poison \subseteq 1..MaxPublished

VARIABLES
    last,      \* id of the last entry added; 0 when the stream is empty
    trim,      \* entries 1..trim have been evicted by MAXLEN
    cursor,    \* the group's last-delivered id, NoGroup before XGROUP CREATE
    pending,   \* the group's pending entries list
    idle,      \* the pending entries idle for at least min_idle_ms
    acked,     \* history: the entries removed from `pending` by XACK
    done,      \* history: the entries whose handler returned at least once
    worker,    \* the control state of each process
    faults     \* how many faults have happened

redisVars == <<last, trim, cursor, pending, idle, acked>>
busVars == <<last, trim, cursor, pending, idle, acked, done, worker, faults>>

Id == 1..MaxPublished
NoGroup == -1

\* Mutant: the group starts behind the first id.
AfterTheFirst == 1

\* XGROUP CREATE ... "0": a new group starts before everything.
NewGroupId == 0
ScanStart == 0

Least(S) == CHOOSE m \in S : \A n \in S : m <= n
Greatest(S) == CHOOSE m \in S : \A n \in S : n <= m

(***************************************************************************)
(* A process is down, about to XAUTOCLAIM, about to XREADGROUP, running    *)
(* the handler on entry `now`, or about to XACK it.  `hand` is the rest of *)
(* the batch being dispatched, fetched `via` a reclaim or a read; `scan`   *)
(* is the XAUTOCLAIM cursor; `due` says the reclaim timer has expired;     *)
(* `stop` is the shutdown event.                                           *)
(***************************************************************************)
PcValues == {"down", "reclaim", "read", "handling", "ack"}

Process == [pc : PcValues, now : 0..MaxPublished, hand : SUBSET Id,
            via : {"reclaim", "read"}, scan : Nat, due : BOOLEAN, stop : BOOLEAN]

Down == [pc |-> "down", now |-> 0, hand |-> {}, via |-> "read",
         scan |-> ScanStart, due |-> TRUE, stop |-> FALSE]

\* Mutant: the reclaim pass is forgotten.
LoopTopNeverReclaims(k) == IF k.stop THEN Down ELSE [k EXCEPT !.pc = "read"]

\* The head of the `while not stop.is_set()` loop.
LoopTop(k) ==
    IF k.stop THEN Down
    ELSE IF k.due THEN [k EXCEPT !.pc = "reclaim", !.scan = ScanStart]
    ELSE [k EXCEPT !.pc = "read"]

\* What follows the last entry of a batch: the next XAUTOCLAIM page, the end
\* of the reclaim pass, or the next round of the loop.
Exhausted(k) ==
    CASE k.via = "reclaim" /\ k.scan # ScanStart -> [k EXCEPT !.pc = "reclaim"]
      [] k.via = "reclaim" /\ k.scan = ScanStart ->
            IF k.stop THEN Down ELSE [k EXCEPT !.pc = "read", !.due = FALSE]
      [] k.via = "read" -> LoopTop(k)

\* Hand the oldest entry of the batch to the handler.
NextEntry(k) ==
    IF k.hand = {} THEN Exhausted([k EXCEPT !.now = 0])
    ELSE [k EXCEPT !.pc = "handling", !.now = Least(k.hand),
                   !.hand = @ \ {Least(k.hand)}]

\* After one dispatch, acknowledged or not: a set stop event ends the loop
\* and abandons the rest of the batch, which stays pending.
AfterDispatch(k) == IF k.stop THEN Down ELSE NextEntry(k)

-----------------------------------------------------------------------------
Init ==
    /\ last = 0 /\ trim = 0 /\ cursor = NoGroup
    /\ pending = {} /\ idle = {} /\ acked = {} /\ done = {}
    /\ worker = [w \in Worker |-> Down]
    /\ faults = 0

\* Mutant: the cap counts the new entry out, and evicts one entry too many.
PublishTrimsOneMore ==
    /\ last < MaxPublished
    /\ last' = last + 1
    /\ trim' \in {t \in trim..last + 1 : t = trim \/ t <= last + 2 - MaxLen}
    /\ UNCHANGED <<cursor, pending, idle, acked, done, worker, faults>>

\* XADD ... MAXLEN ~ n: approximate, so at least MaxLen entries stay and any
\* older prefix may go.  Delivery to the group plays no part in it.
Publish ==
    /\ last < MaxPublished
    /\ last' = last + 1
    /\ trim' \in {t \in trim..last + 1 : t = trim \/ t <= last + 1 - MaxLen}
    /\ UNCHANGED <<cursor, pending, idle, acked, done, worker, faults>>

\* Where the group stands after XGROUP CREATE: at the head of the stream, or
\* where it was when Redis answers BUSYGROUP.
ensure_group == IF cursor = NoGroup THEN NewGroupId ELSE cursor

\* run_consumer starts.
Start(w) ==
    /\ worker[w].pc = "down"
    /\ cursor' = ensure_group
    /\ worker' = [worker EXCEPT ![w] = LoopTop(Down)]
    /\ UNCHANGED <<last, trim, pending, idle, acked, done, faults>>

\* One XAUTOCLAIM page, oldest first.  Claiming resets the idle time; an
\* entry that was trimmed meanwhile leaves the pending list undelivered.
Reclaim(w) ==
    /\ worker[w].pc = "reclaim"
    /\ LET ready == {m \in idle : m >= worker[w].scan}
           page  == {m \in ready : Cardinality({n \in ready : n < m}) < Count}
           k     == [worker[w] EXCEPT
                       !.via  = "reclaim",
                       !.hand = {m \in page : m > trim},
                       !.scan = IF page = ready THEN ScanStart
                                ELSE Least(ready \ page)]
       IN  /\ pending' = pending \ {m \in page : m <= trim}
           /\ idle' = idle \ page
           /\ worker' = [worker EXCEPT ![w] = NextEntry(k)]
    /\ UNCHANGED <<last, trim, cursor, acked, done, faults>>

\* Mutant: the entry the cursor stands on counts as undelivered.
FreshFromCursor == {m \in Id : cursor <= m /\ trim < m /\ m <= last}

\* What the group has not delivered to anybody and the stream still holds.
Fresh == {m \in Id : cursor < m /\ trim < m /\ m <= last}

\* One XREADGROUP ">": the next fresh entries, or nothing when the block
\* elapses.
Read(w) ==
    /\ worker[w].pc = "read"
    /\ LET page == {m \in Fresh : Cardinality({n \in Fresh : n < m}) < Count}
           k    == [worker[w] EXCEPT !.via = "read", !.hand = page]
       IN  /\ pending' = pending \union page
           /\ cursor' = IF page = {} THEN cursor ELSE Greatest(page)
           /\ worker' = [worker EXCEPT ![w] = NextEntry(k)]
    /\ UNCHANGED <<last, trim, idle, acked, done, faults>>

\* The handler returns; _dispatch goes on to bus.ack.
HandlerReturns(w) ==
    /\ worker[w].pc = "handling"
    /\ worker[w].now \notin Poison
    /\ done' = done \union {worker[w].now}
    /\ worker' = [worker EXCEPT ![w].pc = "ack"]
    /\ UNCHANGED <<redisVars, faults>>

\* Mutant: the ack sits in a `finally`.
HandlerRaisesThenAcks(w) ==
    /\ worker[w].pc = "handling"
    /\ \/ worker[w].now \in Poison /\ UNCHANGED faults
       \/ worker[w].now \notin Poison /\ faults < MaxFaults /\ faults' = faults + 1
    /\ worker' = [worker EXCEPT ![w].pc = "ack"]
    /\ UNCHANGED <<redisVars, done>>

\* The handler raises; _dispatch logs it and leaves the entry unacked.
HandlerRaises(w) ==
    /\ worker[w].pc = "handling"
    /\ \/ worker[w].now \in Poison /\ UNCHANGED faults
       \/ worker[w].now \notin Poison /\ faults < MaxFaults /\ faults' = faults + 1
    /\ worker' = [worker EXCEPT ![w] = AfterDispatch(worker[w])]
    /\ UNCHANGED <<redisVars, done>>

\* XACK: a no-op in Redis when another process acked the entry first.
Ack(w) ==
    /\ worker[w].pc = "ack"
    /\ acked' = acked \union ({worker[w].now} \intersect pending)
    /\ pending' = pending \ {worker[w].now}
    /\ idle' = idle \ {worker[w].now}
    /\ worker' = [worker EXCEPT ![w] = AfterDispatch(worker[w])]
    /\ UNCHANGED <<last, trim, cursor, done, faults>>

\* The process dies, or an unguarded Redis call of the loop raises; compose
\* restarts it (`restart: unless-stopped`).
Crash(w) ==
    /\ worker[w].pc # "down"
    /\ faults < MaxFaults
    /\ faults' = faults + 1
    /\ worker' = [worker EXCEPT ![w] = Down]
    /\ UNCHANGED <<redisVars, done>>

\* SIGTERM or SIGINT sets the stop event; the loop sees it later.
Signal(w) ==
    /\ worker[w].pc # "down" /\ ~worker[w].stop
    /\ faults < MaxFaults
    /\ faults' = faults + 1
    /\ worker' = [worker EXCEPT ![w].stop = TRUE]
    /\ UNCHANGED <<redisVars, done>>

\* A pending entry reaches min_idle_ms, whoever holds it.
GoIdle(m) ==
    /\ m \in pending \ idle
    /\ idle' = idle \union {m}
    /\ UNCHANGED <<last, trim, cursor, pending, acked, done, worker, faults>>

\* reclaim_interval_s has passed since the last reclaim pass.
ReclaimDue(w) ==
    /\ worker[w].pc # "down" /\ ~worker[w].due
    /\ worker' = [worker EXCEPT ![w].due = TRUE]
    /\ UNCHANGED <<redisVars, done, faults>>

-----------------------------------------------------------------------------
\* The steps of the loop that a handler has no part in.
LoopStep(w) == Reclaim(w) \/ Read(w) \/ Ack(w)

Environment ==
    \/ Publish
    \/ \E m \in Id : GoIdle(m)
    \/ \E w \in Worker : Start(w) \/ Signal(w) \/ ReclaimDue(w)

Next ==
    \/ Environment
    \/ \E w \in Worker : LoopStep(w) \/ HandlerReturns(w) \/ HandlerRaises(w) \/ Crash(w)

Spec == Init /\ [][Next]_busVars

(***************************************************************************)
(* Fairness: a running process keeps executing its loop (asyncio, no step  *)
(* of the loop blocks for ever: XREADGROUP has a block_ms), compose        *)
(* restarts a stopped one, and time passes.  Nothing forces a publish, a   *)
(* crash, a signal or a failure.  A handler that can return does so.       *)
(***************************************************************************)
Fairness ==
    /\ \A w \in Worker :
          /\ WF_busVars(LoopStep(w))
          /\ WF_busVars(HandlerReturns(w) \/ HandlerRaises(w))
          /\ WF_busVars(Start(w))
          /\ WF_busVars(ReclaimDue(w))
    /\ \A m \in Id : WF_busVars(GoIdle(m))

FairSpec == Spec /\ Fairness

-----------------------------------------------------------------------------
TypeOK ==
    /\ last \in 0..MaxPublished
    /\ trim \in 0..last
    /\ cursor \in {NoGroup} \union 0..last
    /\ pending \subseteq Id /\ idle \subseteq pending
    /\ acked \subseteq Id /\ done \subseteq Id
    /\ worker \in [Worker -> Process]
    /\ faults \in 0..MaxFaults

Delivered == {m \in Id : m <= cursor}
Evicted == {m \in Id : m <= trim}

\* Nothing is acknowledged before a handler returned for it, and an entry
\* that was published is undelivered, pending, acknowledged or evicted by
\* MAXLEN: no crash, failure, signal or pair of racing consumers makes the
\* group forget it (bus.py: "genuine at-least-once guarantee").
AtLeastOnceDelivery ==
    /\ acked \subseteq done
    /\ \A m \in Delivered : m \in pending \union acked \union Evicted

\* The pending list and the acknowledged entries stay apart, whatever a slow
\* consumer does with an entry that another one has claimed and settled.
SettledStaysSettled == pending \intersect acked = {}

OneConsumer == \A v, w \in Worker : v = w

\* With one consumer and no fault, entries are completed in stream order: an
\* entry completes only after every older one did, unless that one was evicted
\* or is poison.  The stateful handlers (features, inference, persister) rely
\* on it.
InOrderUnlessFaulted ==
    OneConsumer /\ faults = 0 =>
        \A m \in done : \A n \in 1..m - 1 : n \in done \union Evicted \union Poison

\* An entry that was delivered once is never given out again as new, and an
\* acknowledgement is never taken back.
CursorNeverRewinds ==
    [][/\ cursor' >= cursor
       /\ acked \subseteq acked']_busVars

\* Every entry that is not poison is eventually acknowledged (or evicted
\* first), although a poison entry is retried for ever next to it.
EventuallyAcked ==
    \A m \in Id \ Poison : (m <= last) ~> (m \in acked \/ m <= trim)

-----------------------------------------------------------------------------
\* What the bus promises its users, without processes, cursors or batches.
Promise == INSTANCE AtLeastOnce WITH
    Message   <- Id,
    sent      <- {m \in Id : m <= last},
    evicted   <- Evicted,
    completed <- done,
    retired   <- acked

\* The bus and the consumer loop implement that promise.
ImplementsPromise == Promise!Spec
==============================================================================
