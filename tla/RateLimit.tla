----------------------------- MODULE RateLimit -----------------------------
(***************************************************************************)
(* api/ratelimit.py for one caller: concurrent requests against the two    *)
(* sliding windows.  `hit` is two calls on Redis, a transaction that trims *)
(* the window, adds the request and counts, and, over the ceiling, the     *)
(* removal of what was added; `check` runs it per ceiling, general first.  *)
(***************************************************************************)
EXTENDS Naturals, FiniteSets

CONSTANTS Requests,
          Uploads,          \* the requests that POST /api/v1/ingest
          Limit,            \* how many requests of a scope ...
          WindowMs,         \* ... in how many ticks
          MaxDelay,         \* how long a request may wait for Redis
          MaxTime,          \* bound of the clock
          MaxRedisErrors    \* bound: Redis calls that fail

Scopes == {"general", "ingest"}

ASSUME RateLimitAssumption ==
    /\ Uploads \subseteq Requests
    /\ Limit \in [Scopes -> Nat] /\ WindowMs \in [Scopes -> Nat]
    /\ {MaxDelay, MaxTime, MaxRedisErrors} \subseteq Nat
    /\ \A scope \in Scopes : MaxDelay < WindowMs[scope]

VARIABLES nowMs,      \* now_ms
          window,    \* the sorted set of each scope: requests, scored by arrival
          expires,   \* when its key expires (PEXPIRE)
          request,   \* where each request is in RateLimiter.check
          redisErrors,
          passed     \* history: the requests each ceiling let pass

rateVars == <<nowMs, window, expires, request, redisErrors, passed>>

ArrivedAt(r) == request[r].at
AtStep(r, pos, scope) == request[r].pos = pos /\ request[r].scope = scope
MoveTo(r, pos, scope) == request' = [request EXCEPT ![r].pos = pos, ![r].scope = scope]
OnItsWay(r) == request[r].pos \in {"count", "withdraw"}

\* limits_for: an upload is measured against the tighter ceiling as well.
HasNext(r, scope) == scope = "general" /\ r \in Uploads

-----------------------------------------------------------------------------
RateLimitInit ==
    /\ nowMs = 0
    /\ window = [scope \in Scopes |-> {}]
    /\ expires = [scope \in Scopes |-> 0]
    /\ request = [r \in Requests |-> [pos |-> "new", scope |-> "general", at |-> 0]]
    /\ redisErrors = 0
    /\ passed = [scope \in Scopes |-> {}]

\* __call__: now_ms is read before the first await.
Arrive(r) ==
    /\ request[r].pos = "new"
    /\ request' = [request EXCEPT ![r].pos = "count", ![r].at = nowMs]
    /\ UNCHANGED <<nowMs, window, expires, redisErrors, passed>>

StoredIn(scope) == IF nowMs < expires[scope] THEN window[scope] ELSE {}
Trimmed(scope, at) == {q \in StoredIn(scope) : ArrivedAt(q) + WindowMs[scope] > at}

\* Mutant: the request is counted before it is added.
FitsBefore(scope, used) == Cardinality(used) - 1 <= Limit[scope]

Fits(scope, used) == Cardinality(used) <= Limit[scope]

\* Mutant: a refused request stays in the window.
KeptRefused(scope, r) == StoredIn(scope)

\* The window without a refused request.
Without(scope, r) == StoredIn(scope) \ {r}

\* hit: zremrangebyscore, zadd, zcard and pexpire in one transaction.
count(r, scope) ==
    /\ AtStep(r, "count", scope)
    /\ LET used == Trimmed(scope, ArrivedAt(r)) \cup {r}
           fits == Fits(scope, used)
       IN /\ window' = [window EXCEPT ![scope] = used]
          /\ passed' = [passed EXCEPT ![scope] = IF fits THEN @ \cup {r} ELSE @]
          /\ IF ~fits THEN MoveTo(r, "withdraw", scope)
             ELSE IF HasNext(r, scope) THEN MoveTo(r, "count", "ingest")
             ELSE MoveTo(r, "admitted", scope)
    /\ expires' = [expires EXCEPT ![scope] = nowMs + WindowMs[scope]]
    /\ UNCHANGED <<nowMs, redisErrors>>

\* hit: zrem, after which the request is refused.
withdraw(r, scope) ==
    /\ AtStep(r, "withdraw", scope)
    /\ window' = [window EXCEPT ![scope] = Without(scope, r)]
    /\ MoveTo(r, "refused", scope)
    /\ UNCHANGED <<nowMs, expires, redisErrors, passed>>

\* check: a RedisError admits the request, whichever call raised it; Redis
\* may have run the transaction, or not.
FailOpen(r, scope) ==
    /\ OnItsWay(r) /\ request[r].scope = scope
    /\ redisErrors < MaxRedisErrors
    /\ redisErrors' = redisErrors + 1
    /\ MoveTo(r, "admitted", scope)
    /\ \/ UNCHANGED <<window, expires>>
       \/ /\ AtStep(r, "count", scope)
          /\ window' = [window EXCEPT ![scope] = Trimmed(scope, ArrivedAt(r)) \cup {r}]
          /\ expires' = [expires EXCEPT ![scope] = nowMs + WindowMs[scope]]
       \/ /\ AtStep(r, "withdraw", scope)
          /\ window' = [window EXCEPT ![scope] = Without(scope, r)]
          /\ UNCHANGED expires
    /\ UNCHANGED <<nowMs, passed>>

PassTime ==
    /\ nowMs < MaxTime
    /\ \A r \in Requests : OnItsWay(r) => nowMs < ArrivedAt(r) + MaxDelay
    /\ nowMs' = nowMs + 1
    /\ UNCHANGED <<window, expires, request, redisErrors, passed>>

RateLimitNext ==
    \/ PassTime
    \/ \E r \in Requests : Arrive(r)
    \/ \E r \in Requests, scope \in Scopes :
           count(r, scope) \/ withdraw(r, scope) \/ FailOpen(r, scope)

RateLimitSpec == RateLimitInit /\ [][RateLimitNext]_rateVars

-----------------------------------------------------------------------------
(* However a window lies, a ceiling lets no more requests pass in it than  *)
(* its limit, as long as the window is shorter than window_s by the time a  *)
(* request may wait for Redis: a request is scored by its arrival, but     *)
(* trimmed and expired by those that reach Redis before it.                *)
(* (ratelimit.py:11: a fixed counter would let twice the limit through     *)
(* across a boundary; this does not.)                                      *)
NeverOverLimit ==
    \A scope \in Scopes, t \in 0 .. MaxTime :
        Cardinality({r \in passed[scope] :
            ArrivedAt(r) <= t /\ ArrivedAt(r) + WindowMs[scope] > t + MaxDelay}) <= Limit[scope]

\* What the ceiling of a scope let through, by how the request ended: whoever
\* was admitted, and in the general scope the uploads that the upload ceiling
\* refused after it.
Through(r, scope) ==
    \/ request[r].pos = "admitted" /\ (scope = "ingest" => r \in Uploads)
    \/ scope = "general" /\ AtStep(r, "refused", "ingest")

(* Once no request is on its way, and unless Redis failed, a window counts *)
(* exactly these: a request leaves no entry with the ceiling that refused  *)
(* it.  "A refused request removes its own entry, so being throttled       *)
(* cannot extend the throttle" (ratelimit.py:12-13) is not all true: an    *)
(* upload refused by its own ceiling stays in the general window, and      *)
(* repeated refused uploads keep that one closed (lines 162, 221-224).         *)
AtRestOnlyTheThrough ==
    (redisErrors = 0 /\ \A r \in Requests : ~OnItsWay(r)) =>
        \A scope \in Scopes :
            {r \in StoredIn(scope) : ArrivedAt(r) + WindowMs[scope] > nowMs}
              = {r \in Requests : Through(r, scope) /\ ArrivedAt(r) + WindowMs[scope] > nowMs}

(* The two halves of a sliding window: a ceiling lets no more through than *)
(* its limit, and no less on account of those it refused itself.           *)
LimitIsKept == NeverOverLimit /\ AtRestOnlyTheThrough
=============================================================================
