------------------------------- MODULE Fanout -------------------------------
(***************************************************************************)
(* The live forecast stream of api/ws.py: one consumer fans every forecast *)
(* out to the bounded queue of each socket of its tenant; a socket's       *)
(* sending task drains the queue, its receiving task takes filters and     *)
(* pongs.  A step runs from one await of a task to the next.               *)
(***************************************************************************)
EXTENDS Naturals, Sequences

CONSTANTS Sockets, Tenants, Hosts,
          QueueSize,      \* api.ws_queue_size
          MaxMissed,      \* api.ws_max_missed_pongs
          MaxForecasts,   \* bound: forecasts broadcast
          MaxFilters,     \* bound: filter messages per socket
          MaxOwed         \* bound: a client further behind with its pongs stays silent

ASSUME FanoutAssumption ==
    /\ QueueSize \in Nat \ {0}
    /\ {MaxMissed, MaxForecasts, MaxFilters, MaxOwed} \subseteq Nat

VARIABLES sub,        \* the sockets of this process and their two tasks
          broadcasts  \* how many forecasts have been fanned out

fanoutVars == <<sub, broadcasts>>

Server == "server"    \* host_id None: a frame the server made for this socket

(***************************************************************************)
(* offered, drained, filters, told and owed are histories: frames offered  *)
(* to the socket, frames sent on it or held back by its filter; every      *)
(* filter it had; the last one it was told of; pings not answered.         *)
(***************************************************************************)
NoSocket ==
    [pos |-> "none", tenant |-> "none", hosts |-> {}, queue |-> <<>>, hand |-> <<>>,
     dropped |-> 0, missed |-> 0, listening |-> FALSE, alive |-> TRUE,
     offered |-> 0, drained |-> 0, filters |-> <<>>, told |-> 0, owed |-> 0]

Registered(s) == sub[s].pos \in {"accept", "wait", "send"}
Serving(s) == sub[s].pos \in {"wait", "send"}

Wanted(hosts, h) == h = Server \/ hosts = {} \/ h \in hosts
wants(s, h) == Wanted(sub[s].hosts, h)

\* Mutant: a full queue refuses the new frame.
offerRefused(u, h, filter) ==
    IF Len(u.queue) = QueueSize
    THEN [u EXCEPT !.dropped = @ + 1, !.offered = @ + 1]
    ELSE [u EXCEPT !.queue = Append(@, [n |-> u.offered + 1, host |-> h, filter |-> filter]),
                   !.offered = @ + 1]

\* Subscription.offer: a full queue gives up its oldest frame.
offer(u, h, filter) ==
    LET frame == [n |-> u.offered + 1, host |-> h, filter |-> filter]
        full == Len(u.queue) = QueueSize
    IN [u EXCEPT !.queue = Append(IF full THEN Tail(@) ELSE @, frame),
                 !.dropped = IF full THEN @ + 1 ELSE @,
                 !.offered = @ + 1]

-----------------------------------------------------------------------------
FanoutInit == sub = [s \in Sockets |-> NoSocket] /\ broadcasts = 0

\* stream_forecast: registered before the handshake is answered.
subscribe(s, t, hs) ==
    /\ sub[s].pos = "none"
    /\ sub' = [sub EXCEPT ![s] = [@ EXCEPT !.pos = "accept", !.tenant = t, !.hosts = hs,
                                           !.filters = <<hs>>, !.told = 1]]
    /\ UNCHANGED broadcasts

accept(s) ==
    /\ sub[s].pos = "accept"
    /\ sub' = [sub EXCEPT ![s].pos = "wait", ![s].listening = TRUE]
    /\ UNCHANGED broadcasts

broadcast(t, h) ==
    /\ broadcasts < MaxForecasts
    /\ broadcasts' = broadcasts + 1
    /\ sub' = [s \in Sockets |-> IF Registered(s) /\ sub[s].tenant = t
                                 THEN offer(sub[s], h, 0) ELSE sub[s]]

\* The task around queue.get() takes the frame; _serve has not resumed yet.
Take(s) ==
    /\ sub[s].pos = "wait" /\ sub[s].hand = <<>> /\ sub[s].queue # <<>>
    /\ sub' = [sub EXCEPT ![s].hand = <<Head(sub[s].queue)>>, ![s].queue = Tail(@)]
    /\ UNCHANGED broadcasts

\* Mutant: the filter was looked at when the frame was queued.
ResumeUnfiltered(s) ==
    /\ sub[s].pos = "wait" /\ sub[s].listening /\ sub[s].hand # <<>>
    /\ sub' = [sub EXCEPT ![s].pos = "send"]
    /\ UNCHANGED broadcasts

\* _serve resumes with a frame: the filter of this moment decides.
Resume(s) ==
    /\ sub[s].pos = "wait" /\ sub[s].listening /\ sub[s].hand # <<>>
    /\ sub' = [sub EXCEPT ![s] =
                 IF wants(s, @.hand[1].host) THEN [@ EXCEPT !.pos = "send"]
                 ELSE [@ EXCEPT !.hand = <<>>, !.drained = sub[s].drained + 1]]
    /\ UNCHANGED broadcasts

Sent(s) ==
    /\ sub[s].pos = "send"
    /\ sub' = [sub EXCEPT ![s] =
                 [@ EXCEPT !.pos = "wait", !.hand = <<>>, !.drained = sub[s].drained + 1,
                           !.told = IF sub[s].hand[1].filter = 0 THEN sub[s].told
                                    ELSE sub[s].hand[1].filter]]
    /\ UNCHANGED broadcasts

\* Mutant: the peer is pinged for ever.
HeartbeatForever(s) ==
    /\ sub[s].pos = "wait" /\ sub[s].listening /\ sub[s].hand = <<>>
    /\ sub[s].missed < MaxMissed
    /\ sub' = [sub EXCEPT ![s].missed = @ + 1, ![s].owed = @ + 1]
    /\ UNCHANGED broadcasts

\* Nothing to send for a whole interval: ping, or give up on the peer.
Heartbeat(s) ==
    /\ sub[s].pos = "wait" /\ sub[s].listening /\ sub[s].hand = <<>>
    /\ sub' = [sub EXCEPT ![s] =
                 IF @.missed >= MaxMissed THEN [@ EXCEPT !.pos = "timed out"]
                 ELSE [@ EXCEPT !.missed = sub[s].missed + 1, !.owed = sub[s].owed + 1]]
    /\ UNCHANGED broadcasts

\* _receive saw the peer leave; _serve returns and the socket is unsubscribed.
Close(s) ==
    /\ sub[s].pos = "wait" /\ ~sub[s].listening
    /\ sub' = [sub EXCEPT ![s].pos = "closed"]
    /\ UNCHANGED broadcasts

-----------------------------------------------------------------------------
(* What a client sends, while its receiving task listens. *)
\* Mutant: a pong does not clear the count.
pongKept(s) ==
    /\ Serving(s) /\ sub[s].listening /\ sub[s].alive /\ sub[s].owed \in 1..MaxOwed
    /\ sub' = [sub EXCEPT ![s].owed = @ - 1]
    /\ UNCHANGED broadcasts

\* _receive: any pong clears the count.
pong(s) ==
    /\ Serving(s) /\ sub[s].listening /\ sub[s].alive /\ sub[s].owed \in 1..MaxOwed
    /\ sub' = [sub EXCEPT ![s].missed = 0, ![s].owed = @ - 1]
    /\ UNCHANGED broadcasts

set_hosts(s, hs) ==
    /\ Serving(s) /\ sub[s].listening /\ sub[s].alive
    /\ Len(sub[s].filters) <= MaxFilters
    /\ sub' = [sub EXCEPT ![s] =
                 offer([@ EXCEPT !.hosts = hs, !.filters = Append(sub[s].filters, hs)],
                       Server, Len(sub[s].filters) + 1)]
    /\ UNCHANGED broadcasts

Disconnect(s) ==
    /\ Serving(s) /\ sub[s].listening /\ sub[s].alive
    /\ sub' = [sub EXCEPT ![s].listening = FALSE]
    /\ UNCHANGED broadcasts

\* The peer is gone without a word: no pong, no close frame.
FallSilent(s) ==
    /\ Serving(s) /\ sub[s].alive
    /\ sub' = [sub EXCEPT ![s].alive = FALSE]
    /\ UNCHANGED broadcasts

Sending(s) == accept(s) \/ Take(s) \/ Resume(s) \/ Sent(s) \/ Heartbeat(s) \/ Close(s)

FanoutNext ==
    \/ \E t \in Tenants, h \in Hosts : broadcast(t, h)
    \/ \E s \in Sockets :
          \/ \E t \in Tenants, hs \in SUBSET Hosts : subscribe(s, t, hs)
          \/ accept(s) \/ Take(s) \/ Resume(s) \/ Sent(s) \/ Heartbeat(s) \/ Close(s)
          \/ pong(s) \/ Disconnect(s) \/ FallSilent(s)
          \/ \E hs \in SUBSET Hosts : set_hosts(s, hs)

(* The sending task runs: a write to a silent peer ends in a buffer, and   *)
(* the ping interval elapses.                                              *)
FanoutFairness == \A s \in Sockets : WF_fanoutVars(Sending(s))

FanoutSpec == FanoutInit /\ [][FanoutNext]_fanoutVars /\ FanoutFairness

-----------------------------------------------------------------------------
(* Every frame offered to a socket was sent, held back by its filter,      *)
(* counted as dropped, or is still there; and what is queued is the newest *)
(* of it, in order.  (ws.py:18: a full queue drops its oldest entry.)      *)
NothingLostSilently ==
    \A s \in Sockets : Registered(s) =>
        LET u == sub[s] IN
        /\ u.offered = u.drained + u.dropped + Len(u.queue) + Len(u.hand)
        /\ \A i \in 1..Len(u.queue) : u.queue[i].n = u.offered - Len(u.queue) + i
        /\ Len(u.queue) <= QueueSize

(* Once a client was told of a filter, every later forecast it gets passes *)
(* that filter or a later one.  (ws.py:25: the acknowledgement says when   *)
(* the update has taken effect.)                                           *)
FilterToldGoverns ==
    [][\A s \in Sockets : Sent(s) =>
         \E k \in sub[s].told .. Len(sub[s].filters) :
            Wanted(sub[s].filters[k], sub[s].hand[1].host)]_fanoutVars

(* The heartbeat gives up only on a client that owes MaxMissed pongs.      *)
(* (ws.py:63: "a peer that stopped answering heartbeats".)                 *)
OnlyTheSilentTimeOut ==
    \A s \in Sockets : sub[s].pos = "timed out" => sub[s].owed >= MaxMissed

(* What a socket is owed while it is served, and when it is given up.      *)
SocketsAreServed == NothingLostSilently /\ OnlyTheSilentTimeOut

(* A peer that vanished is noticed and its queue released.                 *)
VanishedPeerIsClosed ==
    \A s \in Sockets : ~sub[s].alive ~> ~Registered(s)
=============================================================================
