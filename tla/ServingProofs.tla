---------------------------- MODULE ServingProofs ----------------------------
(***************************************************************************)
(* Proofs about the components around the pipeline, for any number of      *)
(* clients, requests and samples: the fan-out, uploads on their way to     *)
(* disk, backlogs, accounts and their tokens, the demo console, the rate   *)
(* limiter, what the API reads back, the analysis of a capture, and the    *)
(* parsers.                                                                *)
(***************************************************************************)
EXTENDS Fanout, Upload, Backlog, Accounts, Console, RateLimit, Queries, CaptureAnalysis,
        Parsers, FiniteSetTheorems, SequenceTheorems, TLAPS

-----------------------------------------------------------------------------
(***************************************************************************)
(* The fan-out, for every number of sockets, tenants and hosts, every size *)
(* of a queue and every number of frames, filters and pongs.               *)
(***************************************************************************)
SocketPositions == {"none", "accept", "wait", "send", "timed out", "closed"}
Frame == [n : Nat, host : Hosts \cup {Server}, filter : Nat]
Socket ==
    [pos : SocketPositions, tenant : Tenants \cup {"none"}, hosts : SUBSET Hosts,
     queue : Seq(Frame), hand : Seq(Frame), dropped : Nat, missed : Nat,
     listening : BOOLEAN, alive : BOOLEAN, offered : Nat, drained : Nat,
     filters : Seq(SUBSET Hosts), told : Nat, owed : Nat]

\* What was offered to a socket is accounted for, the newest of it queued.
Accounted(u) ==
    /\ u.offered = u.drained + u.dropped + Len(u.queue) + Len(u.hand)
    /\ Len(u.queue) <= QueueSize
    /\ \A i \in 1..Len(u.queue) : u.queue[i].n = u.offered - Len(u.queue) + i

\* The frame in hand, taken while waiting and kept while sending.
Handed(u) ==
    /\ Len(u.hand) <= 1
    /\ u.pos = "send" => Len(u.hand) = 1

\* Acknowledgements under way are of filters the socket has or had, and so is
\* the one it was told of last; the filter in force is the latest.
FiltersKnown(u) ==
    /\ \A i \in 1..Len(u.queue) : u.queue[i].filter <= Len(u.filters)
    /\ \A i \in 1..Len(u.hand) : u.hand[i].filter <= Len(u.filters)
    /\ u.pos # "none" =>
          /\ u.told \in 1..Len(u.filters)
          /\ u.hosts = u.filters[Len(u.filters)]
    /\ u.pos = "none" => Len(u.filters) = 0

\* What is being sent passed a filter no older than the one last told.
Governed(u) ==
    u.pos = "send" =>
        \E k \in u.told .. Len(u.filters) : Wanted(u.filters[k], u.hand[1].host)

\* A missed heartbeat is a pong owed.
Patient(u) ==
    /\ u.missed <= u.owed
    /\ u.pos = "timed out" => u.missed >= MaxMissed

SocketInv(u) == Accounted(u) /\ Handed(u) /\ FiltersKnown(u) /\ Governed(u) /\ Patient(u)

FanoutInv ==
    /\ broadcasts \in Nat
    /\ sub \in [Sockets -> Socket]
    /\ \A s \in Sockets : SocketInv(sub[s])

-----------------------------------------------------------------------------
(* Subscription.offer: a frame is queued, the oldest one given up for it   *)
(* when the queue is full, and every count stays right.                    *)
LEMMA OfferKeeps ==
    ASSUME NEW u \in Socket, SocketInv(u), NEW h \in Hosts \cup {Server},
           NEW filter \in 0 .. Len(u.filters)
    PROVE  offer(u, h, filter) \in Socket /\ SocketInv(offer(u, h, filter))
<1> DEFINE frame == [n |-> u.offered + 1, host |-> h, filter |-> filter]
           full == Len(u.queue) = QueueSize
           base == IF full THEN Tail(u.queue) ELSE u.queue
           v == offer(u, h, filter)
<1>0. /\ u.queue \in Seq(Frame) /\ u.hand \in Seq(Frame) /\ u.filters \in Seq(SUBSET Hosts)
      /\ u.offered \in Nat /\ u.dropped \in Nat /\ u.drained \in Nat
  BY DEF Socket
<1>1. frame \in Frame /\ frame.n = u.offered + 1 /\ frame.filter = filter
  BY <1>0 DEF Frame
<1>2. full => u.queue # <<>>
  BY <1>0, FanoutAssumption
<1>3. PICK gone \in {0, 1} :
      /\ base \in Seq(Frame) /\ Len(base) = Len(u.queue) - gone
      /\ \A i \in 1..Len(base) : base[i] = u.queue[i + gone]
      /\ gone = 0 => Len(u.queue) # QueueSize
      /\ (IF full THEN u.dropped + 1 ELSE u.dropped) = u.dropped + gone
  <2>1. CASE full
    <3>1. base = Tail(u.queue) /\ (IF full THEN u.dropped + 1 ELSE u.dropped) = u.dropped + 1
      BY <2>1
    <3> QED BY <1>0, <1>2, <2>1, <3>1, HeadTailProperties
  <2>2. CASE ~full
    <3>1. base = u.queue /\ (IF full THEN u.dropped + 1 ELSE u.dropped) = u.dropped
      BY <2>2
    <3> QED BY <1>0, <2>2, <3>1
  <2> QED BY <2>1, <2>2
<1> HIDE DEF frame, base, full
<1>4. /\ Append(base, frame) \in Seq(Frame)
      /\ Len(Append(base, frame)) = Len(base) + 1
      /\ Append(base, frame)[Len(base) + 1] = frame
      /\ \A i \in 1..Len(base) : Append(base, frame)[i] = base[i]
  BY <1>1, <1>3, AppendProperties
<1>n. /\ Len(base) \in Nat /\ Len(u.queue) \in Nat /\ Len(u.hand) \in Nat
      /\ Len(u.filters) \in Nat /\ filter \in Nat /\ filter <= Len(u.filters)
  BY <1>0, <1>3, LenProperties
<1>a. /\ u.offered = u.drained + u.dropped + Len(u.queue) + Len(u.hand)
      /\ Len(u.queue) <= QueueSize /\ QueueSize \in Nat \ {0}
      /\ \A i \in 1..Len(u.queue) : u.queue[i].n = u.offered - Len(u.queue) + i
  BY FanoutAssumption DEF SocketInv, Accounted
<1>g. gone \in Nat
  BY <1>3
<1> DEFINE q == Append(base, frame)
           d == u.dropped + gone
           o == u.offered + 1
<1>5. q \in Seq(Frame) /\ d \in Nat /\ o \in Nat
  BY <1>0, <1>g, <1>4
<1>6. /\ v \in Socket
      /\ v.queue = Append(base, frame) /\ v.offered = u.offered + 1
      /\ v.dropped = u.dropped + gone
      /\ v.pos = u.pos /\ v.hosts = u.hosts /\ v.hand = u.hand /\ v.missed = u.missed
      /\ v.drained = u.drained /\ v.filters = u.filters /\ v.told = u.told /\ v.owed = u.owed
  <2>1. v = [u EXCEPT !.queue = q, !.dropped = d, !.offered = o]
    BY <1>3, <1>5, Zenon DEF offer, base, frame, full
  <2> HIDE DEF q, d, o
  <2> HIDE DEF v
  <2>2. v \in Socket
    BY <1>5, <2>1, Zenon DEF Socket
  <2>3. /\ v.queue = q /\ v.offered = o /\ v.dropped = d /\ v.pos = u.pos /\ v.hosts = u.hosts
        /\ v.hand = u.hand /\ v.missed = u.missed /\ v.drained = u.drained
        /\ v.filters = u.filters /\ v.told = u.told /\ v.owed = u.owed
    BY <2>1, Zenon DEF Socket
  <2> QED BY <2>2, <2>3 DEF q, d, o
<1> HIDE DEF v, q, d, o
<1>7. Accounted(v)
  <2>0. /\ Len(v.queue) = Len(u.queue) - gone + 1
        /\ gone = 1 \/ (gone = 0 /\ Len(u.queue) # QueueSize)
    BY <1>3, <1>4, <1>6
  <2>1. Len(v.queue) <= QueueSize
    BY <2>0, <1>a, <1>n
  <2>3. v.offered = v.drained + v.dropped + Len(v.queue) + Len(v.hand)
    <3>1. /\ v.offered = u.offered + 1 /\ v.dropped = u.dropped + gone
          /\ v.drained = u.drained /\ v.hand = u.hand
      BY <1>6
    <3>2. u.offered = u.drained + u.dropped + Len(u.queue) + Len(u.hand)
      BY <1>a
    <3>3. /\ u.drained \in Nat /\ u.dropped \in Nat /\ Len(u.queue) \in Nat /\ Len(u.hand) \in Nat
          /\ Len(v.queue) = Len(u.queue) - gone + 1
      BY <1>0, <1>n, <2>0
    <3>4. PICK a \in Nat, b \in Nat, c \in Nat, e \in Nat :
             a = u.drained /\ b = u.dropped /\ c = Len(u.queue) /\ e = Len(u.hand)
      BY <3>3
    <3>5. /\ v.offered = (a + b + c + e) + 1 /\ v.drained = a /\ v.dropped = b + gone
          /\ Len(v.queue) = c - gone + 1 /\ Len(v.hand) = e
      BY <3>1, <3>2, <3>3, <3>4
    <3>6. (a + b + c + e) + 1 = a + (b + gone) + (c - gone + 1) + e
      BY <1>g
    <3> QED BY <3>5, <3>6
  <2>2. ASSUME NEW i \in 1..Len(v.queue)
        PROVE  v.queue[i].n = v.offered - Len(v.queue) + i
    <3>1. CASE i = Len(base) + 1
      <4>1. v.queue[i].n = u.offered + 1 /\ i = Len(v.queue)
        BY <3>1, <1>1, <1>4, <1>6
      <4> QED BY <4>1, <1>0, <1>6, <1>n, <2>0
    <3>2. CASE i # Len(base) + 1
      <4>1. i \in 1..Len(base) /\ i + gone \in 1..Len(u.queue)
        BY <3>2, <1>3, <1>4, <1>6, <1>n, <1>g
      <4>2. v.queue[i].n = u.queue[i + gone].n
        BY <4>1, <1>3, <1>4, <1>6
      <4>3. v.queue[i].n = u.offered - Len(u.queue) + (i + gone)
        BY <4>1, <4>2, <1>a
      <4>4. PICK c \in Nat, a \in Nat : c = Len(u.queue) /\ a = u.offered
        BY <1>0, <1>n
      <4>5. v.queue[i].n = a - c + (i + gone) /\ v.offered = a + 1 /\ Len(v.queue) = c - gone + 1
        BY <4>3, <4>4, <1>6, <2>0
      <4>6. a - c + (i + gone) = (a + 1) - (c - gone + 1) + i
        BY <1>g
      <4> QED BY <4>5, <4>6
    <3> QED BY <3>1, <3>2
  <2> QED BY <2>1, <2>2, <2>3 DEF Accounted
<1>8. FiltersKnown(v)
  <2>1. ASSUME NEW i \in 1..Len(v.queue)
        PROVE  v.queue[i].filter <= Len(v.filters)
    <3>1. CASE i = Len(base) + 1
      <4>1. v.queue[i].filter = filter
        BY <3>1, <1>1, <1>4, <1>6
      <4> QED BY <4>1, <1>n, <1>6
    <3>2. CASE i # Len(base) + 1
      <4>1. i \in 1..Len(base) /\ i + gone \in 1..Len(u.queue)
        BY <3>2, <1>3, <1>4, <1>6, <1>n, <1>g
      <4>2. v.queue[i].filter = u.queue[i + gone].filter
        BY <4>1, <1>3, <1>4, <1>6
      <4> QED BY <4>1, <4>2, <1>6 DEF SocketInv, FiltersKnown
    <3> QED BY <3>1, <3>2
  <2> QED BY <2>1, <1>6 DEF SocketInv, FiltersKnown
<1>9. Handed(v) /\ Governed(v) /\ Patient(v)
  BY <1>6 DEF SocketInv, Handed, Governed, Patient
<1> QED BY <1>6, <1>7, <1>8, <1>9 DEF SocketInv, v

(* A step of one socket leaves the others as they are.                     *)
LEMMA OneSocket ==
    ASSUME FanoutInv, NEW s \in Sockets, NEW v \in Socket, SocketInv(v),
           sub' = [sub EXCEPT ![s] = v], broadcasts' = broadcasts
    PROVE  FanoutInv'
<1>1. sub' \in [Sockets -> Socket]
  BY DEF FanoutInv
<1>2. ASSUME NEW r \in Sockets PROVE SocketInv(sub'[r])
  BY DEF FanoutInv
<1> QED BY <1>1, <1>2 DEF FanoutInv

(* No socket is connected at the start.                                    *)
LEMMA InitHolds == FanoutInit => FanoutInv
<1> SUFFICES ASSUME FanoutInit PROVE FanoutInv
  OBVIOUS
<1>1. NoSocket \in Socket
  BY DEF NoSocket, Socket, SocketPositions
<1>2. SocketInv(NoSocket)
  BY FanoutAssumption DEF SocketInv, Accounted, Handed, FiltersKnown, Governed, Patient, NoSocket
<1> QED BY <1>1, <1>2 DEF FanoutInit, FanoutInv

(* The handshake: a socket is registered with its first filter, told.      *)
LEMMA SubscribeKeeps ==
    ASSUME FanoutInv, NEW s \in Sockets, NEW t \in Tenants, NEW hs \in SUBSET Hosts,
           subscribe(s, t, hs)
    PROVE  FanoutInv'
<1> DEFINE u == sub[s]
           v == [u EXCEPT !.pos = "accept", !.tenant = t, !.hosts = hs, !.filters = <<hs>>, !.told = 1]
<1>1. u \in Socket /\ SocketInv(u) /\ u.pos = "none"
  BY DEF FanoutInv, subscribe
<1>2. sub' = [sub EXCEPT ![s] = v] /\ broadcasts' = broadcasts
  BY DEF subscribe
<1>3. <<hs>> \in Seq(SUBSET Hosts) /\ Len(<<hs>>) = 1 /\ <<hs>>[1] = hs
  OBVIOUS
<1>4. v \in Socket
  BY <1>1, <1>3 DEF Socket, SocketPositions
<1>5. /\ v.pos = "accept" /\ v.hosts = hs /\ v.filters = <<hs>> /\ v.told = 1
      /\ v.queue = u.queue /\ v.hand = u.hand /\ v.dropped = u.dropped /\ v.offered = u.offered
      /\ v.drained = u.drained /\ v.missed = u.missed /\ v.owed = u.owed
  BY <1>1 DEF Socket
<1> HIDE DEF v, u
<1>6. Accounted(v) /\ Handed(v) /\ Governed(v) /\ Patient(v)
  BY <1>1, <1>5 DEF SocketInv, Accounted, Handed, Governed, Patient
<1>7. FiltersKnown(v)
  <2>1. u.queue \in Seq(Frame) /\ u.hand \in Seq(Frame)
    BY <1>1 DEF Socket
  <2>2. ASSUME NEW i \in 1..Len(u.queue) PROVE u.queue[i].filter <= 1
    <3>1. u.queue[i] \in Frame
      BY <2>1, ElementOfSeq
    <3>2. u.queue[i].filter \in Nat
      BY <3>1 DEF Frame
    <3>3. u.queue[i].filter <= 0
      BY <1>1 DEF SocketInv, FiltersKnown
    <3> QED BY <3>2, <3>3
  <2>3. ASSUME NEW i \in 1..Len(u.hand) PROVE u.hand[i].filter <= 1
    <3>1. u.hand[i] \in Frame
      BY <2>1, ElementOfSeq
    <3>2. u.hand[i].filter \in Nat
      BY <3>1 DEF Frame
    <3>3. u.hand[i].filter <= 0
      BY <1>1 DEF SocketInv, FiltersKnown
    <3> QED BY <3>2, <3>3
  <2> QED BY <1>3, <1>5, <2>2, <2>3 DEF FiltersKnown
<1> QED BY <1>2, <1>4, <1>6, <1>7, OneSocket DEF SocketInv

(* Every other step that neither takes, sends nor queues a frame.          *)
LEMMA SameFrames ==
    ASSUME NEW u \in Socket, SocketInv(u), u.pos # "none",
           NEW v \in Socket, v.pos = u.pos \/ v.pos \notin {"none", "send"},
           v.hosts = u.hosts, v.filters = u.filters, v.told = u.told,
           v.queue = u.queue, v.hand = u.hand, v.dropped = u.dropped, v.offered = u.offered,
           v.drained = u.drained, Patient(v)
    PROVE  SocketInv(v)
<1>1. Accounted(v) /\ Handed(v)
  BY DEF SocketInv, Accounted, Handed
<1>2. FiltersKnown(v) /\ Governed(v)
  BY DEF SocketInv, FiltersKnown, Governed
<1> QED BY <1>1, <1>2 DEF SocketInv

(* The handshake is answered.                                              *)
LEMMA AcceptKeeps ==
    ASSUME FanoutInv, NEW s \in Sockets, accept(s)
    PROVE  FanoutInv'
<1> DEFINE u == sub[s]
           v == [u EXCEPT !.pos = "wait", !.listening = TRUE]
<1>1. u \in Socket /\ SocketInv(u) /\ u.pos = "accept"
  BY DEF FanoutInv, accept, Serving
<1>2. sub' = [sub EXCEPT ![s] = v] /\ broadcasts' = broadcasts
  BY DEF accept
<1>3. v \in Socket
  BY <1>1 DEF Socket, SocketPositions
<1>4. /\ v.pos = "wait" /\ v.missed = u.missed /\ v.owed = u.owed
      /\ v.hosts = u.hosts /\ v.filters = u.filters /\ v.told = u.told /\ v.queue = u.queue
      /\ v.hand = u.hand /\ v.dropped = u.dropped /\ v.offered = u.offered /\ v.drained = u.drained
  BY <1>1 DEF Socket
<1> HIDE DEF u, v
<1>5. Patient(v)
  BY <1>1, <1>4, FanoutAssumption DEF SocketInv, Patient, Socket
<1> QED BY <1>1, <1>2, <1>3, <1>4, <1>5, SameFrames, OneSocket

(* The peer said it left.                                                  *)
LEMMA CloseKeeps ==
    ASSUME FanoutInv, NEW s \in Sockets, Close(s)
    PROVE  FanoutInv'
<1> DEFINE u == sub[s]
           v == [u EXCEPT !.pos = "closed"]
<1>1. u \in Socket /\ SocketInv(u) /\ u.pos = "wait"
  BY DEF FanoutInv, Close, Serving
<1>2. sub' = [sub EXCEPT ![s] = v] /\ broadcasts' = broadcasts
  BY DEF Close
<1>3. v \in Socket
  BY <1>1 DEF Socket, SocketPositions
<1>4. /\ v.pos = "closed" /\ v.missed = u.missed /\ v.owed = u.owed
      /\ v.hosts = u.hosts /\ v.filters = u.filters /\ v.told = u.told /\ v.queue = u.queue
      /\ v.hand = u.hand /\ v.dropped = u.dropped /\ v.offered = u.offered /\ v.drained = u.drained
  BY <1>1 DEF Socket
<1> HIDE DEF u, v
<1>5. Patient(v)
  BY <1>1, <1>4, FanoutAssumption DEF SocketInv, Patient, Socket
<1> QED BY <1>1, <1>2, <1>3, <1>4, <1>5, SameFrames, OneSocket

(* A pong answers one ping and forgives all.                               *)
LEMMA PongKeeps ==
    ASSUME FanoutInv, NEW s \in Sockets, pong(s)
    PROVE  FanoutInv'
<1> DEFINE u == sub[s]
<1>1. u \in Socket /\ SocketInv(u) /\ u.pos \in {"wait", "send"} /\ u.owed \in 1..MaxOwed
  BY DEF FanoutInv, pong, Serving
<1>2. PICK n \in Nat : n = u.owed - 1
  <2>1. MaxOwed \in Nat
    BY FanoutAssumption
  <2>2. \A x \in 1..MaxOwed : x - 1 \in Nat
    BY <2>1
  <2>3. u.owed - 1 \in Nat
    BY <1>1, <2>2, Zenon
  <2> QED BY <2>3, Zenon
<1> DEFINE v == [u EXCEPT !.missed = 0, !.owed = n]
<1>3. sub' = [sub EXCEPT ![s] = v] /\ broadcasts' = broadcasts
  BY <1>2 DEF pong
<1>4. v \in Socket
  BY <1>1 DEF Socket
<1>5. /\ v.pos = u.pos /\ v.missed = 0 /\ v.owed = n
      /\ v.hosts = u.hosts /\ v.filters = u.filters /\ v.told = u.told /\ v.queue = u.queue
      /\ v.hand = u.hand /\ v.dropped = u.dropped /\ v.offered = u.offered /\ v.drained = u.drained
  BY <1>1 DEF Socket
<1> HIDE DEF u, v
<1>6. Patient(v)
  <2>1. v.pos \in {"wait", "send"} /\ v.missed = 0 /\ v.owed = n
    BY <1>1, <1>5, Zenon
  <2>2. 0 <= n
    OBVIOUS
  <2> QED BY <2>1, <2>2 DEF Patient
<1> QED BY <1>1, <1>3, <1>4, <1>5, <1>6, SameFrames, OneSocket

(* The receiving task ends.                                                *)
LEMMA DisconnectKeeps ==
    ASSUME FanoutInv, NEW s \in Sockets, Disconnect(s)
    PROVE  FanoutInv'
<1> DEFINE u == sub[s]
           v == [u EXCEPT !.listening = FALSE]
<1>1. u \in Socket /\ SocketInv(u) /\ u.pos \in {"wait", "send"}
  BY DEF FanoutInv, Disconnect, Serving
<1>2. sub' = [sub EXCEPT ![s] = v] /\ broadcasts' = broadcasts
  BY DEF Disconnect
<1>3. v \in Socket
  BY <1>1 DEF Socket, SocketPositions
<1>4. /\ v.pos = u.pos /\ v.missed = u.missed /\ v.owed = u.owed
      /\ v.hosts = u.hosts /\ v.filters = u.filters /\ v.told = u.told /\ v.queue = u.queue
      /\ v.hand = u.hand /\ v.dropped = u.dropped /\ v.offered = u.offered /\ v.drained = u.drained
  BY <1>1 DEF Socket
<1> HIDE DEF u, v
<1>5. Patient(v)
  BY <1>1, <1>4, FanoutAssumption DEF SocketInv, Patient, Socket
<1> QED BY <1>1, <1>2, <1>3, <1>4, <1>5, SameFrames, OneSocket

(* The peer vanishes.                                                      *)
LEMMA SilenceKeeps ==
    ASSUME FanoutInv, NEW s \in Sockets, FallSilent(s)
    PROVE  FanoutInv'
<1> DEFINE u == sub[s]
           v == [u EXCEPT !.alive = FALSE]
<1>1. u \in Socket /\ SocketInv(u) /\ u.pos \in {"wait", "send"}
  BY DEF FanoutInv, FallSilent, Serving
<1>2. sub' = [sub EXCEPT ![s] = v] /\ broadcasts' = broadcasts
  BY DEF FallSilent
<1>3. v \in Socket
  BY <1>1 DEF Socket, SocketPositions
<1>4. /\ v.pos = u.pos /\ v.missed = u.missed /\ v.owed = u.owed
      /\ v.hosts = u.hosts /\ v.filters = u.filters /\ v.told = u.told /\ v.queue = u.queue
      /\ v.hand = u.hand /\ v.dropped = u.dropped /\ v.offered = u.offered /\ v.drained = u.drained
  BY <1>1 DEF Socket
<1> HIDE DEF u, v
<1>5. Patient(v)
  BY <1>1, <1>4, FanoutAssumption DEF SocketInv, Patient, Socket
<1> QED BY <1>1, <1>2, <1>3, <1>4, <1>5, SameFrames, OneSocket

(* A whole interval without a frame: one more ping, or the end.            *)
LEMMA HeartbeatKeeps ==
    ASSUME FanoutInv, NEW s \in Sockets, Heartbeat(s)
    PROVE  FanoutInv'
<1> DEFINE u == sub[s]
<1>1. /\ u \in Socket /\ SocketInv(u) /\ u.pos = "wait" /\ broadcasts' = broadcasts
      /\ u.missed \in Nat /\ u.owed \in Nat /\ MaxMissed \in Nat
  BY FanoutAssumption DEF FanoutInv, Heartbeat, Socket
<1>2. CASE u.missed >= MaxMissed
  <2> DEFINE v == [u EXCEPT !.pos = "timed out"]
  <2>1. sub' = [sub EXCEPT ![s] = v]
    BY <1>2 DEF Heartbeat
  <2>2. v \in Socket
    BY <1>1 DEF Socket, SocketPositions
  <2>3. /\ v.pos = "timed out" /\ v.missed = u.missed /\ v.owed = u.owed
        /\ v.hosts = u.hosts /\ v.filters = u.filters /\ v.told = u.told /\ v.queue = u.queue
        /\ v.hand = u.hand /\ v.dropped = u.dropped /\ v.offered = u.offered /\ v.drained = u.drained
    BY <1>1 DEF Socket
  <2> HIDE DEF u, v
  <2>4. Patient(v)
    BY <1>1, <1>2, <2>3 DEF SocketInv, Patient
  <2> QED BY <1>1, <2>1, <2>2, <2>3, <2>4, SameFrames, OneSocket
<1>3. CASE ~(u.missed >= MaxMissed)
  <2>0. PICK m \in Nat, n \in Nat : m = u.missed + 1 /\ n = u.owed + 1
    <3>1. \A x \in Nat : x + 1 \in Nat
      OBVIOUS
    <3>2. u.missed + 1 \in Nat /\ u.owed + 1 \in Nat
      BY <1>1, <3>1, Zenon
    <3> QED BY <3>2, Zenon
  <2> DEFINE v == [u EXCEPT !.missed = m, !.owed = n]
  <2>1. sub' = [sub EXCEPT ![s] = v]
    <3>1. v = [u EXCEPT !.missed = u.missed + 1, !.owed = u.owed + 1]
      BY <2>0
    <3>2. sub' = [sub EXCEPT ![s] =
                    IF u.missed >= MaxMissed THEN [u EXCEPT !.pos = "timed out"]
                    ELSE [u EXCEPT !.missed = u.missed + 1, !.owed = u.owed + 1]]
      BY DEF Heartbeat
    <3> QED BY <1>3, <3>1, <3>2, Zenon
  <2>2. v \in Socket
    BY <1>1 DEF Socket
  <2>3. /\ v.pos = u.pos /\ v.missed = m /\ v.owed = n
        /\ v.hosts = u.hosts /\ v.filters = u.filters /\ v.told = u.told /\ v.queue = u.queue
        /\ v.hand = u.hand /\ v.dropped = u.dropped /\ v.offered = u.offered /\ v.drained = u.drained
    BY <1>1 DEF Socket
  <2> HIDE DEF u, v
  <2>4. Patient(v)
    BY <1>1, <2>0, <2>3 DEF SocketInv, Patient
  <2> QED BY <1>1, <2>1, <2>2, <2>3, <2>4, SameFrames, OneSocket
<1> QED BY <1>2, <1>3

(* The frame at the head of the queue is taken in hand.                    *)
LEMMA TakeKeeps ==
    ASSUME FanoutInv, NEW s \in Sockets, Take(s)
    PROVE  FanoutInv'
<1> DEFINE u == sub[s]
           frame == Head(u.queue)
           rest == Tail(u.queue)
           v == [u EXCEPT !.hand = <<frame>>, !.queue = rest]
<1>1. /\ u \in Socket /\ SocketInv(u) /\ u.pos = "wait" /\ broadcasts' = broadcasts
      /\ u.queue \in Seq(Frame) /\ u.queue # <<>> /\ u.hand = <<>>
      /\ u.offered \in Nat /\ u.dropped \in Nat /\ u.drained \in Nat
  BY DEF FanoutInv, Take, Socket
<1>2. sub' = [sub EXCEPT ![s] = v]
  BY DEF Take
<1>3. /\ frame = u.queue[1] /\ frame \in Frame /\ rest \in Seq(Frame)
      /\ Len(rest) = Len(u.queue) - 1 /\ Len(u.queue) \in Nat \ {0}
      /\ \A i \in 1..Len(rest) : rest[i] = u.queue[i + 1]
  BY <1>1, HeadTailProperties, EmptySeq, LenProperties
<1>4. <<frame>> \in Seq(Frame) /\ Len(<<frame>>) = 1 /\ <<frame>>[1] = frame
  BY <1>3
<1> HIDE DEF frame, rest
<1>5. v \in Socket
  BY <1>1, <1>3, <1>4 DEF Socket
<1>6. /\ v.hand = <<frame>> /\ v.queue = rest
      /\ v.pos = u.pos /\ v.missed = u.missed /\ v.owed = u.owed /\ v.hosts = u.hosts
      /\ v.filters = u.filters /\ v.told = u.told /\ v.dropped = u.dropped
      /\ v.offered = u.offered /\ v.drained = u.drained
  BY <1>1 DEF Socket
<1> HIDE DEF u, v
<1>7. Accounted(v)
  <2>1. Len(u.hand) = 0 /\ Len(v.hand) = 1
    BY <1>1, <1>4, <1>6
  <2>2. u.offered = u.drained + u.dropped + Len(u.queue) + Len(u.hand) /\ Len(u.queue) <= QueueSize
    BY <1>1 DEF SocketInv, Accounted
  <2>3. v.offered = v.drained + v.dropped + Len(v.queue) + Len(v.hand)
    BY <1>1, <1>3, <1>6, <2>1, <2>2
  <2>4. ASSUME NEW i \in 1..Len(v.queue)
        PROVE  v.queue[i].n = v.offered - Len(v.queue) + i
    <3>1. i + 1 \in 1..Len(u.queue) /\ v.queue[i] = u.queue[i + 1]
      BY <1>3, <1>6
    <3>2. v.queue[i].n = u.offered - Len(u.queue) + (i + 1)
      BY <1>1, <3>1 DEF SocketInv, Accounted
    <3>3. PICK c \in Nat, o \in Nat : c = Len(u.queue) /\ o = u.offered
      BY <1>1, <1>3
    <3>4. v.queue[i].n = o - c + (i + 1) /\ v.offered = o /\ Len(v.queue) = c - 1
      BY <1>3, <1>6, <3>2, <3>3
    <3>5. i \in Nat
      BY <1>3, <1>6
    <3>6. o - c + (i + 1) = o - (c - 1) + i
      BY <3>5
    <3> QED BY <3>4, <3>6
  <2>5. Len(v.queue) <= QueueSize
    BY <1>3, <1>6, <2>2, FanoutAssumption
  <2> QED BY <2>3, <2>4, <2>5 DEF Accounted
<1>8. FiltersKnown(v)
  <2>1. ASSUME NEW i \in 1..Len(v.queue) PROVE v.queue[i].filter <= Len(v.filters)
    <3>1. i + 1 \in 1..Len(u.queue) /\ v.queue[i] = u.queue[i + 1]
      BY <1>3, <1>6
    <3> QED BY <1>1, <1>6, <3>1 DEF SocketInv, FiltersKnown
  <2>2. ASSUME NEW i \in 1..Len(v.hand) PROVE v.hand[i].filter <= Len(v.filters)
    <3>1. v.hand[i] = u.queue[1] /\ 1 \in 1..Len(u.queue)
      BY <1>3, <1>4, <1>6
    <3> QED BY <1>1, <1>6, <3>1 DEF SocketInv, FiltersKnown
  <2> QED BY <1>1, <1>6, <2>1, <2>2 DEF SocketInv, FiltersKnown
<1>9. Handed(v) /\ Governed(v) /\ Patient(v)
  BY <1>1, <1>4, <1>6 DEF SocketInv, Handed, Governed, Patient
<1> QED BY <1>1, <1>2, <1>5, <1>7, <1>8, <1>9, OneSocket DEF SocketInv

(* _serve resumes: the filter of this moment lets the frame through, or    *)
(* holds it back.                                                          *)
LEMMA ResumeKeeps ==
    ASSUME FanoutInv, NEW s \in Sockets, Resume(s)
    PROVE  FanoutInv'
<1> DEFINE u == sub[s]
<1>1. /\ u \in Socket /\ SocketInv(u) /\ u.pos = "wait" /\ broadcasts' = broadcasts
      /\ u.queue \in Seq(Frame) /\ u.hand \in Seq(Frame) /\ u.hand # <<>>
      /\ u.filters \in Seq(SUBSET Hosts)
      /\ u.offered \in Nat /\ u.dropped \in Nat /\ u.drained \in Nat
  BY DEF FanoutInv, Resume, Socket
<1>2. Len(u.hand) = 1 /\ Len(u.queue) \in Nat /\ Len(u.filters) \in Nat
  <2> HIDE DEF u
  <2>1. Len(u.hand) \in Nat /\ Len(u.hand) # 0 /\ Len(u.queue) \in Nat /\ Len(u.filters) \in Nat
    BY <1>1, EmptySeq, LenProperties
  <2>2. Len(u.hand) <= 1
    BY <1>1 DEF SocketInv, Handed
  <2>3. \A n \in Nat : n # 0 /\ n <= 1 => n = 1
    OBVIOUS
  <2> QED BY <2>1, <2>2, <2>3, Zenon
<1>3. CASE wants(s, u.hand[1].host)
  <2> DEFINE v == [u EXCEPT !.pos = "send"]
  <2>1. sub' = [sub EXCEPT ![s] = v]
    BY <1>3 DEF Resume
  <2>2. v \in Socket
    BY <1>1 DEF Socket, SocketPositions
  <2>3. /\ v.pos = "send" /\ v.missed = u.missed /\ v.owed = u.owed /\ v.hosts = u.hosts
        /\ v.filters = u.filters /\ v.told = u.told /\ v.queue = u.queue /\ v.hand = u.hand
        /\ v.dropped = u.dropped /\ v.offered = u.offered /\ v.drained = u.drained
    BY <1>1 DEF Socket
  <2>4. Wanted(u.hosts, u.hand[1].host)
    BY <1>3 DEF wants
  <2> HIDE DEF u, v
  <2>5. u.told \in 1..Len(u.filters) /\ u.hosts = u.filters[Len(u.filters)]
    BY <1>1 DEF SocketInv, FiltersKnown
  <2>6. Governed(v)
    <3>1. Len(v.filters) \in v.told .. Len(v.filters)
      BY <1>2, <2>3, <2>5
    <3>2. Wanted(v.filters[Len(v.filters)], v.hand[1].host)
      BY <2>3, <2>4, <2>5
    <3> QED BY <3>1, <3>2 DEF Governed
  <2>7. Accounted(v) /\ Handed(v) /\ FiltersKnown(v) /\ Patient(v)
    BY <1>1, <1>2, <2>3 DEF SocketInv, Accounted, Handed, FiltersKnown, Patient
  <2> QED BY <1>1, <2>1, <2>2, <2>6, <2>7, OneSocket DEF SocketInv
<1>4. CASE ~wants(s, u.hand[1].host)
  <2>0. PICK d \in Nat : d = u.drained + 1
    BY <1>1
  <2> DEFINE v == [u EXCEPT !.hand = <<>>, !.drained = d]
  <2>e. <<>> \in Seq(Frame)
    OBVIOUS
  <2>1. sub' = [sub EXCEPT ![s] = v]
    BY <1>4, <2>0 DEF Resume
  <2>2. v \in Socket
    BY <1>1, <2>e, Zenon DEF Socket
  <2>3. /\ v.pos = u.pos /\ v.missed = u.missed /\ v.owed = u.owed /\ v.hosts = u.hosts
        /\ v.filters = u.filters /\ v.told = u.told /\ v.queue = u.queue /\ v.hand = <<>>
        /\ v.dropped = u.dropped /\ v.offered = u.offered /\ v.drained = d
    BY <1>1 DEF Socket
  <2> HIDE DEF u, v
  <2>4. Accounted(v)
    <3>1. v.offered = v.drained + v.dropped + Len(v.queue) + Len(v.hand)
      <4>1. u.offered = u.drained + u.dropped + Len(u.queue) + Len(u.hand)
        BY <1>1 DEF SocketInv, Accounted
      <4>2. Len(v.hand) = 0 /\ v.offered = u.offered /\ v.dropped = u.dropped
            /\ v.drained = u.drained + 1 /\ Len(v.queue) = Len(u.queue)
        BY <2>0, <2>3
      <4>3. PICK a \in Nat, b \in Nat, c \in Nat :
               a = u.drained /\ b = u.dropped /\ c = Len(u.queue)
        BY <1>1, <1>2
      <4>4. a + b + c + 1 = (a + 1) + b + c + 0
        OBVIOUS
      <4> QED BY <1>2, <4>1, <4>2, <4>3, <4>4
    <3> QED BY <1>1, <2>3, <3>1 DEF SocketInv, Accounted
  <2>5. Handed(v) /\ Governed(v) /\ Patient(v)
    BY <1>1, <2>3 DEF SocketInv, Handed, Governed, Patient
  <2>6. FiltersKnown(v)
    BY <1>1, <2>3 DEF SocketInv, FiltersKnown
  <2> QED BY <1>1, <2>1, <2>2, <2>4, <2>5, <2>6, OneSocket DEF SocketInv
<1> QED BY <1>3, <1>4

(* The frame is out; if it told of a filter, the client now knows it.      *)
LEMMA SentKeeps ==
    ASSUME FanoutInv, NEW s \in Sockets, Sent(s)
    PROVE  FanoutInv'
<1> DEFINE u == sub[s]
           told == IF u.hand[1].filter = 0 THEN u.told ELSE u.hand[1].filter
<1>1. /\ u \in Socket /\ SocketInv(u) /\ u.pos = "send" /\ broadcasts' = broadcasts
      /\ u.queue \in Seq(Frame) /\ u.hand \in Seq(Frame) /\ u.filters \in Seq(SUBSET Hosts)
      /\ u.offered \in Nat /\ u.dropped \in Nat /\ u.drained \in Nat
  BY DEF FanoutInv, Sent, Socket
<1>2. Len(u.hand) = 1 /\ Len(u.queue) \in Nat /\ Len(u.filters) \in Nat
  BY <1>1, LenProperties DEF SocketInv, Handed
<1>3. u.hand[1] \in Frame /\ u.hand[1].filter \in Nat
  <2>1. u.hand[1] \in Frame
    BY <1>1, <1>2, ElementOfSeq
  <2> QED BY <2>1 DEF Frame
<1>4. told \in 1..Len(u.filters)
  <2>1. u.told \in 1..Len(u.filters) /\ u.hand[1].filter <= Len(u.filters)
    BY <1>1, <1>2 DEF SocketInv, FiltersKnown
  <2> QED BY <1>2, <1>3, <2>1
<1>5. PICK k \in Nat, d \in Nat : k = told /\ d = u.drained + 1
  BY <1>1, <1>2, <1>4
<1> DEFINE v == [u EXCEPT !.pos = "wait", !.hand = <<>>, !.drained = d, !.told = k]
<1>6. sub' = [sub EXCEPT ![s] = v]
  BY <1>5 DEF Sent
<1> HIDE DEF told
<1>7. v \in Socket
  <2>1. <<>> \in Seq(Frame) /\ "wait" \in SocketPositions
    BY DEF SocketPositions
  <2> QED BY <1>1, <2>1, Zenon DEF Socket
<1>8. /\ v.pos = "wait" /\ v.missed = u.missed /\ v.owed = u.owed /\ v.hosts = u.hosts
      /\ v.filters = u.filters /\ v.told = k /\ v.queue = u.queue /\ v.hand = <<>>
      /\ v.dropped = u.dropped /\ v.offered = u.offered /\ v.drained = d
  BY <1>1 DEF Socket
<1> HIDE DEF u, v
<1>9. Accounted(v)
  <2>1. v.offered = v.drained + v.dropped + Len(v.queue) + Len(v.hand)
    <3>1. u.offered = u.drained + u.dropped + Len(u.queue) + Len(u.hand)
      BY <1>1 DEF SocketInv, Accounted
    <3>2. Len(v.hand) = 0 /\ v.offered = u.offered /\ v.dropped = u.dropped
          /\ v.drained = u.drained + 1 /\ Len(v.queue) = Len(u.queue)
      BY <1>5, <1>8
    <3>3. PICK a \in Nat, b \in Nat, c \in Nat :
             a = u.drained /\ b = u.dropped /\ c = Len(u.queue)
      BY <1>1, <1>2
    <3>4. a + b + c + 1 = (a + 1) + b + c + 0
      OBVIOUS
    <3> QED BY <1>2, <3>1, <3>2, <3>3, <3>4
  <2> QED BY <1>1, <1>8, <2>1 DEF SocketInv, Accounted
<1>10. Handed(v) /\ Governed(v) /\ Patient(v)
  BY <1>1, <1>8 DEF SocketInv, Handed, Governed, Patient
<1>11. FiltersKnown(v)
  BY <1>1, <1>4, <1>5, <1>8 DEF SocketInv, FiltersKnown
<1> QED BY <1>1, <1>6, <1>7, <1>9, <1>10, <1>11, OneSocket DEF SocketInv

(* A filter message: the new filter is in force at once, and its           *)
(* acknowledgement queued behind what was there.                           *)
LEMMA SetHostsKeeps ==
    ASSUME FanoutInv, NEW s \in Sockets, NEW hs \in SUBSET Hosts, set_hosts(s, hs)
    PROVE  FanoutInv'
<1> DEFINE u == sub[s]
           longer == Append(u.filters, hs)
           v == [u EXCEPT !.hosts = hs, !.filters = longer]
           n == Len(u.filters) + 1
<1>1. /\ u \in Socket /\ SocketInv(u) /\ u.pos \in {"wait", "send"} /\ broadcasts' = broadcasts
      /\ u.filters \in Seq(SUBSET Hosts) /\ u.hand \in Seq(Frame) /\ u.queue \in Seq(Frame)
  BY DEF FanoutInv, set_hosts, Serving, Socket
<1>2. sub' = [sub EXCEPT ![s] = offer(v, Server, n)]
  BY DEF set_hosts
<1>3. /\ longer \in Seq(SUBSET Hosts) /\ Len(longer) = n /\ longer[n] = hs
      /\ \A i \in 1..Len(u.filters) : longer[i] = u.filters[i]
  BY <1>1, AppendProperties
<1>n. Len(u.filters) \in Nat /\ n \in Nat /\ Len(u.hand) \in Nat /\ Len(u.queue) \in Nat
  BY <1>1, LenProperties
<1> HIDE DEF longer
<1>4. v \in Socket
  BY <1>1, <1>3, Zenon DEF Socket
<1>5. /\ v.pos = u.pos /\ v.missed = u.missed /\ v.owed = u.owed /\ v.hosts = hs
      /\ v.filters = longer /\ v.told = u.told /\ v.queue = u.queue /\ v.hand = u.hand
      /\ v.dropped = u.dropped /\ v.offered = u.offered /\ v.drained = u.drained
  BY <1>1 DEF Socket
<1> HIDE DEF u, v
<1>6. Accounted(v) /\ Handed(v) /\ Patient(v)
  BY <1>1, <1>5 DEF SocketInv, Accounted, Handed, Patient
<1>7. FiltersKnown(v)
  <2>1. ASSUME NEW i \in 1..Len(v.queue) PROVE v.queue[i].filter <= Len(v.filters)
    <3>1. u.queue[i] \in Frame
      BY <1>1, <1>5, ElementOfSeq
    <3>2. u.queue[i].filter \in Nat
      BY <3>1 DEF Frame
    <3>3. u.queue[i].filter <= Len(u.filters)
      BY <1>1, <1>5 DEF SocketInv, FiltersKnown
    <3> QED BY <1>3, <1>5, <1>n, <3>2, <3>3
  <2>2. ASSUME NEW i \in 1..Len(v.hand) PROVE v.hand[i].filter <= Len(v.filters)
    <3>1. u.hand[i] \in Frame
      BY <1>1, <1>5, ElementOfSeq
    <3>2. u.hand[i].filter \in Nat
      BY <3>1 DEF Frame
    <3>3. u.hand[i].filter <= Len(u.filters)
      BY <1>1, <1>5 DEF SocketInv, FiltersKnown
    <3> QED BY <1>3, <1>5, <1>n, <3>2, <3>3
  <2>3. v.told \in 1..Len(v.filters)
    <3>1. u.told \in 1..Len(u.filters)
      BY <1>1 DEF SocketInv, FiltersKnown
    <3> QED BY <1>3, <1>5, <1>n, <3>1
  <2>4. v.hosts = v.filters[Len(v.filters)]
    BY <1>3, <1>5
  <2>5. v.pos # "none"
    BY <1>1, <1>5
  <2> QED BY <2>1, <2>2, <2>3, <2>4, <2>5 DEF FiltersKnown
<1>8. Governed(v)
  <2> SUFFICES ASSUME u.pos = "send"
               PROVE  \E k \in v.told .. Len(v.filters) : Wanted(v.filters[k], v.hand[1].host)
    BY <1>5 DEF Governed
  <2>1. PICK k \in u.told .. Len(u.filters) : Wanted(u.filters[k], u.hand[1].host)
    BY <1>1 DEF SocketInv, Governed
  <2>2. u.told \in 1..Len(u.filters)
    BY <1>1 DEF SocketInv, FiltersKnown
  <2>3. k \in 1..Len(u.filters) /\ k \in v.told .. Len(v.filters)
    BY <1>3, <1>5, <1>n, <2>2
  <2>4. Wanted(v.filters[k], v.hand[1].host)
    BY <1>3, <1>5, <2>1, <2>3
  <2> QED BY <2>3, <2>4
<1>9. offer(v, Server, n) \in Socket /\ SocketInv(offer(v, Server, n))
  <2>1. SocketInv(v) /\ n \in 0..Len(v.filters)
    BY <1>3, <1>5, <1>6, <1>7, <1>8, <1>n DEF SocketInv
  <2> QED BY <1>4, <2>1, OfferKeeps
<1> QED BY <1>1, <1>2, <1>9, OneSocket

(* A forecast is offered to every socket of its tenant.                    *)
LEMMA BroadcastKeeps ==
    ASSUME FanoutInv, NEW t \in Tenants, NEW h \in Hosts, broadcast(t, h)
    PROVE  FanoutInv'
<1>1. ASSUME NEW s \in Sockets
      PROVE  offer(sub[s], h, 0) \in Socket /\ SocketInv(offer(sub[s], h, 0))
  <2>1. sub[s] \in Socket /\ SocketInv(sub[s])
    BY DEF FanoutInv
  <2>2. 0 \in 0 .. Len(sub[s].filters)
    <3>1. sub[s].filters \in Seq(SUBSET Hosts)
      BY <2>1 DEF Socket
    <3>2. Len(sub[s].filters) \in Nat
      BY <3>1, LenProperties
    <3> QED BY <3>2
  <2> QED BY <2>1, <2>2, OfferKeeps
<1>2. sub' = [s \in Sockets |-> IF Registered(s) /\ sub[s].tenant = t
                                THEN offer(sub[s], h, 0) ELSE sub[s]]
  BY DEF broadcast
<1>3. \A s \in Sockets : sub'[s] \in Socket /\ SocketInv(sub'[s])
  BY <1>1, <1>2 DEF FanoutInv
<1>4. sub' \in [Sockets -> Socket]
  BY <1>2, <1>3
<1>5. broadcasts' \in Nat
  BY DEF FanoutInv, broadcast
<1> QED BY <1>3, <1>4, <1>5 DEF FanoutInv

(* Every step keeps the invariant.                                         *)
LEMMA FanoutStep == FanoutInv /\ [FanoutNext]_fanoutVars => FanoutInv'
<1> SUFFICES ASSUME FanoutInv, [FanoutNext]_fanoutVars PROVE FanoutInv'
  OBVIOUS
<1>1. ASSUME NEW t \in Tenants, NEW h \in Hosts, broadcast(t, h) PROVE FanoutInv'
  BY <1>1, BroadcastKeeps
<1>2. ASSUME NEW s \in Sockets, NEW t \in Tenants, NEW hs \in SUBSET Hosts, subscribe(s, t, hs)
      PROVE  FanoutInv'
  BY <1>2, SubscribeKeeps
<1>3. ASSUME NEW s \in Sockets, NEW hs \in SUBSET Hosts, set_hosts(s, hs) PROVE FanoutInv'
  BY <1>3, SetHostsKeeps
<1>4. ASSUME NEW s \in Sockets,
             \/ accept(s) \/ Take(s) \/ Resume(s) \/ Sent(s) \/ Heartbeat(s) \/ Close(s)
             \/ pong(s) \/ Disconnect(s) \/ FallSilent(s)
      PROVE  FanoutInv'
  BY <1>4, AcceptKeeps, TakeKeeps, ResumeKeeps, SentKeeps, HeartbeatKeeps, CloseKeeps,
     PongKeeps, DisconnectKeeps, SilenceKeeps
<1>5. CASE UNCHANGED fanoutVars
  BY <1>5 DEF fanoutVars, FanoutInv
<1> QED BY <1>1, <1>2, <1>3, <1>4, <1>5 DEF FanoutNext

(* The inductive invariant holds throughout.                               *)
THEOREM FanoutInvariant == FanoutSpec => []FanoutInv
<1>1. FanoutInit => FanoutInv
  BY InitHolds
<1>2. FanoutInv /\ [FanoutNext]_fanoutVars => FanoutInv'
  BY FanoutStep
<1> QED BY <1>1, <1>2, PTL DEF FanoutSpec

(* Whatever is broadcast, however slow or silent its peer and whatever it  *)
(* asks for, a socket loses no frame that is not counted, keeps the newest *)
(* in order, and is given up only when its peer owes ws_max_missed_pongs   *)
(* answers (Subscription.offer, _serve and _receive of api/ws.py).         *)
THEOREM SocketsAreServedHolds == FanoutSpec => []SocketsAreServed
<1>1. FanoutInv => SocketsAreServed
  <2> SUFFICES ASSUME FanoutInv, NEW s \in Sockets
               PROVE  /\ Accounted(sub[s])
                      /\ sub[s].pos = "timed out" => sub[s].owed >= MaxMissed
    BY DEF SocketsAreServed, NothingLostSilently, OnlyTheSilentTimeOut, Accounted
  <2>1. sub[s] \in Socket /\ Accounted(sub[s]) /\ Patient(sub[s])
    BY DEF FanoutInv, SocketInv
  <2>2. sub[s].missed \in Nat /\ sub[s].owed \in Nat /\ MaxMissed \in Nat
    BY <2>1, FanoutAssumption DEF Socket
  <2>3. sub[s].missed <= sub[s].owed
    BY <2>1 DEF Patient
  <2>4. sub[s].pos = "timed out" => sub[s].missed >= MaxMissed
    BY <2>1 DEF Patient
  <2>5. \A a, b, c \in Nat : a <= b /\ a >= c => b >= c
    OBVIOUS
  <2>6. sub[s].pos = "timed out" => sub[s].owed >= MaxMissed
    BY <2>2, <2>3, <2>4, <2>5
  <2> QED BY <2>1, <2>6
<1> QED BY <1>1, FanoutInvariant, PTL

(* No forecast is sent that the filter last acknowledged to the client,    *)
(* and every later one, would have held back (set_hosts and _serve).       *)
THEOREM FilterToldGovernsHolds == FanoutSpec => FilterToldGoverns
<1>1. FanoutInv => \A s \in Sockets : Sent(s) =>
         \E k \in sub[s].told .. Len(sub[s].filters) :
            Wanted(sub[s].filters[k], sub[s].hand[1].host)
  BY DEF FanoutInv, SocketInv, Governed, Sent
<1> QED BY <1>1, FanoutInvariant, PTL DEF FilterToldGoverns

-----------------------------------------------------------------------------
(***************************************************************************)
(* Uploads.  `pos` tells what of an upload has reached which store.        *)
(***************************************************************************)
UploadPositions == {"new", "reading", "insert", "publish", "accepted", "refused", "failed"}

UploadRecord ==
    [pos : UploadPositions, ext : Extensions, content : Contents,
     chunks : 0 .. MaxChunks, written : Nat]

KindOf(u) == job_kind_for(upload[u].content, upload[u].ext)

IsStored(u) == /\ disk[u].dir /\ disk[u].chunks = upload[u].written
               /\ upload[u].written = upload[u].chunks
               /\ upload[u].chunks \in 1 .. CapChunks /\ KindOf(u) # Nothing

NothingSent(u) == jobRow[u] = Nothing /\ queuedJob[u] = Nothing

UploadInv(u) ==
    /\ upload[u].pos \in {"new", "refused"} =>
          ~disk[u].dir /\ disk[u].chunks = NoFile /\ NothingSent(u)
    /\ upload[u].pos = "reading" =>
          /\ NothingSent(u) /\ disk[u].dir /\ disk[u].chunks = upload[u].written
          /\ upload[u].written \in 0 .. CapChunks /\ upload[u].written <= upload[u].chunks
    /\ upload[u].pos = "insert" => NothingSent(u) /\ IsStored(u)
    /\ upload[u].pos = "publish" => IsStored(u) /\ jobRow[u] = KindOf(u) /\ queuedJob[u] = Nothing
    /\ queuedJob[u] # Nothing => IsStored(u) /\ jobRow[u] = KindOf(u) /\ queuedJob[u] = KindOf(u)

UploadTypeOK ==
    /\ upload \in [UploadIds -> UploadRecord]
    /\ disk \in [UploadIds -> [dir : BOOLEAN, chunks : Nat \union {NoFile}]]
    /\ jobRow \in [UploadIds -> {"pcap", "csv", Nothing}]
    /\ queuedJob \in [UploadIds -> {"pcap", "csv", Nothing}]

UploadsInv == UploadTypeOK /\ \A u \in UploadIds : UploadInv(u)

\* A kind is one of two, and the content decides which.
LEMMA KindIs ==
    ASSUME UploadTypeOK, NEW u \in UploadIds
    PROVE  /\ KindOf(u) \in {"pcap", "csv", Nothing}
           /\ KindOf(u) # Nothing => KindOf(u) = IF upload[u].content = "magic" THEN "pcap" ELSE "csv"
<1>1. upload[u].content \in Contents /\ upload[u].ext \in Extensions
  BY DEF UploadTypeOK, UploadRecord
<1>2. QED
  BY <1>1 DEF KindOf, job_kind_for, Contents, Extensions, Nothing

\* Nothing is sent, nothing is stored.
LEMMA InitUploads == UploadInit => UploadsInv
<1> SUFFICES ASSUME UploadInit PROVE UploadsInv
  OBVIOUS
<1>1. MaxChunks \in Nat
  BY UploadAssumption DEF UploadAssumption
<1>2. 0 \in 0 .. MaxChunks /\ "exe" \in Extensions /\ "binary" \in Contents
  BY <1>1 DEF Extensions, Contents
<1>3. UploadTypeOK
  BY <1>2 DEF UploadInit, UploadTypeOK, UploadRecord, UploadPositions
<1>4. ASSUME NEW u \in UploadIds PROVE UploadInv(u)
  BY DEF UploadInit, UploadInv, NothingSent
<1>5. QED
  BY <1>3, <1>4 DEF UploadsInv

\* An upload that a step does not touch stays as it is.
LEMMA OtherUpload ==
    ASSUME NEW v \in UploadIds, UploadInv(v), upload'[v] = upload[v], disk'[v] = disk[v],
           jobRow'[v] = jobRow[v], queuedJob'[v] = queuedJob[v]
    PROVE  UploadInv(v)'
BY DEF UploadInv, NothingSent, IsStored, KindOf

\* A step of upload u that sets its own entries keeps the types and the others.
LEMMA OwnUpload ==
    ASSUME UploadsInv, NEW u \in UploadIds, NEW r \in UploadRecord,
           NEW d \in [dir : BOOLEAN, chunks : Nat \union {NoFile}],
           NEW j \in {"pcap", "csv", Nothing}, NEW q \in {"pcap", "csv", Nothing},
           upload' = [upload EXCEPT ![u] = r], disk' = [disk EXCEPT ![u] = d],
           jobRow' = [jobRow EXCEPT ![u] = j], queuedJob' = [queuedJob EXCEPT ![u] = q],
           UploadInv(u)'
    PROVE  UploadsInv'
<1>1. UploadTypeOK'
  BY DEF UploadsInv, UploadTypeOK
<1>2. ASSUME NEW v \in UploadIds, v # u PROVE UploadInv(v)'
  <2>1. /\ upload'[v] = upload[v] /\ disk'[v] = disk[v]
        /\ jobRow'[v] = jobRow[v] /\ queuedJob'[v] = queuedJob[v]
    BY <1>2 DEF UploadsInv, UploadTypeOK
  <2>2. UploadInv(v)
    BY DEF UploadsInv
  <2>3. QED
    BY <2>1, <2>2, OtherUpload
<1>3. QED
  BY <1>1, <1>2 DEF UploadsInv

\* An upload is refused, and its directory with it.
LEMMA RefuseKeeps ==
    ASSUME UploadsInv, NEW u \in UploadIds, Step(u, "reading"), Refuse(u)
    PROVE  UploadsInv'
<1>1. PICK r : r = [upload[u] EXCEPT !.pos = "refused"]
  OBVIOUS
<1>2. PICK d : d = [dir |-> FALSE, chunks |-> NoFile]
  OBVIOUS
<1>3. upload[u] \in UploadRecord /\ upload[u].pos = "reading" /\ UploadInv(u) /\ UploadTypeOK
  BY DEF UploadsInv, UploadTypeOK, Step
<1>4. NothingSent(u)
  BY <1>3 DEF UploadInv
<1>5. r \in UploadRecord /\ r.pos = "refused"
  BY <1>1, <1>3 DEF UploadRecord, UploadPositions
<1>6. upload' = [upload EXCEPT ![u] = r] /\ disk' = [disk EXCEPT ![u] = d]
  BY <1>1, <1>2 DEF Refuse
<1>7. /\ jobRow' = [jobRow EXCEPT ![u] = Nothing] /\ jobRow' = jobRow
      /\ queuedJob' = [queuedJob EXCEPT ![u] = Nothing] /\ queuedJob' = queuedJob
  BY <1>3, <1>4 DEF Refuse, NothingSent, UploadTypeOK
<1>8. upload'[u] = r /\ disk'[u] = d
  BY <1>3, <1>6 DEF UploadTypeOK
<1>9. UploadInv(u)'
  BY <1>2, <1>4, <1>5, <1>7, <1>8 DEF UploadInv, NothingSent
<1>10. QED
  BY <1>2, <1>5, <1>6, <1>7, <1>9, OwnUpload

\* The job's directory is made.
LEMMA OpenKeeps ==
    ASSUME UploadsInv, NEW u \in UploadIds, Open(u)
    PROVE  UploadsInv'
<1>1. PICK ext \in Extensions, content \in Contents, n \in 0 .. MaxChunks, ok \in BOOLEAN :
         /\ upload' = [upload EXCEPT ![u] = [pos |-> IF ok THEN "reading" ELSE "refused",
                          ext |-> ext, content |-> content, chunks |-> n, written |-> 0]]
         /\ disk' = IF ok THEN [disk EXCEPT ![u] = [dir |-> TRUE, chunks |-> 0]] ELSE disk
  BY DEF Open
<1>2. UploadTypeOK /\ UploadInv(u) /\ upload[u].pos = "new"
  BY DEF Open, Step, UploadsInv
<1>3. ~disk[u].dir /\ disk[u].chunks = NoFile /\ NothingSent(u)
  BY <1>2 DEF UploadInv
<1>4. PICK r : r = [pos |-> IF ok THEN "reading" ELSE "refused",
                    ext |-> ext, content |-> content, chunks |-> n, written |-> 0]
  OBVIOUS
<1>5. PICK d : d = IF ok THEN [dir |-> TRUE, chunks |-> 0] ELSE disk[u]
  OBVIOUS
<1>6. r \in UploadRecord /\ n \in Nat /\ d \in [dir : BOOLEAN, chunks : Nat \union {NoFile}]
  <2>1. r \in UploadRecord
    BY <1>4 DEF UploadRecord, UploadPositions
  <2>2. n \in Nat
    OBVIOUS
  <2>3. d \in [dir : BOOLEAN, chunks : Nat \union {NoFile}]
    BY <1>2, <1>5 DEF UploadTypeOK
  <2>4. QED
    BY <2>1, <2>2, <2>3
<1>7. upload' = [upload EXCEPT ![u] = r] /\ disk' = [disk EXCEPT ![u] = d]
  BY <1>1, <1>2, <1>4, <1>5 DEF UploadTypeOK
<1>8. /\ jobRow' = [jobRow EXCEPT ![u] = Nothing] /\ jobRow' = jobRow
      /\ queuedJob' = [queuedJob EXCEPT ![u] = Nothing] /\ queuedJob' = queuedJob
  BY <1>2, <1>3 DEF Open, NothingSent, UploadTypeOK
<1>9. upload'[u] = r /\ disk'[u] = d
  BY <1>2, <1>7 DEF UploadTypeOK
<1>10. UploadInv(u)'
  <2>1. 0 \in 0 .. CapChunks /\ 0 <= n
    BY <1>6, UploadAssumption DEF UploadAssumption
  <2>2. CASE ok
    BY <1>3, <1>4, <1>5, <1>8, <1>9, <2>1, <2>2 DEF UploadInv, NothingSent
  <2>3. CASE ~ok
    BY <1>3, <1>4, <1>5, <1>8, <1>9, <2>3 DEF UploadInv, NothingSent
  <2>4. QED
    BY <2>2, <2>3
<1>11. QED
  BY <1>6, <1>7, <1>8, <1>10, OwnUpload

\* One more chunk, or the one that is too many.
LEMMA ReadKeeps ==
    ASSUME UploadsInv, NEW u \in UploadIds, Read(u)
    PROVE  UploadsInv'
<1>1. CASE upload[u].written + 1 > CapChunks
  BY <1>1, RefuseKeeps DEF Read
<1>2. CASE ~(upload[u].written + 1 > CapChunks)
  <2>1. PICK r : r = [upload[u] EXCEPT !.written = @ + 1]
    OBVIOUS
  <2>2. PICK d : d = [disk[u] EXCEPT !.chunks = @ + 1]
    OBVIOUS
  <2>3. /\ UploadTypeOK /\ UploadInv(u) /\ upload[u].pos = "reading"
        /\ upload[u] \in UploadRecord /\ upload[u].written < upload[u].chunks
    BY DEF Read, Step, UploadsInv, UploadTypeOK
  <2>4. /\ NothingSent(u) /\ disk[u].dir /\ disk[u].chunks = upload[u].written
        /\ upload[u].written \in Nat /\ upload[u].chunks \in Nat
    BY <2>3 DEF UploadInv, UploadRecord
  <2>5. /\ r \in UploadRecord /\ r.pos = "reading" /\ r.written = upload[u].written + 1
        /\ r.chunks = upload[u].chunks
    BY <2>1, <2>3, <2>4 DEF UploadRecord
  <2>6. d = [dir |-> TRUE, chunks |-> r.written]
    <3>1. disk[u] \in [dir : BOOLEAN, chunks : Nat \union {NoFile}]
      BY <2>3 DEF UploadTypeOK
    <3>2. QED
      BY <2>2, <2>4, <2>5, <3>1
  <2>7. upload' = [upload EXCEPT ![u] = r] /\ disk' = [disk EXCEPT ![u] = d]
    BY <1>2, <2>1, <2>2 DEF Read
  <2>8. /\ jobRow' = [jobRow EXCEPT ![u] = Nothing] /\ jobRow' = jobRow
        /\ queuedJob' = [queuedJob EXCEPT ![u] = Nothing] /\ queuedJob' = queuedJob
    BY <1>2, <2>3, <2>4 DEF Read, NothingSent, UploadTypeOK
  <2>9. upload'[u] = r /\ disk'[u] = d
    BY <2>3, <2>7 DEF UploadTypeOK
  <2>10. r.written \in 0 .. CapChunks /\ r.written <= r.chunks /\ r.written \in Nat
    BY <1>2, <2>3, <2>4, <2>5, UploadAssumption DEF UploadAssumption
  <2>11. UploadInv(u)'
    BY <2>4, <2>5, <2>6, <2>8, <2>9, <2>10 DEF UploadInv, NothingSent
  <2>12. QED
    BY <2>5, <2>6, <2>7, <2>8, <2>10, <2>11, OwnUpload
<1>3. QED
  BY <1>1, <1>2

\* The steps after the file is on disk leave it there and change where the upload is
\* and what was sent about it.
LEMMA MovedUpload ==
    ASSUME UploadsInv, NEW u \in UploadIds, NEW pos \in UploadPositions, pos \notin {"new", "reading", "refused"},
           NEW j \in {"pcap", "csv", Nothing}, NEW q \in {"pcap", "csv", Nothing},
           upload' = [upload EXCEPT ![u].pos = pos], UNCHANGED disk,
           jobRow' = [jobRow EXCEPT ![u] = j], queuedJob' = [queuedJob EXCEPT ![u] = q],
           pos \in {"insert", "publish"} => IsStored(u) /\ q = Nothing,
           pos = "insert" => j = Nothing,
           pos = "publish" => j = KindOf(u),
           q # Nothing => IsStored(u) /\ j = KindOf(u) /\ q = KindOf(u)
    PROVE  UploadsInv'
<1>1. PICK r : r = [upload[u] EXCEPT !.pos = pos]
  OBVIOUS
<1>2. PICK d : d = disk[u]
  OBVIOUS
<1>3. UploadTypeOK
  BY DEF UploadsInv
<1>4. /\ r \in UploadRecord /\ r.pos = pos /\ r.written = upload[u].written
      /\ r.chunks = upload[u].chunks /\ r.ext = upload[u].ext /\ r.content = upload[u].content
  BY <1>1, <1>3 DEF UploadTypeOK, UploadRecord
<1>5. /\ upload' = [upload EXCEPT ![u] = r] /\ disk' = [disk EXCEPT ![u] = d]
      /\ d \in [dir : BOOLEAN, chunks : Nat \union {NoFile}]
  BY <1>1, <1>2, <1>3 DEF UploadTypeOK
<1>6. upload'[u] = r /\ disk'[u] = disk[u] /\ jobRow'[u] = j /\ queuedJob'[u] = q
  BY <1>3, <1>5 DEF UploadTypeOK
<1>7. KindOf(u)' = KindOf(u) /\ (IsStored(u)' <=> IsStored(u))
  BY <1>4, <1>6 DEF KindOf, IsStored
<1>8. UploadInv(u)'
  BY <1>4, <1>6, <1>7 DEF UploadInv, NothingSent
<1>9. QED
  BY <1>4, <1>5, <1>8, OwnUpload, ZenonT(30)

\* The content against its extension.
LEMMA SniffKeeps ==
    ASSUME UploadsInv, NEW u \in UploadIds, Sniff(u)
    PROVE  UploadsInv'
<1>1. CASE upload[u].written = 0 \/ KindOf(u) = Nothing
  BY <1>1, RefuseKeeps DEF Sniff, KindOf
<1>2. CASE ~(upload[u].written = 0 \/ KindOf(u) = Nothing)
  <2>1. UploadTypeOK /\ UploadInv(u) /\ upload[u].pos = "reading" /\ upload[u].written = upload[u].chunks
    BY DEF UploadsInv, Sniff, Step
  <2>2. /\ NothingSent(u) /\ disk[u].dir /\ disk[u].chunks = upload[u].written
        /\ upload[u].written \in 0 .. CapChunks
    BY <2>1 DEF UploadInv
  <2>3. IsStored(u)
    BY <1>2, <2>1, <2>2 DEF IsStored
  <2>4. upload' = [upload EXCEPT ![u].pos = "insert"] /\ UNCHANGED <<disk, jobRow, queuedJob>>
    BY <1>2 DEF Sniff, KindOf
  <2>5. jobRow' = [jobRow EXCEPT ![u] = Nothing] /\ queuedJob' = [queuedJob EXCEPT ![u] = Nothing]
    BY <2>1, <2>2, <2>4 DEF NothingSent, UploadTypeOK
  <2>6. QED
    BY <2>3, <2>4, <2>5, MovedUpload DEF UploadPositions
<1>3. QED
  BY <1>1, <1>2

\* The job row is committed as queued.
LEMMA CommitJobKeeps ==
    ASSUME UploadsInv, NEW u \in UploadIds, CommitJob(u)
    PROVE  UploadsInv'
<1>1. UploadTypeOK /\ UploadInv(u) /\ upload[u].pos = "insert"
  BY DEF UploadsInv, CommitJob, Step
<1>2. NothingSent(u) /\ IsStored(u) /\ KindOf(u) \in {"pcap", "csv", Nothing}
  BY <1>1, KindIs DEF UploadInv
<1>3. /\ upload' = [upload EXCEPT ![u].pos = "publish"] /\ UNCHANGED disk
      /\ jobRow' = [jobRow EXCEPT ![u] = KindOf(u)] /\ queuedJob' = [queuedJob EXCEPT ![u] = Nothing]
  BY <1>1, <1>2 DEF CommitJob, NothingSent, UploadTypeOK, KindOf
<1>4. QED
  BY <1>2, <1>3, MovedUpload DEF UploadPositions

\* The job is put on its stream.
LEMMA QueueJobKeeps ==
    ASSUME UploadsInv, NEW u \in UploadIds, QueueJob(u)
    PROVE  UploadsInv'
<1>1. UploadTypeOK /\ UploadInv(u) /\ upload[u].pos = "publish"
  BY DEF UploadsInv, QueueJob, Step
<1>2. IsStored(u) /\ jobRow[u] = KindOf(u) /\ KindOf(u) \in {"pcap", "csv", Nothing}
  BY <1>1, KindIs DEF UploadInv
<1>3. /\ upload' = [upload EXCEPT ![u].pos = "accepted"] /\ UNCHANGED disk
      /\ queuedJob' = [queuedJob EXCEPT ![u] = KindOf(u)] /\ jobRow' = [jobRow EXCEPT ![u] = KindOf(u)]
  BY <1>1, <1>2 DEF QueueJob, UploadTypeOK, KindOf
<1>4. QED
  BY <1>2, <1>3, MovedUpload DEF UploadPositions

\* The storage fails: what was written of the file goes.
LEMMA StoreFailsKeeps ==
    ASSUME UploadsInv, NEW u \in UploadIds, StoreFails(u)
    PROVE  UploadsInv'
<1>1. PICK r : r = [upload[u] EXCEPT !.pos = "failed"]
  OBVIOUS
<1>2. PICK d : d = [disk[u] EXCEPT !.chunks = NoFile]
  OBVIOUS
<1>3. UploadTypeOK /\ UploadInv(u) /\ upload[u].pos = "reading" /\ upload[u] \in UploadRecord
  BY DEF UploadsInv, UploadTypeOK, StoreFails, Step
<1>4. NothingSent(u) /\ disk[u] \in [dir : BOOLEAN, chunks : Nat \union {NoFile}]
  BY <1>3 DEF UploadInv, UploadTypeOK
<1>5. r \in UploadRecord /\ r.pos = "failed" /\ d \in [dir : BOOLEAN, chunks : Nat \union {NoFile}]
  BY <1>1, <1>2, <1>3, <1>4 DEF UploadRecord, UploadPositions
<1>6. /\ upload' = [upload EXCEPT ![u] = r] /\ disk' = [disk EXCEPT ![u] = d]
      /\ jobRow' = [jobRow EXCEPT ![u] = Nothing] /\ jobRow' = jobRow
      /\ queuedJob' = [queuedJob EXCEPT ![u] = Nothing] /\ queuedJob' = queuedJob
  BY <1>1, <1>2, <1>3, <1>4 DEF StoreFails, NothingSent, UploadTypeOK
<1>7. upload'[u] = r
  BY <1>3, <1>6 DEF UploadTypeOK
<1>8. UploadInv(u)'
  BY <1>4, <1>5, <1>6, <1>7 DEF UploadInv, NothingSent
<1>9. QED
  BY <1>5, <1>6, <1>8, OwnUpload

\* The commit of the row or the publication of the job fails, before or after its effect.
LEMMA StatementFailsKeeps ==
    ASSUME UploadsInv, NEW u \in UploadIds, StatementFails(u)
    PROVE  UploadsInv'
<1>1. PICK j, q : j = jobRow'[u] /\ q = queuedJob'[u]
  OBVIOUS
<1>2. UploadTypeOK /\ UploadInv(u) /\ upload[u].pos \in {"insert", "publish"}
  BY DEF UploadsInv, StatementFails
<1>3. upload' = [upload EXCEPT ![u].pos = "failed"] /\ UNCHANGED disk
  BY DEF StatementFails
<1>4. IsStored(u) /\ KindOf(u) \in {"pcap", "csv", Nothing}
  BY <1>2, KindIs DEF UploadInv
<1>5. CASE UNCHANGED <<jobRow, queuedJob>>
  <2>1. jobRow' = [jobRow EXCEPT ![u] = j] /\ queuedJob' = [queuedJob EXCEPT ![u] = q]
    BY <1>1, <1>2, <1>5 DEF UploadTypeOK
  <2>2. j \in {"pcap", "csv", Nothing} /\ q \in {"pcap", "csv", Nothing} /\ q = Nothing
    BY <1>1, <1>2, <1>5 DEF UploadTypeOK, UploadInv, NothingSent
  <2>3. QED
    BY <1>3, <2>1, <2>2, MovedUpload DEF UploadPositions
<1>6. CASE /\ Step(u, "insert") /\ UNCHANGED queuedJob
           /\ jobRow' = [jobRow EXCEPT ![u] = KindOf(u)]
  <2>1. queuedJob' = [queuedJob EXCEPT ![u] = Nothing]
    BY <1>2, <1>6 DEF Step, UploadTypeOK, UploadInv, NothingSent
  <2>2. QED
    BY <1>3, <1>4, <1>6, <2>1, MovedUpload DEF UploadPositions
<1>7. CASE /\ Step(u, "publish") /\ UNCHANGED jobRow
           /\ queuedJob' = [queuedJob EXCEPT ![u] = KindOf(u)]
  <2>1. jobRow' = [jobRow EXCEPT ![u] = KindOf(u)]
    BY <1>2, <1>7 DEF Step, UploadTypeOK, UploadInv
  <2>2. QED
    BY <1>3, <1>4, <1>7, <2>1, MovedUpload DEF UploadPositions
<1>8. QED
  BY <1>5, <1>6, <1>7 DEF StatementFails, KindOf

\* The process dies: what is on disk stays there.
LEMMA ApiDiesKeeps ==
    ASSUME UploadsInv, ApiDies
    PROVE  UploadsInv'
<1>1. UploadTypeOK /\ UNCHANGED <<disk, jobRow, queuedJob>>
  BY DEF UploadsInv, ApiDies
<1>2. ASSUME NEW u \in UploadIds
      PROVE  /\ upload'[u] = upload[u] \/ upload'[u] = [upload[u] EXCEPT !.pos = "failed"]
             /\ upload'[u] \in UploadRecord /\ UploadInv(u)'
  <2>1. upload'[u] = upload[u] \/ upload'[u] = [upload[u] EXCEPT !.pos = "failed"]
    BY DEF ApiDies
  <2>2. upload[u] \in UploadRecord /\ UploadInv(u)
    BY DEF UploadsInv, UploadTypeOK
  <2>3. CASE upload'[u] = upload[u]
    BY <1>1, <2>2, <2>3, OtherUpload
  <2>4. CASE upload'[u] = [upload[u] EXCEPT !.pos = "failed"]
    <3>1. PICK r : r = upload'[u]
      OBVIOUS
    <3>2. /\ r \in UploadRecord /\ r.pos = "failed" /\ r.written = upload[u].written
          /\ r.chunks = upload[u].chunks /\ r.ext = upload[u].ext /\ r.content = upload[u].content
      BY <2>2, <2>4, <3>1 DEF UploadRecord, UploadPositions
    <3>3. KindOf(u)' = KindOf(u) /\ (IsStored(u)' <=> IsStored(u))
      BY <1>1, <3>1, <3>2 DEF KindOf, IsStored
    <3>4. queuedJob[u] # Nothing => IsStored(u) /\ jobRow[u] = KindOf(u) /\ queuedJob[u] = KindOf(u)
      BY <2>2 DEF UploadInv
    <3>5. UploadInv(u)'
      BY <1>1, <3>1, <3>2, <3>3, <3>4 DEF UploadInv
    <3>6. QED
      BY <2>1, <3>1, <3>2, <3>5
  <2>5. QED
    BY <2>1, <2>3, <2>4
<1>3. upload' \in [UploadIds -> UploadRecord]
  BY <1>2 DEF ApiDies
<1>4. UploadTypeOK'
  BY <1>1, <1>3 DEF UploadTypeOK
<1>5. QED
  BY <1>2, <1>4 DEF UploadsInv

\* What the invariant says of the queued and the refused uploads.
LEMMA UploadsAreWhole == UploadsInv => QueuedIsWhole
<1> SUFFICES ASSUME UploadsInv PROVE QueuedIsWhole
  OBVIOUS
<1>1. ASSUME NEW u \in UploadIds, queuedJob[u] # Nothing
      PROVE  /\ disk[u].chunks = upload[u].chunks /\ disk[u].chunks \in 1 .. CapChunks
             /\ jobRow[u] = queuedJob[u]
             /\ queuedJob[u] = IF upload[u].content = "magic" THEN "pcap" ELSE "csv"
  <2>1. IsStored(u) /\ jobRow[u] = KindOf(u) /\ queuedJob[u] = KindOf(u)
    BY <1>1 DEF UploadsInv, UploadInv
  <2>2. QED
    BY <2>1, KindIs DEF IsStored, UploadsInv
<1>2. ASSUME NEW u \in UploadIds, upload[u].pos = "refused"
      PROVE  /\ ~disk[u].dir /\ disk[u].chunks = NoFile
             /\ jobRow[u] = Nothing /\ queuedJob[u] = Nothing
  BY <1>2 DEF UploadsInv, UploadInv, NothingSent
<1>3. QED
  BY <1>1, <1>2 DEF QueuedIsWhole

\* For any number of uploads at once, any cap and any number of faults, in a store, in a
\* statement or of the whole process: a message names a file that is complete, within the
\* cap and of its kind, whose row was committed before it; a refused upload leaves nothing
\* (ingest.py:create_ingest_job).
THEOREM QueuedIsWholeHolds == UploadSpec => []QueuedIsWhole
<1>1. UploadInit => UploadsInv
  BY InitUploads
<1>2. UploadsInv /\ [UploadNext]_uploadVars => UploadsInv'
  <2> SUFFICES ASSUME UploadsInv, [UploadNext]_uploadVars PROVE UploadsInv'
    OBVIOUS
  <2>1. CASE UNCHANGED uploadVars
    BY <2>1 DEF uploadVars, UploadsInv, UploadTypeOK, UploadInv, NothingSent, IsStored, KindOf
  <2>2. CASE ApiDies
    BY <2>2, ApiDiesKeeps
  <2>3. ASSUME NEW u \in UploadIds,
               Open(u) \/ Read(u) \/ Sniff(u) \/ CommitJob(u) \/ QueueJob(u)
                 \/ StoreFails(u) \/ StatementFails(u)
        PROVE  UploadsInv'
    BY <2>3, OpenKeeps, ReadKeeps, SniffKeeps, CommitJobKeeps, QueueJobKeeps, StoreFailsKeeps,
       StatementFailsKeeps
  <2>4. QED
    BY <2>1, <2>2, <2>3 DEF UploadNext
<1>3. UploadsInv => QueuedIsWhole
  BY UploadsAreWhole
<1>4. QED
  BY <1>1, <1>2, <1>3, PTL DEF UploadSpec

-----------------------------------------------------------------------------
(***************************************************************************)
(* Backlogs.  The streak a group carries from sample to sample is the      *)
(* growth that its samples end with.                                       *)
(***************************************************************************)
Sample == [at : Nat, lag : Nat]
Streak == [started : Nat, last : Nat, warned : Nat]

\* The samples s end with a growth that starts at the i-th.
StartsAt(s, i) ==
    /\ \A j \in i .. Len(s) - 1 : s[j].lag < s[j + 1].lag
    /\ i > 1 => s[i - 1].lag >= s[i].lag

\* Warnings keep their distance.
Spaced(w) == \A i \in 1 .. Len(w) - 1 : w[i + 1] - w[i] >= WarnAfter

\* The samples r are s and then x.
Extends(r, s, x) ==
    /\ r \in Seq(Sample) /\ r # <<>> /\ Len(r) \in Nat /\ Len(r) = Len(s) + 1 /\ r[Len(r)] = x
    /\ \A i \in 1 .. Len(s) : r[i] = s[i]
    /\ s # <<>> /\ x.lag > s[Len(s)].lag =>
          \A i \in 1 .. Len(s) : StartsAt(s, i) => StartsAt(r, i)
    /\ s = <<>> \/ ~(x.lag > s[Len(s)].lag) => StartsAt(r, Len(r))

\* The warnings v are w and then one at `now`.
ThenWarns(v, w, now) ==
    v \in Seq(Nat) /\ v # <<>> /\ v[Len(v)] = now /\ Spaced(v)

\* The streak k of a group with samples s and warnings w, the last sample taken at t.
StreakInv(k, s, w, t) ==
    /\ k \in Streak /\ s \in Seq(Sample) /\ w \in Seq(Nat) /\ t \in Nat
    /\ s = <<>> => k = NoStreak /\ w = <<>>
    /\ s # <<>> =>
          /\ k.last = s[Len(s)].lag /\ 0 < k.started /\ k.started <= t
          /\ \E i \in 1 .. Len(s) : StartsAt(s, i) /\ k.started = s[i].at
    /\ k.warned # NotYet <=> s # <<>> /\ t - k.started >= WarnAfter
    /\ k.warned # NotYet => w # <<>> /\ w[Len(w)] = k.warned /\ k.warned <= t
    /\ k.warned = NotYet /\ w # <<>> => w[Len(w)] <= k.started
    /\ Spaced(w)

BacklogInv == \A g \in Groups : StreakInv(streak[g], samples[g], warnings[g], sampledAt)

BacklogTypeOK ==
    /\ DOMAIN streak = Groups /\ DOMAIN samples = Groups /\ DOMAIN warnings = Groups
    /\ sampledAt \in Nat

\* The types of a list of samples.
LEMMA SampleTypes ==
    ASSUME NEW s \in Seq(Sample)
    PROVE  /\ Len(s) \in Nat
           /\ \A m \in 1 .. Len(s) : s[m] \in Sample /\ s[m].lag \in Nat /\ s[m].at \in Nat
<1>1. Len(s) \in Nat /\ \A m \in 1 .. Len(s) : s[m] \in Sample
  OBVIOUS
<1>2. \A x \in Sample : x.lag \in Nat /\ x.at \in Nat
  BY DEF Sample
<1>3. QED
  BY <1>1, <1>2

\* Only one growth reaches up to the last sample.
LEMMA OneStart ==
    ASSUME NEW s \in Seq(Sample), NEW i \in 1 .. Len(s), NEW j \in 1 .. Len(s),
           StartsAt(s, i), StartsAt(s, j)
    PROVE  i = j
<1>1. \A m \in 1 .. Len(s) : s[m] \in Sample /\ s[m].lag \in Nat
  BY SampleTypes
<1>2. ASSUME NEW a \in 1 .. Len(s), NEW b \in 1 .. Len(s), StartsAt(s, a), StartsAt(s, b), a < b
      PROVE  FALSE
  <2>1. b - 1 \in a .. Len(s) - 1 /\ b > 1 /\ b - 1 \in 1 .. Len(s)
    BY <1>2
  <2>2. s[b - 1].lag < s[(b - 1) + 1].lag /\ (b - 1) + 1 = b
    BY <1>2, <2>1 DEF StartsAt
  <2>3. s[b - 1].lag >= s[b].lag
    BY <1>2, <2>1 DEF StartsAt
  <2>4. QED
    BY <1>1, <2>1, <2>2, <2>3
<1>3. QED
  BY <1>2

\* Another sample prolongs the growth, or starts a new one.
LEMMA StartMoves ==
    ASSUME NEW s \in Seq(Sample), NEW x \in Sample, NEW r, r = Append(s, x)
    PROVE  Extends(r, s, x)
<1>1. /\ r \in Seq(Sample) /\ r # <<>> /\ Len(r) = Len(s) + 1 /\ r[Len(r)] = x
      /\ \A i \in 1 .. Len(s) : r[i] = s[i]
  OBVIOUS
<1>2. Len(s) \in Nat /\ \A i \in 1 .. Len(s) : s[i].lag \in Nat
  BY SampleTypes
<1>3. ASSUME s # <<>>, x.lag > s[Len(s)].lag, NEW i \in 1 .. Len(s), StartsAt(s, i)
      PROVE  StartsAt(r, i)
  <2>1. ASSUME NEW j \in i .. Len(r) - 1 PROVE r[j].lag < r[j + 1].lag
    <3>1. CASE j = Len(s)
      <4>1. r[j] = s[Len(s)] /\ r[j + 1] = x
        BY <1>1, <1>2, <1>3, <3>1
      <4>2. s[Len(s)].lag \in Nat /\ x.lag \in Nat
        BY <1>2, <1>3 DEF Sample
      <4>3. QED
        BY <1>3, <4>1, <4>2
    <3>2. CASE j # Len(s)
      <4>1. j \in i .. Len(s) - 1 /\ j \in 1 .. Len(s) /\ j + 1 \in 1 .. Len(s)
        BY <1>1, <1>2, <3>2
      <4>2. s[j].lag < s[j + 1].lag
        BY <1>3, <4>1 DEF StartsAt
      <4>3. QED
        BY <1>1, <4>1, <4>2
    <3>3. QED
      BY <3>1, <3>2
  <2>2. ASSUME i > 1 PROVE r[i - 1].lag >= r[i].lag
    <3>1. s[i - 1].lag >= s[i].lag /\ i - 1 \in 1 .. Len(s)
      BY <1>3, <2>2 DEF StartsAt
    <3>2. QED
      BY <1>1, <3>1
  <2>3. QED
    BY <2>1, <2>2 DEF StartsAt
<1>4. ASSUME s = <<>> \/ ~(x.lag > s[Len(s)].lag) PROVE StartsAt(r, Len(r))
  <2>1. \A j \in Len(r) .. Len(r) - 1 : r[j].lag < r[j + 1].lag
    BY <1>1, <1>2
  <2>2. ASSUME Len(r) > 1 PROVE r[Len(r) - 1].lag >= r[Len(r)].lag
    <3>1. s # <<>> /\ Len(s) \in 1 .. Len(s) /\ Len(r) - 1 = Len(s)
      BY <1>1, <1>2, <2>2
    <3>2. s[Len(s)].lag \in Nat /\ x.lag \in Nat
      BY <1>2, <3>1 DEF Sample
    <3>3. s[Len(s)].lag >= x.lag
      BY <1>4, <3>1, <3>2
    <3>4. QED
      BY <1>1, <3>1, <3>3
  <2>3. QED
    BY <2>1, <2>2 DEF StartsAt
<1>5. QED
  BY <1>1, <1>2, <1>3, <1>4 DEF Extends

\* A warning at a distance from the last one keeps them spaced.
LEMMA WarningsGrow ==
    ASSUME NEW w \in Seq(Nat), Spaced(w), NEW now \in Nat,
           w # <<>> => now - w[Len(w)] >= WarnAfter, NEW v, v = Append(w, now)
    PROVE  ThenWarns(v, w, now)
<1>1. /\ v \in Seq(Nat) /\ Len(v) = Len(w) + 1 /\ v[Len(v)] = now /\ v # <<>>
      /\ Len(w) \in Nat /\ \A m \in 1 .. Len(w) : v[m] = w[m]
  OBVIOUS
<1>2. ASSUME NEW m \in 1 .. Len(v) - 1 PROVE v[m + 1] - v[m] >= WarnAfter
  <2>1. CASE m = Len(w)
    BY <1>1, <2>1
  <2>2. CASE m # Len(w)
    <3>1. m \in 1 .. Len(w) - 1 /\ m \in 1 .. Len(w) /\ m + 1 \in 1 .. Len(w)
      BY <1>1, <2>2
    <3>2. w[m + 1] - w[m] >= WarnAfter
      BY <3>1 DEF Spaced
    <3>3. QED
      BY <1>1, <3>1, <3>2
  <2>3. QED
    BY <2>1, <2>2
<1>3. QED
  BY <1>1, <1>2 DEF ThenWarns, Spaced

\* What the invariant says of the numbers in a streak.
LEMMA StreakNumbers ==
    ASSUME NEW k, NEW s, NEW w, NEW t, StreakInv(k, s, w, t)
    PROVE  /\ k.started \in Nat /\ k.last \in Nat /\ k.warned \in Nat /\ t \in Nat
           /\ WarnAfter \in Nat /\ WarnAfter > 0
           /\ w # <<>> => w[Len(w)] \in Nat /\ w[Len(w)] <= t
           /\ w # <<>> /\ s # <<>> /\ k.warned = NotYet => w[Len(w)] <= k.started
<1>1. /\ k.started \in Nat /\ k.last \in Nat /\ k.warned \in Nat /\ t \in Nat
      /\ WarnAfter \in Nat /\ WarnAfter > 0
  BY BacklogAssumption DEF BacklogAssumption, StreakInv, Streak
<1>2. ASSUME w # <<>> PROVE w[Len(w)] \in Nat /\ w[Len(w)] <= t
  <2>1. w \in Seq(Nat)
    BY DEF StreakInv
  <2>2. w[Len(w)] \in Nat
    BY <1>2, <2>1
  <2>3. CASE k.warned # NotYet
    BY <2>3 DEF StreakInv
  <2>4. CASE k.warned = NotYet
    <3>1. w[Len(w)] <= k.started /\ k.started <= t
      BY <1>2, <2>4 DEF StreakInv
    <3>2. QED
      BY <1>1, <2>2, <3>1
  <2>5. QED
    BY <2>2, <2>3, <2>4
<1>3. w # <<>> /\ s # <<>> /\ k.warned = NotYet => w[Len(w)] <= k.started
  BY DEF StreakInv
<1>4. QED
  BY <1>1, <1>2, <1>3

\* A sample that is not larger than the last one starts a streak.
LEMMA StreakRestarts ==
    ASSUME NEW k, NEW s, NEW w, NEW t, StreakInv(k, s, w, t),
           NEW now \in Nat, now > t, NEW x \in Sample, x.at = now,
           k = NoStreak \/ ~(x.lag > k.last),
           NEW r, Extends(r, s, x),
           NEW k2 \in Streak, k2.started = now, k2.last = x.lag, k2.warned = NotYet
    PROVE  StreakInv(k2, r, w, now)
<1>1. s = <<>> \/ ~(x.lag > s[Len(s)].lag)
  <2>1. CASE k = NoStreak
    <3>1. k.started = 0
      BY <2>1 DEF NoStreak, NotYet
    <3>2. QED
      BY <3>1 DEF StreakInv
  <2>2. CASE k # NoStreak
    BY <2>2 DEF StreakInv
  <2>3. QED
    BY <2>1, <2>2
<1>2. /\ r \in Seq(Sample) /\ r # <<>> /\ Len(r) \in Nat /\ r[Len(r)] = x
      /\ StartsAt(r, Len(r)) /\ Len(r) = Len(s) + 1
  BY <1>1 DEF Extends
<1>3. Len(r) \in 1 .. Len(r)
  <2>1. Len(r) # 0
    BY <1>2
  <2>2. QED
    BY <1>2, <2>1
<1>4. \E i \in 1 .. Len(r) : StartsAt(r, i) /\ k2.started = r[i].at
  BY <1>2, <1>3
<1>5. /\ t \in Nat /\ WarnAfter \in Nat /\ WarnAfter > 0
      /\ w # <<>> => w[Len(w)] \in Nat /\ w[Len(w)] <= t
  BY StreakNumbers
<1>6. 0 < now /\ now <= now /\ ~(now - now >= WarnAfter)
  BY <1>5
<1>7. w # <<>> => w[Len(w)] <= now
  BY <1>5
<1>8. w \in Seq(Nat) /\ Spaced(w)
  BY DEF StreakInv
<1>9. QED
  BY <1>2, <1>4, <1>6, <1>7, <1>8 DEF StreakInv

\* A larger one prolongs it, and warns when it has gone on for long enough.
LEMMA StreakGrows ==
    ASSUME NEW k, NEW s, NEW w, NEW t, StreakInv(k, s, w, t),
           NEW now \in Nat, now > t, NEW x \in Sample, x.at = now,
           k # NoStreak, x.lag > k.last,
           NEW r, Extends(r, s, x),
           NEW k2 \in Streak, k2.started = k.started, k2.last = x.lag
    PROVE  /\ 0 < k.started /\ k.started <= now
           /\ r \in Seq(Sample) /\ r # <<>> /\ k2.last = r[Len(r)].lag
           /\ \E i \in 1 .. Len(r) : StartsAt(r, i) /\ k2.started = r[i].at
<1>1. s # <<>> /\ s \in Seq(Sample) /\ k.last = s[Len(s)].lag /\ 0 < k.started /\ k.started <= t
  BY DEF StreakInv
<1>2. PICK i \in 1 .. Len(s) : StartsAt(s, i) /\ k.started = s[i].at
  BY <1>1 DEF StreakInv
<1>3. /\ r \in Seq(Sample) /\ r # <<>> /\ Len(r) = Len(s) + 1 /\ r[Len(r)] = x
      /\ r[i] = s[i] /\ StartsAt(r, i)
  BY <1>1, <1>2 DEF Extends
<1>4. i \in 1 .. Len(r)
  <2>1. Len(s) \in Nat
    BY <1>1, SampleTypes
  <2>2. QED
    BY <1>2, <1>3, <2>1
<1>5. k.started <= now
  <2>1. k.started \in Nat /\ t \in Nat
    BY StreakNumbers
  <2>2. QED
    BY <1>1, <2>1
<1>6. QED
  BY <1>1, <1>2, <1>3, <1>4, <1>5

\* A growing sample, too early to warn.
LEMMA StreakGrowsQuietly ==
    ASSUME NEW k, NEW s, NEW w, NEW t, StreakInv(k, s, w, t),
           NEW now \in Nat, now > t, NEW x \in Sample, x.at = now,
           k # NoStreak, x.lag > k.last,
           ~(now - k.started >= WarnAfter /\ (k.warned # NotYet => now - k.warned >= WarnAfter)),
           NEW r, Extends(r, s, x),
           NEW k2 \in Streak, k2.started = k.started, k2.last = x.lag, k2.warned = k.warned
    PROVE  StreakInv(k2, r, w, now)
<1>1. /\ 0 < k.started /\ k.started <= now
      /\ r \in Seq(Sample) /\ r # <<>> /\ k2.last = r[Len(r)].lag
      /\ \E i \in 1 .. Len(r) : StartsAt(r, i) /\ k2.started = r[i].at
  BY StreakGrows
<1>2. /\ s # <<>> /\ (k.warned # NotYet <=> t - k.started >= WarnAfter) /\ w \in Seq(Nat) /\ Spaced(w)
      /\ k.warned # NotYet => w # <<>> /\ w[Len(w)] = k.warned /\ k.warned <= t
      /\ k.warned = NotYet /\ w # <<>> => w[Len(w)] <= k.started
  BY <1>1 DEF StreakInv
<1>3. /\ k.started \in Nat /\ k.warned \in Nat /\ t \in Nat /\ WarnAfter \in Nat
  BY StreakNumbers
<1>4. k.warned # NotYet <=> now - k.started >= WarnAfter
  BY <1>2, <1>3
<1>5. k.warned # NotYet => w # <<>> /\ w[Len(w)] = k.warned /\ k.warned <= now
  BY <1>2, <1>3
<1>6. QED
  BY <1>1, <1>2, <1>4, <1>5 DEF StreakInv

\* A growing sample that warns, for the first time or again.
LEMMA StreakWarns ==
    ASSUME NEW k, NEW s, NEW w, NEW t, StreakInv(k, s, w, t),
           NEW now \in Nat, now > t, NEW x \in Sample, x.at = now,
           k # NoStreak, x.lag > k.last,
           now - k.started >= WarnAfter, k.warned # NotYet => now - k.warned >= WarnAfter,
           NEW r, Extends(r, s, x), NEW v, v = Append(w, now),
           NEW k2 \in Streak, k2.started = k.started, k2.last = x.lag, k2.warned = now
    PROVE  StreakInv(k2, r, v, now)
<1>1. /\ 0 < k.started /\ k.started <= now
      /\ r \in Seq(Sample) /\ r # <<>> /\ k2.last = r[Len(r)].lag
      /\ \E i \in 1 .. Len(r) : StartsAt(r, i) /\ k2.started = r[i].at
  BY StreakGrows
<1>2. /\ s # <<>> /\ w \in Seq(Nat) /\ Spaced(w)
      /\ k.warned # NotYet => w[Len(w)] = k.warned
  BY <1>1 DEF StreakInv
<1>3. /\ k.started \in Nat /\ k.warned \in Nat /\ t \in Nat /\ WarnAfter \in Nat
      /\ w # <<>> => w[Len(w)] \in Nat
      /\ w # <<>> /\ k.warned = NotYet => w[Len(w)] <= k.started
  BY <1>2, StreakNumbers
<1>4. w # <<>> => now - w[Len(w)] >= WarnAfter
  BY <1>2, <1>3
<1>5. ThenWarns(v, w, now)
  BY <1>2, <1>4, WarningsGrow
<1>6. now # NotYet
  BY <1>3 DEF NotYet
<1>7. v \in Seq(Nat) /\ v # <<>> /\ v[Len(v)] = now /\ Spaced(v) /\ now <= now
  BY <1>5 DEF ThenWarns
<1>8. QED
  BY <1>1, <1>6, <1>7 DEF StreakInv

\* Every sample of a group.
LEMMA ObserveKeeps ==
    ASSUME BacklogTypeOK, BacklogInv, NEW lag \in [Groups -> Nat], NEW now \in Nat, now > sampledAt,
           observe(lag, now)
    PROVE  BacklogTypeOK' /\ BacklogInv'
<1>1. BacklogTypeOK'
  BY DEF BacklogTypeOK, observe
<1>2. ASSUME NEW g \in Groups
      PROVE  StreakInv(streak'[g], samples'[g], warnings'[g], sampledAt')
  <2>1. PICK k, s, w, t : k = streak[g] /\ s = samples[g] /\ w = warnings[g] /\ t = sampledAt
    OBVIOUS
  <2>2. StreakInv(k, s, w, t) /\ now > t
    BY <2>1 DEF BacklogInv
  <2>3. PICK x : x = [at |-> now, lag |-> lag[g]]
    OBVIOUS
  <2>4. x \in Sample /\ x.at = now /\ x.lag = lag[g]
    BY <2>3 DEF Sample
  <2>5. PICK k2, r, v : k2 = streak'[g] /\ r = samples'[g] /\ v = warnings'[g]
    OBVIOUS
  <2>6. r = Append(s, x) /\ sampledAt' = now
    BY <2>1, <2>3, <2>5 DEF observe
  <2>7. Extends(r, s, x)
    <3>1. s \in Seq(Sample)
      BY <2>2 DEF StreakInv
    <3>2. QED
      BY <2>4, <2>6, <3>1, StartMoves
  <2>8. k \in Streak
    BY <2>2 DEF StreakInv
  <2>9. CASE ~Grows(g, lag[g])
    <3>1. k2 = [started |-> now, last |-> x.lag, warned |-> NotYet] /\ v = w
      BY <2>1, <2>4, <2>5, <2>9 DEF observe, Warns, NewStreak
    <3>2. k2 \in Streak /\ k2.started = now /\ k2.last = x.lag /\ k2.warned = NotYet
      BY <2>4, <3>1 DEF Streak, NotYet
    <3>3. k = NoStreak \/ ~(x.lag > k.last)
      BY <2>1, <2>4, <2>9 DEF Grows
    <3>4. QED
      BY <2>2, <2>4, <2>5, <2>6, <2>7, <3>1, <3>2, <3>3, StreakRestarts
  <2>10. CASE Grows(g, lag[g]) /\ ~Warns(g, lag[g], now)
    <3>1. k2 = [k EXCEPT !.last = x.lag] /\ v = w
      <4>1. streak'[g] = [streak[g] EXCEPT !.last = lag[g], !.warned = streak[g].warned]
        BY <2>10 DEF observe
      <4>2. [k EXCEPT !.last = x.lag, !.warned = k.warned] = [k EXCEPT !.last = x.lag]
        BY <2>4, <2>8 DEF Streak
      <4>3. v = w
        BY <2>1, <2>5, <2>10 DEF observe
      <4>4. QED
        BY <2>1, <2>4, <2>5, <4>1, <4>2, <4>3
    <3>2. k2 \in Streak /\ k2.started = k.started /\ k2.last = x.lag /\ k2.warned = k.warned
      BY <2>4, <2>8, <3>1 DEF Streak
    <3>3. k # NoStreak /\ x.lag > k.last
      BY <2>1, <2>4, <2>10 DEF Grows
    <3>4. ~(now - k.started >= WarnAfter /\ (k.warned # NotYet => now - k.warned >= WarnAfter))
      BY <2>1, <2>10 DEF Warns
    <3>5. StreakInv(k2, r, w, now)
      BY <2>2, <2>4, <2>7, <3>2, <3>3, <3>4, StreakGrowsQuietly
    <3>6. QED
      BY <2>5, <2>6, <3>1, <3>5
  <2>11. CASE Warns(g, lag[g], now)
    <3>1. k2 = [k EXCEPT !.last = x.lag, !.warned = now] /\ v = Append(w, now)
      BY <2>1, <2>4, <2>5, <2>11 DEF observe, Warns
    <3>2. k2 \in Streak /\ k2.started = k.started /\ k2.last = x.lag /\ k2.warned = now
      BY <2>4, <2>8, <3>1 DEF Streak
    <3>3. k # NoStreak /\ x.lag > k.last
      BY <2>1, <2>4, <2>11 DEF Grows, Warns
    <3>4. now - k.started >= WarnAfter
      BY <2>1, <2>11 DEF Warns
    <3>5. k.warned # NotYet => now - k.warned >= WarnAfter
      BY <2>1, <2>11 DEF Warns
    <3>6. v = Append(w, now)
      BY <3>1
    <3>7. StreakInv(k2, r, v, now)
      BY <2>2, <2>4, <2>7, <3>2, <3>3, <3>4, <3>5, <3>6, StreakWarns
    <3>8. QED
      BY <2>5, <2>6, <3>7
  <2>12. QED
    BY <2>9, <2>10, <2>11
<1>3. QED
  BY <1>1, <1>2 DEF BacklogInv

\* What is growing, in terms of the samples.
LEMMA StreakIsGrowth ==
    ASSUME BacklogInv, NEW g \in Groups
    PROVE  /\ streak[g].warned # NotYet <=>
                 /\ samples[g] # <<>>
                 /\ sampledAt - samples[g][GrowthStart(g)].at >= WarnAfter
           /\ \A i \in 1 .. Len(warnings[g]) - 1 : warnings[g][i + 1] - warnings[g][i] >= WarnAfter
<1>1. PICK k, s, w, t : k = streak[g] /\ s = samples[g] /\ w = warnings[g] /\ t = sampledAt
  OBVIOUS
<1>2. StreakInv(k, s, w, t)
  BY <1>1 DEF BacklogInv
<1>3. \A i \in 1 .. Len(w) - 1 : w[i + 1] - w[i] >= WarnAfter
  BY <1>2 DEF StreakInv, Spaced
<1>4. ASSUME s # <<>> PROVE s[GrowthStart(g)].at = k.started
  <2>1. PICK i \in 1 .. Len(s) : StartsAt(s, i) /\ k.started = s[i].at
    BY <1>2, <1>4 DEF StreakInv
  <2>2. GrowthStart(g) = CHOOSE j \in 1 .. Len(s) : StartsAt(s, j)
    BY <1>1 DEF GrowthStart, StartsAt
  <2>3. s \in Seq(Sample)
    BY <1>2 DEF StreakInv
  <2>4. \A j \in 1 .. Len(s) : StartsAt(s, j) => j = i
    BY <2>1, <2>3, OneStart
  <2>5. GrowthStart(g) = i
    BY <2>1, <2>2, <2>4
  <2>6. QED
    BY <2>1, <2>5
<1>5. k.warned # NotYet <=> s # <<>> /\ t - k.started >= WarnAfter
  BY <1>2 DEF StreakInv
<1>6. QED
  BY <1>1, <1>3, <1>4, <1>5

\* For any groups, any counts and any times between samples: /health names a group exactly
\* while its last samples rise without a break over at least warn_after_s, and its warnings
\* are at least that far apart (BacklogMonitor.observe).
THEOREM GrowingIsSustainedGrowthHolds == BacklogSpec => []GrowingIsSustainedGrowth
<1>1. BacklogInit => BacklogTypeOK /\ BacklogInv
  <2> SUFFICES ASSUME BacklogInit PROVE BacklogTypeOK /\ BacklogInv
    OBVIOUS
  <2>1. BacklogTypeOK
    BY DEF BacklogInit, BacklogTypeOK
  <2>2. ASSUME NEW g \in Groups PROVE StreakInv(streak[g], samples[g], warnings[g], sampledAt)
    <3>1. streak[g] = NoStreak /\ samples[g] = <<>> /\ warnings[g] = <<>> /\ sampledAt = 0
      BY DEF BacklogInit
    <3>2. <<>> \in Seq(Sample) /\ <<>> \in Seq(Nat) /\ Spaced(<<>>)
      BY DEF Spaced
    <3>3. NoStreak \in Streak /\ NoStreak.warned = NotYet
      BY DEF NoStreak, Streak, NotYet
    <3>4. QED
      BY <3>1, <3>2, <3>3 DEF StreakInv
  <2>3. QED
    BY <2>1, <2>2 DEF BacklogInv
<1>2. BacklogTypeOK /\ BacklogInv /\ [BacklogNext]_backlogVars => (BacklogTypeOK /\ BacklogInv)'
  <2> SUFFICES ASSUME BacklogTypeOK, BacklogInv, [BacklogNext]_backlogVars
               PROVE  BacklogTypeOK' /\ BacklogInv'
    OBVIOUS
  <2>1. CASE UNCHANGED backlogVars
    BY <2>1 DEF backlogVars, BacklogTypeOK, BacklogInv
  <2>2. CASE BacklogNext
    <3>1. PICK pending \in [Groups -> Pending], answers \in SUBSET Groups, d \in Elapsed :
             observe(stream_lag(pending, answers), sampledAt + d)
      BY <2>2 DEF BacklogNext
    <3>2. PICK lag, now : lag = stream_lag(pending, answers) /\ now = sampledAt + d
      OBVIOUS
    <3>3. d \in Nat /\ d > 0 /\ Pending \subseteq Nat
      BY BacklogAssumption DEF BacklogAssumption
    <3>4. lag \in [Groups -> Nat]
      BY <3>2, <3>3 DEF stream_lag
    <3>5. now \in Nat /\ now > sampledAt
      BY <3>2, <3>3 DEF BacklogTypeOK
    <3>6. QED
      BY <3>1, <3>2, <3>4, <3>5, ObserveKeeps
  <2>3. QED
    BY <2>1, <2>2
<1>3. BacklogInv => GrowingIsSustainedGrowth
  BY StreakIsGrowth DEF GrowingIsSustainedGrowth, growing
<1>4. QED
  BY <1>1, <1>2, <1>3, PTL DEF BacklogSpec

-----------------------------------------------------------------------------
(***************************************************************************)
(* Accounts.  One signup at most holds an email between its insert and its *)
(* commit, and a token cannot outlive by more than its own life the row it *)
(* was issued for.                                                         *)
(***************************************************************************)
Token == [sub : Signups, type : {"access", "refresh"}, exp : Nat]

AccountsTypeOK ==
    /\ signup \in [Signups -> SignupSteps]
    /\ tenants \subseteq Signups /\ users \subseteq Signups
    /\ login \in [Signups -> Nat] /\ tokens \subseteq Token
    /\ clock \in 0 .. MaxNow
    /\ removedAt \in [Signups -> Nat] /\ servedAt \in [Signups -> Nat]
    /\ sockets \subseteq [sub : Signups, since : Nat]

EmailsHeldOnce ==
    \A r \in Signups : Inserted(r) =>
        /\ \A q \in Signups : Inserted(q) /\ EmailOf[q] = EmailOf[r] => q = r
        /\ \A u \in users : EmailOf[u] # EmailOf[r]

\* Only a row that was there can go.
OnlyUsersGo == \A r \in Signups : removedAt[r] # NeverAt => Made(r)

\* How long the row of u has had a say.
Until(u) == removedAt[u] + MaxLogin

SocketsInTime ==
    \A socket \in sockets :
        removedAt[socket.sub] # NeverAt => socket.since <= Until(socket.sub) + AccessTTL

AccessInv ==
    /\ \A u \in Signups :
          /\ servedAt[u] <= clock
          /\ login[u] # Idle => login[u] <= clock /\ clock <= login[u] + MaxLogin
          /\ removedAt[u] # NeverAt =>
                /\ removedAt[u] <= clock
                /\ login[u] # Idle => login[u] <= removedAt[u]
                /\ servedAt[u] <= Until(u) + AccessTTL
    /\ \A token \in tokens : token.type = "access" =>
          /\ token.exp <= clock + AccessTTL
          /\ removedAt[token.sub] # NeverAt => token.exp <= Until(token.sub) + AccessTTL

WholeInv == AccountsAreWhole /\ EmailsHeldOnce /\ OnlyUsersGo

BearersInv ==
    /\ \A socket \in sockets : socket.since <= clock
    /\ SocketsInTime

AccountsInv == AccountsTypeOK /\ WholeInv /\ AccessInv /\ BearersInv

\* No signup, no user, no token.
LEMMA InitAccounts == AccountsInit => AccountsInv
<1> SUFFICES ASSUME AccountsInit PROVE AccountsInv
  OBVIOUS
<1>1. MaxNow \in Nat /\ MaxLogin \in Nat /\ AccessTTL \in Nat
  BY AccountsAssumption DEF AccountsAssumption
<1>2. NeverAt \in Nat /\ Idle \in Nat /\ 0 \in 0 .. MaxNow
  BY <1>1 DEF NeverAt, Idle
<1>3. AccountsTypeOK
  BY <1>2 DEF AccountsInit, AccountsTypeOK, SignupSteps
<1>4. WholeInv
  BY DEF AccountsInit, WholeInv, AccountsAreWhole, EmailsHeldOnce, OnlyUsersGo, Inserted, Made
<1>5. AccessInv
  BY DEF AccountsInit, AccessInv
<1>6. BearersInv
  BY DEF AccountsInit, BearersInv, SocketsInTime
<1>7. QED
  BY <1>3, <1>4, <1>5, <1>6 DEF AccountsInv

\* A step of a signup that touches neither table.
LEMMA SignupMoves ==
    ASSUME AccountsInv, NEW r \in Signups, NEW to \in SignupSteps,
           signup' = [signup EXCEPT ![r] = to], ~Made(r), to \notin {"created", "lost"},
           UNCHANGED <<tenants, users, removedAt>>,
           to = "conflict" => \E q \in tenants \ {r} : EmailOf[q] = EmailOf[r],
           to = "commit" =>
              /\ ~\E q \in Signups \ {r} : Inserted(q) /\ EmailOf[q] = EmailOf[r]
              /\ ~\E u \in users : EmailOf[u] = EmailOf[r]
    PROVE  WholeInv'
<1>1. AccountsTypeOK /\ AccountsAreWhole /\ EmailsHeldOnce /\ OnlyUsersGo
  BY DEF AccountsInv, WholeInv
<1>2. /\ signup'[r] = to
      /\ \A q \in Signups : q # r => signup'[q] = signup[q]
  BY <1>1 DEF AccountsTypeOK
<1>3. AccountsAreWhole'
  BY <1>1, <1>2 DEF AccountsAreWhole, Made
<1>4. EmailsHeldOnce'
  BY <1>1, <1>2 DEF EmailsHeldOnce, Inserted
<1>5. OnlyUsersGo'
  BY <1>1, <1>2 DEF OnlyUsersGo, Made
<1>6. QED
  BY <1>3, <1>4, <1>5 DEF WholeInv

\* A step of a signup before its commit, and its failure.
LEMMA SignupKeeps ==
    ASSUME AccountsInv, NEW r \in Signups,
           HashPassword(r) \/ InsertTenant(r) \/ InsertUser(r) \/ SignupFails(r)
    PROVE  WholeInv'
<1>1. AccountsTypeOK /\ AccountsAreWhole
  BY DEF AccountsInv, WholeInv
<1>2. UNCHANGED <<tenants, users, removedAt>>
  BY DEF HashPassword, InsertTenant, InsertUser, SignupFails
<1>3. CASE HashPassword(r)
  BY <1>2, <1>3, SignupMoves DEF HashPassword, SignupAt, SignupSteps, Made
<1>4. CASE InsertTenant(r)
  BY <1>2, <1>4, SignupMoves DEF InsertTenant, SignupAt, SignupSteps, Made
<1>5. CASE SignupFails(r)
  BY <1>2, <1>5, SignupMoves DEF SignupFails, SignupSteps, Made
<1>6. CASE InsertUser(r)
  <2>1. signup[r] = "user" /\ ~\E q \in Signups \ {r} : Inserted(q) /\ EmailOf[q] = EmailOf[r]
    BY <1>6 DEF InsertUser, SignupAt
  <2>2. CASE \E u \in users : EmailOf[u] = EmailOf[r]
    <3>1. signup' = [signup EXCEPT ![r] = "conflict"]
      BY <1>6, <2>2 DEF InsertUser, SignupAt
    <3>2. PICK u \in users : EmailOf[u] = EmailOf[r]
      BY <2>2
    <3>3. u \in tenants \ {r}
      BY <1>1, <2>1 DEF AccountsAreWhole, AccountsTypeOK, Made
    <3>4. QED
      BY <1>2, <2>1, <3>1, <3>2, <3>3, SignupMoves DEF SignupSteps, Made
  <2>3. CASE ~\E u \in users : EmailOf[u] = EmailOf[r]
    <3>1. signup' = [signup EXCEPT ![r] = "commit"]
      BY <1>6, <2>3 DEF InsertUser, SignupAt
    <3>2. QED
      BY <1>2, <2>1, <2>3, <3>1, SignupMoves DEF SignupSteps, Made
  <2>4. QED
    BY <2>2, <2>3
<1>7. QED
  BY <1>3, <1>4, <1>5, <1>6

\* The commit that makes tenant and user at once.
LEMMA CommitSignupKeeps ==
    ASSUME AccountsInv, NEW r \in Signups, CommitSignup(r) \/ CommitAnswerLost(r)
    PROVE  WholeInv'
<1>1. AccountsTypeOK /\ AccountsAreWhole /\ EmailsHeldOnce /\ OnlyUsersGo
  BY DEF AccountsInv, WholeInv
<1>2. /\ signup[r] = "commit" /\ \E to \in {"created", "lost"} : signup' = [signup EXCEPT ![r] = to]
      /\ tenants' = tenants \cup {r} /\ users' = users \cup {r} /\ removedAt' = removedAt
  BY DEF CommitSignup, CommitAnswerLost, SignupAt
<1>3. signup'[r] \in {"created", "lost"} /\ \A q \in Signups : q # r => signup'[q] = signup[q]
  BY <1>1, <1>2 DEF AccountsTypeOK
<1>4. removedAt[r] = NeverAt
  BY <1>1, <1>2 DEF OnlyUsersGo, Made
<1>5. \A u \in users : EmailOf[u] # EmailOf[r]
  BY <1>1, <1>2 DEF EmailsHeldOnce, Inserted
<1>6. \A q \in Signups : Inserted(q) /\ EmailOf[q] = EmailOf[r] => q = r
  BY <1>1, <1>2 DEF EmailsHeldOnce, Inserted
<1>7. AccountsAreWhole'
  BY <1>1, <1>2, <1>3, <1>4, <1>5 DEF AccountsAreWhole, AccountsTypeOK, Made
<1>8. EmailsHeldOnce'
  BY <1>1, <1>2, <1>3, <1>6 DEF EmailsHeldOnce, Inserted
<1>9. OnlyUsersGo'
  BY <1>1, <1>2, <1>3 DEF OnlyUsersGo, Made
<1>10. QED
  BY <1>7, <1>8, <1>9 DEF WholeInv

\* A user's row is removed.
LEMMA RemoveUserKeeps ==
    ASSUME AccountsInv, NEW u \in Signups, RemoveUser(u)
    PROVE  WholeInv'
<1>1. AccountsTypeOK /\ AccountsAreWhole /\ EmailsHeldOnce /\ OnlyUsersGo
  BY DEF AccountsInv, WholeInv
<1>2. /\ u \in users /\ users' = users \ {u} /\ removedAt' = [removedAt EXCEPT ![u] = clock]
      /\ UNCHANGED <<signup, tenants>>
  BY DEF RemoveUser
<1>3. clock # NeverAt
  BY <1>1, AccountsAssumption DEF AccountsTypeOK, AccountsAssumption, NeverAt
<1>4. removedAt'[u] = clock /\ \A q \in Signups : q # u => removedAt'[q] = removedAt[q]
  BY <1>1, <1>2 DEF AccountsTypeOK
<1>5. AccountsAreWhole'
  BY <1>1, <1>2, <1>3, <1>4 DEF AccountsAreWhole, Made
<1>6. EmailsHeldOnce'
  BY <1>1, <1>2 DEF EmailsHeldOnce, Inserted
<1>7. OnlyUsersGo'
  <2>1. Made(u)
    BY <1>1, <1>2 DEF AccountsAreWhole, Made
  <2>2. QED
    BY <1>1, <1>2, <1>4, <2>1 DEF OnlyUsersGo, Made
<1>8. QED
  BY <1>5, <1>6, <1>7 DEF WholeInv

\* The types of what access is decided by.
LEMMA AccessTypes ==
    ASSUME AccountsTypeOK
    PROVE  /\ clock \in Nat /\ clock <= MaxNow /\ MaxNow \in Nat
           /\ MaxLogin \in Nat /\ AccessTTL \in Nat /\ RefreshTTL \in Nat
           /\ \A u \in Signups : login[u] \in Nat /\ removedAt[u] \in Nat /\ servedAt[u] \in Nat
           /\ \A token \in tokens : token \in Token /\ token.exp \in Nat /\ token.sub \in Signups
           /\ \A socket \in sockets : socket.sub \in Signups /\ socket.since \in Nat
           /\ clock # NeverAt /\ clock # Idle
<1>1. /\ MaxNow \in Nat /\ MaxLogin \in Nat /\ AccessTTL \in Nat /\ RefreshTTL \in Nat
  BY AccountsAssumption DEF AccountsAssumption
<1>2. clock \in Nat /\ clock <= MaxNow
  BY <1>1 DEF AccountsTypeOK
<1>3. \A u \in Signups : login[u] \in Nat /\ removedAt[u] \in Nat /\ servedAt[u] \in Nat
  BY DEF AccountsTypeOK
<1>4. \A token \in tokens : token \in Token /\ token.exp \in Nat /\ token.sub \in Signups
  BY DEF AccountsTypeOK, Token
<1>5. clock # NeverAt /\ clock # Idle
  BY <1>1, <1>2 DEF NeverAt, Idle
<1>6. \A socket \in sockets : socket.sub \in Signups /\ socket.since \in Nat
  BY DEF AccountsTypeOK
<1>7. QED
  BY <1>1, <1>2, <1>3, <1>4, <1>5, <1>6

\* Tokens are issued while the row is there, or not long after.
LEMMA IssueKeeps ==
    ASSUME AccountsInv, NEW u \in Signups, _issue_tokens(u),
           removedAt[u] # NeverAt => clock <= Until(u)
    PROVE  /\ tokens' \subseteq Token
           /\ \A token \in tokens' : token.type = "access" =>
                 /\ token.exp <= clock + AccessTTL
                 /\ removedAt[token.sub] # NeverAt => token.exp <= Until(token.sub) + AccessTTL
<1>1. AccountsTypeOK /\ AccessInv
  BY DEF AccountsInv
<1>2. PICK a, b : /\ a = [sub |-> u, type |-> "access", exp |-> clock + AccessTTL]
                  /\ b = [sub |-> u, type |-> "refresh", exp |-> clock + RefreshTTL]
  OBVIOUS
<1>3. tokens' = tokens \cup {a, b}
  BY <1>2 DEF _issue_tokens
<1>4. clock \in Nat /\ AccessTTL \in Nat /\ RefreshTTL \in Nat /\ removedAt[u] \in Nat /\ MaxLogin \in Nat
  BY <1>1, AccessTypes
<1>5. a \in Token /\ b \in Token
  BY <1>2, <1>4 DEF Token
<1>6. tokens' \subseteq Token
  BY <1>1, <1>3, <1>5 DEF AccountsTypeOK
<1>7. ASSUME NEW token \in tokens', token.type = "access"
      PROVE  /\ token.exp <= clock + AccessTTL
             /\ removedAt[token.sub] # NeverAt => token.exp <= Until(token.sub) + AccessTTL
  <2>1. CASE token \in tokens
    BY <1>1, <1>7, <2>1 DEF AccessInv
  <2>2. CASE token = a
    <3>1. token.sub = u /\ token.exp = clock + AccessTTL
      BY <1>2, <2>2
    <3>2. QED
      BY <1>4, <3>1 DEF Until
  <2>3. CASE token = b
    BY <1>2, <1>7, <2>3
  <2>4. QED
    BY <1>3, <2>1, <2>2, <2>3
<1>8. QED
  BY <1>6, <1>7

\* A login reads the row and hands out tokens.
LEMMA LoginKeeps ==
    ASSUME AccountsInv, NEW u \in Signups, ReadUser(u) \/ VerifyPassword(u)
    PROVE  AccountsTypeOK' /\ AccessInv'
<1>1. AccountsTypeOK /\ AccessInv /\ AccountsAreWhole
  BY DEF AccountsInv, WholeInv
<1>2. UNCHANGED <<signup, tenants, users, clock, removedAt, servedAt, sockets>>
  BY DEF ReadUser, VerifyPassword
<1>3. CASE ReadUser(u)
  <2>1. login' = [login EXCEPT ![u] = clock] /\ tokens' = tokens /\ u \in users
    BY <1>3 DEF ReadUser
  <2>2. removedAt[u] = NeverAt
    BY <1>1, <2>1 DEF AccountsAreWhole
  <2>3. login'[u] = clock /\ \A q \in Signups : q # u => login'[q] = login[q]
    BY <1>1, <2>1 DEF AccountsTypeOK
  <2>4. clock \in Nat /\ MaxLogin \in Nat /\ clock <= clock + MaxLogin /\ clock <= clock
    BY <1>1, AccessTypes
  <2>5. AccessInv'
    BY <1>1, <1>2, <2>1, <2>2, <2>3, <2>4 DEF AccessInv, Until
  <2>6. AccountsTypeOK'
    BY <1>1, <1>2, <2>1, <2>4 DEF AccountsTypeOK
  <2>7. QED
    BY <2>5, <2>6
<1>4. CASE VerifyPassword(u)
  <2>1. login' = [login EXCEPT ![u] = Idle] /\ login[u] # Idle
    BY <1>4 DEF VerifyPassword
  <2>2. login'[u] = Idle /\ \A q \in Signups : q # u => login'[q] = login[q]
    BY <1>1, <2>1 DEF AccountsTypeOK
  <2>3. removedAt[u] # NeverAt => clock <= Until(u)
    <3>1. /\ login[u] \in Nat /\ removedAt[u] \in Nat /\ MaxLogin \in Nat /\ clock \in Nat
      BY <1>1, AccessTypes
    <3>2. /\ clock <= login[u] + MaxLogin
          /\ removedAt[u] # NeverAt => login[u] <= removedAt[u]
      BY <1>1, <2>1 DEF AccessInv
    <3>3. QED
      BY <3>1, <3>2 DEF Until
  <2>4. /\ tokens' \subseteq Token
        /\ \A token \in tokens' : token.type = "access" =>
              /\ token.exp <= clock + AccessTTL
              /\ removedAt[token.sub] # NeverAt => token.exp <= Until(token.sub) + AccessTTL
    <3>1. CASE _issue_tokens(u)
      BY <2>3, <3>1, IssueKeeps
    <3>2. CASE tokens' = tokens
      BY <1>1, <3>2 DEF AccountsTypeOK, AccessInv
    <3>3. QED
      BY <1>4, <3>1, <3>2 DEF VerifyPassword
  <2>5. AccessInv'
    BY <1>1, <1>2, <2>2, <2>4 DEF AccessInv, Until
  <2>6. Idle \in Nat
    BY AccountsAssumption DEF AccountsAssumption, Idle
  <2>7. AccountsTypeOK'
    BY <1>1, <1>2, <2>1, <2>4, <2>6 DEF AccountsTypeOK
  <2>8. QED
    BY <2>5, <2>7
<1>5. QED
  BY <1>3, <1>4

\* A token is refreshed, or serves a request or a handshake.
LEMMA TokenKeeps ==
    ASSUME AccountsInv, NEW token \in tokens, refresh(token) \/ ServeRequest(token) \/ OpenSocket(token)
    PROVE  AccountsTypeOK' /\ AccessInv'
<1>1. AccountsTypeOK /\ AccessInv /\ AccountsAreWhole
  BY DEF AccountsInv, WholeInv
<1>2. UNCHANGED <<signup, tenants, users, login, clock, removedAt>>
  BY DEF refresh, ServeRequest, OpenSocket
<1>3. PICK u \in Signups : u = token.sub
  BY <1>1, AccessTypes
<1>4. CASE refresh(token)
  <2>1. u \in users /\ _issue_tokens(u) /\ servedAt' = servedAt /\ sockets' = sockets
    BY <1>3, <1>4 DEF refresh
  <2>2. removedAt[u] = NeverAt
    BY <1>1, <2>1 DEF AccountsAreWhole
  <2>3. /\ tokens' \subseteq Token
        /\ \A tok \in tokens' : tok.type = "access" =>
              /\ tok.exp <= clock + AccessTTL
              /\ removedAt[tok.sub] # NeverAt => tok.exp <= Until(tok.sub) + AccessTTL
    BY <2>1, <2>2, IssueKeeps
  <2>4. AccessInv'
    BY <1>1, <1>2, <2>1, <2>3 DEF AccessInv, Until
  <2>5. AccountsTypeOK'
    BY <1>1, <1>2, <2>1, <2>3 DEF AccountsTypeOK
  <2>6. QED
    BY <2>4, <2>5
<1>5. CASE ServeRequest(token) \/ OpenSocket(token)
  <2>1. /\ servedAt' = [servedAt EXCEPT ![u] = clock] /\ tokens' = tokens
        /\ clock <= token.exp /\ token.type = "access"
        /\ sockets' \in {sockets, sockets \cup {[sub |-> u, since |-> clock]}}
    BY <1>3, <1>5 DEF ServeRequest, OpenSocket, decode_token
  <2>2. servedAt'[u] = clock /\ \A q \in Signups : q # u => servedAt'[q] = servedAt[q]
    BY <1>1, <2>1 DEF AccountsTypeOK
  <2>3. removedAt[u] # NeverAt => clock <= Until(u) + AccessTTL
    <3>1. /\ clock \in Nat /\ token.exp \in Nat /\ removedAt[u] \in Nat
          /\ MaxLogin \in Nat /\ AccessTTL \in Nat
      BY <1>1, AccessTypes
    <3>2. removedAt[u] # NeverAt => token.exp <= Until(u) + AccessTTL
      BY <1>1, <1>3, <2>1 DEF AccessInv
    <3>3. QED
      BY <2>1, <3>1, <3>2 DEF Until
  <2>4. clock \in Nat /\ clock <= clock
    BY <1>1, AccessTypes
  <2>5. AccessInv'
    BY <1>1, <1>2, <2>1, <2>2, <2>3, <2>4 DEF AccessInv, Until
  <2>6. AccountsTypeOK'
    BY <1>1, <1>2, <2>1, <2>4 DEF AccountsTypeOK
  <2>7. QED
    BY <2>5, <2>6
<1>6. QED
  BY <1>4, <1>5

\* What a removed user's tokens still reach.
LEMMA RowGoesKeeps ==
    ASSUME AccountsInv, NEW u \in Signups, RemoveUser(u)
    PROVE  AccountsTypeOK' /\ AccessInv'
<1>1. AccountsTypeOK /\ AccessInv /\ AccountsAreWhole
  BY DEF AccountsInv, WholeInv
<1>2. /\ u \in users /\ users' = users \ {u} /\ removedAt' = [removedAt EXCEPT ![u] = clock]
      /\ UNCHANGED <<signup, tenants, login, tokens, clock, servedAt, sockets>>
  BY DEF RemoveUser
<1>3. removedAt'[u] = clock /\ \A q \in Signups : q # u => removedAt'[q] = removedAt[q]
  BY <1>1, <1>2 DEF AccountsTypeOK
<1>4. /\ clock \in Nat /\ MaxLogin \in Nat /\ AccessTTL \in Nat
      /\ servedAt[u] \in Nat /\ login[u] \in Nat
  BY <1>1, AccessTypes
<1>5. AccountsTypeOK'
  BY <1>1, <1>2, <1>4 DEF AccountsTypeOK
<1>6. ASSUME NEW q \in Signups
      PROVE  /\ servedAt[q] <= clock
             /\ login[q] # Idle => login[q] <= clock /\ clock <= login[q] + MaxLogin
             /\ removedAt'[q] # NeverAt =>
                   /\ removedAt'[q] <= clock
                   /\ login[q] # Idle => login[q] <= removedAt'[q]
                   /\ servedAt[q] <= removedAt'[q] + MaxLogin + AccessTTL
  <2>1. CASE q = u
    <3>1. servedAt[u] <= clock /\ (login[u] # Idle => login[u] <= clock /\ clock <= login[u] + MaxLogin)
      BY <1>1 DEF AccessInv
    <3>2. QED
      BY <1>3, <1>4, <2>1, <3>1
  <2>2. CASE q # u
    BY <1>1, <1>3, <2>2 DEF AccessInv, Until
  <2>3. QED
    BY <2>1, <2>2
<1>7. ASSUME NEW token \in tokens, token.type = "access"
      PROVE  /\ token.exp <= clock + AccessTTL
             /\ removedAt'[token.sub] # NeverAt =>
                   token.exp <= removedAt'[token.sub] + MaxLogin + AccessTTL
  <2>1. token.sub \in Signups /\ token.exp \in Nat
    BY <1>1, AccessTypes
  <2>2. token.exp <= clock + AccessTTL
    BY <1>1, <1>7 DEF AccessInv
  <2>3. CASE token.sub = u
    BY <1>3, <1>4, <2>1, <2>2, <2>3
  <2>4. CASE token.sub # u
    BY <1>1, <1>3, <1>7, <2>1, <2>4 DEF AccessInv, Until
  <2>5. QED
    BY <2>2, <2>3, <2>4
<1>8. AccessInv'
  BY <1>2, <1>6, <1>7 DEF AccessInv, Until
<1>9. QED
  BY <1>5, <1>8

\* A second passes.
LEMMA TickKeeps ==
    ASSUME AccountsInv, TickClock
    PROVE  AccountsTypeOK' /\ AccessInv'
<1>1. AccountsTypeOK /\ AccessInv
  BY DEF AccountsInv
<1>2. /\ clock < MaxNow /\ clock' = clock + 1
      /\ \A u \in Signups : login[u] # Idle => clock < login[u] + MaxLogin
      /\ UNCHANGED <<signup, tenants, users, login, tokens, removedAt, servedAt, sockets>>
  BY DEF TickClock
<1>3. /\ clock \in Nat /\ MaxNow \in Nat /\ MaxLogin \in Nat /\ AccessTTL \in Nat
      /\ \A u \in Signups : login[u] \in Nat /\ removedAt[u] \in Nat /\ servedAt[u] \in Nat
      /\ \A token \in tokens : token.exp \in Nat
  BY <1>1, AccessTypes
<1>4. AccountsTypeOK'
  BY <1>1, <1>2, <1>3 DEF AccountsTypeOK
<1>5. ASSUME NEW u \in Signups
      PROVE  /\ servedAt[u] <= clock + 1
             /\ login[u] # Idle => login[u] <= clock + 1 /\ clock + 1 <= login[u] + MaxLogin
             /\ removedAt[u] # NeverAt =>
                   /\ removedAt[u] <= clock + 1
                   /\ login[u] # Idle => login[u] <= removedAt[u]
                   /\ servedAt[u] <= removedAt[u] + MaxLogin + AccessTTL
  <2>1. /\ servedAt[u] <= clock
        /\ login[u] # Idle => login[u] <= clock
        /\ removedAt[u] # NeverAt =>
              /\ removedAt[u] <= clock
              /\ login[u] # Idle => login[u] <= removedAt[u]
              /\ servedAt[u] <= removedAt[u] + MaxLogin + AccessTTL
    BY <1>1 DEF AccessInv, Until
  <2>2. QED
    BY <1>2, <1>3, <2>1
<1>6. ASSUME NEW token \in tokens, token.type = "access"
      PROVE  /\ token.exp <= clock + 1 + AccessTTL
             /\ removedAt[token.sub] # NeverAt =>
                   token.exp <= removedAt[token.sub] + MaxLogin + AccessTTL
  <2>1. /\ token.exp <= clock + AccessTTL
        /\ removedAt[token.sub] # NeverAt =>
              token.exp <= removedAt[token.sub] + MaxLogin + AccessTTL
    BY <1>1, <1>6 DEF AccessInv, Until
  <2>2. QED
    BY <1>3, <2>1
<1>7. AccessInv'
  BY <1>2, <1>5, <1>6 DEF AccessInv, Until
<1>8. QED
  BY <1>4, <1>7

\* A socket opens with an access token that is still good, so not after the
\* last that a removed user could have.
LEMMA SocketsKeep ==
    ASSUME AccountsInv, [AccountsNext]_accountVars
    PROVE  BearersInv'
<1>1. AccountsTypeOK /\ AccountsAreWhole /\ AccessInv /\ BearersInv
  BY DEF AccountsInv, WholeInv
<1>2. /\ clock \in Nat /\ MaxLogin \in Nat /\ AccessTTL \in Nat
      /\ \A u \in Signups : removedAt[u] \in Nat
      /\ \A socket \in sockets : socket.sub \in Signups /\ socket.since \in Nat
      /\ \A token \in tokens : token.exp \in Nat /\ token.sub \in Signups
  BY <1>1, AccessTypes
<1>3. CASE sockets' \subseteq sockets /\ removedAt' = removedAt /\ clock' \in {clock, clock + 1}
  <2>1. \A socket \in sockets : socket.since <= clock + 1
    BY <1>1, <1>2 DEF BearersInv
  <2>2. QED
    BY <1>1, <1>3, <2>1 DEF BearersInv, SocketsInTime, Until
<1>4. ASSUME NEW u \in Signups, RemoveUser(u) PROVE BearersInv'
  <2>1. /\ removedAt' = [removedAt EXCEPT ![u] = clock]
        /\ sockets' = sockets /\ clock' = clock
    BY <1>4 DEF RemoveUser
  <2>2. removedAt'[u] = clock /\ \A q \in Signups : q # u => removedAt'[q] = removedAt[q]
    BY <1>1, <2>1 DEF AccountsTypeOK
  <2>3. ASSUME NEW socket \in sockets, removedAt'[socket.sub] # NeverAt
        PROVE  socket.since <= removedAt'[socket.sub] + MaxLogin + AccessTTL
    <3>1. socket.since <= clock /\ socket.sub \in Signups /\ socket.since \in Nat
      BY <1>1, <1>2 DEF BearersInv
    <3>2. CASE socket.sub = u
      BY <1>2, <2>2, <3>1, <3>2
    <3>3. CASE socket.sub # u
      BY <1>1, <2>2, <2>3, <3>1, <3>3 DEF BearersInv, SocketsInTime, Until
    <3>4. QED
      BY <3>2, <3>3
  <2>4. QED
    BY <1>1, <2>1, <2>3 DEF BearersInv, SocketsInTime, Until
<1>5. ASSUME NEW token \in tokens, OpenSocket(token) PROVE BearersInv'
  <2>1. PICK one : one = [sub |-> token.sub, since |-> clock]
    OBVIOUS
  <2>2. /\ clock <= token.exp /\ token.type = "access"
        /\ sockets' = sockets \cup {one} /\ removedAt' = removedAt /\ clock' = clock
    BY <1>5, <2>1 DEF OpenSocket, decode_token
  <2>3. removedAt[token.sub] # NeverAt => token.exp <= removedAt[token.sub] + MaxLogin + AccessTTL
    BY <1>1, <2>2 DEF AccessInv, Until
  <2>4. removedAt[one.sub] # NeverAt => one.since <= removedAt[one.sub] + MaxLogin + AccessTTL
    <3>1. one.sub = token.sub /\ one.since = clock
      BY <2>1
    <3>2. QED
      BY <1>2, <2>2, <2>3, <3>1
  <2>5. one.since <= clock
    BY <1>2, <2>1
  <2>6. QED
    BY <1>1, <2>2, <2>4, <2>5 DEF BearersInv, SocketsInTime, Until
<1>6. ASSUME NEW token \in tokens, refresh(token) \/ ServeRequest(token) PROVE BearersInv'
  <2>1. sockets' = sockets /\ removedAt' = removedAt /\ clock' = clock
    BY <1>6 DEF refresh, ServeRequest
  <2>2. QED
    BY <1>3, <2>1
<1>7. ASSUME NEW r \in Signups,
             \/ HashPassword(r) \/ InsertTenant(r) \/ InsertUser(r) \/ SignupFails(r)
             \/ CommitSignup(r) \/ CommitAnswerLost(r) \/ ReadUser(r) \/ VerifyPassword(r)
      PROVE  BearersInv'
  <2>1. sockets' = sockets /\ removedAt' = removedAt /\ clock' = clock
    BY <1>7 DEF HashPassword, InsertTenant, InsertUser, SignupFails, CommitSignup,
                CommitAnswerLost, ReadUser, VerifyPassword
  <2>2. QED
    BY <1>3, <2>1
<1>8. ASSUME NEW socket \in sockets, CloseSocket(socket) PROVE BearersInv'
  <2>1. sockets' \subseteq sockets /\ removedAt' = removedAt /\ clock' = clock
    BY <1>8 DEF CloseSocket
  <2>2. QED
    BY <1>3, <2>1
<1>9. CASE TickClock
  <2>1. sockets' = sockets /\ removedAt' = removedAt /\ clock' = clock + 1
    BY <1>9 DEF TickClock
  <2>2. QED
    BY <1>3, <2>1
<1>10. CASE UNCHANGED accountVars
  <2>1. sockets' = sockets /\ removedAt' = removedAt /\ clock' = clock
    BY <1>10 DEF accountVars
  <2>2. QED
    BY <1>3, <2>1
<1>11. QED
  BY <1>4, <1>5, <1>6, <1>7, <1>8, <1>9, <1>10 DEF AccountsNext

\* A socket closes.
LEMMA CloseSocketKeeps ==
    ASSUME AccountsInv, NEW socket \in sockets, CloseSocket(socket)
    PROVE  AccountsTypeOK' /\ AccessInv'
<1>1. /\ sockets' \subseteq sockets
      /\ UNCHANGED <<signup, tenants, users, login, tokens, clock, removedAt, servedAt>>
  BY DEF CloseSocket
<1>2. AccountsTypeOK'
  BY <1>1 DEF AccountsInv, AccountsTypeOK
<1>3. AccessInv'
  BY <1>1 DEF AccountsInv, AccessInv, Until
<1>4. QED
  BY <1>2, <1>3

\* However signups race, for any lives of the tokens: no half of a registration is left, no
\* email has two users, no one is told of an account that is not there (auth.py:register), and
\* a removed user makes requests and opens sockets no longer than one access token that a login
\* still under way could obtain (deps.py:current_principal, auth.py:refresh, ws.py:343-348).
THEOREM AccountsAreSoundHolds == AccountsSpec => []AccountsAreSound
<1>1. AccountsInit => AccountsInv
  BY InitAccounts
<1>2. AccountsInv /\ [AccountsNext]_accountVars => AccountsInv'
  <2> SUFFICES ASSUME AccountsInv, [AccountsNext]_accountVars PROVE AccountsInv'
    OBVIOUS
  <2>1. CASE UNCHANGED accountVars
    BY <2>1, SocketsKeep
       DEF accountVars, AccountsInv, WholeInv, AccountsTypeOK, AccountsAreWhole, OnlyUsersGo,
           EmailsHeldOnce, Inserted, Made, AccessInv, Until
  <2>2. ASSUME NEW r \in Signups,
               \/ HashPassword(r) \/ InsertTenant(r) \/ InsertUser(r) \/ SignupFails(r)
               \/ CommitSignup(r) \/ CommitAnswerLost(r)
        PROVE  AccountsInv'
    <3>1. WholeInv'
      BY <2>2, SignupKeeps, CommitSignupKeeps
    <3>2. UNCHANGED <<login, tokens, clock, removedAt, servedAt, sockets>>
      BY <2>2 DEF HashPassword, InsertTenant, InsertUser, SignupFails, CommitSignup,
                  CommitAnswerLost
    <3>3. AccessInv'
      BY <3>2 DEF AccountsInv, AccessInv, Until
    <3>4. /\ \E to \in SignupSteps : signup' = [signup EXCEPT ![r] = to]
          /\ tenants' \subseteq tenants \cup {r} /\ users' \subseteq users \cup {r}
      BY <2>2 DEF HashPassword, InsertTenant, InsertUser, SignupFails, CommitSignup,
                  CommitAnswerLost, SignupAt, SignupSteps
    <3>5. AccountsTypeOK'
      BY <3>2, <3>4 DEF AccountsInv, AccountsTypeOK
    <3>6. QED
      BY <3>1, <3>3, <3>5, SocketsKeep DEF AccountsInv, AccountsNext
  <2>3. ASSUME NEW u \in Signups, RemoveUser(u) PROVE AccountsInv'
    BY <2>3, RemoveUserKeeps, RowGoesKeeps, SocketsKeep DEF AccountsInv, AccountsNext
  <2>4. ASSUME AccountsTypeOK' /\ AccessInv', UNCHANGED <<signup, tenants, users, removedAt>>
        PROVE  AccountsInv'
    BY <2>4, SocketsKeep DEF AccountsInv, WholeInv, AccountsAreWhole, EmailsHeldOnce, OnlyUsersGo,
                             Inserted, Made
  <2>5. ASSUME NEW u \in Signups, ReadUser(u) \/ VerifyPassword(u) PROVE AccountsInv'
    <3>1. UNCHANGED <<signup, tenants, users, removedAt>>
      BY <2>5 DEF ReadUser, VerifyPassword
    <3>2. QED
      BY <2>4, <2>5, <3>1, LoginKeeps
  <2>6. ASSUME NEW token \in tokens, 
               refresh(token) \/ ServeRequest(token) \/ OpenSocket(token)
        PROVE  AccountsInv'
    <3>1. UNCHANGED <<signup, tenants, users, removedAt>>
      BY <2>6 DEF refresh, ServeRequest, OpenSocket
    <3>2. QED
      BY <2>4, <2>6, <3>1, TokenKeeps
  <2>7. CASE TickClock
    <3>1. UNCHANGED <<signup, tenants, users, removedAt>>
      BY <2>7 DEF TickClock
    <3>2. QED
      BY <2>4, <2>7, <3>1, TickKeeps
  <2>8. ASSUME NEW socket \in sockets, CloseSocket(socket) PROVE AccountsInv'
    <3>1. UNCHANGED <<signup, tenants, users, removedAt>>
      BY <2>8 DEF CloseSocket
    <3>2. QED
      BY <2>4, <2>8, <3>1, CloseSocketKeeps
  <2>9. QED
    BY <2>1, <2>2, <2>3, <2>5, <2>6, <2>7, <2>8 DEF AccountsNext
<1>3. AccountsInv => AccountsAreSound
  BY DEF AccountsInv, WholeInv, AccountsAreSound, AccessInv, BearersInv, SocketsInTime,
         RemovedUserLosesAccess, AccessEnds, Until
<1>4. QED
  BY <1>1, <1>2, <1>3, PTL DEF AccountsSpec

-----------------------------------------------------------------------------
(***************************************************************************)
(* The demo console.  What is on screen was mounted under the key of the   *)
(* capture it shows, which captures of one name and packet count share.    *)
(***************************************************************************)
AllHosts == UNION {HostsOf(c) : c \in ConsoleCaptures}

Screen ==
    [key : {KeyOf[c] : c \in ConsoleCaptures}, host : AllHosts, t : Nat,
     detail : {<<>>} \union (AllHosts \X Nat), view : {"dashboard", "search", "capture"},
     paused : BOOLEAN, mount : Nat]

\* The captures of a key that can be shown.
OfKey(key) == {c \in ConsoleCaptures : KeyOf[c] = key /\ alignedHosts(c) # {}}

\* The screen s may show the capture c: each of its indices is of a capture
\* with the key of c.
FitsIn(s, c) ==
    /\ c \in OfKey(s.key) /\ s \in Screen
    /\ \E d \in OfKey(s.key) : s.host \in alignedHosts(d)
    /\ \E d \in OfKey(s.key) : s.t < Longest(d)
    /\ s.detail # <<>> =>
         \E d \in OfKey(s.key) : s.detail[1] \in alignedHosts(d) /\ s.detail[2] < Longest(d)

ConsoleInv ==
    /\ FitsIn(screen, capture_shown)
    /\ \A f \in inFlight : f.capture \in ConsoleCaptures

\* A host that is ranked has forecasts, as many as there are windows.
LEMMA AlignedIs ==
    ASSUME NEW c \in ConsoleCaptures, NEW h \in alignedHosts(c)
    PROVE  /\ h \in HostsOf(c) /\ h \in AllHosts
           /\ Longest(c) = Length[c][h] /\ Longest(c) \in Nat /\ Longest(c) > 0
BY ConsoleAssumption DEF ConsoleAssumption, alignedHosts, Present, AllHosts

\* The committed replay has hosts to rank: all of them.
LEMMA BuiltInIsAligned == BuiltIn \in ConsoleCaptures /\ alignedHosts(BuiltIn) # {}
<1>1. PICK h \in HostsOf(BuiltIn) : Length[BuiltIn][h] > 0
  BY ConsoleAssumption DEF ConsoleAssumption
<1>2. BuiltIn \in ConsoleCaptures /\ Length[BuiltIn][h] \in Nat
  BY ConsoleAssumption DEF ConsoleAssumption
<1>3. \A g \in HostsOf(BuiltIn) : Length[BuiltIn][g] = Length[BuiltIn][h]
  BY ConsoleAssumption DEF ConsoleAssumption
<1>4. h \in Present(BuiltIn)
  BY <1>1 DEF Present
<1>5. \A g \in Present(BuiltIn) : Length[BuiltIn][g] <= Length[BuiltIn][h]
  BY <1>2, <1>3 DEF Present
<1>6. {Length[BuiltIn][g] : g \in Present(BuiltIn)} = {Length[BuiltIn][h]}
  BY <1>3, <1>4 DEF Present
<1>7. Longest(BuiltIn) = Length[BuiltIn][h]
  BY <1>5, <1>6 DEF Longest
<1>8. QED
  BY <1>2, <1>4, <1>7 DEF alignedHosts

\* A fresh console fits the capture it is mounted for.
LEMMA MountFits ==
    ASSUME NEW c \in ConsoleCaptures, NEW h \in alignedHosts(c), NEW t \in Nat, t < Longest(c),
           NEW paused \in BOOLEAN, NEW n \in Nat
    PROVE  FitsIn(Mount(KeyOf[c], h, t, paused, n), c)
<1>1. PICK s : s = Mount(KeyOf[c], h, t, paused, n)
  OBVIOUS
<1>2. /\ s.key = KeyOf[c] /\ s.host = h /\ s.t = t /\ s.detail = <<>> /\ s.view = "dashboard"
      /\ s.paused = paused /\ s.mount = n
  BY <1>1 DEF Mount
<1>3. h \in AllHosts
  BY AlignedIs
<1>4. s \in Screen
  BY <1>1, <1>3 DEF Mount, Screen
<1>5. c \in OfKey(s.key)
  BY <1>2 DEF OfKey
<1>6. QED
  BY <1>1, <1>2, <1>4, <1>5 DEF FitsIn

\* While a console fits, the windows on show are those of its capture.
LEMMA ShownWindows ==
    ASSUME ConsoleInv
    PROVE  /\ capture_shown \in ConsoleCaptures /\ alignedHosts(capture_shown) # {}
           /\ windowCount = Longest(capture_shown) /\ windowCount \in Nat /\ windowCount > 0
<1>1. capture_shown \in ConsoleCaptures /\ alignedHosts(capture_shown) # {}
  BY DEF ConsoleInv, FitsIn, OfKey
<1>2. QED
  BY <1>1, AlignedIs DEF windowCount

\* A step on what is shown.
LEMMA ScreenKeeps ==
    ASSUME ConsoleInv, FitsIn(screen', capture_shown), UNCHANGED uploaded,
           \A f \in inFlight' : f.capture \in ConsoleCaptures
    PROVE  ConsoleInv'
BY DEF ConsoleInv, capture_shown

\* The clock, the host and the view are the user's.
LEMMA DashboardKeeps ==
    ASSUME ConsoleInv,
           \/ \E steps \in 1 .. 2 : tick(steps)
           \/ \E t \in 0 .. windowCount : seek(t)
           \/ \E paused \in BOOLEAN : setPlaying(paused)
           \/ \E h \in HostsOf(capture_shown) : setHost(h)
           \/ \E v \in {"dashboard", "search", "capture"} : setView(v)
           \/ closeDetail
    PROVE  ConsoleInv'
<1>1. PICK c, s, n : c = capture_shown /\ s = screen /\ n = windowCount
  OBVIOUS
<1>2. /\ c \in ConsoleCaptures /\ n = Longest(c) /\ n \in Nat /\ n > 0
      /\ FitsIn(s, c) /\ s \in Screen /\ c \in OfKey(s.key)
  BY <1>1, ShownWindows DEF ConsoleInv, FitsIn
<1>3. FitsIn(screen', c)
  <2>1. ASSUME NEW steps \in 1 .. 2, tick(steps) PROVE FitsIn(screen', c)
    <3>1. screen' = [s EXCEPT !.t = (s.t + steps) % n]
      BY <1>1, <2>1 DEF tick
    <3>2. s.t \in Nat
      BY <1>2 DEF Screen
    <3>3. (s.t + steps) % n \in Nat /\ (s.t + steps) % n < n
      BY <1>2, <3>2
    <3>4. QED
      BY <1>2, <3>1, <3>3 DEF FitsIn, Screen
  <2>2. ASSUME NEW t \in 0 .. windowCount, seek(t) PROVE FitsIn(screen', c)
    <3>1. screen' = [s EXCEPT !.t = t, !.paused = TRUE] /\ t < n
      BY <1>1, <2>2 DEF seek
    <3>2. t \in Nat
      BY <1>1, <1>2
    <3>3. QED
      BY <1>2, <3>1, <3>2 DEF FitsIn, Screen
  <2>3. ASSUME NEW paused \in BOOLEAN, setPlaying(paused) PROVE FitsIn(screen', c)
    <3>1. screen' = [s EXCEPT !.paused = paused]
      BY <1>1, <2>3 DEF setPlaying
    <3>2. QED
      BY <1>2, <3>1 DEF FitsIn, Screen
  <2>4. ASSUME NEW h \in HostsOf(capture_shown), setHost(h) PROVE FitsIn(screen', c)
    <3>1. screen' = [s EXCEPT !.host = h] /\ h \in alignedHosts(c)
      BY <1>1, <2>4 DEF setHost
    <3>2. h \in AllHosts
      BY <1>2, <3>1, AlignedIs
    <3>3. QED
      BY <1>2, <3>1, <3>2 DEF FitsIn, Screen
  <2>5. ASSUME NEW v \in {"dashboard", "search", "capture"}, setView(v) PROVE FitsIn(screen', c)
    <3>1. screen' = [s EXCEPT !.view = v]
      BY <1>1, <2>5 DEF setView
    <3>2. QED
      BY <1>2, <3>1 DEF FitsIn, Screen
  <2>6. ASSUME closeDetail PROVE FitsIn(screen', c)
    <3>1. screen' = [s EXCEPT !.detail = <<>>]
      BY <1>1, <2>6 DEF closeDetail
    <3>2. QED
      BY <1>2, <3>1 DEF FitsIn, Screen
  <2>7. QED
    BY <2>1, <2>2, <2>3, <2>4, <2>5, <2>6
<1>4. UNCHANGED <<uploaded, inFlight>>
  BY DEF tick, seek, setPlaying, setHost, setView, closeDetail
<1>5. \A f \in inFlight' : f.capture \in ConsoleCaptures
  BY <1>4 DEF ConsoleInv
<1>6. QED
  BY <1>1, <1>3, <1>4, <1>5, ScreenKeeps

\* The detail view of a host opens.
LEMMA OpenDetailKeeps ==
    ASSUME ConsoleInv, NEW h \in HostsOf(capture_shown), NEW i \in 0 .. windowCount,
           openDetail(h, i)
    PROVE  ConsoleInv'
<1>1. PICK c, s : c = capture_shown /\ s = screen
  OBVIOUS
<1>2. /\ c \in ConsoleCaptures /\ FitsIn(s, c) /\ s \in Screen /\ c \in OfKey(s.key)
      /\ windowCount \in Nat
  BY <1>1, ShownWindows DEF ConsoleInv, FitsIn
<1>3. /\ screen' = [s EXCEPT !.detail = <<h, i>>, !.paused = TRUE]
      /\ h \in alignedHosts(c) /\ i < Length[c][h] /\ UNCHANGED <<uploaded, inFlight>>
  BY <1>1 DEF openDetail
<1>4. h \in AllHosts /\ Length[c][h] = Longest(c) /\ i \in Nat
  BY <1>2, <1>3, AlignedIs
<1>5. <<h, i>> \in AllHosts \X Nat /\ <<h, i>>[1] = h /\ <<h, i>>[2] = i
  BY <1>4
<1>6. /\ screen' \in Screen /\ screen'.detail = <<h, i>> /\ screen'.key = s.key
      /\ screen'.host = s.host /\ screen'.t = s.t
  BY <1>2, <1>3, <1>5 DEF Screen
<1>7. FitsIn(screen', c)
  BY <1>2, <1>3, <1>4, <1>5, <1>6 DEF FitsIn
<1>8. \A f \in inFlight' : f.capture \in ConsoleCaptures
  BY <1>3 DEF ConsoleInv
<1>9. QED
  BY <1>1, <1>3, <1>7, <1>8, ScreenKeeps

\* An analysis starts or ends.
LEMMA AnalysisKeeps ==
    ASSUME ConsoleInv,
           \/ \E c \in ConsoleCaptures : analyse(c)
           \/ \E f \in inFlight : AnalysisFails(f)
    PROVE  ConsoleInv'
<1>1. UNCHANGED <<uploaded, screen>>
  BY DEF analyse, AnalysisFails
<1>2. \A f \in inFlight' : f.capture \in ConsoleCaptures
  BY DEF ConsoleInv, analyse, AnalysisFails
<1>3. FitsIn(screen', capture_shown)
  BY <1>1 DEF ConsoleInv
<1>4. QED
  BY <1>1, <1>2, <1>3, ScreenKeeps

\* What is shown after the upload changes to u.
LEMMA ShowsFits ==
    ASSUME ConsoleInv, NEW u, NEW from, Shows(u, from),
           ShownCapture(u) \in ConsoleCaptures, alignedHosts(ShownCapture(u)) # {}
    PROVE  FitsIn(screen', ShownCapture(u))
<1>1. PICK c, d, s : c = ShownCapture(u) /\ d = capture_shown /\ s = screen
  OBVIOUS
<1>2. /\ c \in ConsoleCaptures /\ alignedHosts(c) # {} /\ FitsIn(s, d) /\ s \in Screen
      /\ s.key = KeyOf[d]
  BY <1>1 DEF ConsoleInv, FitsIn, OfKey
<1>3. s.mount \in Nat
  BY <1>2 DEF Screen
<1>4. CASE KeyOf[c] # s.key
  <2>1. PICK h \in alignedHosts(c) : screen' = Mount(KeyOf[c], h, 0, u # None, s.mount + 1)
    BY <1>1, <1>4 DEF Shows
  <2>2. 0 < Longest(c) /\ (u # None) \in BOOLEAN /\ s.mount + 1 \in Nat
    BY <1>2, <1>3, AlignedIs
  <2>3. FitsIn(Mount(KeyOf[c], h, 0, u # None, s.mount + 1), c)
    BY <1>2, <2>2, MountFits
  <2>4. QED
    BY <1>1, <2>1, <2>3
<1>5. CASE KeyOf[c] = s.key
  <2>1. c \in OfKey(s.key)
    BY <1>2, <1>5 DEF OfKey
  <2>2. screen' = s \/ screen' = [s EXCEPT !.view = "dashboard"]
    BY <1>1, <1>5 DEF Shows
  <2>3. FitsIn(screen', c)
    BY <1>2, <2>1, <2>2 DEF FitsIn, Screen
  <2>4. QED
    BY <1>1, <2>3
<1>6. QED
  BY <1>4, <1>5

\* An accepted analysis replaces the capture on screen, or the user clears it.
LEMMA UploadShownKeeps ==
    ASSUME ConsoleInv, onClear \/ \E f \in inFlight : accept_upload(f)
    PROVE  ConsoleInv'
<1>1. capture_shown \in ConsoleCaptures /\ alignedHosts(capture_shown) # {}
  BY ShownWindows
<1>2. ASSUME NEW f \in inFlight, accept_upload(f) PROVE ConsoleInv'
  <2>1. PICK u : u = uploaded'
    OBVIOUS
  <2>2. Shows(u, f.from) /\ inFlight' = inFlight \ {f}
    BY <1>2, <2>1 DEF accept_upload
  <2>3. u = uploaded \/ (u = f.capture /\ alignedHosts(u) # {})
    BY <1>2, <2>1 DEF accept_upload
  <2>4. ShownCapture(u) \in ConsoleCaptures /\ alignedHosts(ShownCapture(u)) # {}
    <3>1. CASE u = uploaded
      BY <1>1, <3>1 DEF capture_shown
    <3>2. CASE u = f.capture /\ alignedHosts(u) # {}
      BY <1>2, <3>2, BuiltInIsAligned DEF ConsoleInv, ShownCapture
    <3>3. QED
      BY <2>3, <3>1, <3>2
  <2>5. FitsIn(screen', ShownCapture(u))
    BY <2>2, <2>4, ShowsFits
  <2>6. QED
    BY <2>1, <2>2, <2>5 DEF ConsoleInv, capture_shown
<1>3. ASSUME onClear PROVE ConsoleInv'
  <2>1. uploaded' = None /\ Shows(None, screen.mount) /\ inFlight' = inFlight
    BY <1>3 DEF onClear
  <2>2. ShownCapture(None) = BuiltIn
    BY DEF ShownCapture
  <2>3. FitsIn(screen', ShownCapture(None))
    BY <2>1, <2>2, BuiltInIsAligned, ShowsFits
  <2>4. QED
    BY <2>1, <2>3 DEF ConsoleInv, capture_shown
<1>4. QED
  BY <1>2, <1>3

\* For any captures, and whenever an analysis of any of them arrives: the host, the window
\* and the open record of the console were chosen in captures of the name and packet count of
\* the one it shows (demo-workspace.tsx).
THEOREM IndicesFitTheCaptureHolds == ConsoleSpec => []IndicesFitTheCapture
<1>1. ConsoleInit => ConsoleInv
  <2> SUFFICES ASSUME ConsoleInit PROVE ConsoleInv
    OBVIOUS
  <2>1. PICK h \in alignedHosts(BuiltIn), t \in 0 .. windowCount - 1 :
           screen = Mount(KeyOf[BuiltIn], h, t, t # 0, 1)
    BY DEF ConsoleInit
  <2>2. capture_shown = BuiltIn /\ inFlight = {}
    BY DEF ConsoleInit, capture_shown, ShownCapture
  <2>3. BuiltIn \in ConsoleCaptures /\ windowCount = Longest(BuiltIn) /\ windowCount \in Nat
    BY <2>2, BuiltInIsAligned, AlignedIs DEF windowCount
  <2>4. t \in Nat /\ t < Longest(BuiltIn) /\ (t # 0) \in BOOLEAN /\ 1 \in Nat
    BY <2>3
  <2>5. FitsIn(Mount(KeyOf[BuiltIn], h, t, t # 0, 1), BuiltIn)
    BY <2>3, <2>4, MountFits
  <2>6. QED
    BY <2>1, <2>2, <2>5 DEF ConsoleInv
<1>2. ConsoleInv /\ [ConsoleNext]_consoleVars => ConsoleInv'
  <2> SUFFICES ASSUME ConsoleInv, [ConsoleNext]_consoleVars PROVE ConsoleInv'
    OBVIOUS
  <2>1. CASE UNCHANGED consoleVars
    BY <2>1 DEF consoleVars, ConsoleInv, capture_shown
  <2>2. CASE ConsoleNext
    BY <2>2, DashboardKeeps, OpenDetailKeeps, AnalysisKeeps, UploadShownKeeps DEF ConsoleNext
  <2>3. QED
    BY <2>1, <2>2
<1>3. ConsoleInv => IndicesFitTheCapture
  <2> SUFFICES ASSUME ConsoleInv PROVE IndicesFitTheCapture
    OBVIOUS
  <2>1. FitsIn(screen, capture_shown) /\ windowCount = Longest(capture_shown)
    BY ShownWindows DEF ConsoleInv
  <2>2. ASSUME OfKey(screen.key) = {capture_shown} PROVE Rendered /\ screen.t < windowCount
    BY <2>1, <2>2 DEF FitsIn, Rendered, alignedHosts
  <2>3. QED
    BY <2>1, <2>2 DEF FitsIn, OfKey, IndicesFitTheCapture
<1>4. QED
  BY <1>1, <1>2, <1>3, PTL DEF ConsoleSpec

-----------------------------------------------------------------------------
(***************************************************************************)
(* The rate limiter.  A request that passed a ceiling is in its window for *)
(* as long as it counts, and whoever is counted sees everyone who arrived  *)
(* before its own answer was due.                                          *)
(***************************************************************************)
Positions == {"new", "count", "withdraw", "admitted", "refused"}

RateTypeOK ==
    /\ nowMs \in Nat /\ redisErrors \in Nat
    /\ request \in [Requests -> [pos : Positions, scope : Scopes, at : Nat]]
    /\ expires \in [Scopes -> Nat]
    /\ window \in [Scopes -> SUBSET Requests] /\ passed \in [Scopes -> SUBSET Requests]
    /\ \A scope \in Scopes : IsFiniteSet(window[scope]) /\ IsFiniteSet(passed[scope])

Timely ==
    \A r \in Requests :
        /\ ArrivedAt(r) <= nowMs
        /\ OnItsWay(r) => nowMs <= ArrivedAt(r) + MaxDelay

\* A request has not passed what is still ahead of it.
StillAhead(r, scope) ==
    \/ request[r].pos = "new"
    \/ OnItsWay(r) /\ (request[r].scope = scope \/ scope = "ingest")

PassedOnce == \A r \in Requests, scope \in Scopes : StillAhead(r, scope) => r \notin passed[scope]

\* A request that passed stays in the window, and the key with it, for WindowMs.
IsKept(q, scope, members, until) ==
    \/ ArrivedAt(q) + WindowMs[scope] <= nowMs
    \/ q \in members /\ ArrivedAt(q) + WindowMs[scope] <= until

PassedAreKept ==
    \A scope \in Scopes : \A q \in passed[scope] : IsKept(q, scope, window[scope], expires[scope])

\* Who else is in a window is on the way out of it.
OthersLeave ==
    redisErrors = 0 =>
        \A scope \in Scopes : \A q \in window[scope] :
            q \in passed[scope] \/ AtStep(q, "withdraw", scope)

\* Those of S that every window of a scope around t holds.
Around(S, scope, t) ==
    {q \in S : ArrivedAt(q) <= t /\ ArrivedAt(q) + WindowMs[scope] > t + MaxDelay}

WithinLimit ==
    \A scope \in Scopes, t \in Nat : Cardinality(Around(passed[scope], scope, t)) <= Limit[scope]

RateInv == RateTypeOK /\ Timely /\ PassedOnce /\ PassedAreKept /\ OthersLeave /\ WithinLimit

\* The types behind them.
LEMMA RateTypes ==
    ASSUME RateTypeOK, NEW scope \in Scopes
    PROVE  /\ nowMs \in Nat /\ MaxDelay \in Nat /\ Limit[scope] \in Nat /\ WindowMs[scope] \in Nat
           /\ expires[scope] \in Nat /\ window[scope] \subseteq Requests
           /\ passed[scope] \subseteq Requests
           /\ \A q \in Requests : ArrivedAt(q) \in Nat
BY RateLimitAssumption DEF RateLimitAssumption, RateTypeOK, ArrivedAt

\* Nobody has arrived.
LEMMA InitRate == RateLimitInit => RateInv
<1> SUFFICES ASSUME RateLimitInit PROVE RateInv
  OBVIOUS
<1>1. IsFiniteSet({}) /\ Cardinality({}) = 0
  BY FS_EmptySet
<1>2. RateTypeOK
  BY <1>1 DEF RateLimitInit, RateTypeOK, Positions, Scopes
<1>3. Timely /\ PassedOnce /\ PassedAreKept /\ OthersLeave
  BY DEF RateLimitInit, Timely, PassedOnce, PassedAreKept, OthersLeave, ArrivedAt, OnItsWay
<1>4. ASSUME NEW scope \in Scopes, NEW t \in Nat
      PROVE  Cardinality(Around(passed[scope], scope, t)) <= Limit[scope]
  <2>1. Around(passed[scope], scope, t) = {}
    BY DEF RateLimitInit, Around
  <2>2. QED
    BY <1>1, <1>2, <2>1, RateTypes
<1>5. QED
  BY <1>2, <1>3, <1>4 DEF RateInv, WithinLimit

\* A request moves on; nobody arrives at another time for that.
LEMMA MoveIs ==
    ASSUME RateTypeOK, NEW r \in Requests, NEW pos \in Positions, NEW scope \in Scopes,
           MoveTo(r, pos, scope)
    PROVE  /\ request' \in [Requests -> [pos : Positions, scope : Scopes, at : Nat]]
           /\ request'[r].pos = pos /\ request'[r].scope = scope
           /\ \A q \in Requests : request'[q].at = request[q].at
           /\ \A q \in Requests : q # r => request'[q] = request[q]
BY DEF RateTypeOK, MoveTo

\* What a request that is counted finds and leaves in the window: whoever passed
\* and still counts.
LEMMA CountKeeps ==
    ASSUME RateInv, NEW r \in Requests, OnItsWay(r), NEW scope \in Scopes,
           NEW q \in passed[scope] \cup {r}
    PROVE  IsKept(q, scope, Trimmed(scope, ArrivedAt(r)) \cup {r}, nowMs + WindowMs[scope])
<1>1. RateTypeOK /\ Timely /\ PassedAreKept
  BY DEF RateInv
<1>2. /\ nowMs \in Nat /\ WindowMs[scope] \in Nat /\ expires[scope] \in Nat
      /\ q \in Requests /\ ArrivedAt(q) \in Nat /\ ArrivedAt(r) \in Nat
  BY <1>1, RateTypes
<1>3. ArrivedAt(q) <= nowMs /\ ArrivedAt(r) <= nowMs
  BY <1>1, <1>2 DEF Timely
<1>4. ArrivedAt(q) + WindowMs[scope] <= nowMs + WindowMs[scope]
  BY <1>2, <1>3
<1>5. CASE q = r
  BY <1>4, <1>5 DEF IsKept
<1>6. CASE q \in passed[scope] /\ ~(ArrivedAt(q) + WindowMs[scope] <= nowMs)
  <2>1. q \in window[scope] /\ ArrivedAt(q) + WindowMs[scope] <= expires[scope]
    BY <1>1, <1>6 DEF PassedAreKept, IsKept
  <2>2. q \in StoredIn(scope)
    BY <1>2, <1>6, <2>1 DEF StoredIn
  <2>3. ArrivedAt(q) + WindowMs[scope] > ArrivedAt(r)
    BY <1>2, <1>3, <1>6
  <2>4. q \in Trimmed(scope, ArrivedAt(r))
    BY <2>2, <2>3 DEF Trimmed
  <2>5. QED
    BY <1>4, <2>4 DEF IsKept
<1>7. CASE ArrivedAt(q) + WindowMs[scope] <= nowMs
  BY <1>7 DEF IsKept
<1>8. QED
  BY <1>5, <1>6, <1>7

\* And when what it leaves is within the limit, so is everyone around any instant.
LEMMA CountWithin ==
    ASSUME RateInv, NEW r \in Requests, OnItsWay(r), NEW scope \in Scopes, NEW t \in Nat,
           NEW used, used = Trimmed(scope, ArrivedAt(r)) \cup {r}, IsFiniteSet(used),
           Cardinality(used) <= Limit[scope]
    PROVE  Cardinality(Around(passed[scope] \cup {r}, scope, t)) <= Limit[scope]
<1>1. RateTypeOK /\ Timely /\ PassedAreKept /\ WithinLimit
  BY DEF RateInv
<1>2. /\ nowMs \in Nat /\ WindowMs[scope] \in Nat /\ MaxDelay \in Nat /\ Limit[scope] \in Nat
      /\ ArrivedAt(r) \in Nat /\ \A q \in Requests : ArrivedAt(q) \in Nat
      /\ expires[scope] \in Nat /\ passed[scope] \subseteq Requests
  BY <1>1, RateTypes
<1>3. CASE ArrivedAt(r) <= t
  <2>1. ASSUME NEW q \in Around(passed[scope] \cup {r}, scope, t) PROVE q \in used
    <3>1. CASE q = r
      BY <3>1
    <3>2. CASE q \in passed[scope]
      <4>1. ArrivedAt(q) \in Nat /\ ArrivedAt(q) + WindowMs[scope] > t + MaxDelay
        BY <1>2, <3>2 DEF Around
      <4>2. nowMs <= ArrivedAt(r) + MaxDelay
        BY <1>1 DEF Timely
      <4>3. /\ ArrivedAt(q) + WindowMs[scope] > nowMs
            /\ ArrivedAt(q) + WindowMs[scope] > ArrivedAt(r)
        BY <1>2, <1>3, <4>1, <4>2
      <4>4. q \in window[scope] /\ ArrivedAt(q) + WindowMs[scope] <= expires[scope]
        <5>1. IsKept(q, scope, window[scope], expires[scope])
          BY <1>1, <3>2 DEF PassedAreKept
        <5>2. ~(ArrivedAt(q) + WindowMs[scope] <= nowMs)
          BY <1>2, <4>1, <4>3
        <5>3. QED
          BY <5>1, <5>2 DEF IsKept
      <4>5. nowMs < expires[scope]
        BY <1>2, <4>1, <4>3, <4>4
      <4>6. QED
        BY <4>3, <4>4, <4>5 DEF Trimmed, StoredIn
    <3>3. QED
      BY <3>1, <3>2 DEF Around
  <2>2. PICK A : A = Around(passed[scope] \cup {r}, scope, t)
    OBVIOUS
  <2>3. A \subseteq used
    BY <2>1, <2>2
  <2>4. IsFiniteSet(A) /\ Cardinality(A) <= Cardinality(used)
    BY <2>3, FS_Subset
  <2>5. Cardinality(A) \in Nat /\ Cardinality(used) \in Nat
    BY <2>4, FS_CardinalityType
  <2>6. QED
    BY <1>2, <2>2, <2>4, <2>5
<1>4. CASE ~(ArrivedAt(r) <= t)
  <2>1. Around(passed[scope] \cup {r}, scope, t) = Around(passed[scope], scope, t)
    BY <1>4 DEF Around
  <2>2. QED
    BY <1>1, <2>1 DEF WithinLimit
<1>5. QED
  BY <1>3, <1>4

\* A call of request r on the window of its scope, which leaves `members` in it until
\* `until`, P passed and r on its way to `pos` and `next`.
Calls(r, scope, pos, next, members, until, P) ==
    /\ OnItsWay(r) /\ request[r].scope = scope /\ pos # "new" /\ MoveTo(r, pos, next)
    /\ UNCHANGED nowMs /\ redisErrors' \in Nat
    /\ redisErrors' = 0 => redisErrors = 0
    /\ IsFiniteSet(members) /\ IsFiniteSet(P)
    /\ window' = [window EXCEPT ![scope] = members]
    /\ expires' = [expires EXCEPT ![scope] = until]
    /\ passed' = [passed EXCEPT ![scope] = P]
    /\ \A q \in P : IsKept(q, scope, members, until)
    /\ \A t \in Nat : Cardinality(Around(P, scope, t)) <= Limit[scope]
    /\ P \subseteq passed[scope] \cup {r}

\* Who may still pass has not, and who is in the window without having passed leaves it.
CallsLast(r, scope, pos, next, members, P) ==
    /\ pos \in {"count", "withdraw"} =>
          \A s \in Scopes : next = s \/ s = "ingest" => r \notin passed'[s]
    /\ redisErrors' = 0 =>
          \A q \in members : \/ q \in P
                             \/ q = r /\ pos = "withdraw" /\ next = scope
                             \/ q # r /\ AtStep(q, "withdraw", scope)

\* Every call on Redis keeps the invariant.
LEMMA CallKeeps ==
    ASSUME RateInv, NEW r \in Requests, NEW scope \in Scopes, NEW pos \in Positions,
           NEW next \in Scopes, NEW members \in SUBSET Requests, NEW until \in Nat,
           NEW P \in SUBSET Requests, Calls(r, scope, pos, next, members, until, P),
           CallsLast(r, scope, pos, next, members, P)
    PROVE  RateInv'
<1>0. /\ OnItsWay(r) /\ request[r].scope = scope /\ pos # "new" /\ MoveTo(r, pos, next)
      /\ UNCHANGED nowMs /\ redisErrors' \in Nat /\ IsFiniteSet(members) /\ IsFiniteSet(P)
      /\ window' = [window EXCEPT ![scope] = members]
      /\ expires' = [expires EXCEPT ![scope] = until]
      /\ passed' = [passed EXCEPT ![scope] = P]
      /\ P \subseteq passed[scope] \cup {r}
  BY DEF Calls
<1>1. RateTypeOK /\ Timely /\ PassedOnce /\ PassedAreKept /\ OthersLeave /\ WithinLimit
  BY DEF RateInv
<1>2. /\ request' \in [Requests -> [pos : Positions, scope : Scopes, at : Nat]]
      /\ request'[r].pos = pos /\ request'[r].scope = next
      /\ \A q \in Requests : request'[q].at = request[q].at
      /\ \A q \in Requests : q # r => request'[q] = request[q]
  BY <1>0, <1>1, MoveIs
<1>3. /\ window'[scope] = members /\ expires'[scope] = until /\ passed'[scope] = P
      /\ \A s \in Scopes : s # scope =>
            window'[s] = window[s] /\ expires'[s] = expires[s] /\ passed'[s] = passed[s]
  BY <1>0, <1>1 DEF RateTypeOK
<1>4. RateTypeOK'
  <2>1. /\ window' \in [Scopes -> SUBSET Requests] /\ passed' \in [Scopes -> SUBSET Requests]
        /\ expires' \in [Scopes -> Nat]
    BY <1>0, <1>1 DEF RateTypeOK
  <2>2. \A s \in Scopes : IsFiniteSet(window'[s]) /\ IsFiniteSet(passed'[s])
    BY <1>0, <1>1, <1>3 DEF RateTypeOK
  <2>3. QED
    BY <1>0, <1>1, <1>2, <2>1, <2>2 DEF RateTypeOK
<1>5. Timely'
  <2>1. ASSUME NEW q \in Requests
        PROVE  /\ request'[q].at <= nowMs
               /\ request'[q].pos \in {"count", "withdraw"} => nowMs <= request'[q].at + MaxDelay
    <3>1. request[q].at <= nowMs /\ (OnItsWay(q) => nowMs <= request[q].at + MaxDelay)
      BY <1>1 DEF Timely, ArrivedAt
    <3>2. CASE q = r
      BY <1>0, <1>2, <3>1, <3>2
    <3>3. CASE q # r
      BY <1>2, <3>1, <3>3 DEF OnItsWay
    <3>4. QED
      BY <3>2, <3>3
  <2>2. QED
    BY <1>0, <2>1 DEF Timely, ArrivedAt, OnItsWay
<1>6. PassedOnce'
  <2>1. ASSUME NEW q \in Requests, NEW s \in Scopes, StillAhead(q, s)' PROVE q \notin passed'[s]
    <3>1. CASE q = r
      BY <1>0, <1>2, <2>1, <3>1 DEF StillAhead, OnItsWay, CallsLast
    <3>2. CASE q # r
      <4>1. StillAhead(q, s)
        BY <1>2, <2>1, <3>2 DEF StillAhead, OnItsWay
      <4>2. q \notin passed[s]
        BY <1>1, <4>1 DEF PassedOnce
      <4>3. CASE s = scope
        BY <1>0, <1>3, <3>2, <4>2, <4>3
      <4>4. CASE s # scope
        BY <1>3, <4>2, <4>4
      <4>5. QED
        BY <4>3, <4>4
    <3>3. QED
      BY <3>1, <3>2
  <2>2. QED
    BY <2>1 DEF PassedOnce
<1>7. PassedAreKept'
  <2>1. ASSUME NEW s \in Scopes, NEW q \in passed'[s]
        PROVE  \/ request'[q].at + WindowMs[s] <= nowMs
               \/ q \in window'[s] /\ request'[q].at + WindowMs[s] <= expires'[s]
    <3>1. q \in Requests
      BY <1>4, <2>1 DEF RateTypeOK
    <3>2. CASE s = scope
      BY <1>2, <1>3, <2>1, <3>1, <3>2 DEF IsKept, ArrivedAt, Calls
    <3>3. CASE s # scope
      BY <1>1, <1>2, <1>3, <2>1, <3>1, <3>3 DEF PassedAreKept, IsKept, ArrivedAt
    <3>4. QED
      BY <3>2, <3>3
  <2>2. QED
    BY <1>0, <2>1 DEF PassedAreKept, IsKept, ArrivedAt
<1>8. OthersLeave'
  <2>1. ASSUME redisErrors' = 0, NEW s \in Scopes, NEW q \in window'[s]
        PROVE  q \in passed'[s] \/ (request'[q].pos = "withdraw" /\ request'[q].scope = s)
    <3>1. q \in Requests
      BY <1>4, <2>1 DEF RateTypeOK
    <3>2. CASE s = scope
      BY <1>0, <1>2, <1>3, <2>1, <3>1, <3>2 DEF AtStep, CallsLast
    <3>3. CASE s # scope
      <4>1. q \in passed[s] \/ AtStep(q, "withdraw", s)
        BY <1>1, <1>3, <2>1, <3>3 DEF OthersLeave, Calls
      <4>2. AtStep(q, "withdraw", s) => q # r
        BY <1>0, <3>3 DEF AtStep
      <4>3. QED
        BY <1>2, <1>3, <3>1, <3>3, <4>1, <4>2 DEF AtStep
    <3>4. QED
      BY <3>2, <3>3
  <2>2. QED
    BY <2>1 DEF OthersLeave, AtStep
<1>9. WithinLimit'
  <2>1. ASSUME NEW s \in Scopes, NEW t \in Nat
        PROVE  Cardinality({q \in passed'[s] : request'[q].at <= t /\ request'[q].at + WindowMs[s] > t + MaxDelay})
                  <= Limit[s]
    <3>1. \A q \in passed'[s] : request'[q].at = request[q].at
      BY <1>2, <1>4 DEF RateTypeOK
    <3>2. {q \in passed'[s] : request'[q].at <= t /\ request'[q].at + WindowMs[s] > t + MaxDelay}
            = Around(passed'[s], s, t)
      BY <3>1 DEF Around, ArrivedAt
    <3>3. CASE s = scope
      BY <1>3, <3>2, <3>3 DEF Calls
    <3>4. CASE s # scope
      BY <1>1, <1>3, <3>2, <3>4 DEF WithinLimit
    <3>5. QED
      BY <3>3, <3>4
  <2>2. QED
    BY <2>1 DEF WithinLimit, Around, ArrivedAt
<1>10. QED
  BY <1>4, <1>5, <1>6, <1>7, <1>8, <1>9 DEF RateInv

\* What a call finds in its window.
LEMMA StoredIs ==
    ASSUME RateInv, NEW r \in Requests, OnItsWay(r), NEW scope \in Scopes
    PROVE  /\ IsFiniteSet(Trimmed(scope, ArrivedAt(r)) \cup {r})
           /\ Trimmed(scope, ArrivedAt(r)) \cup {r} \in SUBSET Requests
           /\ Trimmed(scope, ArrivedAt(r)) \cup {r} \subseteq window[scope] \cup {r}
           /\ IsFiniteSet(StoredIn(scope) \ {r})
           /\ StoredIn(scope) \ {r} \in SUBSET Requests
           /\ StoredIn(scope) \ {r} \subseteq window[scope] \ {r}
           /\ passed[scope] \in SUBSET Requests /\ IsFiniteSet(passed[scope])
           /\ IsFiniteSet(passed[scope] \cup {r})
           /\ nowMs + WindowMs[scope] \in Nat /\ expires[scope] \in Nat
<1>1. RateTypeOK
  BY DEF RateInv
<1>2. /\ window[scope] \in SUBSET Requests /\ passed[scope] \in SUBSET Requests
      /\ IsFiniteSet(window[scope]) /\ IsFiniteSet(passed[scope])
  BY <1>1 DEF RateTypeOK
<1>3. PICK used, left : used = Trimmed(scope, ArrivedAt(r)) \cup {r} /\ left = StoredIn(scope) \ {r}
  OBVIOUS
<1>4. /\ used \in SUBSET Requests /\ used \subseteq window[scope] \cup {r}
      /\ left \in SUBSET Requests /\ left \subseteq window[scope] \ {r}
  BY <1>2, <1>3 DEF Trimmed, StoredIn
<1>5. IsFiniteSet(window[scope] \cup {r}) /\ IsFiniteSet(passed[scope] \cup {r})
  BY <1>2, FS_AddElement
<1>6. IsFiniteSet(used) /\ IsFiniteSet(left)
  <2>1. used \subseteq window[scope] \cup {r} /\ left \subseteq window[scope]
    BY <1>4
  <2>2. QED
    BY <1>2, <1>5, <2>1, FS_Subset
<1>7. nowMs + WindowMs[scope] \in Nat /\ expires[scope] \in Nat
  BY <1>1, RateTypes
<1>8. QED
  BY <1>2, <1>3, <1>4, <1>5, <1>6, <1>7

\* What is left when a request is withdrawn: whoever passed and still counts.
LEMMA WithdrawLeaves ==
    ASSUME RateInv, NEW r \in Requests, NEW scope \in Scopes, AtStep(r, "withdraw", scope),
           NEW q \in passed[scope]
    PROVE  IsKept(q, scope, StoredIn(scope) \ {r}, expires[scope])
<1>1. RateTypeOK /\ PassedOnce /\ PassedAreKept
  BY DEF RateInv
<1>2. q # r
  BY <1>1 DEF PassedOnce, StillAhead, AtStep, OnItsWay
<1>3. IsKept(q, scope, window[scope], expires[scope])
  BY <1>1 DEF PassedAreKept
<1>4. /\ nowMs \in Nat /\ WindowMs[scope] \in Nat /\ expires[scope] \in Nat /\ ArrivedAt(q) \in Nat
  BY <1>1, RateTypes
<1>5. CASE ~(ArrivedAt(q) + WindowMs[scope] <= nowMs)
  <2>1. q \in window[scope] /\ ArrivedAt(q) + WindowMs[scope] <= expires[scope]
    BY <1>3, <1>5 DEF IsKept
  <2>2. nowMs < expires[scope]
    BY <1>4, <1>5, <2>1
  <2>3. QED
    BY <1>2, <2>1, <2>2 DEF IsKept, StoredIn
<1>6. CASE ArrivedAt(q) + WindowMs[scope] <= nowMs
  BY <1>6 DEF IsKept
<1>7. QED
  BY <1>5, <1>6

\* The transaction that counts a request.
LEMMA CountStepKeeps ==
    ASSUME RateInv, NEW r \in Requests, NEW scope \in Scopes, count(r, scope)
    PROVE  RateInv'
<1>1. RateTypeOK /\ PassedOnce /\ OthersLeave /\ WithinLimit
  BY DEF RateInv
<1>2. OnItsWay(r) /\ request[r].scope = scope /\ request[r].pos = "count"
  BY DEF count, AtStep, OnItsWay
<1>3. PICK used, P, until :
         /\ used = Trimmed(scope, ArrivedAt(r)) \cup {r}
         /\ P = IF Fits(scope, used) THEN passed[scope] \cup {r} ELSE passed[scope]
         /\ until = nowMs + WindowMs[scope]
  OBVIOUS
<1>4. /\ used \in SUBSET Requests /\ IsFiniteSet(used) /\ used \subseteq window[scope] \cup {r}
      /\ passed[scope] \in SUBSET Requests /\ IsFiniteSet(passed[scope])
      /\ IsFiniteSet(passed[scope] \cup {r}) /\ until \in Nat
  BY <1>2, <1>3, StoredIs, ZenonT(30)
<1>5. /\ used \in SUBSET Requests /\ IsFiniteSet(used) /\ used \subseteq window[scope] \cup {r}
      /\ P \in SUBSET Requests /\ IsFiniteSet(P)
      /\ passed[scope] \subseteq P /\ P \subseteq passed[scope] \cup {r}
  BY <1>3, <1>4
<1>6. /\ window' = [window EXCEPT ![scope] = used] /\ expires' = [expires EXCEPT ![scope] = until]
      /\ passed' = [passed EXCEPT ![scope] = P] /\ UNCHANGED <<nowMs, redisErrors>>
  BY <1>3 DEF count
<1>7. \A q \in P : IsKept(q, scope, used, until)
  BY <1>2, <1>3, <1>5, CountKeeps
<1>8. \A t \in Nat : Cardinality(Around(P, scope, t)) <= Limit[scope]
  <2> SUFFICES ASSUME NEW t \in Nat PROVE Cardinality(Around(P, scope, t)) <= Limit[scope]
    OBVIOUS
  <2>1. CASE Fits(scope, used)
    BY <1>2, <1>3, <1>5, <2>1, CountWithin DEF Fits
  <2>2. CASE ~Fits(scope, used)
    BY <1>1, <1>3, <2>2 DEF WithinLimit
  <2>3. QED
    BY <2>1, <2>2
<1>9. PICK pos \in Positions, next \in Scopes :
         /\ MoveTo(r, pos, next) /\ pos # "new"
         /\ ~Fits(scope, used) => pos = "withdraw" /\ next = scope
         /\ Fits(scope, used) => \/ pos = "count" /\ next = "ingest" /\ scope = "general"
                                 \/ pos = "admitted"
  <2>1. CASE ~Fits(scope, used)
    BY <1>3, <2>1 DEF count, Positions
  <2>2. CASE Fits(scope, used) /\ HasNext(r, scope)
    BY <1>3, <2>2 DEF count, Positions, HasNext, Scopes
  <2>3. CASE Fits(scope, used) /\ ~HasNext(r, scope)
    BY <1>3, <2>3 DEF count, Positions
  <2>4. QED
    BY <2>1, <2>2, <2>3
<1>10. pos \in {"count", "withdraw"} =>
          \A s \in Scopes : next = s \/ s = "ingest" => r \notin passed'[s]
  <2> SUFFICES ASSUME pos \in {"count", "withdraw"}, NEW s \in Scopes, next = s \/ s = "ingest"
               PROVE  r \notin passed'[s]
    OBVIOUS
  <2>1. \A x \in Scopes : x = scope \/ x = "ingest" => r \notin passed[x]
    BY <1>1, <1>2 DEF PassedOnce, StillAhead
  <2>2. CASE ~Fits(scope, used)
    <3>1. passed' = passed
      BY <1>1, <1>3, <1>6, <2>2 DEF RateTypeOK
    <3>2. QED
      BY <1>9, <2>1, <2>2, <3>1
  <2>3. CASE Fits(scope, used)
    <3>1. s = "ingest" /\ scope = "general"
      BY <1>9, <2>3
    <3>2. passed'[s] = passed[s]
      BY <1>1, <1>6, <3>1 DEF RateTypeOK
    <3>3. QED
      BY <2>1, <3>1, <3>2
  <2>4. QED
    BY <2>2, <2>3
<1>11. redisErrors' = 0 =>
          \A q \in used : \/ q \in P
                          \/ q = r /\ pos = "withdraw" /\ next = scope
                          \/ q # r /\ AtStep(q, "withdraw", scope)
  <2> SUFFICES ASSUME redisErrors' = 0, NEW q \in used
               PROVE  \/ q \in P
                      \/ q = r /\ pos = "withdraw" /\ next = scope
                      \/ q # r /\ AtStep(q, "withdraw", scope)
    OBVIOUS
  <2>1. CASE q = r
    BY <1>3, <1>9, <2>1
  <2>2. CASE q # r
    BY <1>1, <1>5, <1>6, <2>2 DEF OthersLeave
  <2>3. QED
    BY <2>1, <2>2
<1>12. redisErrors' \in Nat /\ (redisErrors' = 0 => redisErrors = 0) /\ UNCHANGED nowMs
  BY <1>1, <1>6 DEF RateTypeOK
<1>13. Calls(r, scope, pos, next, used, until, P)
  BY <1>2, <1>5, <1>6, <1>7, <1>8, <1>9, <1>12 DEF Calls
<1>14. CallsLast(r, scope, pos, next, used, P)
  BY <1>10, <1>11 DEF CallsLast
<1>15. QED
  BY <1>4, <1>5, <1>9, <1>13, <1>14, CallKeeps

\* Refused, and withdrawn from the window.
LEMMA WithdrawStepKeeps ==
    ASSUME RateInv, NEW r \in Requests, NEW scope \in Scopes, withdraw(r, scope)
    PROVE  RateInv'
<1>1. RateTypeOK /\ OthersLeave /\ WithinLimit
  BY DEF RateInv
<1>2. AtStep(r, "withdraw", scope) /\ OnItsWay(r) /\ request[r].scope = scope
  BY DEF withdraw, AtStep, OnItsWay
<1>3. PICK left, until, P :
         left = StoredIn(scope) \ {r} /\ until = expires[scope] /\ P = passed[scope]
  OBVIOUS
<1>4. /\ left \in SUBSET Requests /\ IsFiniteSet(left) /\ left \subseteq window[scope] \ {r}
      /\ P \in SUBSET Requests /\ IsFiniteSet(P) /\ until \in Nat
  BY <1>2, <1>3, StoredIs, ZenonT(30)
<1>5. /\ window' = [window EXCEPT ![scope] = left] /\ expires' = [expires EXCEPT ![scope] = until]
      /\ passed' = [passed EXCEPT ![scope] = P] /\ UNCHANGED <<nowMs, redisErrors>>
      /\ MoveTo(r, "refused", scope)
  BY <1>1, <1>3 DEF withdraw, Without, RateTypeOK
<1>6. \A q \in P : IsKept(q, scope, left, until)
  BY <1>2, <1>3, WithdrawLeaves
<1>7. \A t \in Nat : Cardinality(Around(P, scope, t)) <= Limit[scope]
  BY <1>1, <1>3 DEF WithinLimit
<1>8. redisErrors' = 0 => \A q \in left : q \in P \/ (q # r /\ AtStep(q, "withdraw", scope))
  BY <1>1, <1>3, <1>4, <1>5 DEF OthersLeave
<1>9. redisErrors' \in Nat /\ (redisErrors' = 0 => redisErrors = 0)
  BY <1>1, <1>5 DEF RateTypeOK
<1>10. Calls(r, scope, "refused", scope, left, until, P)
  BY <1>2, <1>3, <1>4, <1>5, <1>6, <1>7, <1>9 DEF Calls
<1>11. CallsLast(r, scope, "refused", scope, left, P)
  BY <1>8 DEF CallsLast
<1>12. "refused" \in Positions
  BY DEF Positions
<1>13. QED
  BY <1>4, <1>10, <1>11, <1>12, CallKeeps

\* Admitted on a Redis error, whatever Redis did before it.
LEMMA FailOpenKeeps ==
    ASSUME RateInv, NEW r \in Requests, NEW scope \in Scopes, FailOpen(r, scope)
    PROVE  RateInv'
<1>1. RateTypeOK /\ PassedAreKept /\ WithinLimit
  BY DEF RateInv
<1>2. OnItsWay(r) /\ request[r].scope = scope /\ MoveTo(r, "admitted", scope) /\ UNCHANGED nowMs
  BY DEF FailOpen
<1>3. redisErrors' = redisErrors + 1 /\ redisErrors \in Nat
  BY <1>1 DEF FailOpen, RateTypeOK
<1>4. PICK P : P = passed[scope]
  OBVIOUS
<1>5. P \in SUBSET Requests /\ IsFiniteSet(P) /\ passed' = [passed EXCEPT ![scope] = P]
  BY <1>1, <1>4 DEF FailOpen, RateTypeOK
<1>6. \A t \in Nat : Cardinality(Around(P, scope, t)) <= Limit[scope]
  BY <1>1, <1>4 DEF WithinLimit
<1>7. PICK members \in SUBSET Requests, until \in Nat :
         /\ IsFiniteSet(members)
         /\ window' = [window EXCEPT ![scope] = members]
         /\ expires' = [expires EXCEPT ![scope] = until]
         /\ \A q \in P : IsKept(q, scope, members, until)
  <2>1. CASE UNCHANGED <<window, expires>>
    <3>1. /\ window[scope] \in SUBSET Requests /\ IsFiniteSet(window[scope]) /\ expires[scope] \in Nat
          /\ window' = [window EXCEPT ![scope] = window[scope]]
          /\ expires' = [expires EXCEPT ![scope] = expires[scope]]
      BY <1>1, <2>1 DEF RateTypeOK
    <3>2. \A q \in P : IsKept(q, scope, window[scope], expires[scope])
      BY <1>1, <1>4 DEF PassedAreKept
    <3>3. QED
      BY <3>1, <3>2
  <2>2. CASE /\ window' = [window EXCEPT ![scope] = Trimmed(scope, ArrivedAt(r)) \cup {r}]
             /\ expires' = [expires EXCEPT ![scope] = nowMs + WindowMs[scope]]
    <3>1. PICK used, until :
             used = Trimmed(scope, ArrivedAt(r)) \cup {r} /\ until = nowMs + WindowMs[scope]
      OBVIOUS
    <3>2. used \in SUBSET Requests /\ IsFiniteSet(used) /\ until \in Nat
      BY <1>2, <3>1, StoredIs, ZenonT(30)
    <3>3. \A q \in P : IsKept(q, scope, used, until)
      BY <1>2, <1>4, <3>1, CountKeeps
    <3>4. QED
      BY <2>2, <3>1, <3>2, <3>3
  <2>3. CASE /\ AtStep(r, "withdraw", scope)
             /\ window' = [window EXCEPT ![scope] = Without(scope, r)] /\ UNCHANGED expires
    <3>1. PICK left, until : left = StoredIn(scope) \ {r} /\ until = expires[scope]
      OBVIOUS
    <3>2. left \in SUBSET Requests /\ IsFiniteSet(left) /\ until \in Nat
      BY <1>2, <3>1, StoredIs, ZenonT(30)
    <3>3. \A q \in P : IsKept(q, scope, left, until)
      BY <1>4, <2>3, <3>1, WithdrawLeaves
    <3>4. /\ window' = [window EXCEPT ![scope] = left]
          /\ expires' = [expires EXCEPT ![scope] = until]
      BY <1>1, <2>3, <3>1 DEF Without, RateTypeOK
    <3>5. QED
      BY <3>2, <3>3, <3>4
  <2>4. QED
    BY <2>1, <2>2, <2>3 DEF FailOpen
<1>8. redisErrors' \in Nat /\ redisErrors' # 0
  BY <1>3
<1>9. Calls(r, scope, "admitted", scope, members, until, P)
  BY <1>2, <1>4, <1>5, <1>6, <1>7, <1>8 DEF Calls
<1>10. CallsLast(r, scope, "admitted", scope, members, P)
  BY <1>8 DEF CallsLast
<1>11. "admitted" \in Positions
  BY DEF Positions
<1>12. QED
  BY <1>5, <1>7, <1>9, <1>10, <1>11, CallKeeps

\* A request arrives, scored by its arrival.
LEMMA ArriveKeeps ==
    ASSUME RateInv, NEW r \in Requests, Arrive(r)
    PROVE  RateInv'
<1>1. RateTypeOK /\ Timely /\ PassedOnce /\ PassedAreKept /\ OthersLeave /\ WithinLimit
  BY DEF RateInv
<1>2. /\ request[r].pos = "new" /\ UNCHANGED <<nowMs, window, expires, redisErrors, passed>>
      /\ nowMs \in Nat /\ MaxDelay \in Nat
  BY <1>1, RateLimitAssumption DEF Arrive, RateTypeOK, RateLimitAssumption
<1>3. /\ request' \in [Requests -> [pos : Positions, scope : Scopes, at : Nat]]
      /\ request'[r].pos = "count" /\ request'[r].at = nowMs
      /\ \A q \in Requests : q # r => request'[q] = request[q]
  BY <1>1, <1>2 DEF Arrive, RateTypeOK, Positions
<1>4. \A s \in Scopes : r \notin passed[s]
  BY <1>1, <1>2 DEF PassedOnce, StillAhead
<1>5. RateTypeOK'
  BY <1>1, <1>2, <1>3 DEF RateTypeOK
<1>6. Timely'
  <2>1. ASSUME NEW q \in Requests
        PROVE  /\ request'[q].at <= nowMs
               /\ request'[q].pos \in {"count", "withdraw"} => nowMs <= request'[q].at + MaxDelay
    <3>1. CASE q = r
      BY <1>2, <1>3, <3>1
    <3>2. CASE q # r
      BY <1>1, <1>3, <3>2 DEF Timely, ArrivedAt, OnItsWay
    <3>3. QED
      BY <3>1, <3>2
  <2>2. QED
    BY <1>2, <2>1 DEF Timely, ArrivedAt, OnItsWay
<1>7. PassedOnce'
  <2>1. ASSUME NEW q \in Requests, NEW s \in Scopes, StillAhead(q, s)' PROVE q \notin passed[s]
    <3>1. CASE q = r
      BY <1>4, <3>1
    <3>2. CASE q # r
      BY <1>1, <1>3, <2>1, <3>2 DEF PassedOnce, StillAhead, OnItsWay
    <3>3. QED
      BY <3>1, <3>2
  <2>2. QED
    BY <1>2, <2>1 DEF PassedOnce
<1>8. \A s \in Scopes, q \in Requests : q \in passed[s] => request'[q] = request[q]
  BY <1>3, <1>4
<1>9. PassedAreKept'
  <2>1. ASSUME NEW s \in Scopes, NEW q \in passed[s]
        PROVE  \/ request'[q].at + WindowMs[s] <= nowMs
               \/ q \in window[s] /\ request'[q].at + WindowMs[s] <= expires[s]
    <3>1. q \in Requests
      BY <1>1, <2>1 DEF RateTypeOK
    <3>2. QED
      BY <1>1, <1>8, <2>1, <3>1 DEF PassedAreKept, IsKept, ArrivedAt
  <2>2. QED
    BY <1>2, <2>1 DEF PassedAreKept, IsKept, ArrivedAt
<1>10. OthersLeave'
  <2>1. ASSUME redisErrors = 0, NEW s \in Scopes, NEW q \in window[s]
        PROVE  q \in passed[s] \/ (request'[q].pos = "withdraw" /\ request'[q].scope = s)
    <3>1. q \in Requests
      BY <1>1, <2>1 DEF RateTypeOK
    <3>2. q \in passed[s] \/ (request[q].pos = "withdraw" /\ request[q].scope = s)
      BY <1>1, <2>1 DEF OthersLeave, AtStep
    <3>3. CASE q = r
      BY <1>2, <3>2, <3>3
    <3>4. CASE q # r
      BY <1>3, <3>1, <3>2, <3>4
    <3>5. QED
      BY <3>3, <3>4
  <2>2. QED
    BY <1>2, <2>1 DEF OthersLeave, AtStep
<1>11. WithinLimit'
  <2>1. ASSUME NEW s \in Scopes, NEW t \in Nat
        PROVE  Cardinality({q \in passed[s] : request'[q].at <= t /\ request'[q].at + WindowMs[s] > t + MaxDelay})
                  <= Limit[s]
    <3>1. \A q \in passed[s] : request'[q] = request[q]
      BY <1>1, <1>8 DEF RateTypeOK
    <3>2. {q \in passed[s] : request'[q].at <= t /\ request'[q].at + WindowMs[s] > t + MaxDelay}
            = Around(passed[s], s, t)
      BY <3>1 DEF Around, ArrivedAt
    <3>3. QED
      BY <1>1, <3>2 DEF WithinLimit
  <2>2. QED
    BY <1>2, <2>1 DEF WithinLimit, Around, ArrivedAt
<1>12. QED
  BY <1>5, <1>6, <1>7, <1>9, <1>10, <1>11 DEF RateInv

\* A tick of the clock.
LEMMA PassTimeKeeps == RateInv /\ PassTime => RateInv'
<1> SUFFICES ASSUME RateInv, PassTime PROVE RateInv'
  OBVIOUS
<1>1. RateTypeOK /\ Timely /\ PassedOnce /\ PassedAreKept /\ OthersLeave /\ WithinLimit
  BY DEF RateInv
<1>2. /\ UNCHANGED <<window, expires, request, redisErrors, passed>> /\ nowMs' = nowMs + 1
      /\ nowMs \in Nat /\ MaxDelay \in Nat /\ \A q \in Requests : request[q].at \in Nat
  BY <1>1, RateLimitAssumption DEF PassTime, RateTypeOK, RateLimitAssumption
<1>3. RateTypeOK'
  BY <1>1, <1>2 DEF RateTypeOK
<1>4. Timely'
  <2>1. ASSUME NEW q \in Requests
        PROVE  request[q].at <= nowMs + 1 /\ (OnItsWay(q) => nowMs + 1 <= request[q].at + MaxDelay)
    <3>1. request[q].at <= nowMs
      BY <1>1 DEF Timely, ArrivedAt
    <3>2. OnItsWay(q) => nowMs < request[q].at + MaxDelay
      BY DEF PassTime, ArrivedAt
    <3>3. QED
      BY <1>2, <3>1, <3>2
  <2>2. QED
    BY <1>2, <2>1 DEF Timely, ArrivedAt, OnItsWay
<1>5. PassedOnce'
  BY <1>1, <1>2 DEF PassedOnce, StillAhead, OnItsWay
<1>6. PassedAreKept'
  <2>1. ASSUME NEW s \in Scopes, NEW q \in passed[s]
        PROVE  \/ request[q].at + WindowMs[s] <= nowMs + 1
               \/ q \in window[s] /\ request[q].at + WindowMs[s] <= expires[s]
    <3>1. request[q].at \in Nat /\ WindowMs[s] \in Nat
      BY <1>1, <2>1, RateTypes DEF ArrivedAt
    <3>2. \/ request[q].at + WindowMs[s] <= nowMs
          \/ q \in window[s] /\ request[q].at + WindowMs[s] <= expires[s]
      BY <1>1, <2>1 DEF PassedAreKept, IsKept, ArrivedAt
    <3>3. QED
      BY <1>2, <3>1, <3>2
  <2>2. QED
    BY <1>2, <2>1 DEF PassedAreKept, IsKept, ArrivedAt
<1>7. OthersLeave'
  BY <1>1, <1>2 DEF OthersLeave, AtStep
<1>8. WithinLimit'
  BY <1>1, <1>2 DEF WithinLimit, Around, ArrivedAt
<1>9. QED
  BY <1>3, <1>4, <1>5, <1>6, <1>7, <1>8 DEF RateInv

\* Unless Redis failed, whoever a ceiling let through is at the next one or
\* was admitted.
WentThrough ==
    redisErrors = 0 => \A r \in Requests :
        /\ request[r].pos = "new" => request[r].scope = "general"
        /\ request[r].scope = "ingest" => r \in Uploads
        /\ request[r].pos = "admitted" => (request[r].scope = "ingest" <=> r \in Uploads)
        /\ r \in passed["general"] <=> request[r].pos = "admitted" \/ request[r].scope = "ingest"
        /\ r \in passed["ingest"] <=> request[r].pos = "admitted" /\ request[r].scope = "ingest"

\* Every step says where the request went.
LEMMA ThroughKeeps == RateTypeOK /\ WentThrough /\ [RateLimitNext]_rateVars => WentThrough'
<1> SUFFICES ASSUME RateTypeOK, WentThrough, [RateLimitNext]_rateVars PROVE WentThrough'
  OBVIOUS
<1>1. request \in [Requests -> [pos : Positions, scope : Scopes, at : Nat]] /\ redisErrors \in Nat
      /\ passed \in [Scopes -> SUBSET Requests]
  BY DEF RateTypeOK
<1>2. CASE PassTime \/ UNCHANGED rateVars
  BY <1>2 DEF PassTime, rateVars, WentThrough
<1>3. ASSUME NEW r \in Requests, Arrive(r) PROVE WentThrough'
  BY <1>1, <1>3 DEF Arrive, WentThrough
<1>4. ASSUME NEW r \in Requests, NEW scope \in Scopes, count(r, scope) PROVE WentThrough'
  <2>1. PICK fits \in BOOLEAN :
          /\ AtStep(r, "count", scope) /\ redisErrors' = redisErrors
          /\ passed' = [passed EXCEPT ![scope] = IF fits THEN @ \cup {r} ELSE @]
          /\ IF ~fits THEN MoveTo(r, "withdraw", scope)
             ELSE IF HasNext(r, scope) THEN MoveTo(r, "count", "ingest")
             ELSE MoveTo(r, "admitted", scope)
    BY <1>4 DEF count, Fits
  <2>2. CASE ~fits
    BY <1>1, <2>1, <2>2 DEF WentThrough, AtStep, MoveTo, Scopes
  <2>3. CASE fits /\ HasNext(r, scope)
    BY <1>1, <2>1, <2>3 DEF WentThrough, AtStep, MoveTo, HasNext, Scopes
  <2>4. CASE fits /\ ~HasNext(r, scope)
    BY <1>1, <2>1, <2>4 DEF WentThrough, AtStep, MoveTo, HasNext, Scopes
  <2>5. QED
    BY <2>2, <2>3, <2>4
<1>5. ASSUME NEW r \in Requests, NEW scope \in Scopes, withdraw(r, scope) PROVE WentThrough'
  BY <1>1, <1>5 DEF withdraw, WentThrough, AtStep, MoveTo
<1>6. ASSUME NEW r \in Requests, NEW scope \in Scopes, FailOpen(r, scope) PROVE WentThrough'
  BY <1>1, <1>6 DEF FailOpen, WentThrough
<1>7. QED
  BY <1>2, <1>3, <1>4, <1>5, <1>6 DEF RateLimitNext

\* What the window keeps is the limit's promise, and its fairness.
LEMMA KeptIsTheLimit == RateInv /\ WentThrough => LimitIsKept
<1> SUFFICES ASSUME RateInv, WentThrough PROVE LimitIsKept
  OBVIOUS
<1>1. RateTypeOK /\ PassedAreKept /\ OthersLeave /\ WithinLimit
  BY DEF RateInv
<1>2. NeverOverLimit
  <2>1. ASSUME NEW scope \in Scopes, NEW t \in 0 .. MaxTime
        PROVE  Cardinality({r \in passed[scope] :
                  ArrivedAt(r) <= t /\ ArrivedAt(r) + WindowMs[scope] > t + MaxDelay}) <= Limit[scope]
    <3>1. t \in Nat
      BY RateLimitAssumption DEF RateLimitAssumption
    <3>2. QED
      BY <1>1, <3>1 DEF WithinLimit, Around
  <2>2. QED
    BY <2>1 DEF NeverOverLimit
<1>3. AtRestOnlyTheThrough
  <2>1. ASSUME redisErrors = 0, \A r \in Requests : ~OnItsWay(r), NEW scope \in Scopes, NEW r,
               ArrivedAt(r) + WindowMs[scope] > nowMs
        PROVE  r \in StoredIn(scope) <=> r \in Requests /\ Through(r, scope)
    <3>1. /\ nowMs \in Nat /\ WindowMs[scope] \in Nat /\ expires[scope] \in Nat
          /\ window[scope] \subseteq Requests /\ passed[scope] \subseteq Requests
          /\ \A q \in Requests : ArrivedAt(q) \in Nat
      BY <1>1, RateTypes
    <3>2. ASSUME r \in StoredIn(scope) PROVE r \in passed[scope]
      <4>1. r \in window[scope]
        BY <3>2 DEF StoredIn
      <4>2. ~AtStep(r, "withdraw", scope)
        BY <2>1, <3>1, <4>1 DEF AtStep, OnItsWay
      <4>3. QED
        BY <1>1, <2>1, <4>1, <4>2 DEF OthersLeave
    <3>3. ASSUME r \in passed[scope] PROVE r \in StoredIn(scope)
      <4>1. IsKept(r, scope, window[scope], expires[scope]) /\ ArrivedAt(r) \in Nat
        BY <1>1, <3>1, <3>3 DEF PassedAreKept
      <4>2. ~(ArrivedAt(r) + WindowMs[scope] <= nowMs)
        BY <2>1, <3>1, <4>1
      <4>3. r \in window[scope] /\ ArrivedAt(r) + WindowMs[scope] <= expires[scope]
        BY <4>1, <4>2 DEF IsKept
      <4>4. nowMs < expires[scope]
        BY <2>1, <3>1, <4>1, <4>3
      <4>5. QED
        BY <4>3, <4>4 DEF StoredIn
    <3>4. ASSUME r \in Requests PROVE r \in passed[scope] <=> Through(r, scope)
      <4>1. request[r].pos \in Positions /\ request[r].scope \in Scopes
        BY <1>1, <3>4 DEF RateTypeOK
      <4>2. ~OnItsWay(r)
        BY <2>1, <3>4
      <4>3. request[r].pos = "new" => request[r].scope = "general"
        BY <2>1, <3>4 DEF WentThrough
      <4>4. QED
        BY <2>1, <3>4, <4>1, <4>2, <4>3
           DEF WentThrough, Through, AtStep, OnItsWay, Positions, Scopes
    <3>5. QED
      BY <3>1, <3>2, <3>3, <3>4
  <2>2. QED
    BY <2>1 DEF AtRestOnlyTheThrough
<1>4. QED
  BY <1>2, <1>3 DEF LimitIsKept

(* The invariant of api/ratelimit.py in every behaviour, for any number of  *)
(* requests and any limits.                                                 *)
THEOREM RateLimitInvariant == RateLimitSpec => [](RateInv /\ WentThrough)
<1>1. RateInv /\ [RateLimitNext]_rateVars => RateInv'
  <2> SUFFICES ASSUME RateInv, [RateLimitNext]_rateVars PROVE RateInv'
    OBVIOUS
  <2>1. CASE PassTime
    BY <2>1, PassTimeKeeps
  <2>2. ASSUME NEW r \in Requests, Arrive(r) PROVE RateInv'
    BY <2>2, ArriveKeeps
  <2>3. ASSUME NEW r \in Requests, NEW scope \in Scopes, count(r, scope) PROVE RateInv'
    BY <2>3, CountStepKeeps
  <2>4. ASSUME NEW r \in Requests, NEW scope \in Scopes, withdraw(r, scope) PROVE RateInv'
    BY <2>4, WithdrawStepKeeps
  <2>5. ASSUME NEW r \in Requests, NEW scope \in Scopes, FailOpen(r, scope) PROVE RateInv'
    BY <2>5, FailOpenKeeps
  <2>6. CASE UNCHANGED rateVars
    BY <2>6 DEF rateVars, RateInv, RateTypeOK, Timely, PassedOnce, StillAhead, PassedAreKept,
                IsKept, OthersLeave, AtStep, OnItsWay, ArrivedAt, WithinLimit, Around
  <2>7. QED
    BY <2>1, <2>2, <2>3, <2>4, <2>5, <2>6 DEF RateLimitNext
<1>2. RateLimitInit => WentThrough
  BY DEF RateLimitInit, WentThrough, Scopes
<1>3. RateInv => RateTypeOK
  BY DEF RateInv
<1>4. QED
  BY <1>1, <1>2, <1>3, InitRate, ThroughKeeps, PTL DEF RateLimitSpec

(* However requests, their calls on Redis and its failures interleave, no   *)
(* ceiling of api/ratelimit.py lets more than its limit pass in a window,   *)
(* and at rest a window counts the admitted requests and, in the general    *)
(* one, the uploads their own ceiling refused.                              *)
THEOREM LimitIsKeptHolds == RateLimitSpec => []LimitIsKept
BY RateLimitInvariant, KeptIsTheLimit, PTL

-----------------------------------------------------------------------------
(***************************************************************************)
(* The read API.  A position in an order is how many come before it.       *)
(***************************************************************************)
Before(S, R, x) == {y \in S : <<y, x>> \in R}
IsTotalOrder(S, R) ==
    /\ \A x \in S : <<x, x>> \notin R
    /\ \A x, y, z \in S : <<x, y>> \in R /\ <<y, z>> \in R => <<x, z>> \in R
    /\ \A x, y \in S : x = y \/ <<x, y>> \in R \/ <<y, x>> \in R

\* There are n numbers from 1 to n, and from 0 to n - 1.
LEMMA CountTo ==
    ASSUME NEW n \in Nat
    PROVE  /\ IsFiniteSet(1..n) /\ Cardinality(1..n) = n
           /\ IsFiniteSet(0..n - 1) /\ Cardinality(0..n - 1) = n
<1>1. PICK m \in Int : m = n - 1
  OBVIOUS
<1>2. n \in Int /\ 1 \in Int /\ 0 \in Int
  OBVIOUS
<1>3. /\ IsFiniteSet(1..n) /\ Cardinality(1..n) = IF 1 > n THEN 0 ELSE n - 1 + 1
      /\ IsFiniteSet(0..m) /\ Cardinality(0..m) = IF 0 > m THEN 0 ELSE m - 0 + 1
  BY <1>2, FS_Interval
<1>4. QED
  BY <1>1, <1>3

\* In a finite order every position below the number of elements is taken by
\* one element, and who comes first has the lower position.
LEMMA RankOfOrder ==
    ASSUME NEW S, IsFiniteSet(S), NEW R, IsTotalOrder(S, R)
    PROVE  /\ \A x \in S : Cardinality(Before(S, R, x)) \in 0..Cardinality(S) - 1
           /\ \A x, y \in S : <<x, y>> \in R
                 => Cardinality(Before(S, R, x)) < Cardinality(Before(S, R, y))
           /\ \A x, y \in S : Cardinality(Before(S, R, x)) = Cardinality(Before(S, R, y)) => x = y
           /\ \A i \in 0..Cardinality(S) - 1 : \E x \in S : Cardinality(Before(S, R, x)) = i
<1>1. PICK n \in Nat : n = Cardinality(S)
  BY FS_CardinalityType
<1>2. \A x \in S : IsFiniteSet(Before(S, R, x)) /\ Cardinality(Before(S, R, x)) \in Nat
  <2>1. TAKE x \in S
  <2>2. Before(S, R, x) \in SUBSET S
    BY DEF Before
  <2>3. QED
    BY <2>2, FS_Subset, FS_CardinalityType
<1>3. \A x \in S : Cardinality(Before(S, R, x)) \in 0..n - 1
  <2>1. TAKE x \in S
  <2>2. Before(S, R, x) \in SUBSET S /\ x \notin Before(S, R, x)
    BY DEF Before, IsTotalOrder
  <2>3. Cardinality(Before(S, R, x)) <= n /\ Cardinality(Before(S, R, x)) # n
    BY <1>1, <2>2, FS_Subset
  <2>4. QED
    BY <1>1, <1>2, <2>3
<1>4. ASSUME NEW x \in S, NEW y \in S, <<x, y>> \in R
      PROVE  Cardinality(Before(S, R, x)) < Cardinality(Before(S, R, y))
  <2>1. Before(S, R, x) \in SUBSET Before(S, R, y) /\ x \in Before(S, R, y) /\ x \notin Before(S, R, x)
    BY <1>4 DEF Before, IsTotalOrder
  <2>2. /\ Cardinality(Before(S, R, x)) <= Cardinality(Before(S, R, y))
        /\ Cardinality(Before(S, R, x)) # Cardinality(Before(S, R, y))
    BY <1>2, <2>1, FS_Subset
  <2>3. QED
    BY <1>2, <2>2
<1>5. ASSUME NEW x \in S, NEW y \in S, Cardinality(Before(S, R, x)) = Cardinality(Before(S, R, y))
      PROVE  x = y
  <2>1. <<x, y>> \notin R /\ <<y, x>> \notin R
    BY <1>2, <1>4, <1>5
  <2>2. QED
    BY <2>1 DEF IsTotalOrder
<1>6. PICK rank : rank = [x \in S |-> Cardinality(Before(S, R, x))]
  OBVIOUS
<1>7. rank \in Injection(S, 0..n - 1)
  BY <1>3, <1>5, <1>6 DEF Injection, IsInjective
<1>8. IsFiniteSet(0..n - 1) /\ Cardinality(0..n - 1) = n
  BY CountTo
<1>9. rank \in Surjection(S, 0..n - 1)
  BY <1>1, <1>7, <1>8, FS_Injection
<1>10. \A i \in 0..n - 1 : \E x \in S : Cardinality(Before(S, R, x)) = i
  BY <1>6, <1>9 DEF Surjection
<1>11. QED
  BY <1>1, <1>3, <1>4, <1>5, <1>10

Vector == [host : HistoryHosts, ts : Nat, body : Nat, upload : Nat]
ForecastRow == [host : HistoryHosts, ts : Nat, context : Seq(Vector)]
KeySpace == [host : Nat, ts : Nat]
Pager ==
    [order : {"asc", "desc"}, until : Stops, offset : Nat, seen : SUBSET KeySpace,
     since : SUBSET KeySpace, total : Nat, step : {"count", "select", "done"}]

QueryTypes ==
    /\ axis \in [HistoryHosts -> Nat]
    /\ observed \in Seq(Vector) /\ published \in 0..Len(observed) /\ pushed \in 0..published
    /\ vectorRows \in SUBSET Vector /\ IsFiniteSet(vectorRows)
    /\ buffer \in [HistoryHosts -> Seq(Vector)]
    /\ forecasts \in Seq(ForecastRow) /\ stored \in 0..Len(forecasts)
    /\ forecastRows \in SUBSET ForecastRow /\ IsFiniteSet(forecastRows)
    /\ upsets \in [lapses : Nat, uploads : Nat]
    /\ pager \in Pager \union {NoPager}

\* The primary key of both tables.
OneRow(table) == \A r, q \in table : r.host = q.host /\ r.ts = q.ts => r = q

\* An earlier vector of the host and window of the k-th.
SeenBefore(k) ==
    \E j \in 1..Len(observed) :
        j < k /\ observed[j].host = observed[k].host /\ observed[j].ts = observed[k].ts

\* The first vector of a host and window is its row.
RowsInv ==
    /\ OneRow(vectorRows) /\ OneRow(forecastRows)
    /\ \A v \in vectorRows :
          v.body \in 1..Len(observed) /\ observed[v.body] = v /\ ~SeenBefore(v.body)
    /\ \A i \in 1..Len(observed) : \E v \in vectorRows :
          v.host = observed[i].host /\ v.ts = observed[i].ts /\ v.body <= i

\* Within an upload the windows of a host go forward.
OrderInv ==
    /\ \A i \in 1..Len(observed) :
          /\ observed[i].body = i /\ observed[i].upload <= upsets.uploads
          /\ observed[i].upload = upsets.uploads => observed[i].ts <= axis[observed[i].host]
    /\ \A i, j \in 1..Len(observed) :
          i < j /\ observed[i].host = observed[j].host /\ observed[i].upload = observed[j].upload
             => observed[i].ts < observed[j].ts

\* The vectors of a host, up to number n, from the first of the sequence on; apart
\* from those that came when their window was there already.
FromLog(seq, h, n) ==
    /\ \A i \in 1..Len(seq) :
          seq[i].host = h /\ seq[i].body \in 1..n /\ observed[seq[i].body] = seq[i]
    /\ \A i, j \in 1..Len(seq) : i < j => seq[i].body < seq[j].body
    /\ \A k \in 1..n : observed[k].host = h /\ seq[1].body <= k
          => SeenBefore(k) \/ \E i \in 1..Len(seq) : seq[i].body = k

\* The context a forecast was made from.
MadeFrom(row) ==
    /\ Len(row.context) = ContextL
    /\ row.context[ContextL].body \in 1..Len(observed)
    /\ FromLog(row.context, row.host, row.context[ContextL].body)
    /\ row.context[ContextL].ts = row.ts

ContextInv ==
    /\ \A h \in HistoryHosts :
          /\ buffer[h] # <<>> => FromLog(buffer[h], h, pushed)
          /\ Len(buffer[h]) <= ContextL
    /\ \A i \in 1..Len(forecasts) : MadeFrom(forecasts[i])
    /\ \A row \in forecastRows : MadeFrom(row)

Rank(order, k) == Cardinality({q \in Keys : Precedes(order, q, k)})

\* What the client has not seen lies ahead of it.
PagerInv ==
    pager # NoPager =>
        /\ pager.since \subseteq Keys /\ pager.total <= Cardinality(Keys)
        /\ pager.step # "done" =>
              \A k \in pager.since : k \in pager.seen \/ pager.offset <= Rank(pager.order, k)
        /\ PagingSkipsNothing

QueryInv == QueryTypes /\ RowsInv /\ OrderInv /\ ContextInv /\ PagerInv

\* The rows of a host from the first of the sequence to its last, in order.
Consecutive(table, seq, h) ==
    /\ \A i \in 1..Len(seq) : seq[i] \in table /\ seq[i].host = h
    /\ \A i, j \in 1..Len(seq) : i < j => seq[i].ts < seq[j].ts
    /\ \A v \in table : v.host = h /\ seq[1].ts <= v.ts /\ v.ts <= seq[Len(seq)].ts
          => \E i \in 1..Len(seq) : seq[i] = v

-----------------------------------------------------------------------------
\* The newest rows of a host are the context, and are read in their order.
LEMMA ContextIsRead ==
    ASSUME NEW h \in HistoryHosts, NEW seq \in Seq(Vector),
           QueryTypes, OneRow(vectorRows), Consecutive(vectorRows, seq, h), Len(seq) = ContextL
    PROVE  load_context(h, seq[ContextL].ts) = seq
<1>1. PICK L \in Nat : L = ContextL /\ L > 0
  BY QueriesAssumption DEF QueriesAssumption
<1>2. /\ DOMAIN seq = 1..L /\ \A i \in 1..L : seq[i] \in Vector /\ seq[i].ts \in Nat
      /\ vectorRows \in SUBSET Vector /\ \A v \in vectorRows : v.ts \in Nat
  <2>1. DOMAIN seq = 1..L /\ \A i \in 1..L : seq[i] \in Vector
    BY <1>1
  <2>2. vectorRows \in SUBSET Vector
    BY DEF QueryTypes
  <2>3. \A v \in Vector : v.ts \in Nat
    BY DEF Vector
  <2>4. QED
    BY <2>1, <2>2, <2>3
<1>3. /\ \A i \in 1..L : seq[i] \in vectorRows /\ seq[i].host = h
      /\ \A i, j \in 1..L : i < j => seq[i].ts < seq[j].ts
      /\ \A v \in vectorRows : v.host = h /\ seq[1].ts <= v.ts /\ v.ts <= seq[L].ts
            => \E i \in 1..L : seq[i] = v
  BY <1>1 DEF Consecutive
<1>4. PICK t \in Nat : t = seq[L].ts
  BY <1>1, <1>2
<1>5. PICK C : C = {seq[i] : i \in 1..L}
  OBVIOUS
<1>6. \A n \in 0..L : /\ IsFiniteSet({seq[i] : i \in 1..n})
                     /\ Cardinality({seq[i] : i \in 1..n}) = n
  <2>1. TAKE n \in 0..L
  <2>2. PICK P : P = {seq[i] : i \in 1..n}
    OBVIOUS
  <2>3. PICK f : f = [i \in 1..n |-> seq[i]]
    OBVIOUS
  <2>4. ASSUME NEW i \in 1..n, NEW j \in 1..n, f[i] = f[j] PROVE i = j
    <3>1. i \in 1..L /\ j \in 1..L /\ seq[i] = seq[j]
      BY <2>3, <2>4
    <3>2. seq[i].ts \in Nat /\ ~(seq[i].ts < seq[j].ts) /\ ~(seq[j].ts < seq[i].ts)
      BY <1>2, <3>1
    <3>3. ~(i < j) /\ ~(j < i)
      BY <1>3, <3>1, <3>2
    <3>4. QED
      BY <3>1, <3>3
  <2>5. f \in Bijection(1..n, P)
    BY <2>2, <2>3, <2>4 DEF Bijection, Injection, Surjection, IsInjective
  <2>6. IsFiniteSet(1..n) /\ Cardinality(1..n) = n
    BY CountTo
  <2>7. IsFiniteSet(P) /\ Cardinality(P) = n
    BY <2>5, <2>6, FS_Bijection DEF ExistsBijection
  <2>8. QED
    BY <2>2, <2>7
<1>7. IsFiniteSet(C) /\ Cardinality(C) = L
  <2>1. L \in 0..L
    BY <1>1
  <2>2. QED
    BY <1>5, <1>6, <2>1
<1>8. PICK rows : rows = {r \in vectorRows : r.host = h /\ r.ts <= t}
  OBVIOUS
<1>9. IsFiniteSet(rows) /\ C \subseteq rows
  <2>1. rows \in SUBSET vectorRows /\ IsFiniteSet(vectorRows)
    BY <1>8 DEF QueryTypes
  <2>2. \A i \in 1..L : seq[i].ts <= t
    BY <1>2, <1>3, <1>4
  <2>3. QED
    BY <1>3, <1>5, <1>8, <2>1, <2>2, FS_Subset
<1>10. \A r \in rows : r \in C <=> Cardinality({s \in rows : s.ts > r.ts}) < L
  <2>1. TAKE r \in rows
  <2>2. PICK later : later = {s \in rows : s.ts > r.ts}
    OBVIOUS
  <2>3. CASE r.ts >= seq[1].ts
    <3>1. \A s \in rows : s.ts >= seq[1].ts => s \in C
      BY <1>3, <1>4, <1>5, <1>8
    <3>2. r \in C /\ r \notin later /\ later \in SUBSET C
      BY <1>1, <1>2, <1>8, <2>2, <2>3, <3>1
    <3>3. Cardinality(later) <= L /\ Cardinality(later) # L /\ IsFiniteSet(later)
      BY <1>7, <3>2, FS_Subset
    <3>4. QED
      BY <1>1, <2>2, <3>2, <3>3, FS_CardinalityType
  <2>4. CASE r.ts < seq[1].ts
    <3>1. \A i \in 1..L : seq[1].ts <= seq[i].ts
      BY <1>1, <1>2, <1>3
    <3>2. r \notin C
      BY <1>1, <1>2, <1>5, <1>8, <2>4, <3>1
    <3>3. C \in SUBSET later /\ later \in SUBSET rows
      BY <1>1, <1>2, <1>5, <1>8, <1>9, <2>2, <2>4, <3>1
    <3>4. IsFiniteSet(later) /\ L <= Cardinality(later)
      BY <1>7, <1>9, <3>3, FS_Subset
    <3>5. QED
      BY <1>1, <2>2, <3>2, <3>4, FS_CardinalityType
  <2>5. QED
    BY <1>1, <1>2, <1>8, <2>3, <2>4
<1>11. SELECT_CONTEXT(h, t) = C
  BY <1>1, <1>8, <1>9, <1>10 DEF SELECT_CONTEXT
<1>12. \A i \in 1..L : Cardinality({r \in C : r.ts < seq[i].ts}) = i - 1
  <2>1. TAKE i \in 1..L
  <2>2. PICK n \in 0..L : n = i - 1
    BY <1>1
  <2>3. \A j \in 1..L : seq[j].ts < seq[i].ts <=> j \in 1..n
    BY <1>2, <1>3, <2>2
  <2>4. {r \in C : r.ts < seq[i].ts} = {seq[j] : j \in 1..n}
    BY <1>1, <1>5, <2>2, <2>3
  <2>5. QED
    BY <1>6, <2>2, <2>4
<1>13. \A i \in 1..L : (CHOOSE row \in C : Cardinality({r \in C : r.ts < row.ts}) = i - 1) = seq[i]
  <2>1. TAKE i \in 1..L
  <2>2. \A row \in C : Cardinality({r \in C : r.ts < row.ts}) = i - 1 => row = seq[i]
    <3>1. TAKE row \in C
    <3>2. PICK j \in 1..L : row = seq[j]
      BY <1>5
    <3>3. Cardinality({r \in C : r.ts < row.ts}) = j - 1
      BY <1>12, <3>2
    <3>4. QED
      BY <3>2, <3>3
  <2>3. seq[i] \in C /\ Cardinality({r \in C : r.ts < seq[i].ts}) = i - 1
    BY <1>5, <1>12
  <2>4. QED
    BY <2>2, <2>3
<1>14. load_context(h, t) = [i \in 1..L |->
            CHOOSE row \in C : Cardinality({r \in C : r.ts < row.ts}) = i - 1]
  BY <1>7, <1>11 DEF load_context, OldestFirst
<1>15. load_context(h, t) = [i \in 1..L |-> seq[i]]
  BY <1>13, <1>14
<1>16. seq = [i \in 1..L |-> seq[i]]
  BY <1>2
<1>17. QED
  BY <1>1, <1>4, <1>15, <1>16

\* A forecast that is found is the one of its host and window.
LEMMA ForecastIsFound ==
    ASSUME OneRow(forecastRows), NEW row \in forecastRows
    PROVE  get_forecast(row.host, row.ts) = row
BY DEF get_forecast, OneRow

\* Vectors of one upload that were taken one after the other are the rows
\* between the first and the last of them.
LEMMA OneUploadIsConsecutive ==
    ASSUME QueryInv, NEW h \in HistoryHosts, NEW seq \in Seq(Vector), Len(seq) = ContextL,
           FromLog(seq, h, seq[ContextL].body), seq[ContextL].body \in 1..Len(observed),
           OfOneUpload(seq, h)
    PROVE  Consecutive(vectorRows, seq, h)
<1>1. PICK L \in Nat : L = ContextL /\ L > 0
  BY QueriesAssumption DEF QueriesAssumption
<1>2. PICK N \in Nat : N = Len(observed)
  BY DEF QueryInv, QueryTypes
<1>3. PICK u : u = seq[L].upload
  OBVIOUS
<1>13. /\ \A v \in Vector : v.ts \in Nat /\ v.body \in Nat
       /\ vectorRows \in SUBSET Vector
       /\ \A i \in 1..L : seq[i].ts \in Nat /\ seq[i].body \in Nat
  <2>1. \A i \in 1..L : seq[i] \in Vector
    BY <1>1
  <2>2. \A v \in Vector : v.ts \in Nat /\ v.body \in Nat
    BY DEF Vector
  <2>3. vectorRows \in SUBSET Vector
    BY DEF QueryInv, QueryTypes
  <2>4. QED
    BY <2>1, <2>2, <2>3
<1>4. /\ \A i \in 1..L : /\ seq[i].host = h /\ seq[i].upload = u /\ observed[seq[i].body] = seq[i]
                          /\ seq[i].body \in 1..seq[L].body /\ seq[i].body \in 1..N
      /\ \A i, j \in 1..L : i < j => seq[i].body < seq[j].body
      /\ \A k \in 1..seq[L].body : observed[k].host = h /\ seq[1].body <= k
            => SeenBefore(k) \/ \E i \in 1..L : seq[i].body = k
  BY <1>1, <1>2, <1>3 DEF FromLog, OfOneUpload
<1>5. \A v \in vectorRows : v.host = h /\ seq[1].ts <= v.ts /\ v.ts <= seq[L].ts => v.upload = u
  BY <1>1, <1>3 DEF OfOneUpload
<1>6. \A v \in vectorRows : v.body \in 1..N /\ observed[v.body] = v /\ ~SeenBefore(v.body)
  BY <1>2 DEF QueryInv, RowsInv
<1>7. \A i, j \in 1..N : i < j /\ observed[i].host = observed[j].host
                             /\ observed[i].upload = observed[j].upload
                        => observed[i].ts < observed[j].ts
  BY <1>2 DEF QueryInv, OrderInv
<1>8. \A i, j \in 1..L : i < j => seq[i].ts < seq[j].ts
  <2>1. TAKE i, j \in 1..L
  <2>2. PICK a, b \in 1..N : a = seq[i].body /\ b = seq[j].body
    BY <1>4
  <2>3. observed[a] = seq[i] /\ observed[b] = seq[j]
    BY <1>4, <2>2
  <2>4. i < j => a < b
    BY <1>4, <2>2
  <2>5. seq[i].host = h /\ seq[j].host = h /\ seq[i].upload = u /\ seq[j].upload = u
    BY <1>4
  <2>6. QED
    BY <1>7, <2>2, <2>3, <2>4, <2>5
<1>9. \A i \in 1..L : seq[1].ts <= seq[i].ts /\ seq[i].ts <= seq[L].ts
  BY <1>1, <1>13, <1>8
<1>10. ASSUME NEW i \in 1..L PROVE seq[i] \in vectorRows
  <2>7. PICK n \in 1..N : n = seq[i].body /\ observed[n] = seq[i]
    BY <1>4
  <2>8. PICK v \in vectorRows : v.host = observed[n].host /\ v.ts = observed[n].ts /\ v.body <= n
    BY <1>2 DEF QueryInv, RowsInv
  <2>1. v.host = h /\ v.ts = seq[i].ts /\ v.body <= seq[i].body
    BY <1>4, <2>7, <2>8
  <2>2. v.upload = u
    BY <1>5, <1>9, <2>1
  <2>3. v.body \in Nat /\ seq[i].body \in Nat /\ v.ts \in Nat
    BY <1>13
  <2>9. v.body \in 1..N /\ observed[v.body] = v
    BY <1>6
  <2>4. ~(v.body < seq[i].body)
    <3>1. SUFFICES ASSUME v.body < n PROVE FALSE
      BY <2>7
    <3>2. observed[n].host = v.host /\ observed[n].upload = v.upload
      BY <1>4, <2>1, <2>2, <2>7
    <3>3. observed[v.body].ts < observed[n].ts
      BY <1>7, <2>9, <3>1, <3>2
    <3>4. QED
      BY <2>1, <2>3, <2>7, <2>9, <3>3
  <2>5. v.body = seq[i].body
    BY <2>1, <2>3, <2>4
  <2>6. QED
    BY <2>5, <2>7, <2>9
<1>11. ASSUME NEW v \in vectorRows, v.host = h, seq[1].ts <= v.ts, v.ts <= seq[L].ts
       PROVE  \E i \in 1..L : seq[i] = v
  <2>1. v.upload = u /\ v.body \in 1..N /\ observed[v.body] = v /\ ~SeenBefore(v.body)
    BY <1>5, <1>6, <1>11
  <2>2. 1 \in 1..L /\ L \in 1..L
    BY <1>1
  <2>3. v.ts \in Nat /\ seq[1].ts \in Nat /\ seq[L].ts \in Nat
    BY <1>13, <2>2
  <2>8. PICK a, b, c \in 1..N : a = seq[1].body /\ b = seq[L].body /\ c = v.body
    BY <1>4, <2>1, <2>2
  <2>9. observed[a] = seq[1] /\ observed[b] = seq[L] /\ observed[c] = v
    BY <1>4, <2>1, <2>2, <2>8
  <2>10. /\ seq[1].host = h /\ seq[L].host = h
         /\ seq[1].upload = u /\ seq[L].upload = u
    BY <1>4, <2>2
  <2>11. ~(c < a)
    <3>1. SUFFICES ASSUME c < a PROVE FALSE
      OBVIOUS
    <3>2. observed[c].host = observed[a].host /\ observed[c].upload = observed[a].upload
      BY <1>11, <2>1, <2>9, <2>10
    <3>3. observed[c].ts < observed[a].ts
      BY <1>7, <3>1, <3>2
    <3>4. QED
      BY <1>11, <2>3, <2>9, <3>3
  <2>12. ~(b < c)
    <3>1. SUFFICES ASSUME b < c PROVE FALSE
      OBVIOUS
    <3>2. observed[c].host = observed[b].host /\ observed[c].upload = observed[b].upload
      BY <1>11, <2>1, <2>9, <2>10
    <3>3. observed[b].ts < observed[c].ts
      BY <1>7, <3>1, <3>2
    <3>4. QED
      BY <1>11, <2>3, <2>9, <3>3
  <2>4. ~(v.body < seq[1].body) /\ ~(seq[L].body < v.body)
    BY <2>8, <2>11, <2>12
  <2>5. seq[1].body <= v.body /\ v.body \in 1..seq[L].body
    BY <2>8, <2>4
  <2>6. PICK i \in 1..L : seq[i].body = v.body
    BY <1>4, <1>11, <2>1, <2>5
  <2>7. QED
    BY <1>4, <2>1, <2>6
<1>12. QED
  BY <1>1, <1>4, <1>8, <1>10, <1>11 DEF Consecutive

\* What is explained is the context, when the windows are of one upload.
LEMMA ContextsExplain ==
    ASSUME QueryInv
    PROVE  ExplainsTheForecast
<1>1. SUFFICES ASSUME NEW row \in forecastRows, OfOneUpload(row.context, row.host)
               PROVE  observed_context(row.host, row.ts) = row.context
  BY DEF ExplainsTheForecast
<1>2. PICK h \in HistoryHosts, seq \in Seq(Vector), t \in Nat :
         h = row.host /\ seq = row.context /\ t = row.ts
  BY DEF QueryInv, QueryTypes, ForecastRow
<1>3. /\ Len(seq) = ContextL /\ seq[ContextL].body \in 1..Len(observed)
      /\ FromLog(seq, h, seq[ContextL].body) /\ seq[ContextL].ts = t
  BY <1>2 DEF QueryInv, ContextInv, MadeFrom
<1>4. Consecutive(vectorRows, seq, h)
  BY <1>1, <1>2, <1>3, OneUploadIsConsecutive
<1>5. load_context(h, t) = seq
  BY <1>3, <1>4, ContextIsRead DEF QueryInv, RowsInv
<1>6. ContextL \in Nat \ {0}
  BY QueriesAssumption DEF QueriesAssumption
<1>7. seq # <<>>
  BY <1>3, <1>6, EmptySeq
<1>8. observed_context(h, t) = seq
  BY <1>3, <1>5, <1>7 DEF observed_context
<1>9. QED
  BY <1>2, <1>8

\* A window whose vector is stored is the last of what is read up to it.
LEMMA StoredIsRead ==
    ASSUME QueryInv, NEW v \in vectorRows
    PROVE  observed_context(v.host, v.ts) # NotFound
<1>1. PICK h \in HistoryHosts, t \in Nat : h = v.host /\ t = v.ts
  BY DEF QueryInv, QueryTypes, Vector
<1>2. PICK L \in Nat : L = ContextL /\ L > 0
  BY QueriesAssumption DEF QueriesAssumption
<1>3. /\ vectorRows \in SUBSET Vector /\ IsFiniteSet(vectorRows) /\ \A r \in Vector : r.ts \in Nat
      /\ OneRow(vectorRows)
  BY DEF QueryInv, QueryTypes, RowsInv, Vector
<1>4. PICK C : C = SELECT_CONTEXT(h, t)
  OBVIOUS
<1>5. PICK rows : rows = {r \in vectorRows : r.host = h /\ r.ts <= t}
  OBVIOUS
<1>6. C = {r \in rows : Cardinality({s \in rows : s.ts > r.ts}) < L}
  BY <1>2, <1>4, <1>5 DEF SELECT_CONTEXT
<1>7. v \in C
  <2>1. v \in rows /\ \A s \in rows : ~(s.ts > v.ts)
    BY <1>1, <1>3, <1>5
  <2>2. {s \in rows : s.ts > v.ts} = {}
    BY <2>1
  <2>3. QED
    BY <1>2, <1>6, <2>1, <2>2, FS_EmptySet
<1>8. C \in SUBSET Vector /\ IsFiniteSet(C) /\ \A r \in C : r.host = h /\ r.ts <= t
  <2>1. C \in SUBSET vectorRows
    BY <1>5, <1>6
  <2>2. QED
    BY <1>3, <1>5, <1>6, <2>1, FS_Subset
<1>9. PICK R : R = {p \in C \X C : p[1].ts < p[2].ts}
  OBVIOUS
<1>10. \A x, y \in C : <<x, y>> \in R <=> x.ts < y.ts
  BY <1>9
<1>11. IsTotalOrder(C, R)
  <2>1. \A x \in C : x.ts \in Nat /\ x \in vectorRows
    BY <1>3, <1>5, <1>6, <1>8
  <2>2. \A x, y \in C : x = y \/ x.ts < y.ts \/ y.ts < x.ts
    BY <1>3, <1>8, <2>1 DEF OneRow
  <2>3. QED
    BY <1>10, <2>1, <2>2 DEF IsTotalOrder
<1>12. \A x \in C : Before(C, R, x) = {r \in C : r.ts < x.ts}
  BY <1>10 DEF Before
<1>13. PICK n \in Nat : n = Cardinality(C) /\ n > 0
  BY <1>7, <1>8, FS_CardinalityType, FS_EmptySet
<1>14. \A x \in C : Cardinality({r \in C : r.ts < x.ts}) = n - 1 <=> x = v
  <2>1. \A x \in C : x = v \/ <<x, v>> \in R
    <3>1. TAKE x \in C
    <3>2. x \in vectorRows /\ x.host = h /\ x.ts <= t /\ x.ts \in Nat
      BY <1>3, <1>5, <1>6, <1>8
    <3>3. x.ts = t => x = v
      BY <1>1, <1>3, <3>2 DEF OneRow
    <3>4. QED
      BY <1>1, <1>7, <1>10, <3>2, <3>3
  <2>2. PICK w \in C : Cardinality(Before(C, R, w)) = n - 1
    BY <1>8, <1>11, <1>13, RankOfOrder
  <2>3. <<w, v>> \in R => Cardinality(Before(C, R, w)) < Cardinality(Before(C, R, v))
    BY <1>7, <1>8, <1>11, RankOfOrder
  <2>4. Cardinality(Before(C, R, v)) \in 0..n - 1
    BY <1>7, <1>8, <1>11, <1>13, RankOfOrder
  <2>5. w = v
    BY <1>13, <2>1, <2>2, <2>3, <2>4
  <2>6. \A x \in C : Cardinality(Before(C, R, x)) = Cardinality(Before(C, R, v)) => x = v
    BY <1>7, <1>8, <1>11, RankOfOrder
  <2>7. QED
    BY <1>12, <2>2, <2>5, <2>6
<1>15. PICK q : q = load_context(h, t)
  OBVIOUS
<1>16. q = [i \in 1..n |-> CHOOSE row \in C : Cardinality({r \in C : r.ts < row.ts}) = i - 1]
  BY <1>4, <1>13, <1>15 DEF load_context, OldestFirst
<1>17. \A i \in 1..n : q[i] \in C
  <2>1. TAKE i \in 1..n
  <2>2. i - 1 \in 0..n - 1
    BY <1>13
  <2>3. \E x \in C : Cardinality(Before(C, R, x)) = i - 1
    BY <1>8, <1>11, <1>13, <2>2, RankOfOrder
  <2>4. \E x \in C : Cardinality({r \in C : r.ts < x.ts}) = i - 1
    BY <1>12, <2>3
  <2>5. QED
    BY <1>16, <2>4
<1>18. q[n] = v
  <2>1. n \in 1..n
    BY <1>13
  <2>2. (CHOOSE row \in C : Cardinality({r \in C : r.ts < row.ts}) = n - 1) = v
    BY <1>7, <1>14
  <2>3. QED
    BY <1>16, <2>1, <2>2
<1>19. q \in Seq(Vector) /\ Len(q) = n
  <2>1. q \in [1..n -> Vector]
    BY <1>8, <1>16, <1>17
  <2>2. QED
    BY <1>13, <2>1
<1>20. q # <<>>
  BY <1>13, <1>19, EmptySeq
<1>21. observed_context(h, t) = q
  BY <1>1, <1>15, <1>18, <1>19, <1>20 DEF observed_context
<1>22. QED
  BY <1>1, <1>20, <1>21 DEF NotFound

\* Of the forecasts of a host one is the last.
LEMMA LastForecast ==
    ASSUME QueryInv, NEW row \in forecastRows
    PROVE  \E last \in _select_hosts : last.host = row.host
<1>1. PICK S : S = {q \in forecastRows : q.host = row.host}
  OBVIOUS
<1>2. /\ IsFiniteSet(S) /\ row \in S
      /\ \A q \in S : q.ts \in Nat /\ q \in forecastRows /\ q.host = row.host
  <2>1. S \in SUBSET forecastRows /\ IsFiniteSet(forecastRows) /\ forecastRows \in SUBSET ForecastRow
    BY <1>1 DEF QueryInv, QueryTypes
  <2>2. \A q \in ForecastRow : q.ts \in Nat
    BY DEF ForecastRow
  <2>3. QED
    BY <1>1, <2>1, <2>2, FS_Subset
<1>3. PICK R : R = {p \in S \X S : p[1].ts > p[2].ts}
  OBVIOUS
<1>4. \A x, y \in S : <<x, y>> \in R <=> x.ts > y.ts
  BY <1>3
<1>5. IsTotalOrder(S, R)
  <2>1. \A x, y \in S : x = y \/ x.ts > y.ts \/ y.ts > x.ts
    BY <1>2 DEF QueryInv, RowsInv, OneRow
  <2>2. QED
    BY <1>2, <1>4, <2>1 DEF IsTotalOrder
<1>6. PICK n \in Nat : n = Cardinality(S) /\ n > 0
  BY <1>2, FS_CardinalityType, FS_EmptySet
<1>7. PICK last \in S : Cardinality(Before(S, R, last)) = 0
  <2>1. 0 \in 0..Cardinality(S) - 1
    BY <1>6
  <2>2. QED
    BY <1>2, <1>5, <2>1, RankOfOrder
<1>8. Before(S, R, last) = {}
  <2>1. Before(S, R, last) \in SUBSET S
    BY DEF Before
  <2>2. QED
    BY <1>2, <1>7, <2>1, FS_Subset, FS_EmptySet
<1>9. \A q \in S : ~(q.ts > last.ts)
  BY <1>4, <1>8 DEF Before
<1>10. \A q \in forecastRows : q.host = last.host => q.ts <= last.ts
  BY <1>1, <1>2, <1>9
<1>11. QED
  BY <1>2, <1>10 DEF _select_hosts

\* Every forecast is found and has its vector; a host is listed once.
LEMMA ListsAreFound ==
    ASSUME QueryInv
    PROVE  ListedForecastsAreFound
<1>1. ASSUME NEW row \in forecastRows
      PROVE  /\ get_forecast(row.host, row.ts) = row
             /\ observed_context(row.host, row.ts) # NotFound
  <2>1. PICK L \in Nat : L = ContextL /\ L > 0
    BY QueriesAssumption DEF QueriesAssumption
  <2>2. /\ Len(row.context) = L /\ row.context[L].body \in 1..Len(observed)
        /\ FromLog(row.context, row.host, row.context[L].body) /\ row.context[L].ts = row.ts
    BY <2>1 DEF QueryInv, ContextInv, MadeFrom
  <2>3. row.context[L].host = row.host /\ observed[row.context[L].body] = row.context[L]
    BY <2>1, <2>2 DEF FromLog
  <2>4. PICK v \in vectorRows : v.host = row.host /\ v.ts = row.ts
    BY <2>2, <2>3 DEF QueryInv, RowsInv
  <2>5. observed_context(v.host, v.ts) # NotFound
    BY StoredIsRead
  <2>6. QED
    BY <2>4, <2>5, ForecastIsFound DEF QueryInv, RowsInv
<1>2. \A last, q \in _select_hosts : last.host = q.host => last = q
  <2>1. TAKE last, q \in _select_hosts
  <2>2. HAVE last.host = q.host
  <2>3. last \in forecastRows /\ q \in forecastRows /\ last.ts <= q.ts /\ q.ts <= last.ts
    BY <2>2 DEF _select_hosts
  <2>4. last.ts \in Nat /\ q.ts \in Nat
    BY <2>3 DEF QueryInv, QueryTypes, ForecastRow
  <2>5. QED
    BY <2>2, <2>3, <2>4 DEF QueryInv, RowsInv, OneRow
<1>3. \A row \in forecastRows : \E last \in _select_hosts :
         last.host = row.host /\ \A q \in _select_hosts : q.host = row.host => q = last
  BY <1>2, LastForecast
<1>4. QED
  BY <1>1, <1>3 DEF ListedForecastsAreFound

-----------------------------------------------------------------------------
\* The keys of a table are no more than its rows.
LEMMA KeysOfRows ==
    ASSUME NEW rows \in SUBSET ForecastRow, IsFiniteSet(rows)
    PROVE  /\ IsFiniteSet({Key(row) : row \in rows})
           /\ {Key(row) : row \in rows} \in SUBSET KeySpace
<1>1. PICK K : K = {Key(row) : row \in rows}
  OBVIOUS
<1>2. PICK f : f = [row \in rows |-> Key(row)]
  OBVIOUS
<1>3. f \in Surjection(rows, K)
  BY <1>1, <1>2 DEF Surjection
<1>4. IsFiniteSet(K)
  BY <1>3, FS_Surjection
<1>5. \A row \in rows : row.host \in Nat /\ row.ts \in Nat
  BY QueriesAssumption DEF QueriesAssumption, ForecastRow
<1>6. QED
  BY <1>1, <1>4, <1>5 DEF Key, KeySpace

\* The keys of the table of forecasts.
LEMMA KeysAreFinite ==
    ASSUME QueryTypes
    PROVE  IsFiniteSet(Keys) /\ Keys \in SUBSET KeySpace
BY KeysOfRows DEF QueryTypes, Keys

\* The order of a page is total.
LEMMA KeysAreOrdered ==
    ASSUME QueryTypes, NEW order \in {"asc", "desc"}
    PROVE  \E R : IsTotalOrder(Keys, R) /\ \A k \in Keys : Cardinality(Before(Keys, R, k)) = Rank(order, k)
<1>1. PICK R : R = {p \in Keys \X Keys : Precedes(order, p[1], p[2])}
  OBVIOUS
<1>2. \A x, y \in Keys : <<x, y>> \in R <=> Precedes(order, x, y)
  BY <1>1
<1>3. \A x, y \in KeySpace : x.host = y.host /\ x.ts = y.ts => x = y
  BY DEF KeySpace
<1>4. \A x \in Keys : x \in KeySpace /\ x.host \in Nat /\ x.ts \in Nat
  BY KeysAreFinite DEF KeySpace
<1>5. \A x \in Keys : ~Precedes(order, x, x)
  BY <1>4 DEF Precedes
<1>6. \A x, y, z \in Keys : Precedes(order, x, y) /\ Precedes(order, y, z) => Precedes(order, x, z)
  BY <1>4 DEF Precedes
<1>7. \A x, y \in Keys : x = y \/ Precedes(order, x, y) \/ Precedes(order, y, x)
  BY <1>3, <1>4 DEF Precedes
<1>8. IsTotalOrder(Keys, R)
  BY <1>2, <1>5, <1>6, <1>7 DEF IsTotalOrder
<1>9. \A k \in Keys : Cardinality(Before(Keys, R, k)) = Rank(order, k)
  BY <1>2 DEF Before, Rank
<1>10. QED
  BY <1>8, <1>9

\* Every rank below the number of keys is that of one key.
LEMMA RanksAreTaken ==
    ASSUME QueryTypes, NEW order \in {"asc", "desc"}
    PROVE  /\ \A k \in Keys : Rank(order, k) \in 0..Cardinality(Keys) - 1
           /\ \A i \in 0..Cardinality(Keys) - 1 : \E k \in Keys : Rank(order, k) = i
<1>1. PICK R : IsTotalOrder(Keys, R) /\ \A k \in Keys : Cardinality(Before(Keys, R, k)) = Rank(order, k)
  BY KeysAreOrdered
<1>2. QED
  BY <1>1, KeysAreFinite, RankOfOrder

\* No two keys have one rank.
LEMMA RanksDiffer ==
    ASSUME QueryTypes, NEW order \in {"asc", "desc"}, NEW x \in Keys, NEW y \in Keys,
           Rank(order, x) = Rank(order, y)
    PROVE  x = y
<1>1. PICK R : IsTotalOrder(Keys, R) /\ \A k \in Keys : Cardinality(Before(Keys, R, k)) = Rank(order, k)
  BY KeysAreOrdered
<1>2. QED
  BY <1>1, KeysAreFinite, RankOfOrder

\* A rank is a number.
LEMMA RanksAreNumbers ==
    ASSUME QueryTypes, NEW order \in {"asc", "desc"}
    PROVE  \A k \in Keys : Rank(order, k) \in Nat
<1>1. PICK n \in Nat : n = Cardinality(Keys)
  BY KeysAreFinite, FS_CardinalityType
<1>2. \A k \in Keys : Rank(order, k) \in 0..n - 1
  BY <1>1, RanksAreTaken
<1>3. QED
  BY <1>2

\* A page that is not full is the last one.
LEMMA ShortPageIsLast ==
    ASSUME QueryTypes, NEW order \in {"asc", "desc"}, NEW offset \in Nat,
           Cardinality(PageAt(order, offset)) < PageLimit
    PROVE  \A k \in Keys : Rank(order, k) < offset + PageLimit
<1>1. PICK L \in Nat : L = PageLimit
  BY QueriesAssumption DEF QueriesAssumption
<1>2. SUFFICES ASSUME NEW k \in Keys, Rank(order, k) >= offset + L PROVE FALSE
  BY <1>1, RanksAreNumbers
<1>3. PICK n \in Nat : n = Cardinality(Keys)
  BY KeysAreFinite, FS_CardinalityType
<1>4. Rank(order, k) \in 0..n - 1
  BY <1>3, RanksAreTaken
<1>5. PICK P : P = PageAt(order, offset)
  OBVIOUS
<1>6. P \in SUBSET Keys /\ \A q \in Keys : q \in P <=> offset <= Rank(order, q) /\ Rank(order, q) < offset + L
  BY <1>1, <1>5 DEF PageAt, Rank
<1>7. IsFiniteSet(P) /\ Cardinality(P) \in Nat
  BY <1>6, KeysAreFinite, FS_Subset, FS_CardinalityType
<1>8. PICK f : f = [i \in 1..L |-> CHOOSE q \in Keys : Rank(order, q) = offset + i - 1]
  OBVIOUS
<1>9. \A i \in 1..L : f[i] \in Keys /\ Rank(order, f[i]) = offset + i - 1
  <2>1. TAKE i \in 1..L
  <2>2. offset + i - 1 \in 0..n - 1
    BY <1>2, <1>4
  <2>3. \E q \in Keys : Rank(order, q) = offset + i - 1
    BY <1>3, <2>2, RanksAreTaken
  <2>4. QED
    BY <1>8, <2>3
<1>10. f \in Injection(1..L, P)
  <2>1. \A i \in 1..L : f[i] \in P
    BY <1>6, <1>9
  <2>2. ASSUME NEW i \in 1..L, NEW j \in 1..L, f[i] = f[j] PROVE i = j
    <3>1. offset + i - 1 = offset + j - 1
      BY <1>9, <2>2
    <3>2. QED
      BY <3>1
  <2>3. QED
    BY <1>8, <2>1, <2>2 DEF Injection, IsInjective
<1>11. L <= Cardinality(P)
  BY <1>7, <1>10, CountTo, FS_Injection
<1>12. QED
  BY <1>1, <1>5, <1>7, <1>11

\* A key does not come closer to the front when others are added.
LEMMA RanksGrow ==
    ASSUME QueryTypes, QueryTypes', Keys \subseteq Keys', NEW order \in {"asc", "desc"}, NEW k
    PROVE  /\ Rank(order, k) \in Nat /\ Rank(order, k)' \in Nat
           /\ Rank(order, k) <= Rank(order, k)'
<1>1. PICK A, B : A = {q \in Keys : Precedes(order, q, k)} /\ B = {q \in Keys' : Precedes(order, q, k)}
  OBVIOUS
<1>2. IsFiniteSet(Keys')
  BY KeysOfRows DEF QueryTypes, Keys
<1>3. B \in SUBSET Keys' /\ A \in SUBSET B
  BY <1>1
<1>4. IsFiniteSet(B) /\ IsFiniteSet(A) /\ Cardinality(A) <= Cardinality(B)
  BY <1>2, <1>3, FS_Subset
<1>5. Cardinality(A) \in Nat /\ Cardinality(B) \in Nat
  BY <1>4, FS_CardinalityType
<1>6. QED
  BY <1>1, <1>4, <1>5 DEF Rank, Precedes

-----------------------------------------------------------------------------
\* The sequence with one more, and perhaps without its first.
ListExtends(q, seq, vector) ==
    \E d \in {0, 1} :
        /\ Len(q) = Len(seq) + 1 - d
        /\ d = 1 => Len(seq) > 0
        /\ q[Len(q)] = vector
        /\ \A i \in 1..Len(q) - 1 : i + d \in 1..Len(seq) /\ q[i] = seq[i + d]

\* A list without its first row, or with all of them, and with one more.
LEMMA PushedRows ==
    ASSUME NEW seq \in Seq(Vector), NEW vector \in Vector, Len(seq) <= ContextL,
           NEW q, q = LastOf(Append(seq, vector), ContextL)
    PROVE  /\ q \in Seq(Vector) /\ Len(q) \in 1..ContextL
           /\ ListExtends(q, seq, vector)
<1>1. PICK L \in Nat : L = ContextL /\ L > 0
  BY QueriesAssumption DEF QueriesAssumption
<1>2. PICK n, a : n = Len(seq) /\ a = Append(seq, vector)
  OBVIOUS
<1>3. /\ a \in Seq(Vector) /\ Len(a) = n + 1 /\ a[n + 1] = vector /\ n \in Nat /\ n <= L
      /\ \A i \in 1..n : a[i] = seq[i]
  BY <1>1, <1>2
<1>4. PICK lo : lo = IF n + 1 > L THEN n + 1 - L + 1 ELSE 1
  OBVIOUS
<1>5. PICK d \in {0, 1} : lo = d + 1 /\ (d = 1 <=> n + 1 > L)
  BY <1>1, <1>3, <1>4
<1>6. /\ q \in Seq(Vector) /\ Len(q) = n + 1 - d
      /\ \A i \in 1..n + 1 - d : q[i] = a[i + d]
  <2>1. PICK hi \in Int : hi = n + 1
    BY <1>3
  <2>2. q = SubSeq(a, lo, hi) /\ lo \in Int
    <3>1. lo \in Int /\ Len(a) = hi
      BY <1>3, <1>5, <2>1
    <3>2. lo = IF Len(a) > ContextL THEN Len(a) - ContextL + 1 ELSE 1
      BY <1>1, <1>3, <1>4
    <3>3. QED
      BY <1>2, <3>1, <3>2 DEF LastOf
  <2>3. \A i \in lo..hi : a[i] \in Vector
    BY <1>3, <1>5, <2>1
  <2>4. /\ SubSeq(a, lo, hi) \in Seq(Vector)
        /\ \A i \in 1..hi - lo + 1 : SubSeq(a, lo, hi)[i] = a[lo + i - 1]
    BY <2>2, <2>3, SubSeqProperties
  <2>5. hi - lo + 1 = n + 1 - d /\ lo <= hi /\ \A i \in 1..n + 1 - d : lo + i - 1 = i + d
    BY <1>1, <1>3, <1>5, <2>1
  <2>6. Len(SubSeq(a, lo, hi)) = hi - lo + 1
    BY <1>3, <1>5, <2>1, <2>2, <2>5
  <2>7. QED
    BY <2>2, <2>4, <2>5, <2>6
<1>7. n + 1 - d \in 1..L /\ (d = 1 => n > 0)
  BY <1>1, <1>3, <1>5
<1>8. q[n + 1 - d] = vector /\ \A i \in 1..n - d : i + d \in 1..n /\ q[i] = seq[i + d]
  <2>1. n + 1 - d \in 1..n + 1 - d /\ n + 1 - d + d = n + 1
    BY <1>3, <1>7
  <2>2. \A i \in 1..n - d : i \in 1..n + 1 - d /\ i + d \in 1..n
    BY <1>3, <1>5
  <2>3. QED
    BY <1>3, <1>6, <2>1, <2>2
<1>9. ListExtends(q, seq, vector)
  <2>1. /\ Len(q) = Len(seq) + 1 - d /\ (d = 1 => Len(seq) > 0) /\ q[Len(q)] = vector
        /\ Len(q) - 1 = n - d
    BY <1>2, <1>3, <1>6, <1>7, <1>8
  <2>2. \A i \in 1..Len(q) - 1 : i + d \in 1..Len(seq) /\ q[i] = seq[i + d]
    BY <1>2, <1>8, <2>1
  <2>3. QED
    BY <2>1, <2>2 DEF ListExtends
<1>10. QED
  BY <1>1, <1>6, <1>7, <1>9

\* One more row of a key that is not there.
LEMMA KeptFirst ==
    ASSUME NEW Rows, NEW table \in SUBSET Rows, NEW row \in Rows, IsFiniteSet(table), OneRow(table)
    PROVE  /\ KeepFirst(table, row) \in SUBSET Rows /\ IsFiniteSet(KeepFirst(table, row))
           /\ OneRow(KeepFirst(table, row)) /\ table \subseteq KeepFirst(table, row)
           /\ KeepFirst(table, row) \in {table, table \cup {row}}
           /\ \E r \in KeepFirst(table, row) : r.host = row.host /\ r.ts = row.ts
           /\ (\A r \in table : r.host = row.host => r.ts # row.ts)
                 => KeepFirst(table, row) = table \cup {row}
<1>1. IsFiniteSet(table \cup {row})
  BY FS_AddElement
<1>2. CASE \E r \in table : r.host = row.host /\ r.ts = row.ts
  BY <1>2 DEF KeepFirst
<1>3. CASE ~ \E r \in table : r.host = row.host /\ r.ts = row.ts
  <2>1. KeepFirst(table, row) = table \cup {row}
    BY <1>3 DEF KeepFirst
  <2>2. OneRow(table \cup {row})
    BY <1>3 DEF OneRow
  <2>3. QED
    BY <1>1, <2>1, <2>2
<1>4. QED
  BY <1>2, <1>3

\* The list with the next vector, or only that.
LEMMA LogExtends ==
    ASSUME QueryInv, NEW h \in HistoryHosts, NEW k \in Nat, k = pushed + 1, k <= Len(observed),
           observed[k].host = h, NEW q, q = LastOf(Append(buffer[h], observed[k]), ContextL)
    PROVE  /\ q \in Seq(Vector) /\ Len(q) \in 1..ContextL
           /\ q[Len(q)] = observed[k] /\ FromLog(q, h, k)
<1>1. PICK b \in Seq(Vector), n \in Nat : b = buffer[h] /\ n = Len(b) /\ n <= ContextL
  BY DEF QueryInv, QueryTypes, ContextInv
<1>2. PICK vector \in Vector : vector = observed[k]
  BY DEF QueryInv, QueryTypes
<1>3. pushed \in Nat /\ vector.body = k /\ k \in 1..Len(observed)
  BY <1>2 DEF QueryInv, QueryTypes, OrderInv
<1>4. n > 0 => FromLog(b, h, pushed)
  BY <1>1, EmptySeq DEF QueryInv, ContextInv
<1>5. n > 0 => /\ \A i \in 1..n : b[i].host = h /\ b[i].body \in 1..pushed /\ observed[b[i].body] = b[i]
               /\ \A i, j \in 1..n : i < j => b[i].body < b[j].body
               /\ \A m \in 1..pushed : observed[m].host = h /\ b[1].body <= m
                     => SeenBefore(m) \/ \E i \in 1..n : b[i].body = m
  BY <1>1, <1>4 DEF FromLog
<1>6. /\ q \in Seq(Vector) /\ Len(q) \in 1..ContextL
      /\ ListExtends(q, b, vector)
  <2>1. Len(b) <= ContextL /\ q = LastOf(Append(b, vector), ContextL)
    BY <1>1, <1>2
  <2>2. QED
    BY <2>1, PushedRows
<1>7. PICK m \in Nat, d \in {0, 1} :
        /\ m = Len(q) /\ m > 0 /\ m = n + 1 - d /\ (d = 1 => n > 0)
        /\ q[m] = vector
        /\ \A i \in 1..m - 1 : i + d \in 1..n /\ q[i] = b[i + d]
  <2>1. PICK d \in {0, 1} :
          /\ Len(q) = n + 1 - d /\ (d = 1 => n > 0)
          /\ q[Len(q)] = vector
          /\ \A i \in 1..Len(q) - 1 : i + d \in 1..n /\ q[i] = b[i + d]
    BY <1>1, <1>6 DEF ListExtends
  <2>2. PICK m \in Nat : m = Len(q) /\ m > 0
    BY <1>6
  <2>3. QED
    BY <2>1, <2>2
<1>8. \A i \in 1..m : q[i].host = h /\ q[i].body \in 1..k /\ observed[q[i].body] = q[i]
  <2>1. TAKE i \in 1..m
  <2>2. CASE i = m
    BY <1>2, <1>3, <1>7, <2>2
  <2>3. CASE i \in 1..m - 1
    <3>1. i + d \in 1..n /\ q[i] = b[i + d]
      BY <1>7, <2>3
    <3>2. QED
      BY <1>3, <1>5, <3>1
  <2>4. QED
    BY <1>7, <2>2, <2>3
<1>9. \A i, j \in 1..m : i < j => q[i].body < q[j].body
  <2>1. SUFFICES ASSUME NEW i \in 1..m, NEW j \in 1..m, i < j PROVE q[i].body < q[j].body
    OBVIOUS
  <2>2. i \in 1..m - 1 /\ i + d \in 1..n /\ q[i] = b[i + d]
    BY <1>7, <2>1
  <2>3. CASE j = m
    BY <1>3, <1>5, <1>7, <2>2, <2>3
  <2>4. CASE j \in 1..m - 1
    <3>1. j + d \in 1..n /\ q[j] = b[j + d] /\ i + d < j + d
      BY <1>7, <2>1, <2>4
    <3>2. QED
      BY <1>5, <2>2, <3>1
  <2>5. QED
    BY <1>7, <2>3, <2>4
<1>10. ASSUME NEW x \in 1..k, observed[x].host = h, q[1].body <= x
       PROVE  SeenBefore(x) \/ \E i \in 1..m : q[i].body = x
  <2>1. CASE x = k
    BY <1>3, <1>7, <2>1
  <2>2. CASE x \in 1..pushed
    <3>1. m # 1
      BY <1>3, <1>7, <1>10, <2>2
    <3>2. 1 + d \in 1..n /\ q[1] = b[1 + d] /\ n > 0
      BY <1>7, <3>1
    <3>3. /\ b[1].body \in Nat /\ b[1 + d].body \in Nat /\ b[1].body <= b[1 + d].body
      BY <1>3, <1>5, <3>2
    <3>4. b[1].body <= x
      BY <1>3, <1>10, <3>2, <3>3
    <3>5. CASE SeenBefore(x)
      BY <3>5
    <3>6. CASE ~SeenBefore(x)
      <4>1. PICK i \in 1..n : b[i].body = x
        BY <1>5, <1>10, <2>2, <3>2, <3>4, <3>6
      <4>2. ~(i < 1 + d)
        BY <1>5, <1>10, <3>2, <3>3, <4>1
      <4>3. i - d \in 1..m - 1 /\ q[i - d] = b[i - d + d] /\ i - d + d = i
        BY <1>7, <4>1, <4>2
      <4>4. QED
        BY <1>7, <4>1, <4>3
    <3>7. QED
      BY <3>5, <3>6
  <2>3. QED
    BY <1>3, <1>10, <2>1, <2>2
<1>11. FromLog(q, h, k)
  BY <1>7, <1>8, <1>9, <1>10 DEF FromLog
<1>12. QED
  BY <1>2, <1>6, <1>7, <1>11

\* What was taken before stays so when a vector is added.
LEMMA LogStays ==
    ASSUME NEW N \in Nat, N = Len(observed), Len(observed') >= N, Len(observed') \in Nat,
           \A i \in 1..N : observed'[i] = observed[i],
           NEW seq, NEW h, NEW n \in 0..N, FromLog(seq, h, n)
    PROVE  FromLog(seq, h, n)'
<1>1. \A k \in 1..n : k \in 1..N /\ observed'[k] = observed[k]
  OBVIOUS
<1>2. \A k \in 1..n : SeenBefore(k) => SeenBefore(k)'
  BY <1>1 DEF SeenBefore
<1>3. QED
  BY <1>1, <1>2 DEF FromLog

-----------------------------------------------------------------------------
\* A page that is under way, apart from what there is to read.
LEMMA PagerFields ==
    ASSUME QueryTypes, pager # NoPager
    PROVE  pager \in Pager
BY DEF QueryTypes

\* Forecasts that are added do not disturb a client that pages.
LEMMA PagerStays ==
    ASSUME QueryInv, QueryTypes', forecastRows \subseteq forecastRows', pager' = pager
    PROVE  PagerInv'
<1>1. SUFFICES ASSUME pager # NoPager
               PROVE  /\ pager.since \subseteq Keys' /\ pager.total <= Cardinality(Keys')
                      /\ pager.step # "done" =>
                            \A k \in pager.since :
                               k \in pager.seen \/ pager.offset <= Rank(pager.order, k)'
                      /\ pager.step = "done" =>
                            IF pager.until = "total"
                            THEN Cardinality(pager.since \ pager.seen) <= Cardinality(Keys') - pager.total
                            ELSE pager.since \subseteq pager.seen
  BY DEF PagerInv, PagingSkipsNothing
<1>2. pager \in Pager /\ Keys \subseteq Keys'
  BY <1>1, PagerFields DEF QueryInv, Keys
<1>3. pager.order \in {"asc", "desc"} /\ pager.offset \in Nat /\ pager.total \in Nat
  BY <1>2 DEF Pager
<1>4. \A k : /\ Rank(pager.order, k) \in Nat /\ Rank(pager.order, k)' \in Nat
             /\ Rank(pager.order, k) <= Rank(pager.order, k)'
  BY <1>2, <1>3, RanksGrow DEF QueryInv
<1>5. /\ pager.since \subseteq Keys /\ pager.total <= Cardinality(Keys)
      /\ pager.step = "done" =>
            IF pager.until = "total"
            THEN Cardinality(pager.since \ pager.seen) <= Cardinality(Keys) - pager.total
            ELSE pager.since \subseteq pager.seen
  BY <1>1 DEF QueryInv, PagerInv, PagingSkipsNothing
<1>6. ASSUME pager.step # "done", NEW k \in pager.since
      PROVE  k \in pager.seen \/ pager.offset <= Rank(pager.order, k)'
  <2>1. k \in pager.seen \/ pager.offset <= Rank(pager.order, k)
    BY <1>1, <1>6 DEF QueryInv, PagerInv
  <2>2. QED
    BY <1>3, <1>4, <2>1
<1>7. /\ Cardinality(Keys) \in Nat /\ Cardinality(Keys') \in Nat /\ Cardinality(Keys) <= Cardinality(Keys')
      /\ Cardinality(pager.since \ pager.seen) \in Nat
  <2>1. IsFiniteSet(Keys') /\ IsFiniteSet(Keys)
    BY KeysOfRows, KeysAreFinite DEF QueryInv, QueryTypes, Keys
  <2>2. Keys \in SUBSET Keys' /\ (pager.since \ pager.seen) \in SUBSET Keys
    BY <1>2, <1>5
  <2>3. QED
    BY <2>1, <2>2, FS_Subset, FS_CardinalityType
<1>8. QED
  BY <1>2, <1>3, <1>5, <1>6, <1>7

\* The tables are empty at first.
LEMMA QueriesStart ==
    ASSUME QueriesInit
    PROVE  QueryInv
<1>1. QueryTypes
  <2>1. observed = <<>> /\ forecasts = <<>> /\ Len(<<>>) = 0
    BY DEF QueriesInit
  <2>2. /\ observed \in Seq(Vector) /\ published \in 0..Len(observed) /\ pushed \in 0..published
        /\ forecasts \in Seq(ForecastRow) /\ stored \in 0..Len(forecasts)
    BY <2>1 DEF QueriesInit
  <2>3. QED
    BY <2>2, FS_EmptySet DEF QueriesInit, QueryTypes
<1>2. RowsInv
  BY DEF QueriesInit, RowsInv, OneRow
<1>3. OrderInv
  BY DEF QueriesInit, OrderInv
<1>4. ContextInv
  <2>1. \A h \in HistoryHosts : buffer[h] = <<>> /\ Len(buffer[h]) = 0
    BY DEF QueriesInit
  <2>2. ContextL \in Nat
    BY QueriesAssumption DEF QueriesAssumption
  <2>3. QED
    BY <2>1, <2>2 DEF QueriesInit, ContextInv
<1>5. PagerInv
  BY DEF QueriesInit, PagerInv
<1>6. QED
  BY <1>1, <1>2, <1>3, <1>4, <1>5 DEF QueryInv

\* A vector is saved: it is the last, and its row is there.
LEMMA SaveKeepsInv ==
    ASSUME QueryInv, NEW h \in HistoryHosts, NEW t \in 1..LastWindow, SaveVector(h, t)
    PROVE  QueryInv'
<1>1. PICK N \in Nat : N = Len(observed)
  BY DEF QueryInv, QueryTypes
<1>2. PICK vector : vector = [host |-> h, ts |-> t, body |-> N + 1, upload |-> upsets.uploads]
  OBVIOUS
<1>3. /\ t > axis[h] /\ published = N
      /\ axis' = [axis EXCEPT ![h] = t]
      /\ observed' = Append(observed, vector)
      /\ vectorRows' = KeepFirst(vectorRows, vector)
      /\ UNCHANGED <<published, pushed, buffer, forecasts, stored, forecastRows, upsets, pager>>
  <2>1. axis[h] \in Nat
    BY DEF QueryInv, QueryTypes
  <2>2. QED
    BY <1>1, <1>2, <2>1 DEF SaveVector
<1>4. /\ t \in Nat /\ vector \in Vector /\ upsets.uploads \in Nat
      /\ vector.host = h /\ vector.ts = t /\ vector.body = N + 1 /\ vector.upload = upsets.uploads
  BY <1>1, <1>2, QueriesAssumption DEF QueriesAssumption, Vector, QueryInv, QueryTypes
<1>5. /\ observed' \in Seq(Vector) /\ Len(observed') = N + 1 /\ observed'[N + 1] = vector
      /\ \A i \in 1..N : observed'[i] = observed[i] /\ observed[i] \in Vector
  BY <1>1, <1>3, <1>4 DEF QueryInv, QueryTypes
<1>6. /\ vectorRows' \in SUBSET Vector /\ IsFiniteSet(vectorRows') /\ OneRow(vectorRows')
      /\ vectorRows \subseteq vectorRows' /\ vectorRows' \in {vectorRows, vectorRows \cup {vector}}
      /\ \E r \in vectorRows' : r.host = h /\ r.ts = t
      /\ (\E r \in vectorRows : r.host = h /\ r.ts = t) => vectorRows' = vectorRows
  <2>1. vectorRows \in SUBSET Vector /\ IsFiniteSet(vectorRows) /\ OneRow(vectorRows)
    BY DEF QueryInv, QueryTypes, RowsInv
  <2>2. PICK K : K = KeepFirst(vectorRows, vector)
    OBVIOUS
  <2>3. /\ K \in SUBSET Vector /\ IsFiniteSet(K) /\ OneRow(K) /\ vectorRows \subseteq K
        /\ K \in {vectorRows, vectorRows \cup {vector}}
        /\ \E r \in K : r.host = vector.host /\ r.ts = vector.ts
    BY <1>4, <2>1, <2>2, KeptFirst
  <2>4. vectorRows' = K
    BY <1>3, <2>2
  <2>5. (\E r \in vectorRows : r.host = h /\ r.ts = t) => vectorRows' = vectorRows
    BY <1>3, <1>4 DEF KeepFirst
  <2>6. QED
    BY <1>4, <2>3, <2>4, <2>5 DEF OneRow
<1>7. QueryTypes'
  <2>1. axis' \in [HistoryHosts -> Nat]
    BY <1>3, <1>4 DEF QueryInv, QueryTypes
  <2>2. published' \in 0..Len(observed')
    BY <1>1, <1>3, <1>5
  <2>3. QED
    BY <1>3, <1>5, <1>6, <2>1, <2>2 DEF QueryInv, QueryTypes
<1>8. \A k \in 1..N : SeenBefore(k)' <=> SeenBefore(k)
  BY <1>1, <1>5 DEF SeenBefore
<1>9. RowsInv'
  <2>1. /\ \A v \in vectorRows : v.body \in 1..N /\ observed[v.body] = v /\ ~SeenBefore(v.body)
        /\ \A i \in 1..N : \E v \in vectorRows :
              v.host = observed[i].host /\ v.ts = observed[i].ts /\ v.body <= i
        /\ OneRow(forecastRows)
    BY <1>1 DEF QueryInv, RowsInv
  <2>2. vector \in vectorRows' => vector \in vectorRows \/ ~SeenBefore(N + 1)'
    <3>1. SUFFICES ASSUME vector \in vectorRows', vector \notin vectorRows, SeenBefore(N + 1)'
                   PROVE  FALSE
      OBVIOUS
    <3>2. PICK j \in 1..N : observed[j].host = h /\ observed[j].ts = t
      BY <1>4, <1>5, <3>1 DEF SeenBefore
    <3>3. PICK v \in vectorRows : v.host = h /\ v.ts = t
      BY <2>1, <3>2
    <3>4. QED
      BY <1>6, <3>1, <3>3
  <2>3. ASSUME NEW v \in vectorRows'
        PROVE  v.body \in 1..N + 1 /\ observed'[v.body] = v /\ ~SeenBefore(v.body)'
    <3>1. CASE v \in vectorRows
      BY <1>5, <1>8, <2>1, <3>1
    <3>2. CASE v = vector /\ v \notin vectorRows
      BY <1>4, <1>5, <2>2, <3>2
    <3>3. QED
      BY <1>6, <3>1, <3>2
  <2>4. ASSUME NEW i \in 1..N + 1
        PROVE  \E v \in vectorRows' : v.host = observed'[i].host /\ v.ts = observed'[i].ts /\ v.body <= i
    <3>1. CASE i \in 1..N
      <4>1. PICK v \in vectorRows : v.host = observed[i].host /\ v.ts = observed[i].ts /\ v.body <= i
        BY <2>1, <3>1
      <4>2. v \in vectorRows' /\ observed'[i] = observed[i]
        BY <1>5, <1>6, <3>1
      <4>3. QED
        BY <4>1, <4>2
    <3>2. CASE i = N + 1
      <4>1. PICK v \in vectorRows' : v.host = h /\ v.ts = t
        BY <1>6
      <4>2. v.body <= N + 1
        BY <2>3
      <4>3. QED
        BY <1>4, <1>5, <3>2, <4>1, <4>2
    <3>3. QED
      BY <3>1, <3>2
  <2>5. OneRow(forecastRows')
    BY <1>3, <2>1 DEF OneRow
  <2>6. QED
    BY <1>5, <1>6, <2>3, <2>4, <2>5 DEF RowsInv, OneRow
<1>10. OrderInv'
  <2>1. /\ \A i \in 1..N : /\ observed[i].body = i /\ observed[i].upload <= upsets.uploads
                           /\ observed[i].upload = upsets.uploads => observed[i].ts <= axis[observed[i].host]
        /\ \A i, j \in 1..N : i < j /\ observed[i].host = observed[j].host
                               /\ observed[i].upload = observed[j].upload
                          => observed[i].ts < observed[j].ts
    BY <1>1 DEF QueryInv, OrderInv
  <2>2. /\ axis \in [HistoryHosts -> Nat] /\ \A g \in HistoryHosts : axis'[g] = IF g = h THEN t ELSE axis[g]
        /\ \A i \in 1..N : observed[i].host \in HistoryHosts /\ observed[i].ts \in Nat
    <3>1. \A v \in Vector : v.host \in HistoryHosts /\ v.ts \in Nat
      BY DEF Vector
    <3>2. axis \in [HistoryHosts -> Nat]
      BY DEF QueryInv, QueryTypes
    <3>3. QED
      BY <1>3, <1>5, <3>1, <3>2
  <2>3. ASSUME NEW i \in 1..N + 1
        PROVE  /\ observed'[i].body = i /\ observed'[i].upload <= upsets'.uploads
               /\ observed'[i].upload = upsets'.uploads => observed'[i].ts <= axis'[observed'[i].host]
    <3>1. CASE i = N + 1
      <4>1. observed'[i] = vector /\ axis'[h] = t /\ upsets' = upsets
        BY <1>3, <1>5, <2>2, <3>1
      <4>2. QED
        BY <1>4, <3>1, <4>1
    <3>2. CASE i \in 1..N
      <4>1. axis[observed[i].host] <= axis'[observed[i].host]
        BY <1>3, <1>4, <2>2, <3>2
      <4>2. axis[observed[i].host] \in Nat /\ axis'[observed[i].host] \in Nat
        BY <1>4, <2>2, <3>2
      <4>3. observed'[i] = observed[i] /\ upsets' = upsets /\ observed[i].ts \in Nat
        BY <1>3, <1>5, <2>2, <3>2
      <4>4. observed[i].upload = upsets.uploads => observed[i].ts <= axis[observed[i].host]
        BY <2>1, <3>2
      <4>5. observed[i].body = i /\ observed[i].upload <= upsets.uploads
        BY <2>1, <3>2
      <4>6. observed[i].upload = upsets.uploads => observed[i].ts <= axis'[observed[i].host]
        BY <4>1, <4>2, <4>3, <4>4
      <4>7. QED
        BY <4>3, <4>5, <4>6
    <3>3. QED
      BY <3>1, <3>2
  <2>4. ASSUME NEW i \in 1..N + 1, NEW j \in 1..N + 1, i < j,
               observed'[i].host = observed'[j].host, observed'[i].upload = observed'[j].upload
        PROVE  observed'[i].ts < observed'[j].ts
    <3>1. i \in 1..N /\ observed'[i] = observed[i]
      BY <1>5, <2>4
    <3>2. CASE j = N + 1
      <4>1. observed[i].host = h /\ observed[i].upload = upsets.uploads
        BY <1>4, <1>5, <2>4, <3>1, <3>2
      <4>2. observed[i].ts <= axis[h] /\ axis[h] \in Nat /\ observed[i].ts \in Nat
        <5>1. observed[i].ts <= axis[observed[i].host]
          BY <2>1, <3>1, <4>1
        <5>2. QED
          BY <2>2, <3>1, <4>1, <5>1
      <4>3. QED
        BY <1>3, <1>4, <1>5, <3>1, <3>2, <4>2
    <3>3. CASE j \in 1..N
      BY <1>5, <2>1, <2>4, <3>1, <3>3
    <3>4. QED
      BY <3>2, <3>3
  <2>5. QED
    BY <1>5, <2>3, <2>4 DEF OrderInv
<1>11. ContextInv'
  <2>1. Len(observed') >= N /\ Len(observed') \in Nat /\ \A i \in 1..N : observed'[i] = observed[i]
    BY <1>5
  <2>2. \A seq, g : \A n \in 0..N : FromLog(seq, g, n) => FromLog(seq, g, n)'
    BY <1>1, <2>1, LogStays
  <2>3. pushed \in 0..N
    BY <1>1, <1>3 DEF QueryInv, QueryTypes
  <2>4. \A row : MadeFrom(row) => MadeFrom(row)'
    BY <1>1, <1>5, <2>2 DEF MadeFrom
  <2>5. QED
    BY <1>3, <2>2, <2>3, <2>4 DEF QueryInv, ContextInv
<1>12. PagerInv'
  BY <1>3, <1>7, PagerStays
<1>13. QED
  BY <1>7, <1>9, <1>10, <1>11, <1>12 DEF QueryInv

\* Rows, order and contexts do not depend on who has taken what.
LEMMA RowsStay ==
    ASSUME QueryInv, UNCHANGED <<observed, vectorRows, forecastRows>>
    PROVE  RowsInv' /\ \A seq, h, n : FromLog(seq, h, n) => FromLog(seq, h, n)'
<1>1. \A k : SeenBefore(k)' <=> SeenBefore(k)
  BY DEF SeenBefore
<1>2. RowsInv'
  BY <1>1 DEF QueryInv, RowsInv, OneRow
<1>3. QED
  BY <1>1, <1>2 DEF FromLog

\* A vector is published.
LEMMA PublishKeepsInv ==
    ASSUME QueryInv, PublishVector
    PROVE  QueryInv'
<1>1. /\ published < Len(observed) /\ published' = published + 1
      /\ UNCHANGED <<axis, observed, pushed, vectorRows, buffer, forecasts, stored, forecastRows,
                     upsets, pager>>
  BY DEF PublishVector
<1>2. QueryTypes'
  <2>1. published' \in 0..Len(observed') /\ pushed' \in 0..published'
    BY <1>1 DEF QueryInv, QueryTypes
  <2>2. QED
    BY <1>1, <2>1 DEF QueryInv, QueryTypes
<1>3. RowsInv' /\ \A seq, h, n : FromLog(seq, h, n) => FromLog(seq, h, n)'
  BY <1>1, RowsStay
<1>4. OrderInv' /\ ContextInv'
  BY <1>1, <1>3 DEF QueryInv, OrderInv, ContextInv, MadeFrom
<1>5. PagerInv'
  BY <1>1, <1>2, PagerStays
<1>6. QED
  BY <1>2, <1>3, <1>4, <1>5 DEF QueryInv

\* A vector is taken from the bus, pushed, and forecast from.
LEMMA PushKeepsInv ==
    ASSUME QueryInv, PushWindow
    PROVE  QueryInv'
<1>1. PICK k \in Nat, h \in HistoryHosts, vector \in Vector :
         k = pushed + 1 /\ k \in 1..Len(observed) /\ vector = observed[k] /\ h = vector.host
  <2>1. pushed + 1 \in 1..Len(observed) /\ pushed + 1 \in Nat
    BY DEF PushWindow, QueryInv, QueryTypes
  <2>2. observed[pushed + 1] \in Vector
    BY <2>1 DEF QueryInv, QueryTypes
  <2>3. QED
    BY <2>1, <2>2 DEF Vector
<1>2. PICK q : q = LastOf(Append(buffer[h], vector), ContextL)
  OBVIOUS
<1>3. PICK f : f = [host |-> h, ts |-> vector.ts, context |-> q]
  OBVIOUS
<1>4. /\ pushed < published /\ pushed' = k
      /\ IF IsTailOf(buffer[h], vector.ts)
         THEN UNCHANGED <<buffer, forecasts>>
         ELSE /\ buffer' = [buffer EXCEPT ![h] = q]
              /\ forecasts' = IF Len(q) < ContextL THEN forecasts ELSE Append(forecasts, f)
      /\ UNCHANGED <<axis, observed, published, vectorRows, stored, forecastRows, upsets, pager>>
  BY <1>1, <1>2, <1>3 DEF PushWindow
<1>5. /\ RowsInv' /\ \A seq, g, n : FromLog(seq, g, n) => FromLog(seq, g, n)'
      /\ OrderInv' /\ pushed' \in 0..published'
  <2>1. pushed' \in 0..published'
    BY <1>1, <1>4 DEF QueryInv, QueryTypes
  <2>2. QED
    BY <1>4, <2>1, RowsStay DEF QueryInv, OrderInv
<1>6. ASSUME NEW g \in HistoryHosts, NEW seq, FromLog(seq, g, pushed), g = h => SeenBefore(k)
      PROVE  FromLog(seq, g, k)
  <2>1. \A n \in 1..k : n \in 1..pushed \/ n = k
    BY <1>1 DEF QueryInv, QueryTypes
  <2>2. \A i \in 1..Len(seq) : seq[i].body \in 1..k
    BY <1>1, <1>6 DEF FromLog, QueryInv, QueryTypes
  <2>3. QED
    BY <1>1, <1>6, <2>1, <2>2 DEF FromLog
<1>7. \A row : MadeFrom(row) => MadeFrom(row)'
  BY <1>4, <1>5 DEF MadeFrom
<1>8. \A g \in HistoryHosts : g # h => FromLog(buffer[g], g, k) \/ buffer[g] = <<>>
  BY <1>6 DEF QueryInv, ContextInv
<1>9. CASE IsTailOf(buffer[h], vector.ts)
  <2>1. buffer' = buffer /\ forecasts' = forecasts
    BY <1>4, <1>9
  <2>2. PICK b \in Seq(Vector), n \in Nat : b = buffer[h] /\ n = Len(b) /\ n > 0
    BY <1>9, EmptySeq DEF IsTailOf, QueryInv, QueryTypes
  <2>3. FromLog(b, h, pushed)
    BY <2>2, EmptySeq DEF QueryInv, ContextInv
  <2>4. /\ b[n].host = h /\ b[n].body \in 1..pushed /\ observed[b[n].body] = b[n] /\ b[n].ts = vector.ts
    BY <1>9, <2>2, <2>3 DEF FromLog, IsTailOf
  <2>5. b[n].body \in 1..Len(observed) /\ b[n].body < k
    BY <1>1, <2>4 DEF QueryInv, QueryTypes
  <2>6. SeenBefore(k)
    BY <1>1, <2>4, <2>5 DEF SeenBefore
  <2>7. FromLog(buffer[h], h, k)
    BY <1>6, <2>2, <2>3, <2>6
  <2>8. QueryTypes'
    BY <1>4, <1>5, <2>1 DEF QueryInv, QueryTypes
  <2>9. ContextInv'
    BY <1>4, <1>5, <1>7, <1>8, <2>1, <2>7 DEF QueryInv, ContextInv
  <2>10. PagerInv'
    BY <1>4, <2>8, PagerStays
  <2>11. QED
    BY <1>5, <2>8, <2>9, <2>10 DEF QueryInv
<1>10. CASE ~IsTailOf(buffer[h], vector.ts)
  <2>1. /\ buffer' = [buffer EXCEPT ![h] = q]
        /\ forecasts' = IF Len(q) < ContextL THEN forecasts ELSE Append(forecasts, f)
    BY <1>4, <1>10
  <2>2. /\ q \in Seq(Vector) /\ Len(q) \in 1..ContextL
        /\ q[Len(q)] = vector /\ FromLog(q, h, k)
    BY <1>1, <1>2, LogExtends
  <2>3. f \in ForecastRow /\ f.host = h /\ f.ts = vector.ts /\ f.context = q
    BY <1>1, <1>3, <2>2 DEF ForecastRow, Vector
  <2>4. /\ buffer' \in [HistoryHosts -> Seq(Vector)]
        /\ \A g \in HistoryHosts : buffer'[g] = IF g = h THEN q ELSE buffer[g]
    BY <2>1, <2>2 DEF QueryInv, QueryTypes
  <2>5. PICK M \in Nat : M = Len(forecasts) /\ forecasts \in Seq(ForecastRow) /\ stored \in 0..M
    BY DEF QueryInv, QueryTypes
  <2>6. /\ forecasts' \in Seq(ForecastRow) /\ stored' \in 0..Len(forecasts')
        /\ \A i \in 1..Len(forecasts') :
              \/ i \in 1..M /\ forecasts'[i] = forecasts[i]
              \/ Len(q) >= ContextL /\ forecasts'[i] = f
    <3>1. ContextL \in Nat /\ Len(q) \in Nat
      BY <2>2, QueriesAssumption DEF QueriesAssumption
    <3>2. CASE Len(q) < ContextL
      BY <1>4, <2>1, <2>5, <3>2
    <3>3. CASE Len(q) >= ContextL
      <4>1. forecasts' = Append(forecasts, f)
        BY <2>1, <3>1, <3>3
      <4>2. QED
        BY <1>4, <2>3, <2>5, <3>3, <4>1
    <3>4. QED
      BY <3>1, <3>2, <3>3
  <2>7. QueryTypes'
    BY <1>4, <1>5, <2>4, <2>6 DEF QueryInv, QueryTypes
  <2>8. Len(q) >= ContextL => MadeFrom(f)
    <3>1. SUFFICES ASSUME Len(q) >= ContextL PROVE MadeFrom(f)
      OBVIOUS
    <3>2. Len(q) = ContextL /\ q[ContextL] = vector
      BY <2>2, <3>1, QueriesAssumption DEF QueriesAssumption
    <3>3. vector.body = k
      BY <1>1 DEF QueryInv, OrderInv
    <3>4. QED
      BY <1>1, <2>2, <2>3, <3>2, <3>3 DEF MadeFrom
  <2>9. ContextInv'
    <3>1. ASSUME NEW i \in 1..Len(forecasts') PROVE MadeFrom(forecasts[i])'
      <4>1. PICK g : g = forecasts'[i]
        OBVIOUS
      <4>2. MadeFrom(g)
        BY <2>5, <2>6, <2>8, <4>1 DEF QueryInv, ContextInv
      <4>3. MadeFrom(g)'
        BY <1>7, <4>2
      <4>4. QED
        BY <4>1, <4>3
    <3>2. \A row \in forecastRows' : MadeFrom(row)'
      BY <1>4, <1>7 DEF QueryInv, ContextInv
    <3>3. ASSUME NEW g \in HistoryHosts
          PROVE  (/\ buffer[g] # <<>> => FromLog(buffer[g], g, pushed)
                  /\ Len(buffer[g]) <= ContextL)'
      <4>1. PICK b : b = buffer'[g]
        OBVIOUS
      <4>2. CASE g = h
        <5>1. Len(q) <= ContextL
          BY <2>2, QueriesAssumption DEF QueriesAssumption
        <5>2. b = q /\ FromLog(b, g, k)
          BY <2>2, <2>4, <4>1, <4>2
        <5>3. FromLog(b, g, k)'
          BY <1>5, <5>2
        <5>4. QED
          BY <1>4, <4>1, <5>1, <5>2, <5>3
      <4>3. CASE g # h
        <5>1. b = buffer[g]
          BY <2>4, <4>1, <4>3
        <5>2. Len(b) <= ContextL /\ (b # <<>> => FromLog(b, g, k))
          BY <1>8, <4>3, <5>1 DEF QueryInv, ContextInv
        <5>3. b # <<>> => FromLog(b, g, k)'
          BY <1>5, <5>2
        <5>4. QED
          BY <1>4, <4>1, <5>2, <5>3
      <4>4. QED
        BY <4>2, <4>3
    <3>4. QED
      BY <3>1, <3>2, <3>3 DEF ContextInv
  <2>10. PagerInv'
    BY <1>4, <2>7, PagerStays
  <2>11. QED
    BY <1>5, <2>7, <2>9, <2>10 DEF QueryInv
<1>11. QED
  BY <1>9, <1>10

\* A forecast becomes a row.
LEMMA StoreKeepsInv ==
    ASSUME QueryInv, StoreForecast
    PROVE  QueryInv'
<1>1. PICK f \in ForecastRow : f = forecasts[stored + 1] /\ stored + 1 \in 1..Len(forecasts)
  BY DEF StoreForecast, QueryInv, QueryTypes
<1>2. /\ stored' = stored + 1 /\ forecastRows' = KeepFirst(forecastRows, f)
      /\ UNCHANGED <<axis, observed, published, pushed, vectorRows, buffer, forecasts, upsets, pager>>
  BY <1>1 DEF StoreForecast
<1>3. /\ KeepFirst(forecastRows, f) \in SUBSET ForecastRow /\ IsFiniteSet(KeepFirst(forecastRows, f))
      /\ OneRow(KeepFirst(forecastRows, f)) /\ forecastRows \subseteq KeepFirst(forecastRows, f)
      /\ KeepFirst(forecastRows, f) \in {forecastRows, forecastRows \cup {f}}
  BY KeptFirst DEF QueryInv, QueryTypes, RowsInv
<1>4. QueryTypes'
  <2>1. stored' \in 0..Len(forecasts')
    BY <1>1, <1>2 DEF QueryInv, QueryTypes
  <2>2. QED
    BY <1>2, <1>3, <2>1 DEF QueryInv, QueryTypes
<1>5. \A k : SeenBefore(k)' <=> SeenBefore(k)
  BY <1>2 DEF SeenBefore
<1>6. RowsInv'
  BY <1>2, <1>3, <1>5 DEF QueryInv, RowsInv, OneRow
<1>7. \A row : MadeFrom(row) => MadeFrom(row)'
  BY <1>2, <1>5 DEF MadeFrom, FromLog
<1>8. \A seq, h, n : FromLog(seq, h, n) => FromLog(seq, h, n)'
  BY <1>2, <1>5 DEF FromLog
<1>9. ContextInv'
  <2>1. MadeFrom(f)
    BY <1>1 DEF QueryInv, ContextInv
  <2>2. \A row \in forecastRows' : MadeFrom(row)'
    BY <1>2, <1>3, <1>7, <2>1 DEF QueryInv, ContextInv
  <2>3. ASSUME NEW i \in 1..Len(forecasts') PROVE MadeFrom(forecasts[i])'
    <3>1. PICK g : g = forecasts[i] /\ forecasts' = forecasts
      BY <1>2
    <3>2. MadeFrom(g)
      BY <3>1 DEF QueryInv, ContextInv
    <3>3. MadeFrom(g)'
      BY <1>7, <3>2
    <3>4. QED
      BY <3>1, <3>3
  <2>4. ASSUME NEW h \in HistoryHosts
        PROVE  (buffer[h] # <<>> => FromLog(buffer[h], h, pushed)) /\ Len(buffer[h]) <= ContextL
    BY DEF QueryInv, ContextInv
  <2>5. ASSUME NEW h \in HistoryHosts
        PROVE  (/\ buffer[h] # <<>> => FromLog(buffer[h], h, pushed)
                /\ Len(buffer[h]) <= ContextL)'
    <3>1. PICK b, k : b = buffer[h] /\ k = pushed /\ buffer' = buffer /\ pushed' = pushed
      BY <1>2
    <3>2. b # <<>> => FromLog(b, h, k)'
      BY <1>8, <2>4, <3>1
    <3>3. QED
      BY <2>4, <3>1, <3>2
  <2>6. QED
    BY <2>2, <2>3, <2>5 DEF ContextInv
<1>10. OrderInv'
  BY <1>2 DEF QueryInv, OrderInv
<1>11. PagerInv'
  BY <1>2, <1>3, <1>4, PagerStays
<1>12. QED
  BY <1>4, <1>6, <1>9, <1>10, <1>11 DEF QueryInv

\* A list expires, or a capture is uploaded again.
LEMMA UpsetsKeepInv ==
    ASSUME QueryInv, (\E h \in HistoryHosts : ListExpires(h)) \/ UploadAgain
    PROVE  QueryInv'
<1>1. UNCHANGED <<observed, published, pushed, vectorRows, forecasts, stored, forecastRows, pager>>
  BY DEF ListExpires, UploadAgain
<1>2. /\ RowsInv' /\ \A seq, h, n : FromLog(seq, h, n) => FromLog(seq, h, n)'
      /\ \A row : MadeFrom(row) => MadeFrom(row)'
  BY <1>1, RowsStay DEF MadeFrom
<1>3. CASE \E h \in HistoryHosts : ListExpires(h)
  <2>1. PICK h \in HistoryHosts : ListExpires(h)
    BY <1>3
  <2>2. /\ axis' = axis /\ upsets' = [upsets EXCEPT !.lapses = @ + 1]
        /\ buffer' = [buffer EXCEPT ![h] = <<>>]
    BY <2>1 DEF ListExpires
  <2>3. upsets' \in [lapses : Nat, uploads : Nat] /\ upsets'.uploads = upsets.uploads
    <3>1. upsets \in [lapses : Nat, uploads : Nat]
      BY DEF QueryInv, QueryTypes
    <3>2. QED
      BY <2>2, <3>1
  <2>4. /\ buffer' \in [HistoryHosts -> Seq(Vector)]
        /\ \A g \in HistoryHosts : buffer'[g] = IF g = h THEN <<>> ELSE buffer[g]
    BY <2>2 DEF QueryInv, QueryTypes
  <2>5. QueryTypes'
    BY <1>1, <2>2, <2>3, <2>4 DEF QueryInv, QueryTypes
  <2>6. OrderInv'
    BY <1>1, <2>2, <2>3 DEF QueryInv, OrderInv
  <2>7. ContextInv'
    <3>1. ContextL \in Nat /\ Len(<<>>) = 0
      BY QueriesAssumption DEF QueriesAssumption
    <3>2. ASSUME NEW g \in HistoryHosts
          PROVE  (/\ buffer[g] # <<>> => FromLog(buffer[g], g, pushed)
                  /\ Len(buffer[g]) <= ContextL)'
      <4>1. PICK b, k : b = buffer'[g] /\ k = pushed /\ pushed' = pushed
        BY <1>1
      <4>2. (b # <<>> => FromLog(b, g, k)) /\ Len(b) <= ContextL
        BY <2>4, <3>1, <4>1 DEF QueryInv, ContextInv
      <4>3. b # <<>> => FromLog(b, g, k)'
        BY <1>2, <4>2
      <4>4. QED
        BY <4>1, <4>2, <4>3
    <3>3. ASSUME NEW i \in 1..Len(forecasts') PROVE MadeFrom(forecasts[i])'
      <4>1. PICK f : f = forecasts[i] /\ forecasts' = forecasts
        BY <1>1
      <4>2. MadeFrom(f)
        BY <4>1 DEF QueryInv, ContextInv
      <4>3. MadeFrom(f)'
        BY <1>2, <4>2
      <4>4. QED
        BY <4>1, <4>3
    <3>4. \A row \in forecastRows' : MadeFrom(row)'
      BY <1>1, <1>2 DEF QueryInv, ContextInv
    <3>5. QED
      BY <3>2, <3>3, <3>4 DEF ContextInv
  <2>8. PagerInv'
    BY <1>1, <2>5, PagerStays
  <2>9. QED
    BY <1>2, <2>5, <2>6, <2>7, <2>8 DEF QueryInv
<1>4. CASE UploadAgain
  <2>1. /\ axis' = [h \in HistoryHosts |-> 0] /\ upsets' = [upsets EXCEPT !.uploads = @ + 1]
        /\ buffer' = buffer
    BY <1>4 DEF UploadAgain
  <2>2. /\ upsets' \in [lapses : Nat, uploads : Nat] /\ upsets'.uploads = upsets.uploads + 1
        /\ upsets.uploads \in Nat
    <3>1. upsets \in [lapses : Nat, uploads : Nat]
      BY DEF QueryInv, QueryTypes
    <3>2. QED
      BY <2>1, <3>1
  <2>3. QueryTypes'
    BY <1>1, <2>1, <2>2 DEF QueryInv, QueryTypes
  <2>4. OrderInv'
    <3>4. observed \in Seq(Vector) /\ \A v \in Vector : v.upload \in Nat
      BY DEF QueryInv, QueryTypes, Vector
    <3>1. \A i \in 1..Len(observed) : observed[i] \in Vector /\ observed[i].upload \in Nat
      BY <3>4
    <3>2. \A i \in 1..Len(observed) : observed[i].upload < upsets'.uploads
      BY <2>2, <3>1 DEF QueryInv, OrderInv
    <3>3. QED
      BY <1>1, <2>2, <3>1, <3>2 DEF QueryInv, OrderInv
  <2>5. ContextInv'
    BY <1>1, <1>2, <2>1 DEF QueryInv, ContextInv
  <2>6. PagerInv'
    BY <1>1, <2>3, PagerStays
  <2>7. QED
    BY <1>2, <2>3, <2>4, <2>5, <2>6 DEF QueryInv
<1>5. QED
  BY <1>3, <1>4

\* A client that reads disturbs nothing.
LEMMA PipelineStays ==
    ASSUME QueryInv, UNCHANGED pipelineVars
    PROVE  RowsInv' /\ OrderInv' /\ ContextInv'
<1>1. /\ RowsInv' /\ \A seq, h, n : FromLog(seq, h, n) => FromLog(seq, h, n)'
  BY RowsStay DEF pipelineVars
<1>2. QED
  BY <1>1 DEF QueryInv, OrderInv, ContextInv, MadeFrom, pipelineVars

\* No more keys lie beyond a rank than the ranks that are left.
LEMMA FewBeyond ==
    ASSUME QueryTypes, NEW order \in {"asc", "desc"}, NEW m \in Nat, m <= Cardinality(Keys),
           NEW S \in SUBSET Keys, \A k \in S : m <= Rank(order, k)
    PROVE  Cardinality(S) <= Cardinality(Keys) - m
<1>1. PICK n \in Nat : n = Cardinality(Keys) /\ m <= n
  BY KeysAreFinite, FS_CardinalityType
<1>2. PICK l \in Nat : l = n - m
  BY <1>1
<1>3. PICK f : f = [k \in S |-> Rank(order, k) - m + 1]
  OBVIOUS
<1>4. \A k \in S : Rank(order, k) \in 0..n - 1 /\ f[k] \in 1..l
  <2>1. TAKE k \in S
  <2>2. Rank(order, k) \in 0..n - 1 /\ m <= Rank(order, k)
    BY <1>1, RanksAreTaken
  <2>3. QED
    BY <1>2, <1>3, <2>2
<1>5. \A x, y \in S : f[x] = f[y] => x = y
  <2>1. TAKE x, y \in S
  <2>2. HAVE f[x] = f[y]
  <2>3. Rank(order, x) = Rank(order, y)
    BY <1>3, <1>4, <2>2
  <2>4. QED
    BY <2>3, RanksDiffer
<1>6. f \in Injection(S, 1..l)
  BY <1>3, <1>4, <1>5 DEF Injection, IsInjective
<1>7. IsFiniteSet(1..l) /\ Cardinality(1..l) = l
  BY CountTo
<1>8. Cardinality(S) <= l
  BY <1>6, <1>7, FS_Injection
<1>9. QED
  BY <1>1, <1>2, <1>8

\* The client begins: all that is there lies ahead of it.
LEMMA OpenKeepsInv ==
    ASSUME QueryInv, NEW order \in {"asc", "desc"}, NEW until \in Stops, OpenPager(order, until)
    PROVE  QueryInv'
<1>1. /\ UNCHANGED pipelineVars
      /\ pager' = [order |-> order, until |-> until, offset |-> 0, seen |-> {}, since |-> Keys,
                   total |-> 0, step |-> "count"]
  BY DEF OpenPager
<1>2. /\ Keys' = Keys /\ IsFiniteSet(Keys) /\ Keys \in SUBSET KeySpace /\ 0 <= Cardinality(Keys)
  BY <1>1, KeysAreFinite, FS_CardinalityType DEF Keys, QueryInv, pipelineVars
<1>3. pager' \in Pager
  BY <1>1, <1>2 DEF Pager
<1>4. QueryTypes'
  BY <1>1, <1>3 DEF QueryInv, QueryTypes, pipelineVars
<1>5. \A k \in Keys : 0 <= Rank(order, k)
  BY RanksAreNumbers DEF QueryInv
<1>6. PagerInv'
  BY <1>1, <1>2, <1>5 DEF PagerInv, Rank, PagingSkipsNothing
<1>7. RowsInv' /\ OrderInv' /\ ContextInv'
  BY <1>1, PipelineStays
<1>8. QED
  BY <1>4, <1>6, <1>7 DEF QueryInv

\* A page is read, and what is not on it lies further on or was seen.
LEMMA PageKeepsInv ==
    ASSUME QueryInv, CountForecasts \/ SelectPage
    PROVE  QueryInv'
<1>1. /\ UNCHANGED pipelineVars
      /\ pager # NoPager /\ pager.step # "done"
  BY DEF CountForecasts, SelectPage
<1>2. /\ Keys' = Keys /\ IsFiniteSet(Keys) /\ Keys \in SUBSET KeySpace /\ Cardinality(Keys) \in Nat
  BY <1>1, KeysAreFinite, FS_CardinalityType DEF Keys, QueryInv, pipelineVars
<1>3. PICK order \in {"asc", "desc"}, offset \in Nat, total \in Nat, until \in Stops :
         /\ pager \in Pager /\ order = pager.order /\ offset = pager.offset
         /\ total = pager.total /\ until = pager.until
  BY <1>1, PagerFields DEF QueryInv, Pager
<1>4. /\ pager.since \subseteq Keys /\ total <= Cardinality(Keys)
      /\ \A k \in pager.since : k \in pager.seen \/ offset <= Rank(order, k)
  BY <1>1, <1>3 DEF QueryInv, PagerInv
<1>5. RowsInv' /\ OrderInv' /\ ContextInv'
  BY <1>1, PipelineStays
<1>6. CASE CountForecasts
  <2>1. pager' = [pager EXCEPT !.total = Cardinality(Keys), !.step = "select"]
    BY <1>6 DEF CountForecasts
  <2>2. /\ pager' \in Pager /\ pager'.since = pager.since /\ pager'.seen = pager.seen
        /\ pager'.order = order /\ pager'.offset = offset /\ pager'.step = "select"
        /\ pager'.total = Cardinality(Keys)
    BY <1>2, <1>3, <2>1 DEF Pager
  <2>3. QueryTypes'
    BY <1>1, <2>2 DEF QueryInv, QueryTypes, pipelineVars
  <2>4. PagerInv'
    BY <1>2, <1>4, <2>2 DEF PagerInv, Rank, PagingSkipsNothing
  <2>5. QED
    BY <1>5, <2>3, <2>4 DEF QueryInv
<1>7. CASE SelectPage
  <2>1. PICK page : page = PageAt(order, offset)
    OBVIOUS
  <2>2. PICK L \in Nat : L = PageLimit
    BY QueriesAssumption DEF QueriesAssumption
  <2>3. PICK last : last = IsLastPage(page)
    OBVIOUS
  <2>4. last <=> IF until = "total" THEN offset + L >= total ELSE Cardinality(page) < L
    BY <1>3, <2>2, <2>3 DEF IsLastPage
  <2>5. pager' = [pager EXCEPT !.seen = @ \cup page, !.offset = @ + L,
                               !.step = IF last THEN "done" ELSE "count"]
    BY <1>3, <1>7, <2>1, <2>2, <2>3 DEF SelectPage
  <2>6. page \in SUBSET Keys /\ \A k \in Keys : k \in page <=> offset <= Rank(order, k) /\ Rank(order, k) < offset + L
    BY <2>1, <2>2 DEF PageAt, Rank
  <2>7. /\ pager' \in Pager /\ pager'.since = pager.since /\ pager'.seen = pager.seen \cup page
        /\ pager'.order = order /\ pager'.offset = offset + L /\ pager'.total = total
        /\ pager'.until = until /\ pager'.step = IF last THEN "done" ELSE "count"
    <3>1. PICK seen, next, step :
            /\ seen = pager.seen \cup page /\ next = offset + L
            /\ step = IF last THEN "done" ELSE "count"
      OBVIOUS
    <3>2. pager' = [pager EXCEPT !.seen = seen, !.offset = next, !.step = step]
      BY <1>3, <2>5, <3>1
    <3>3. seen \in SUBSET KeySpace /\ next \in Nat /\ step \in {"count", "select", "done"}
      <4>1. pager.seen \in SUBSET KeySpace
        BY <1>3 DEF Pager
      <4>2. QED
        BY <1>2, <1>3, <2>2, <2>6, <3>1, <4>1
    <3>4. /\ pager' \in Pager /\ pager'.since = pager.since /\ pager'.seen = seen
          /\ pager'.order = pager.order /\ pager'.offset = next /\ pager'.step = step
          /\ pager'.total = pager.total /\ pager'.until = pager.until
      BY <1>3, <3>2, <3>3 DEF Pager
    <3>5. QED
      BY <1>3, <3>1, <3>4
  <2>8. \A k \in Keys : Rank(order, k) \in Nat
    BY RanksAreNumbers DEF QueryInv
  <2>9. \A k \in pager.since : k \in pager'.seen \/ offset + L <= Rank(order, k)
    BY <1>4, <2>6, <2>7, <2>8
  <2>10. ASSUME last, until # "total" PROVE pager.since \subseteq pager'.seen
    <3>1. Cardinality(page) < L
      BY <2>4, <2>10
    <3>2. \A k \in Keys : Rank(order, k) < offset + L
      BY <2>1, <2>2, <3>1, ShortPageIsLast DEF QueryInv
    <3>3. QED
      BY <1>4, <2>8, <2>9, <3>2
  <2>11. ASSUME last, until = "total"
         PROVE  Cardinality(pager.since \ pager'.seen) <= Cardinality(Keys) - total
    <3>1. PICK S : S = pager.since \ pager'.seen
      OBVIOUS
    <3>2. offset + L >= total
      BY <2>4, <2>11
    <3>3. S \in SUBSET Keys /\ \A k \in S : total <= Rank(order, k)
      BY <1>3, <1>4, <2>2, <2>8, <2>9, <3>1, <3>2
    <3>4. Cardinality(S) <= Cardinality(Keys) - total
      BY <1>4, <3>3, FewBeyond DEF QueryInv
    <3>5. QED
      BY <3>1, <3>4
  <2>12. QueryTypes'
    BY <1>1, <2>7 DEF QueryInv, QueryTypes, pipelineVars
  <2>13. PagerInv'
    <3>4. \A k : Rank(order, k)' = Rank(order, k)
      BY <1>2 DEF Rank
    <3>1. (pager.step # "done" =>
             \A k \in pager.since : k \in pager.seen \/ pager.offset <= Rank(pager.order, k))'
      <4>1. ASSUME NEW k \in pager'.since
            PROVE  (k \in pager.seen \/ pager.offset <= Rank(pager.order, k))'
        <5>1. k \in pager'.seen \/ pager'.offset <= Rank(order, k)'
          BY <2>7, <2>9, <3>4
        <5>2. pager'.order = order
          BY <2>7
        <5>3. QED
          BY <5>1, <5>2 DEF Rank
      <4>2. QED
        BY <4>1
    <3>2. PagingSkipsNothing'
      BY <1>2, <2>7, <2>10, <2>11 DEF PagingSkipsNothing
    <3>3. QED
      BY <1>2, <1>4, <2>7, <3>1, <3>2 DEF PagerInv
  <2>14. QED
    BY <1>5, <2>12, <2>13 DEF QueryInv
<1>8. QED
  BY <1>6, <1>7

\* The invariant of the tables, the lists and the client that reads them: a row
\* is the first vector of its window, windows go forward within an upload, a
\* context is what was taken of a host one after the other, and what a client
\* has not seen lies ahead of it or came after it was told the total.
THEOREM QueriesInvariant == QueriesSpec => []QueryInv
<1>1. QueriesInit => QueryInv
  BY QueriesStart
<1>2. QueryInv /\ [QueriesNext]_queryVars => QueryInv'
  <2>1. SUFFICES ASSUME QueryInv, [QueriesNext]_queryVars PROVE QueryInv'
    OBVIOUS
  <2>2. CASE \E h \in HistoryHosts, t \in 1..LastWindow : SaveVector(h, t)
    BY <2>1, <2>2, SaveKeepsInv
  <2>3. CASE PublishVector \/ PushWindow \/ StoreForecast
    BY <2>1, <2>3, PublishKeepsInv, PushKeepsInv, StoreKeepsInv
  <2>4. CASE (\E h \in HistoryHosts : ListExpires(h)) \/ UploadAgain
    BY <2>1, <2>4, UpsetsKeepInv
  <2>5. CASE \E order \in {"asc", "desc"}, until \in Stops : OpenPager(order, until)
    BY <2>1, <2>5, OpenKeepsInv
  <2>6. CASE CountForecasts \/ SelectPage
    BY <2>1, <2>6, PageKeepsInv
  <2>7. CASE UNCHANGED queryVars
    <3>1. UNCHANGED pipelineVars /\ pager' = pager
      BY <2>7 DEF queryVars
    <3>2. QueryTypes' /\ forecastRows' = forecastRows
      BY <2>1, <3>1 DEF QueryInv, QueryTypes, pipelineVars
    <3>3. PagerInv'
      BY <2>1, <3>1, <3>2, PagerStays
    <3>4. QED
      BY <2>1, <3>1, <3>2, <3>3, PipelineStays DEF QueryInv
  <2>8. QED
    BY <2>1, <2>2, <2>3, <2>4, <2>5, <2>6, <2>7 DEF QueriesNext
<1>3. QED
  BY <1>1, <1>2, PTL DEF QueriesSpec

\* A client that pages to the end has seen what it should.
LEMMA PagesAreWhole ==
    ASSUME QueryInv
    PROVE  PagingSkipsNothing
<1>1. CASE pager = NoPager
  BY <1>1 DEF PagingSkipsNothing
<1>2. CASE pager # NoPager
  BY <1>2 DEF QueryInv, PagerInv
<1>3. QED
  BY <1>1, <1>2

\* AnswersAreWhole: an explanation reads the vectors its forecast was made
\* from when they are of one upload, a listed forecast is found with its vector
\* behind it, and paging skips no more than its client's way to stop allows,
\* however far features, inference and the persister are apart.
THEOREM AnswersAreWholeHolds == QueriesSpec => []AnswersAreWhole
<1>1. QueryInv => AnswersAreWhole
  BY ContextsExplain, ListsAreFound, PagesAreWhole DEF AnswersAreWhole
<1>2. QED
  BY <1>1, QueriesInvariant, PTL

-----------------------------------------------------------------------------
(***************************************************************************)
(* The capture analysis of the console's demo.                             *)
(***************************************************************************)
\* A state table: of each host, no windows or an interval of them.
Tables == [CaptureHosts -> {NoWindows} \cup
              {w \in (0 .. LastSlot) \X (0 .. LastSlot) : w[1] <= w[2]}]

\* An interval is the sequence of its numbers.
LEMMA IntervalIs ==
    ASSUME NEW a \in Int, NEW n \in Nat
    PROVE  /\ Interval(a, a + n - 1) \in Seq(Int)
           /\ Len(Interval(a, a + n - 1)) = n
           /\ \A i \in 1..n : Interval(a, a + n - 1)[i] = a + i - 1
<1>1. Interval(a, a + n - 1) = [i \in 1..n |-> a + i - 1]
  <2>1. (a + n - 1) - a + 1 = n
    OBVIOUS
  <2>2. QED
    BY <2>1 DEF Interval
<1>2. [i \in 1..n |-> a + i - 1] \in [1..n -> Int]
  OBVIOUS
<1>3. QED
  BY <1>1, <1>2

\* A part of an interval is an interval.
LEMMA SubInterval ==
    ASSUME NEW a \in Int, NEW n \in Nat, NEW m \in 1..n + 1, NEW k \in m - 1..n
    PROVE  SubSeq(Interval(a, a + n - 1), m, k) = Interval(a + m - 1, a + k - 1)
<1>1. PICK c \in Nat : c = k - m + 1
  OBVIOUS
<1>2. PICK b \in Int : b = a + m - 1
  OBVIOUS
<1>3. a + k - 1 = b + c - 1
  BY <1>1, <1>2
<1>4. /\ SubSeq(Interval(a, a + n - 1), m, k) \in Seq(Int)
      /\ Len(SubSeq(Interval(a, a + n - 1), m, k)) = c
      /\ \A i \in 1..c : SubSeq(Interval(a, a + n - 1), m, k)[i] = Interval(a, a + n - 1)[m + i - 1]
  <2>1. PICK s \in Seq(Int) : s = Interval(a, a + n - 1) /\ Len(s) = n
    BY IntervalIs
  <2>2. /\ SubSeq(s, m, k) \in Seq(Int)
        /\ Len(SubSeq(s, m, k)) = IF m <= k THEN k - m + 1 ELSE 0
        /\ \A i \in 1..k - m + 1 : SubSeq(s, m, k)[i] = s[m + i - 1]
    BY <2>1, SubSeqProperties
  <2>3. QED
    BY <1>1, <2>1, <2>2
<1>5. /\ Interval(b, b + c - 1) \in Seq(Int)
      /\ Len(Interval(b, b + c - 1)) = c
      /\ \A i \in 1..c : Interval(b, b + c - 1)[i] = b + i - 1
  BY IntervalIs
<1>6. \A i \in 1..c : Interval(a, a + n - 1)[m + i - 1] = b + i - 1
  <2>1. TAKE i \in 1..c
  <2>2. m + i - 1 \in 1..n
    BY <1>1
  <2>3. Interval(a, a + n - 1)[m + i - 1] = a + (m + i - 1) - 1
    BY <2>2, IntervalIs
  <2>4. QED
    BY <1>2, <2>3
<1>7. \A i \in 1..c : SubSeq(Interval(a, a + n - 1), m, k)[i] = Interval(b, b + c - 1)[i]
  BY <1>4, <1>5, <1>6
<1>8. SubSeq(Interval(a, a + n - 1), m, k) = Interval(b, b + c - 1)
  BY <1>4, <1>5, <1>7, SeqEqual
<1>9. QED
  BY <1>2, <1>3, <1>8

\* The windows of a host: where they start and how many there are.
LEMMA StampsAre ==
    ASSUME NEW tbl \in Tables, NEW h \in CaptureHosts
    PROVE  \E a \in Int, n \in Nat :
              /\ tbl[h][1] = a /\ tbl[h][2] = a + n - 1
              /\ Stamps(tbl, h) = Interval(a, a + n - 1)
              /\ WindowsOf(tbl, h) = a..a + n - 1
<1>1. tbl[h] \in {NoWindows} \cup {w \in (0 .. LastSlot) \X (0 .. LastSlot) : w[1] <= w[2]}
  BY DEF Tables
<1>2. tbl[h][1] \in Int /\ tbl[h][2] \in Int /\ tbl[h][2] - tbl[h][1] + 1 \in Nat
  <2>1. CASE tbl[h] = NoWindows
    BY <2>1 DEF NoWindows
  <2>2. CASE tbl[h] \in {w \in (0 .. LastSlot) \X (0 .. LastSlot) : w[1] <= w[2]}
    BY <2>2, AnalysisAssumption
  <2>3. QED
    BY <1>1, <2>1, <2>2
<1>3. PICK a \in Int : a = tbl[h][1]
  BY <1>2
<1>4. PICK n \in Nat : n = tbl[h][2] - a + 1
  BY <1>2, <1>3
<1>5. tbl[h][2] = a + n - 1
  BY <1>2, <1>3, <1>4
<1>6. QED
  BY <1>3, <1>5 DEF Stamps, WindowsOf

\* Every position of the busiest is taken by one of the hosts.
LEMMA BusiestAre ==
    ASSUME NEW tbl \in Tables, NEW hosts \in SUBSET CaptureHosts
    PROVE  /\ IsFiniteSet(hosts) /\ Cardinality(hosts) \in Nat
           /\ Busiest(tbl, hosts) \in Seq(hosts)
           /\ Len(Busiest(tbl, hosts)) = Cardinality(hosts)
<1>1. IsFiniteSet(hosts) /\ Cardinality(hosts) \in Nat
  BY FS_Subset, FS_CardinalityType, AnalysisAssumption
<1>2. \A h \in hosts : Len(Stamps(tbl, h)) \in Nat /\ h \in Nat
  BY StampsAre, IntervalIs, AnalysisAssumption
<1>3. PICK R : R = {p \in hosts \X hosts : Busier(tbl, p[1], p[2])}
  OBVIOUS
<1>4. \A g, h \in hosts : <<g, h>> \in R <=> Busier(tbl, g, h)
  BY <1>3
<1>5. IsTotalOrder(hosts, R)
  <2>1. PICK f : f = [h \in hosts |-> Len(Stamps(tbl, h))]
    OBVIOUS
  <2>2. \A h \in hosts : f[h] \in Nat /\ h \in Nat
    BY <1>2, <2>1
  <2>3. \A g, h \in hosts : <<g, h>> \in R <=> f[g] > f[h] \/ (f[g] = f[h] /\ g < h)
    BY <1>4, <2>1 DEF Busier
  <2>4. \A x \in hosts : <<x, x>> \notin R
    BY <2>2, <2>3
  <2>5. \A x, y, z \in hosts : <<x, y>> \in R /\ <<y, z>> \in R => <<x, z>> \in R
    BY <2>2, <2>3
  <2>6. \A x, y \in hosts : x = y \/ <<x, y>> \in R \/ <<y, x>> \in R
    <3>1. \A x, y \in hosts : x = y \/ x < y \/ y < x
      BY <2>2
    <3>2. \A x, y \in hosts : f[x] = f[y] \/ f[x] < f[y] \/ f[y] < f[x]
      BY <2>2
    <3>3. QED
      BY <2>2, <2>3, <3>1, <3>2
  <2>7. QED
    BY <2>4, <2>5, <2>6 DEF IsTotalOrder
<1>6. \A h \in hosts : {g \in hosts : Busier(tbl, g, h)} = Before(hosts, R, h)
  BY <1>4 DEF Before
<1>7. \A i \in 1..Cardinality(hosts) :
         \E h \in hosts : Cardinality({g \in hosts : Busier(tbl, g, h)}) = i - 1
  <2>1. TAKE i \in 1..Cardinality(hosts)
  <2>2. i - 1 \in 0..Cardinality(hosts) - 1
    BY <1>1
  <2>3. \A j \in 0..Cardinality(hosts) - 1 : \E h \in hosts : Cardinality(Before(hosts, R, h)) = j
    BY <1>1, <1>5, RankOfOrder
  <2>4. PICK h \in hosts : Cardinality(Before(hosts, R, h)) = i - 1
    BY <2>2, <2>3
  <2>5. QED
    BY <1>6, <2>4
<1>8. \A i \in 1..Cardinality(hosts) :
         (CHOOSE h \in hosts : Cardinality({g \in hosts : Busier(tbl, g, h)}) = i - 1) \in hosts
  BY <1>7
<1>9. Busiest(tbl, hosts) \in [1..Cardinality(hosts) -> hosts]
  BY <1>8 DEF Busiest
<1>10. QED
  BY <1>1, <1>9

\* A span ends with its host's windows and is one of their last parts.
LEMMA SpanIs ==
    ASSUME NEW tbl \in Tables, NEW h \in EligibleHosts(tbl)
    PROVE  \E a \in Int, n \in Nat :
              /\ span(tbl, h) = Interval(a, a + n - 1) /\ Len(span(tbl, h)) = n
              /\ a..a + n - 1 \subseteq WindowsOf(tbl, h)
<1>1. PICK a \in Int, n \in Nat : /\ Stamps(tbl, h) = Interval(a, a + n - 1)
                                  /\ WindowsOf(tbl, h) = a..a + n - 1
  BY StampsAre DEF EligibleHosts
<1>2. Len(Stamps(tbl, h)) = n
  BY <1>1, IntervalIs
<1>3. PICK kept \in Nat : kept = Kept
  BY AnalysisAssumption DEF Kept
<1>4. CASE n > kept
  <2>1. n - kept + 1 \in 1..n + 1 /\ n \in (n - kept + 1) - 1..n
    BY <1>4
  <2>2. SubSeq(Interval(a, a + n - 1), n - kept + 1, n)
          = Interval(a + (n - kept + 1) - 1, a + n - 1)
    BY <2>1, SubInterval
  <2>3. PICK b \in Int : b = a + n - kept
    OBVIOUS
  <2>4. span(tbl, h) = Interval(b, b + kept - 1)
    <3>1. span(tbl, h) = SubSeq(Interval(a, a + n - 1), n - kept + 1, n)
      BY <1>1, <1>2, <1>3, <1>4 DEF span
    <3>2. a + (n - kept + 1) - 1 = b /\ a + n - 1 = b + kept - 1
      BY <2>3
    <3>3. QED
      BY <2>2, <3>1, <3>2
  <2>5. b..b + kept - 1 \subseteq a..a + n - 1
    BY <1>4, <2>3
  <2>6. Len(span(tbl, h)) = kept
    BY <2>4, IntervalIs
  <2>7. QED
    BY <1>1, <2>4, <2>5, <2>6
<1>5. CASE ~(n > kept)
  BY <1>1, <1>2, <1>3, <1>5 DEF span
<1>6. QED
  BY <1>4, <1>5

\* A capture long enough has a first host no other candidate beats.
LEMMA DefinerIs ==
    ASSUME NEW tbl \in Tables, Definer(tbl) # 0
    PROVE  Definer(tbl) \in Definers(tbl)
<1>1. EligibleHosts(tbl) \in SUBSET CaptureHosts
  BY DEF EligibleHosts
<1>2. /\ eligible(tbl) \in Seq(EligibleHosts(tbl))
      /\ Len(eligible(tbl)) = Cardinality(EligibleHosts(tbl))
      /\ Cardinality(EligibleHosts(tbl)) \in Nat
  BY <1>1, BusiestAre DEF eligible
<1>3. PICK D : D = Definers(tbl)
  OBVIOUS
<1>4. D \in SUBSET (1..Candidates) /\ Candidates \in Nat
  BY <1>2, <1>3, AnalysisAssumption DEF Definers
<1>5. IsFiniteSet(D)
  BY <1>4, FS_Interval, FS_Subset, 1 \in Int, Candidates \in Int
<1>6. PICK f : f = [i \in D |-> Score(tbl, eligible(tbl)[i])]
  OBVIOUS
<1>7. \A i \in D : f[i][1] \in Nat /\ f[i][2] \in Nat /\ f[i] = <<f[i][1], f[i][2]>>
  <2>1. TAKE i \in D
  <2>2. PICK h \in EligibleHosts(tbl) : h = eligible(tbl)[i]
    BY <1>2, <1>3 DEF Definers
  <2>3. PICK a \in Int, n \in Nat : /\ span(tbl, h) = Interval(a, a + n - 1)
                                    /\ Len(span(tbl, h)) = n
    BY SpanIs
  <2>4. n >= ContextLength + 1
    BY <1>3, <2>2, <2>3 DEF Definers
  <2>5. Len(Displayed(span(tbl, h))) \in Nat
    <3>1. PICK s \in Seq(Int) : s = span(tbl, h) /\ Len(s) = n
      BY <2>3, IntervalIs
    <3>2. ContextLength \in 1..Len(s) + 1 /\ Len(s) \in ContextLength - 1..Len(s)
      BY <2>4, <3>1, AnalysisAssumption
    <3>3. SubSeq(s, ContextLength, Len(s)) \in Seq(Int)
      BY <3>2, SubSeqProperties
    <3>4. QED
      BY <3>1, <3>3 DEF Displayed
  <2>6. Holding(tbl, span(tbl, h)) \in SUBSET CaptureHosts
    BY DEF Holding, EligibleHosts
  <2>7. Len(Covering(tbl, span(tbl, h))) \in Nat
    BY <2>6, BusiestAre DEF Covering
  <2>8. PICK c \in Nat : c = IF Len(Covering(tbl, span(tbl, h))) > MaxShownHosts THEN MaxShownHosts
                             ELSE Len(Covering(tbl, span(tbl, h)))
    BY <2>7, AnalysisAssumption
  <2>9. f[i] = <<c, Len(Displayed(span(tbl, h)))>>
    BY <1>6, <2>2, <2>8 DEF Score
  <2>10. QED
    BY <2>5, <2>9
<1>8. PICK R : R = {p \in D \X D : \/ f[p[1]][1] > f[p[2]][1]
                                   \/ f[p[1]][1] = f[p[2]][1] /\ f[p[1]][2] > f[p[2]][2]
                                   \/ f[p[1]] = f[p[2]] /\ p[1] < p[2]}
  OBVIOUS
<1>9. PICK u : u = [i \in D |-> f[i][1]]
  OBVIOUS
<1>10. PICK v : v = [i \in D |-> f[i][2]]
  OBVIOUS
<1>11. \A i \in D : u[i] \in Nat /\ v[i] \in Nat /\ i \in Nat
  BY <1>4, <1>7, <1>9, <1>10
<1>12. \A i, j \in D : f[i] = f[j] <=> u[i] = u[j] /\ v[i] = v[j]
  BY <1>7, <1>9, <1>10
<1>13. \A i, j \in D : <<i, j>> \in R <=> \/ u[i] > u[j]
                                          \/ u[i] = u[j] /\ v[i] > v[j]
                                          \/ u[i] = u[j] /\ v[i] = v[j] /\ i < j
  BY <1>8, <1>9, <1>10, <1>12
<1>14. IsTotalOrder(D, R)
  <2>1. \A x \in D : <<x, x>> \notin R
    BY <1>11, <1>13
  <2>2. \A x, y, z \in D : <<x, y>> \in R /\ <<y, z>> \in R => <<x, z>> \in R
    BY <1>11, <1>13
  <2>3. \A x, y \in D : x = y \/ <<x, y>> \in R \/ <<y, x>> \in R
    <3>1. \A x, y \in D : x = y \/ x < y \/ y < x
      BY <1>11
    <3>2. \A x, y \in D : u[x] = u[y] \/ u[x] < u[y] \/ u[y] < u[x]
      BY <1>11
    <3>3. \A x, y \in D : v[x] = v[y] \/ v[x] < v[y] \/ v[y] < v[x]
      BY <1>11
    <3>4. QED
      BY <1>11, <1>13, <3>1, <3>2, <3>3
  <2>4. QED
    BY <2>1, <2>2, <2>3 DEF IsTotalOrder
<1>15. D # {}
  BY <1>3 DEF Definer
<1>16. PICK x \in D : \A j \in D : x = j \/ <<x, j>> \in R
  <2>1. 0 \in 0..Cardinality(D) - 1
    BY <1>5, <1>15, FS_CardinalityType, FS_EmptySet
  <2>2. \A i \in 0..Cardinality(D) - 1 : \E x \in D : Cardinality(Before(D, R, x)) = i
    BY <1>5, <1>14, RankOfOrder
  <2>3. PICK x \in D : Cardinality(Before(D, R, x)) = 0
    BY <2>1, <2>2
  <2>4. IsFiniteSet(Before(D, R, x))
    BY <1>5, FS_Subset DEF Before
  <2>5. Before(D, R, x) = {}
    BY <2>3, <2>4, FS_EmptySet
  <2>6. \A j \in D : x = j \/ <<x, j>> \in R
    BY <1>14, <2>5 DEF Before, IsTotalOrder
  <2>7. QED
    BY <2>6
<1>17. \A j \in D : Beats(f[x], f[j]) \/ (f[x] = f[j] /\ x <= j)
  <2>1. TAKE j \in D
  <2>2. Beats(f[x], f[j]) <=> u[x] > u[j] \/ (u[x] = u[j] /\ v[x] > v[j])
    BY <1>9, <1>10 DEF Beats
  <2>3. CASE x = j
    BY <1>11, <2>3
  <2>4. CASE <<x, j>> \in R
    BY <1>11, <1>12, <1>13, <2>2, <2>4
  <2>5. QED
    BY <1>16, <2>3, <2>4
<1>18. \A j \in Definers(tbl) :
          LET a == Score(tbl, eligible(tbl)[x])
              b == Score(tbl, eligible(tbl)[j])
          IN Beats(a, b) \/ (a = b /\ x <= j)
  BY <1>3, <1>6, <1>17
<1>19. QED
  BY <1>3, <1>15, <1>18 DEF Definer

\* What is left of an interval of windows after the run-up.
LEMMA DisplayedIs ==
    ASSUME NEW a \in Int, NEW n \in Nat, n >= ContextLength + 1
    PROVE  Displayed(Interval(a, a + n - 1)) = Interval(a + ContextLength - 1, a + n - 1)
<1>1. PICK l \in Nat \ {0} : l = ContextLength
  BY AnalysisAssumption
<1>2. l \in 1..n + 1 /\ n \in l - 1..n
  BY <1>1
<1>3. SubSeq(Interval(a, a + n - 1), l, n) = Interval(a + l - 1, a + n - 1)
  BY <1>2, SubInterval
<1>4. QED
  BY <1>1, <1>3, IntervalIs DEF Displayed

\* A forecast for each of d windows from c on, each from the rows that end there.
Aligned(series, c, d) ==
    /\ Len(series) = d
    /\ \A t \in 1..d :
          /\ series[t].origin = c + t - 1
          /\ series[t].context = Interval(c + t - ContextLength, c + t - 1)

\* Where in a host's windows a forecast ends.
LEMMA EndIs ==
    ASSUME NEW p \in Int, NEW m \in Nat, NEW w \in p..p + m - 1
    PROVE  (CHOOSE i \in 1..Len(Interval(p, p + m - 1)) : Interval(p, p + m - 1)[i] = w) = w - p + 1
<1>1. /\ Len(Interval(p, p + m - 1)) = m
      /\ \A i \in 1..m : Interval(p, p + m - 1)[i] = p + i - 1
  BY IntervalIs
<1>2. PICK e \in 1..m : e = w - p + 1
  OBVIOUS
<1>3. \A i \in 1..m : p + i - 1 = w <=> i = e
  BY <1>2
<1>4. \A i \in 1..m : Interval(p, p + m - 1)[i] = w <=> i = e
  BY <1>1, <1>3
<1>5. QED
  BY <1>1, <1>2, <1>4

\* A host that holds a span has a forecast at each of its displayed windows.
LEMMA ForecastIs ==
    ASSUME NEW tbl \in Tables, NEW h \in EligibleHosts(tbl),
           NEW a \in Int, NEW n \in Nat, n >= ContextLength + 1,
           a..a + n - 1 \subseteq WindowsOf(tbl, h)
    PROVE  Aligned(forecast_host(tbl, h, Interval(a + ContextLength - 1, a + n - 1)),
                   a + ContextLength - 1, n - ContextLength + 1)
<1>1. PICK l \in Nat \ {0} : l = ContextLength
  BY AnalysisAssumption
<1>2. PICK p \in Int, m \in Nat : /\ Stamps(tbl, h) = Interval(p, p + m - 1)
                                  /\ WindowsOf(tbl, h) = p..p + m - 1
  BY StampsAre DEF EligibleHosts
<1>3. a \in p..p + m - 1 /\ a + n - 1 \in p..p + m - 1
  <2>1. a \in a..a + n - 1 /\ a + n - 1 \in a..a + n - 1
    BY <1>1
  <2>2. QED
    BY <1>2, <2>1
<1>4. PICK c \in Int : c = a + l - 1
  OBVIOUS
<1>5. PICK d \in Nat : d = n - l + 1
  BY <1>1
<1>6. a + n - 1 = c + d - 1
  BY <1>4, <1>5
<1>7. PICK timeline : timeline = Interval(c, c + d - 1)
  OBVIOUS
<1>8. Len(timeline) = d /\ \A t \in 1..d : timeline[t] = c + t - 1
  BY <1>7, IntervalIs
<1>9. PICK F : F = forecast_host(tbl, h, timeline)
  OBVIOUS
<1>10. ASSUME NEW t \in 1..d
       PROVE  F[t].origin = c + t - 1 /\ F[t].context = Interval(c + t - l, c + t - 1)
  <2>1. PICK w \in Int : w = c + t - 1
    OBVIOUS
  <2>2. w \in p..p + m - 1 /\ w - p + 1 >= l
    BY <1>3, <1>4, <1>5, <2>1
  <2>3. PICK e \in 1..m : e = w - p + 1
    BY <2>2
  <2>4. (CHOOSE i \in 1..Len(Stamps(tbl, h)) : Stamps(tbl, h)[i] = w) = e
    <3>1. (CHOOSE i \in 1..Len(Interval(p, p + m - 1)) : Interval(p, p + m - 1)[i] = w) = w - p + 1
      BY <2>2, EndIs
    <3>2. QED
      BY <1>2, <2>3, <3>1, Zenon
  <2>5. timeline[t] = w
    BY <1>8, <2>1
  <2>6. F[t] = [origin |-> w,
                context |-> SubSeq(Stamps(tbl, h), IF e >= ContextLength THEN e - ContextLength + 1 ELSE 1, e)]
    <3>1. F = [i \in 1..Len(timeline) |->
                 [origin |-> timeline[i],
                  context |-> SubSeq(Stamps(tbl, h),
                    IF (CHOOSE j \in 1..Len(Stamps(tbl, h)) : Stamps(tbl, h)[j] = timeline[i]) >= ContextLength
                    THEN (CHOOSE j \in 1..Len(Stamps(tbl, h)) : Stamps(tbl, h)[j] = timeline[i])
                           - ContextLength + 1
                    ELSE 1,
                    CHOOSE j \in 1..Len(Stamps(tbl, h)) : Stamps(tbl, h)[j] = timeline[i])]]
      BY <1>9, Zenon DEF forecast_host
    <3>2. t \in 1..Len(timeline)
      BY <1>8
    <3>3. F[t] = [origin |-> timeline[t],
                  context |-> SubSeq(Stamps(tbl, h),
                    IF (CHOOSE j \in 1..Len(Stamps(tbl, h)) : Stamps(tbl, h)[j] = timeline[t]) >= ContextLength
                    THEN (CHOOSE j \in 1..Len(Stamps(tbl, h)) : Stamps(tbl, h)[j] = timeline[t])
                           - ContextLength + 1
                    ELSE 1,
                    CHOOSE j \in 1..Len(Stamps(tbl, h)) : Stamps(tbl, h)[j] = timeline[t])]
      BY <3>1, <3>2, Zenon
    <3>4. QED
      BY <2>4, <2>5, <3>3, Zenon
  <2>7. F[t] = [origin |-> w, context |-> SubSeq(Interval(p, p + m - 1), e - l + 1, e)]
    BY <1>1, <1>2, <2>2, <2>3, <2>6
  <2>8. e - l + 1 \in 1..m + 1 /\ e \in (e - l + 1) - 1..m
    BY <2>2, <2>3
  <2>9. SubSeq(Interval(p, p + m - 1), e - l + 1, e) = Interval(p + (e - l + 1) - 1, p + e - 1)
    BY <2>8, SubInterval
  <2>10. p + (e - l + 1) - 1 = c + t - l /\ p + e - 1 = c + t - 1
    BY <2>1, <2>3
  <2>11. F[t].origin = w /\ F[t].context = SubSeq(Interval(p, p + m - 1), e - l + 1, e)
    <3>1. PICK rows : rows = SubSeq(Interval(p, p + m - 1), e - l + 1, e)
      OBVIOUS
    <3>2. F[t] = [origin |-> w, context |-> rows]
      BY <2>7, <3>1
    <3>3. QED
      BY <3>1, <3>2
  <2>12. QED
    BY <2>1, <2>9, <2>10, <2>11
<1>11. Len(F) = d
  BY <1>8, <1>9 DEF forecast_host
<1>12. Aligned(F, c, d)
  BY <1>1, <1>10, <1>11 DEF Aligned
<1>13. QED
  BY <1>1, <1>4, <1>5, <1>6, <1>7, <1>9, <1>12

\* The numbers of an interval, in ascending order.
LEMMA AscendingIs ==
    ASSUME NEW o \in Int, NEW k \in Nat
    PROVE  Ascending(o + 1..o + k) = Interval(o + 1, o + k) /\ Len(Ascending(o + 1..o + k)) = k
<1>1. PICK p \in Int : p = o + 1
  OBVIOUS
<1>2. PICK q \in Int : q = o + k
  OBVIOUS
<1>3. Cardinality(p..q) = k
  BY <1>1, <1>2, FS_Interval
<1>4. \A ts \in p..q : Cardinality({u \in p..q : u < ts}) = ts - p
  <2>1. TAKE ts \in p..q
  <2>2. PICK r \in Int : r = ts - 1
    OBVIOUS
  <2>3. {u \in p..q : u < ts} = p..r
    BY <2>2
  <2>4. Cardinality(p..r) = IF p > r THEN 0 ELSE r - p + 1
    BY FS_Interval
  <2>5. (IF p > r THEN 0 ELSE r - p + 1) = ts - p
    BY <2>2
  <2>6. QED
    BY <2>3, <2>4, <2>5
<1>5. \A n \in 1..k :
         (CHOOSE ts \in p..q : Cardinality({u \in p..q : u < ts}) = n - 1) = p + n - 1
  <2>1. TAKE n \in 1..k
  <2>2. PICK x \in p..q : x = p + n - 1
    BY <1>1, <1>2
  <2>3. \A ts \in p..q : ts - p = n - 1 <=> ts = x
    BY <2>2
  <2>4. \A ts \in p..q : Cardinality({u \in p..q : u < ts}) = n - 1 <=> ts = x
    BY <1>4, <2>3
  <2>5. QED
    BY <2>2, <2>4
<1>6. Ascending(p..q) = [n \in 1..k |-> p + n - 1]
  BY <1>3, <1>5 DEF Ascending
<1>7. q - p + 1 = k
  BY <1>1, <1>2
<1>8. Interval(p, q) = [n \in 1..k |-> p + n - 1]
  BY <1>7 DEF Interval
<1>9. Len([n \in 1..k |-> p + n - 1]) = k
  OBVIOUS
<1>10. QED
  BY <1>1, <1>2, <1>6, <1>8, <1>9

\* The outcome marks of a forecast are those of its first horizons.
LEMMA OverlayIs ==
    ASSUME NEW series, NEW c \in Int, NEW d \in Nat, Aligned(series, c, d), NEW t \in 1..d
    PROVE  realityOverlay(series, t)
             = Interval(series[t].origin + 1, series[t].origin + Len(realityOverlay(series, t)))
<1>1. PICK H \in Nat : H = HorizonLength
  BY AnalysisAssumption
<1>2. PICK o \in Int : o = c + t - 1
  OBVIOUS
<1>3. PICK k \in Nat : k = IF H < d - t THEN H ELSE d - t
  OBVIOUS
<1>4. Len(series) = d /\ \A j \in 1..d : series[j].origin = c + j - 1
  BY DEF Aligned
<1>5. \A ts \in Int : (\E j \in 1..d : series[j].origin = ts) <=> ts \in c..c + d - 1
  <2>1. TAKE ts \in Int
  <2>2. ASSUME ts \in c..c + d - 1 PROVE \E j \in 1..d : series[j].origin = ts
    <3>1. PICK j \in 1..d : j = ts - c + 1
      BY <2>2
    <3>2. c + j - 1 = ts
      BY <3>1
    <3>3. series[j].origin = ts
      BY <1>4, <3>2
    <3>4. QED
      BY <3>3
  <2>3. QED
    BY <1>4, <2>2
<1>6. {ts \in o + 1..o + H : \E j \in 1..d : series[j].origin = ts} = o + 1..o + k
  <2>1. o + 1..o + H \subseteq Int
    OBVIOUS
  <2>2. \A ts \in o + 1..o + H : ts \in c..c + d - 1 <=> ts \in o + 1..o + k
    BY <1>2, <1>3
  <2>3. o + 1..o + k \subseteq o + 1..o + H
    BY <1>3
  <2>4. QED
    BY <1>5, <2>1, <2>2, <2>3
<1>7. series[t].origin = o
  BY <1>2, <1>4
<1>8. realityOverlay(series, t) = Ascending(o + 1..o + k)
  BY <1>1, <1>4, <1>6, <1>7 DEF realityOverlay
<1>9. Ascending(o + 1..o + k) = Interval(o + 1, o + k) /\ Len(Ascending(o + 1..o + k)) = k
  BY AscendingIs
<1>10. PICK marks : marks = realityOverlay(series, t)
  OBVIOUS
<1>11. marks = Interval(o + 1, o + k) /\ Len(marks) = k
  BY <1>8, <1>9, <1>10
<1>12. QED
  BY <1>7, <1>10, <1>11

\* Every host shown is forecast at the same displayed windows.
LEMMA ShownAreAligned ==
    ASSUME NEW tbl \in Tables, analyze(tbl) # <<>>
    PROVE  \E c \in Int, d \in Nat \ {0} :
              \A i \in 1..Len(analyze(tbl)) : Aligned(analyze(tbl)[i].series, c, d)
<1>1. Definer(tbl) # 0
  BY DEF analyze
<1>2. PICK definer : definer = Definer(tbl) /\ definer \in Definers(tbl)
  BY <1>1, DefinerIs
<1>3. EligibleHosts(tbl) \in SUBSET CaptureHosts
  BY DEF EligibleHosts
<1>4. eligible(tbl) \in Seq(EligibleHosts(tbl))
  BY <1>3, BusiestAre DEF eligible
<1>5. PICK g \in EligibleHosts(tbl) : g = eligible(tbl)[definer]
  BY <1>2, <1>4 DEF Definers
<1>6. PICK a \in Int, n \in Nat : /\ span(tbl, g) = Interval(a, a + n - 1)
                                  /\ Len(span(tbl, g)) = n
  BY SpanIs
<1>7. n >= ContextLength + 1
  BY <1>2, <1>5, <1>6 DEF Definers
<1>8. PICK stamps : stamps = span(tbl, g)
  OBVIOUS
<1>9. Holding(tbl, stamps) \in SUBSET CaptureHosts
  BY <1>3 DEF Holding
<1>10. PICK covering \in Seq(Holding(tbl, stamps)) : covering = Covering(tbl, stamps)
  BY <1>9, BusiestAre DEF Covering
<1>11. PICK k \in Nat : k = (IF Len(covering) > MaxShownHosts THEN MaxShownHosts ELSE Len(covering))
                        /\ k <= Len(covering)
  BY AnalysisAssumption
<1>12. PICK shown : shown = SubSeq(covering, 1, k)
  OBVIOUS
<1>13. Len(shown) = k /\ \A i \in 1..k : shown[i] \in Holding(tbl, stamps)
  <2>1. PICK H : H = Holding(tbl, stamps)
    OBVIOUS
  <2>2. covering \in Seq(H) /\ 1 \in 1..Len(covering) + 1 /\ k \in 1 - 1..Len(covering)
    BY <1>11, <2>1
  <2>3. SubSeq(covering, 1, k) \in Seq(H)
    BY <2>2, SubSeqProperties
  <2>4. Len(SubSeq(covering, 1, k)) = IF 1 <= k THEN k - 1 + 1 ELSE 0
    BY <2>2, SubSeqProperties
  <2>5. Len(shown) = k
    BY <1>12, <2>4
  <2>6. QED
    BY <1>12, <2>1, <2>3, <2>5
<1>14. analyze(tbl) = [i \in 1..k |->
          [host |-> shown[i], series |-> forecast_host(tbl, shown[i], Displayed(stamps))]]
  BY <1>1, <1>2, <1>5, <1>8, <1>10, <1>11, <1>12, <1>13 DEF analyze
<1>15. Len(analyze(tbl)) = k
  BY <1>14
<1>16. PICK l \in Nat : l = ContextLength
  BY AnalysisAssumption
<1>17. PICK c \in Int : c = a + l - 1
  OBVIOUS
<1>18. PICK d \in Nat \ {0} : d = n - l + 1
  BY <1>7, <1>16
<1>19. \A h \in Holding(tbl, stamps) : a..a + n - 1 \subseteq WindowsOf(tbl, h)
  <2>1. TAKE h \in Holding(tbl, stamps)
  <2>2. Len(stamps) = n /\ \A i \in 1..n : stamps[i] = a + i - 1
    <3>1. stamps = Interval(a, a + n - 1)
      BY <1>6, <1>8
    <3>2. Len(Interval(a, a + n - 1)) = n /\ \A i \in 1..n : Interval(a, a + n - 1)[i] = a + i - 1
      BY IntervalIs
    <3>3. QED
      BY <3>1, <3>2, Zenon
  <2>3. {stamps[i] : i \in 1..n} \subseteq WindowsOf(tbl, h)
    BY <2>2 DEF Holding
  <2>4. ASSUME NEW w \in a..a + n - 1 PROVE w \in WindowsOf(tbl, h)
    <3>1. PICK i \in 1..n : i = w - a + 1
      OBVIOUS
    <3>2. stamps[i] = w
      BY <2>2, <3>1
    <3>3. QED
      BY <2>3, <3>2
  <2>5. QED
    BY <2>4
<1>20. Displayed(stamps) = Interval(a + ContextLength - 1, a + n - 1)
  BY <1>6, <1>7, <1>8, DisplayedIs
<1>21. \A h \in Holding(tbl, stamps) : Aligned(forecast_host(tbl, h, Displayed(stamps)), c, d)
  BY <1>7, <1>16, <1>17, <1>18, <1>19, <1>20, ForecastIs DEF Holding
<1>22. \A i \in 1..k : analyze(tbl)[i].series = forecast_host(tbl, shown[i], Displayed(stamps))
  BY <1>14
<1>23. QED
  BY <1>13, <1>15, <1>21, <1>22

\* What is shown was made of a state table.
AnalysisInv == analysed = <<>> \/ \E tbl \in Tables : analysed = analyze(tbl)

\* What is made of a state table is ranked at one instant.
LEMMA AnalysedIsRanked ==
    ASSUME AnalysisInv PROVE RankedAtOneInstant
<1>1. CASE analysed = <<>>
  BY <1>1 DEF RankedAtOneInstant
<1>2. ASSUME NEW tbl \in Tables, analysed = analyze(tbl), analysed # <<>>
      PROVE  RankedAtOneInstant
  <2>1. PICK c \in Int, d \in Nat \ {0} : \A i \in 1..Len(analysed) : Aligned(Series(i), c, d)
    BY <1>2, ShownAreAligned DEF Series
  <2>2. ASSUME NEW i \in 1..Len(analysed)
        PROVE  /\ Len(Series(i)) = Len(Series(1)) /\ Len(Series(i)) > 0
               /\ \A t \in 1 .. Len(Series(i)) :
                     /\ Series(i)[t].origin = Series(1)[t].origin
                     /\ Series(i)[t].context = Interval(Series(i)[t].origin - ContextLength + 1,
                                                        Series(i)[t].origin)
                     /\ realityOverlay(Series(i), t)
                          = Interval(Series(i)[t].origin + 1,
                                     Series(i)[t].origin + Len(realityOverlay(Series(i), t)))
    <3>1. 1 \in 1..Len(analysed)
      OBVIOUS
    <3>2. Aligned(Series(i), c, d) /\ Aligned(Series(1), c, d)
      BY <2>1, <3>1
    <3>3. Len(Series(i)) = d /\ Len(Series(1)) = d
      BY <3>2 DEF Aligned
    <3>4. ASSUME NEW t \in 1..d
          PROVE  /\ Series(i)[t].origin = Series(1)[t].origin
                 /\ Series(i)[t].context = Interval(Series(i)[t].origin - ContextLength + 1,
                                                    Series(i)[t].origin)
      <4>1. PICK l \in Nat : l = ContextLength
        BY AnalysisAssumption
      <4>2. PICK o \in Int : o = c + t - 1
        OBVIOUS
      <4>3. c + t - l = o - l + 1
        BY <4>2
      <4>4. QED
        BY <3>2, <4>1, <4>2, <4>3 DEF Aligned
    <3>5. \A t \in 1..d : realityOverlay(Series(i), t)
             = Interval(Series(i)[t].origin + 1,
                        Series(i)[t].origin + Len(realityOverlay(Series(i), t)))
      BY <3>2, OverlayIs
    <3>6. QED
      BY <3>3, <3>4, <3>5
  <2>3. QED
    BY <2>2 DEF RankedAtOneInstant
<1>3. QED
  BY <1>1, <1>2 DEF AnalysisInv

\* An analysis is of the state table it arrives with.
LEMMA AnalysisInvariant == AnalysisSpec => []AnalysisInv
<1>1. AnalysisInit => AnalysisInv
  BY DEF AnalysisInit, AnalysisInv
<1>2. AnalysisInv /\ [AnalysisNext]_analysisVars => AnalysisInv'
  BY DEF AnalysisInv, AnalysisNext, Analyse, analysisVars, Tables
<1>3. QED
  BY <1>1, <1>2, PTL DEF AnalysisSpec

(* scripts/analyze_pcap.py shows hosts whose forecasts are, index by index, *)
(* of the same window and from full context, whatever the capture, and the  *)
(* console draws each outcome on the horizon it belongs to.                 *)
THEOREM RankedAtOneInstantHolds == AnalysisSpec => []RankedAtOneInstant
<1>1. AnalysisInv => RankedAtOneInstant
  BY AnalysedIsRanked
<1>2. QED
  BY <1>1, AnalysisInvariant, PTL

-----------------------------------------------------------------------------
(***************************************************************************)
(* The parsers.  What a file and its events are, for any file f.           *)
(***************************************************************************)
FileRow == [ts : {Unparseable, 1, 2}, ips : BOOLEAN, numeric : BOOLEAN, warns : BOOLEAN]
IsFile(f) ==
    /\ f.format \in {"csv", "pcap"} /\ f.rows \in Seq(FileRow) /\ f.breaks \in Nat \ {0}
    /\ f.format = "pcap" => \A i \in 1..Len(f.rows) : f.rows[i].ts = 1
UsableIn(f, i) == f.rows[i].ts # Unparseable /\ f.rows[i].ips
ReadableOf(f) == IF f.breaks <= Len(f.rows) THEN f.breaks - 1 ELSE Len(f.rows)
PrecedesIn(f, i, j) ==
    \/ f.rows[i].ts < f.rows[j].ts
    \/ f.rows[i].ts = f.rows[j].ts /\ i < j

EventRecord == [row : Nat, ts : Nat, fields : Nat]
IsEventOf(f, e) ==
    /\ e.row \in 1..Len(f.rows) /\ UsableIn(f, e.row)
    /\ e.ts = f.rows[e.row].ts
    /\ e.fields = IF f.rows[e.row].numeric THEN e.row ELSE 0

\* Events of distinct rows, in order of time; the rows they are of.
Batch(f, events) ==
    /\ events \in Seq(EventRecord)
    /\ \A n \in 1..Len(events) : IsEventOf(f, events[n])
    /\ \A n, o \in 1..Len(events) :
          n < o => events[n].row # events[o].row /\ events[n].ts <= events[o].ts
Holds(events, i) == \E n \in 1..Len(events) : events[n].row = i

\* Batches one after the other, and the rows in them.
Out(cs, i) == \E m \in 1..Len(cs) : Holds(cs[m], i)
Chunked(f, cs) ==
    /\ cs \in Seq(Seq(EventRecord))
    /\ \A m \in 1..Len(cs) : Batch(f, cs[m])
    /\ \A m, k \in 1..Len(cs) : m < k => \A i, j : Holds(cs[m], i) /\ Holds(cs[k], j) => i < j
After(cs, events) == \A i, j : Out(cs, i) /\ Holds(events, j) => i < j

\* What was yielded stays in order when a later batch follows it.
LEMMA YieldKeepsOrder ==
    ASSUME NEW f, NEW cs, Chunked(f, cs), NEW events, Batch(f, events), After(cs, events),
           NEW ds, ds = IF events = <<>> THEN cs ELSE Append(cs, events)
    PROVE  /\ Chunked(f, ds)
           /\ \A i : Out(ds, i) <=> Out(cs, i) \/ Holds(events, i)
<1>1. /\ cs \in Seq(Seq(EventRecord)) /\ Len(cs) \in Nat
      /\ events \in Seq(EventRecord) /\ Len(events) \in Nat
  BY DEF Chunked, Batch
<1>2. CASE events = <<>>
  <2>1. \A i : ~Holds(events, i)
    BY <1>2 DEF Holds
  <2>2. ds = cs
    BY <1>2
  <2>3. QED
    BY <2>1, <2>2
<1>3. CASE events # <<>>
  <2>1. ds = Append(cs, events)
    BY <1>3
  <2>2. /\ ds \in Seq(Seq(EventRecord)) /\ Len(ds) = Len(cs) + 1
        /\ \A m \in 1..Len(cs) : ds[m] = cs[m]
        /\ ds[Len(cs) + 1] = events
    BY <1>1, <2>1
  <2>3. \A m \in 1..Len(ds) : Batch(f, ds[m])
    <3>1. TAKE m \in 1..Len(ds)
    <3>2. CASE m = Len(cs) + 1
      BY <2>2, <3>2
    <3>3. CASE m # Len(cs) + 1
      <4>1. m \in 1..Len(cs)
        BY <1>1, <2>2, <3>3
      <4>2. QED
        BY <2>2, <4>1 DEF Chunked
    <3>4. QED
      BY <3>2, <3>3
  <2>4. \A i : Out(ds, i) <=> Out(cs, i) \/ Holds(events, i)
    <3>1. TAKE i
    <3>2. ASSUME Out(ds, i) PROVE Out(cs, i) \/ Holds(events, i)
      <4>1. PICK m \in 1..Len(ds) : Holds(ds[m], i)
        BY <3>2 DEF Out
      <4>2. m = Len(cs) + 1 \/ m \in 1..Len(cs)
        BY <1>1, <2>2
      <4>3. QED
        BY <2>2, <4>1, <4>2 DEF Out
    <3>3. ASSUME Out(cs, i) PROVE Out(ds, i)
      <4>1. PICK m \in 1..Len(cs) : Holds(cs[m], i)
        BY <3>3 DEF Out
      <4>2. m \in 1..Len(ds) /\ ds[m] = cs[m]
        BY <1>1, <2>2
      <4>3. QED
        BY <4>1, <4>2 DEF Out
    <3>4. ASSUME Holds(events, i) PROVE Out(ds, i)
      <4>1. Len(cs) + 1 \in 1..Len(ds)
        BY <1>1, <2>2
      <4>2. QED
        BY <2>2, <3>4, <4>1 DEF Out
    <3>5. QED
      BY <3>2, <3>3, <3>4
  <2>5. \A m, k \in 1..Len(ds) : m < k => \A i, j : Holds(ds[m], i) /\ Holds(ds[k], j) => i < j
    <3>1. SUFFICES ASSUME NEW m \in 1..Len(ds), NEW k \in 1..Len(ds), m < k,
                          NEW i, NEW j, Holds(ds[m], i), Holds(ds[k], j)
                   PROVE  i < j
      OBVIOUS
    <3>2. m \in 1..Len(cs) /\ ds[m] = cs[m]
      BY <1>1, <2>2, <3>1
    <3>3. CASE k = Len(cs) + 1
      <4>1. Out(cs, i) /\ Holds(events, j)
        BY <2>2, <3>1, <3>2, <3>3 DEF Out
      <4>2. QED
        BY <4>1 DEF After
    <3>4. CASE k # Len(cs) + 1
      <4>1. k \in 1..Len(cs) /\ ds[k] = cs[k]
        BY <1>1, <2>2, <3>4
      <4>2. QED
        BY <3>1, <3>2, <4>1 DEF Chunked
    <3>5. QED
      BY <3>3, <3>4
  <2>6. QED
    BY <2>2, <2>3, <2>4, <2>5 DEF Chunked
<1>4. QED
  BY <1>2, <1>3

\* The kept rows of a stretch, each once, are in order of time.
LEMMA KeptIsSorted ==
    ASSUME IsFile(file), NEW first \in Nat \ {0}, NEW last \in Nat, last <= Len(file.rows),
           NEW kept, kept = SortedRows(first, last)
    PROVE  /\ DOMAIN kept = 1..Cardinality({i \in first..last : Usable(i)})
           /\ \A n \in DOMAIN kept : kept[n] \in first..last /\ Usable(kept[n])
           /\ \A i \in first..last : Usable(i) => \E n \in DOMAIN kept : kept[n] = i
           /\ \A n, o \in DOMAIN kept : n < o => EarlierRow(kept[n], kept[o])
<1>1. PICK S : S = {i \in first..last : Usable(i)}
  OBVIOUS
<1>2. PICK R : R = {p \in S \X S : EarlierRow(p[1], p[2])}
  OBVIOUS
<1>3. /\ S \subseteq 1..Len(file.rows)
      /\ \A i \in S : i \in Int /\ file.rows[i].ts \in Int
  <2>1. file.rows \in Seq(FileRow) /\ Len(file.rows) \in Nat
    BY DEF IsFile
  <2>2. S \subseteq 1..Len(file.rows)
    BY <1>1, <2>1
  <2>3. \A i \in 1..Len(file.rows) : file.rows[i] \in FileRow
    BY <2>1
  <2>4. \A i \in 1..Len(file.rows) : file.rows[i].ts \in {0, 1, 2}
    BY <2>3 DEF FileRow, Unparseable
  <2>5. \A i \in 1..Len(file.rows) : file.rows[i].ts \in Int /\ i \in Int
    BY <2>1, <2>4
  <2>6. QED
    BY <2>2, <2>5
<1>4. IsFiniteSet(S)
  <2>1. IsFiniteSet(1..last)
    BY CountTo
  <2>2. S \subseteq 1..last
    BY <1>1
  <2>3. QED
    BY <2>1, <2>2, FS_Subset
<1>5. \A i, j \in S : <<i, j>> \in R <=> EarlierRow(i, j)
  BY <1>2
<1>6. IsTotalOrder(S, R)
  <2>1. \A x \in S : <<x, x>> \notin R
    BY <1>3, <1>5 DEF EarlierRow
  <2>2. ASSUME NEW x \in S, NEW y \in S, NEW z \in S, <<x, y>> \in R, <<y, z>> \in R
        PROVE  <<x, z>> \in R
    <3>1. PICK a \in Int, b \in Int, c \in Int :
             a = file.rows[x].ts /\ b = file.rows[y].ts /\ c = file.rows[z].ts
      BY <1>3
    <3>2. (a < b \/ (a = b /\ x < y)) /\ (b < c \/ (b = c /\ y < z))
      BY <1>5, <2>2, <3>1 DEF EarlierRow
    <3>3. a < c \/ (a = c /\ x < z)
      <4>1. x \in Int /\ y \in Int /\ z \in Int
        BY <1>3
      <4>2. QED
        BY <3>2, <4>1
    <3>4. QED
      BY <1>5, <3>1, <3>3 DEF EarlierRow
  <2>3. ASSUME NEW x \in S, NEW y \in S PROVE x = y \/ <<x, y>> \in R \/ <<y, x>> \in R
    BY <1>3, <1>5, <2>3 DEF EarlierRow
  <2>4. QED
    BY <2>1, <2>2, <2>3 DEF IsTotalOrder
<1>7. PICK N \in Nat : N = Cardinality(S)
  BY <1>4, FS_CardinalityType
<1>8. \A i \in S : {j \in S : EarlierRow(j, i)} = Before(S, R, i)
  BY <1>5 DEF Before
<1>9. PICK rank : rank = [i \in S |-> Cardinality(Before(S, R, i))]
  OBVIOUS
<1>10. /\ \A i \in S : rank[i] \in 0..N - 1
       /\ \A i, j \in S : <<i, j>> \in R => rank[i] < rank[j]
       /\ \A i, j \in S : rank[i] = rank[j] => i = j
       /\ \A n \in 0..N - 1 : \E i \in S : rank[i] = n
  BY <1>4, <1>6, <1>7, <1>9, RankOfOrder
<1>11. kept = [n \in 1..N |-> CHOOSE i \in S : rank[i] = n - 1]
  <2>1. kept = [n \in 1..N |-> CHOOSE i \in S : Cardinality({j \in S : EarlierRow(j, i)}) = n - 1]
    BY <1>1, <1>7 DEF SortedRows
  <2>2. ASSUME NEW n \in 1..N
        PROVE  (CHOOSE i \in S : Cardinality({j \in S : EarlierRow(j, i)}) = n - 1)
                  = (CHOOSE i \in S : rank[i] = n - 1)
    <3>1. \A i \in S : Cardinality({j \in S : EarlierRow(j, i)}) = n - 1 <=> rank[i] = n - 1
      BY <1>8, <1>9
    <3>2. QED
      BY <3>1
  <2>3. QED
    BY <2>1, <2>2
<1>12. \A n \in 1..N : kept[n] \in S /\ rank[kept[n]] = n - 1
  <2>1. TAKE n \in 1..N
  <2>2. n - 1 \in 0..N - 1
    OBVIOUS
  <2>3. PICK i \in S : rank[i] = n - 1
    BY <1>10, <2>2
  <2>4. kept[n] = CHOOSE x \in S : rank[x] = n - 1
    BY <1>11
  <2>5. QED
    BY <2>3, <2>4
<1>13. \A n \in 1..N : kept[n] \in first..last /\ Usable(kept[n])
  BY <1>1, <1>12
<1>14. ASSUME NEW i \in first..last, Usable(i) PROVE \E n \in 1..N : kept[n] = i
  <2>1. i \in S /\ rank[i] \in 0..N - 1
    BY <1>1, <1>10, <1>14
  <2>2. PICK n \in 1..N : n = rank[i] + 1
    BY <2>1
  <2>3. rank[kept[n]] = rank[i] /\ kept[n] \in S
    BY <1>12, <2>1, <2>2
  <2>4. QED
    BY <1>10, <2>1, <2>3
<1>15. ASSUME NEW n \in 1..N, NEW o \in 1..N, n < o PROVE EarlierRow(kept[n], kept[o])
  <2>1. /\ kept[n] \in S /\ rank[kept[n]] = n - 1
        /\ kept[o] \in S /\ rank[kept[o]] = o - 1
    BY <1>12
  <2>2. <<kept[o], kept[n]>> \notin R /\ kept[n] # kept[o]
    BY <1>10, <1>15, <2>1
  <2>3. QED
    BY <1>5, <1>6, <2>1, <2>2 DEF IsTotalOrder
<1>16. DOMAIN kept = 1..N
  BY <1>11
<1>17. QED
  BY <1>1, <1>7, <1>13, <1>14, <1>15, <1>16

\* The events of a chunk of a CSV are a batch: its usable rows, each once.
LEMMA ChunkIsBatch ==
    ASSUME IsFile(file), NEW first \in Nat \ {0}, NEW last \in Nat, last <= Len(file.rows),
           NEW events, events = _csv_chunk_to_events(first, last)
    PROVE  /\ Batch(file, events)
           /\ \A i : Holds(events, i) <=> i \in first..last /\ UsableIn(file, i)
<1>1. PICK kept : kept = SortedRows(first, last)
  OBVIOUS
<1>2. PICK N \in Nat : N = Cardinality({i \in first..last : Usable(i)})
  <2>1. {i \in first..last : Usable(i)} \subseteq 1..last
    OBVIOUS
  <2>2. IsFiniteSet({i \in first..last : Usable(i)})
    BY <2>1, CountTo, FS_Subset
  <2>3. QED
    BY <2>2, FS_CardinalityType
<1>3. /\ DOMAIN kept = 1..N
      /\ \A n \in 1..N : kept[n] \in first..last /\ Usable(kept[n])
      /\ \A i \in first..last : Usable(i) => \E n \in 1..N : kept[n] = i
      /\ \A n, o \in 1..N : n < o => EarlierRow(kept[n], kept[o])
  <2>1. /\ DOMAIN kept = 1..Cardinality({i \in first..last : Usable(i)})
        /\ \A n \in DOMAIN kept : kept[n] \in first..last /\ Usable(kept[n])
        /\ \A i \in first..last : Usable(i) => \E n \in DOMAIN kept : kept[n] = i
        /\ \A n, o \in DOMAIN kept : n < o => EarlierRow(kept[n], kept[o])
    BY <1>1, KeptIsSorted
  <2>2. DOMAIN kept = 1..N
    BY <1>2, <2>1
  <2>3. QED
    BY <2>1, <2>2
<1>4. events = [n \in 1..N |-> RawEvent(kept[n], _numeric(kept[n]))]
  BY <1>1, <1>3 DEF _csv_chunk_to_events
<1>5. \A n \in 1..N : /\ events[n].row = kept[n]
                      /\ events[n].ts = file.rows[kept[n]].ts
                      /\ events[n].fields = IF file.rows[kept[n]].numeric THEN kept[n] ELSE 0
  BY <1>4 DEF RawEvent, _numeric
<1>6. \A i \in 1..Len(file.rows) : i \in Nat /\ file.rows[i].ts \in Nat
  <2>1. file.rows \in Seq(FileRow) /\ Len(file.rows) \in Nat
    BY DEF IsFile
  <2>2. \A i \in 1..Len(file.rows) : file.rows[i] \in FileRow
    BY <2>1
  <2>3. \A i \in 1..Len(file.rows) : file.rows[i].ts \in {0, 1, 2}
    BY <2>2 DEF FileRow, Unparseable
  <2>4. QED
    BY <2>1, <2>3
<1>7. \A n \in 1..N : kept[n] \in 1..Len(file.rows)
  <2>1. Len(file.rows) \in Nat
    BY DEF IsFile
  <2>2. QED
    BY <1>3, <2>1
<1>8. events \in Seq(EventRecord) /\ Len(events) = N
  <2>1. \A n \in 1..N : events[n] \in EventRecord
    BY <1>4, <1>6, <1>7 DEF RawEvent, _numeric, EventRecord
  <2>2. events \in [1..N -> EventRecord]
    BY <1>4, <2>1
  <2>3. N \in Nat
    BY <1>2
  <2>4. events \in Seq(EventRecord)
    BY <2>2, <2>3, SeqDef
  <2>5. DOMAIN events = 1..N
    BY <2>2
  <2>6. QED
    BY <2>3, <2>4, <2>5, LenProperties
<1>9. \A n \in 1..N : IsEventOf(file, events[n])
  BY <1>3, <1>5, <1>7 DEF IsEventOf, UsableIn, Usable
<1>10. ASSUME NEW n \in 1..N, NEW o \in 1..N, n < o
       PROVE  events[n].row # events[o].row /\ events[n].ts <= events[o].ts
  <2>1. EarlierRow(kept[n], kept[o])
    BY <1>3, <1>10
  <2>2. PICK i \in Nat, j \in Nat : i = kept[n] /\ j = kept[o]
    BY <1>6, <1>7
  <2>3. PICK a \in Nat, b \in Nat : a = file.rows[i].ts /\ b = file.rows[j].ts
    BY <1>6, <1>7, <2>2
  <2>4. a < b \/ (a = b /\ i < j)
    BY <2>1, <2>2, <2>3 DEF EarlierRow
  <2>5. a \in Nat /\ b \in Nat /\ i \in Nat /\ j \in Nat
    BY <2>2, <2>3
  <2>6. a <= b /\ i # j
    <3>1. i = j => a = b
      BY <2>3
    <3>2. QED
      BY <2>4, <2>5, <3>1
  <2>7. QED
    BY <1>5, <2>2, <2>3, <2>6
<1>11. ASSUME NEW i PROVE Holds(events, i) <=> i \in first..last /\ UsableIn(file, i)
  <2>1. Holds(events, i) <=> \E n \in 1..N : kept[n] = i
    BY <1>5, <1>8 DEF Holds
  <2>2. Usable(i) <=> UsableIn(file, i)
    BY DEF Usable, UsableIn
  <2>3. QED
    BY <1>3, <2>1, <2>2
<1>12. QED
  BY <1>8, <1>9, <1>10, <1>11 DEF Batch

\* A line of tshark makes a batch one event longer, or none.
LEMMA LineGrowsBatch ==
    ASSUME IsFile(file), file.format = "pcap", NEW i \in 1..Len(file.rows),
           NEW events, Batch(file, events), \A j : Holds(events, j) => j # i,
           NEW grown, grown = events \o parse_tshark_line(i)
    PROVE  /\ Batch(file, grown)
           /\ \A j : Holds(grown, j) <=> Holds(events, j) \/ (j = i /\ UsableIn(file, i))
<1>1. PICK n \in Nat : n = Len(events)
  BY DEF Batch
<1>2. /\ i \in Nat /\ file.rows[i] \in FileRow /\ file.rows[i].ts = 1
      /\ \A j \in 1..Len(file.rows) : file.rows[j].ts = 1
  <2>1. file.rows \in Seq(FileRow) /\ Len(file.rows) \in Nat
    BY DEF IsFile
  <2>2. QED
    BY <2>1 DEF IsFile
<1>3. CASE ~UsableIn(file, i)
  <2>1. parse_tshark_line(i) = <<>>
    BY <1>3 DEF parse_tshark_line, UsableIn, Usable
  <2>2. grown = events
    BY <2>1 DEF Batch
  <2>3. QED
    BY <1>3, <2>2
<1>4. CASE UsableIn(file, i)
  <2>1. PICK e : e = RawEvent(i, _numeric(i))
    OBVIOUS
  <2>2. e.row = i /\ e.ts = 1 /\ e.fields = (IF file.rows[i].numeric THEN i ELSE 0)
    BY <1>2, <2>1 DEF RawEvent, _numeric
  <2>3. e \in EventRecord
    BY <1>2, <2>1 DEF RawEvent, _numeric, EventRecord
  <2>4. parse_tshark_line(i) = <<e>>
    BY <1>4, <2>1 DEF parse_tshark_line, UsableIn, Usable
  <2>5. /\ grown \in Seq(EventRecord) /\ Len(grown) = n + 1
        /\ \A k \in 1..n : grown[k] = events[k]
        /\ grown[n + 1] = e
    <3>1. grown = events \o <<e>> /\ events \in Seq(EventRecord)
      BY <2>4 DEF Batch
    <3>2. QED
      BY <1>1, <2>3, <3>1
  <2>6. IsEventOf(file, e)
    BY <1>2, <1>4, <2>2 DEF IsEventOf
  <2>7. \A k \in 1..Len(grown) : IsEventOf(file, grown[k])
    <3>1. TAKE k \in 1..Len(grown)
    <3>2. k = n + 1 \/ k \in 1..n
      BY <2>5
    <3>3. QED
      BY <1>1, <2>5, <2>6, <3>2 DEF Batch
  <2>8. ASSUME NEW k \in 1..Len(grown), NEW o \in 1..Len(grown), k < o
        PROVE  grown[k].row # grown[o].row /\ grown[k].ts <= grown[o].ts
    <3>1. k \in 1..n /\ grown[k] = events[k]
      <4>1. k \in Int /\ o \in Int /\ 1 <= k /\ o <= n + 1
        BY <2>5
      <4>2. k \in 1..n
        BY <2>8, <4>1
      <4>3. QED
        BY <2>5, <4>2
    <3>2. CASE o = n + 1
      <4>1. grown[k].row # i
        BY <1>1, <3>1 DEF Holds
      <4>2. grown[k].ts = 1
        <5>1. IsEventOf(file, grown[k])
          BY <2>7
        <5>2. QED
          BY <1>2, <5>1 DEF IsEventOf
      <4>3. grown[o] = e
        BY <2>5, <3>2
      <4>4. QED
        BY <2>2, <4>1, <4>2, <4>3
    <3>3. CASE o # n + 1
      <4>1. o \in 1..n
        BY <2>5, <3>3
      <4>2. grown[o] = events[o]
        BY <2>5, <4>1
      <4>3. QED
        BY <1>1, <2>8, <3>1, <4>1, <4>2 DEF Batch
    <3>4. QED
      BY <3>2, <3>3
  <2>9. ASSUME NEW j PROVE Holds(grown, j) <=> Holds(events, j) \/ j = i
    <3>1. n + 1 \in 1..Len(grown) /\ \A k \in 1..n : k \in 1..Len(grown)
      BY <2>5
    <3>2. \A k \in 1..Len(grown) : k = n + 1 \/ k \in 1..n
      BY <2>5
    <3>3. QED
      BY <1>1, <2>2, <2>5, <3>1, <3>2 DEF Holds
  <2>10. QED
    BY <1>4, <2>5, <2>7, <2>8, <2>9 DEF Batch
<1>5. QED
  BY <1>3, <1>4

-----------------------------------------------------------------------------
\* Rows that were read: of a chunk, or through the pipe.
Seen == taken - Len(pipe)

\* The lines in the pipe are the last tshark wrote.
PipeInv ==
    /\ pipe \in Seq(Nat) /\ Len(pipe) <= taken
    /\ \A n \in 1..Len(pipe) : pipe[n] = Seen + n

\* What went out and what is in the batch are the usable rows that were read.
OutputInv ==
    /\ Chunked(file, chunks) /\ Batch(file, batched) /\ After(chunks, batched)
    /\ \A i : Out(chunks, i) \/ Holds(batched, i) <=> i \in 1..Seen /\ UsableIn(file, i)

CsvInv ==
    /\ tshark = "none" /\ pipe = <<>> /\ batched = <<>>
    /\ taken = Len(file.rows) \/ taken % CsvChunk = 0
    /\ outcome = "complete" => taken = Len(file.rows)
    /\ outcome = "error" => taken = ReadableOf(file) - (ReadableOf(file) % CsvChunk)

PcapInv ==
    /\ tshark \in {"running", "closed", "exited", "failed", "killed"}
    /\ tshark # "running" => taken = ReadableOf(file)
    /\ tshark = "exited" => ReadableOf(file) = Len(file.rows)
    /\ outcome # "reading" => tshark # "running" /\ pipe = <<>> /\ batched = <<>>
    /\ outcome = "complete" => tshark = "exited"

\* Nobody reads standard error before the output has ended.
Complaints(f, n) == {i \in 1..n : f.rows[i].warns}
StderrInv ==
    /\ stderr \in Nat
    /\ outcome = "reading" => stderr <= Cardinality(Complaints(file, taken))

ParserInv ==
    /\ IsFile(file) /\ taken \in 0..ReadableOf(file)
    /\ outcome \in {"reading", "complete", "error"}
    /\ PipeInv /\ OutputInv /\ StderrInv
    /\ file.format = "csv" => CsvInv
    /\ file.format = "pcap" => PcapInv

\* The lesser of two numbers.
LEMMA LesserOf ==
    ASSUME NEW a \in Int, NEW b \in Int
    PROVE  Min({a, b}) = IF a <= b THEN a ELSE b
<1>1. PICK r \in Int : r = IF a <= b THEN a ELSE b
  OBVIOUS
<1>2. r \in {a, b} /\ \A y \in {a, b} : r <= y
  BY <1>1
<1>3. \A x \in {a, b} : (\A y \in {a, b} : x <= y) => x = r
  BY <1>1, <1>2
<1>4. Min({a, b}) = r
  BY <1>2, <1>3 DEF Min
<1>5. QED
  BY <1>1, <1>4

\* Rows up to the break, as the model writes them.
LEMMA ReadableIs ==
    ASSUME IsFile(file)
    PROVE  /\ Readable = ReadableOf(file) /\ ReadableOf(file) \in 0..Len(file.rows)
           /\ Len(file.rows) \in Nat
<1>1. PICK n \in Nat, b \in Nat \ {0} : n = Len(file.rows) /\ b = file.breaks
  BY DEF IsFile
<1>2. PICK d \in Nat : d = b - 1
  OBVIOUS
<1>3. Readable = IF n <= d THEN n ELSE d
  <2>1. Readable = Min({n, d})
    BY <1>1, <1>2 DEF Readable, CaptureLength
  <2>2. QED
    BY <2>1, LesserOf
<1>4. ReadableOf(file) = (IF b <= n THEN b - 1 ELSE n) /\ ReadableOf(file) \in 0..n
  BY <1>1 DEF ReadableOf
<1>5. QED
  BY <1>1, <1>2, <1>3, <1>4

\* A whole chunk more is still a multiple of a chunk.
LEMMA NextMultiple ==
    ASSUME NEW t \in Nat, NEW c \in Nat \ {0}, t % c = 0
    PROVE  (t + c) % c = 0
<1>1. PICK q \in Int : q = t \div c
  OBVIOUS
<1>2. t = c * q
  BY <1>1
<1>3. PICK p \in Int, m \in Int : p = (t + c) \div c /\ m = (t + c) % c
  OBVIOUS
<1>4. t + c = c * p + m /\ 0 <= m /\ m < c
  BY <1>3
<1>5. PICK k \in Int : k = q + 1 - p
  OBVIOUS
<1>6. m = c * k
  BY <1>2, <1>4, <1>5
<1>7. k >= 1 => c * k >= c
  OBVIOUS
<1>8. k <= -1 => c * k <= -c
  OBVIOUS
<1>9. k = 0
  BY <1>4, <1>6, <1>7, <1>8
<1>10. QED
  BY <1>3, <1>6, <1>9

\* The last multiple of a chunk up to a number.
LEMMA LastMultiple ==
    ASSUME NEW t \in Nat, NEW c \in Nat \ {0}, t % c = 0, NEW r \in Nat, t <= r, r < t + c
    PROVE  r - (r % c) = t
OBVIOUS

\* There are at most as many complaints as rows, and one more for a row.
LEMMA ComplaintsCounted ==
    ASSUME NEW f, NEW n \in Nat
    PROVE  /\ IsFiniteSet(Complaints(f, n)) /\ Cardinality(Complaints(f, n)) \in Nat
           /\ \A m \in 0..n : Cardinality(Complaints(f, m)) <= Cardinality(Complaints(f, n))
           /\ f.rows[n + 1].warns
                 => Cardinality(Complaints(f, n + 1)) = Cardinality(Complaints(f, n)) + 1
<1>1. Complaints(f, n) \subseteq 1..n
  BY DEF Complaints
<1>2. IsFiniteSet(Complaints(f, n)) /\ Cardinality(Complaints(f, n)) \in Nat
  BY <1>1, CountTo, FS_Subset, FS_CardinalityType
<1>3. \A m \in 0..n : Cardinality(Complaints(f, m)) <= Cardinality(Complaints(f, n))
  <2>1. TAKE m \in 0..n
  <2>2. Complaints(f, m) \subseteq Complaints(f, n)
    BY DEF Complaints
  <2>3. QED
    BY <1>2, <2>2, FS_Subset
<1>4. ASSUME f.rows[n + 1].warns
      PROVE  Cardinality(Complaints(f, n + 1)) = Cardinality(Complaints(f, n)) + 1
  <2>1. Complaints(f, n + 1) = Complaints(f, n) \cup {n + 1} /\ n + 1 \notin Complaints(f, n)
    BY <1>4 DEF Complaints
  <2>2. QED
    BY <1>2, <2>1, FS_AddElement
<1>5. QED
  BY <1>2, <1>3, <1>4

\* A chunk of a CSV goes out, or the reading ends before or after the last.
LEMMA ReadChunkInv ==
    ASSUME ParserInv, ReadChunk
    PROVE  ParserInv'
<1>1. /\ file' = file /\ pipe' = pipe /\ stderr' = stderr /\ tshark' = tshark /\ batched' = batched
      /\ file.format = "csv" /\ outcome = "reading"
  BY DEF ReadChunk
<1>2. /\ IsFile(file) /\ CsvInv /\ PipeInv /\ OutputInv /\ StderrInv /\ taken \in 0..ReadableOf(file)
  BY <1>1 DEF ParserInv
<1>3. PICK n \in Nat, r \in Nat, t \in Nat, c \in Nat \ {0} :
         /\ n = Len(file.rows) /\ r = ReadableOf(file) /\ t = taken /\ c = CsvChunk
         /\ r <= n /\ t <= r
  <2>1. CsvChunk \in Nat \ {0}
    BY ParserAssumption
  <2>2. /\ Len(file.rows) \in Nat /\ ReadableOf(file) \in Nat /\ taken \in Nat
        /\ ReadableOf(file) <= Len(file.rows) /\ taken <= ReadableOf(file)
    BY <1>2, ReadableIs
  <2>3. QED
    BY <2>1, <2>2
<1>4. PICK last \in Nat : last = IF t + c <= n THEN t + c ELSE n
  OBVIOUS
<1>5. last = Min({taken + CsvChunk, CaptureLength}) /\ Readable = r
  <2>1. Min({t + c, n}) = last
    BY <1>4, LesserOf
  <2>2. QED
    BY <1>2, <1>3, <2>1, ReadableIs DEF CaptureLength
<1>6. /\ pipe = <<>> /\ batched = <<>> /\ Len(pipe) = 0 /\ Seen = t
      /\ t = n \/ t % c = 0
  <2>1. pipe = <<>> /\ batched = <<>> /\ (t = n \/ t % c = 0)
    BY <1>2, <1>3 DEF CsvInv
  <2>2. Len(pipe) = 0
    BY <2>1
  <2>3. QED
    BY <1>3, <2>1, <2>2 DEF Seen
<1>7. CASE last > r
  <2>1. outcome' = "error" /\ taken' = taken /\ chunks' = chunks
    BY <1>5, <1>7 DEF ReadChunk
  <2>2. t % c = 0 /\ r < t + c
    BY <1>3, <1>4, <1>6, <1>7
  <2>3. taken = ReadableOf(file) - (ReadableOf(file) % CsvChunk)
    BY <1>3, <2>2, LastMultiple
  <2>4. CsvInv'
    BY <1>1, <1>2, <2>1, <2>3 DEF CsvInv
  <2>5. PipeInv' /\ OutputInv'
    BY <1>1, <1>2, <2>1 DEF PipeInv, OutputInv, Seen
  <2>6. StderrInv'
    BY <1>1, <1>2, <2>1 DEF StderrInv
  <2>7. QED
    BY <1>1, <1>2, <2>1, <2>4, <2>5, <2>6 DEF ParserInv
<1>8. CASE ~(last > r) /\ taken = CaptureLength
  <2>1. outcome' = "complete" /\ taken' = taken /\ chunks' = chunks
    BY <1>5, <1>8 DEF ReadChunk
  <2>2. CsvInv'
    BY <1>1, <1>2, <1>8, <2>1 DEF CsvInv, CaptureLength
  <2>3. PipeInv' /\ OutputInv'
    BY <1>1, <1>2, <2>1 DEF PipeInv, OutputInv, Seen
  <2>4. StderrInv'
    BY <1>1, <1>2, <2>1 DEF StderrInv
  <2>5. QED
    BY <1>1, <1>2, <2>1, <2>2, <2>3, <2>4 DEF ParserInv
<1>9. CASE ~(last > r) /\ taken # CaptureLength
  <2>1. PICK events : events = _csv_chunk_to_events(taken + 1, last)
    OBVIOUS
  <2>2. /\ taken' = last /\ outcome' = outcome
        /\ chunks' = IF events = <<>> THEN chunks ELSE Append(chunks, events)
    BY <1>5, <1>9, <2>1 DEF ReadChunk, Yield
  <2>3. last <= r /\ t < last /\ last <= n
    BY <1>3, <1>4, <1>9 DEF CaptureLength
  <2>4. /\ Batch(file, events)
        /\ \A i : Holds(events, i) <=> i \in t + 1..last /\ UsableIn(file, i)
    <3>1. t + 1 \in Nat \ {0} /\ last <= Len(file.rows) /\ events = _csv_chunk_to_events(t + 1, last)
      BY <1>3, <2>1, <2>3
    <3>2. QED
      BY <1>2, <3>1, ChunkIsBatch
  <2>5. \A i : ~Holds(batched, i)
    BY <1>6 DEF Holds
  <2>6. /\ Chunked(file, chunks) /\ Batch(file, batched)
        /\ \A i : Out(chunks, i) <=> i \in 1..t /\ UsableIn(file, i)
    BY <1>2, <1>6, <2>5 DEF OutputInv
  <2>7. After(chunks, events)
    BY <1>3, <2>4, <2>6 DEF After
  <2>8. /\ Chunked(file, chunks')
        /\ \A i : Out(chunks', i) <=> Out(chunks, i) \/ Holds(events, i)
    BY <2>2, <2>4, <2>6, <2>7, YieldKeepsOrder
  <2>9. Seen' = last
    BY <1>1, <1>6, <2>2 DEF Seen
  <2>10. OutputInv'
    <3>1. \A i : i \in 1..last <=> i \in 1..t \/ i \in t + 1..last
      BY <1>3, <2>3
    <3>2. \A i : Out(chunks', i) \/ Holds(batched, i) <=> i \in 1..last /\ UsableIn(file, i)
      BY <2>4, <2>5, <2>6, <2>8, <3>1
    <3>3. After(chunks', batched)
      BY <2>5 DEF After
    <3>4. QED
      BY <1>1, <2>6, <2>8, <2>9, <3>2, <3>3 DEF OutputInv
  <2>11. CsvInv'
    <3>1. last = n \/ last % c = 0
      <4>1. CASE t + c <= n
        <5>1. last = t + c /\ t # n
          BY <1>4, <4>1
        <5>2. t % c = 0
          BY <1>6, <5>1
        <5>3. QED
          BY <5>1, <5>2, NextMultiple
      <4>2. CASE ~(t + c <= n)
        BY <1>4, <4>2
      <4>3. QED
        BY <4>1, <4>2
    <3>2. QED
      BY <1>1, <1>2, <1>3, <1>6, <2>2, <3>1 DEF CsvInv
  <2>12. PipeInv'
    BY <1>1, <1>6, <2>2 DEF PipeInv
  <2>13. StderrInv'
    <3>1. t \in 0..last
      BY <2>3
    <3>2. PICK a \in Nat, b \in Nat :
             a = Cardinality(Complaints(file, t)) /\ b = Cardinality(Complaints(file, last)) /\ a <= b
      BY <3>1, ComplaintsCounted
    <3>3. stderr \in Nat /\ stderr <= a
      BY <1>1, <1>2, <1>3, <3>2 DEF StderrInv
    <3>4. QED
      BY <1>1, <2>2, <3>2, <3>3 DEF StderrInv
  <2>14. taken' \in 0..ReadableOf(file')
    BY <1>1, <1>3, <2>2, <2>3
  <2>15. QED
    BY <1>1, <1>2, <2>2, <2>10, <2>11, <2>12, <2>13, <2>14 DEF ParserInv
<1>10. QED
  BY <1>7, <1>8, <1>9

LEMMA ParserInitInv == ParserInit => ParserInv
<1>1. SUFFICES ASSUME ParserInit PROVE ParserInv
  OBVIOUS
<1>2. IsFile(file)
  <2>1. PICK format \in {"csv", "pcap"}, Rows \in {CsvRows, PcapRows} :
           /\ file \in Files(format, Rows)
           /\ format = "pcap" => Rows = PcapRows
    BY <1>1 DEF ParserInit
  <2>2. Rows \subseteq FileRow
    <3>1. CsvRows \subseteq FileRow
      BY DEF CsvRows, FileRow
    <3>2. PcapRows \subseteq FileRow
      BY DEF PcapRows, FileRow
    <3>3. QED
      BY <3>1, <3>2
  <2>3. /\ file.format = format /\ file.rows \in SeqOf(Rows, MaxRows)
        /\ file.breaks \in 1..MaxRows + 1
    BY <2>1 DEF Files
  <2>4. PICK m \in 0..MaxRows : file.rows \in [1..m -> Rows]
    BY <2>3 DEF SeqOf
  <2>5. m \in Nat /\ MaxRows \in Nat
    BY <2>4, ParserAssumption
  <2>6. file.rows \in Seq(FileRow) /\ Len(file.rows) = m
    BY <2>2, <2>4, <2>5
  <2>7. \A r \in PcapRows : r.ts = 1
    BY DEF PcapRows
  <2>8. format = "pcap" => \A i \in 1..m : file.rows[i].ts = 1
    BY <2>1, <2>4, <2>7
  <2>9. file.breaks \in Nat \ {0}
    BY <2>3, <2>5
  <2>10. QED
    BY <2>1, <2>3, <2>6, <2>8, <2>9 DEF IsFile
<1>3. ReadableOf(file) \in Nat
  BY <1>2, ReadableIs DEF IsFile
<1>4. /\ taken = 0 /\ pipe = <<>> /\ stderr = 0 /\ batched = <<>> /\ chunks = <<>>
      /\ outcome = "reading"
      /\ file.format = "pcap" => tshark = "running"
  BY <1>1 DEF ParserInit
<1>5. taken \in 0..ReadableOf(file)
  BY <1>3, <1>4
<1>6. PipeInv
  BY <1>4 DEF PipeInv, Seen
<1>7. OutputInv
  <2>1. \A i : ~Out(chunks, i) /\ ~Holds(batched, i)
    BY <1>4 DEF Out, Holds
  <2>2. Seen = 0
    <3>1. Len(pipe) = 0 /\ taken = 0
      BY <1>4
    <3>2. QED
      BY <3>1 DEF Seen
  <2>3. Chunked(file, chunks) /\ Batch(file, batched)
    BY <1>4 DEF Chunked, Batch
  <2>4. QED
    BY <2>1, <2>2, <2>3 DEF OutputInv, After
<1>8. StderrInv
  <2>1. Complaints(file, taken) = {}
    BY <1>4 DEF Complaints
  <2>2. Cardinality(Complaints(file, taken)) = 0 /\ stderr = 0
    BY <1>4, <2>1, FS_EmptySet
  <2>3. QED
    BY <2>2 DEF StderrInv
<1>9. file.format = "csv" => CsvInv
  <2>1. taken % CsvChunk = 0
    BY <1>4, ParserAssumption
  <2>2. file.format = "csv" => tshark = "none"
    BY <1>1 DEF ParserInit
  <2>3. QED
    BY <1>4, <2>1, <2>2 DEF CsvInv
<1>10. file.format = "pcap" => PcapInv
  BY <1>4 DEF PcapInv
<1>11. QED
  BY <1>2, <1>4, <1>5, <1>6, <1>7, <1>8, <1>9, <1>10 DEF ParserInv

\* tshark complains of a line or not, and puts it into the pipe.
LEMMA WritesInv ==
    ASSUME ParserInv, file.format = "pcap", Writes
    PROVE  ParserInv'
<1>1. /\ file' = file /\ tshark' = tshark /\ batched' = batched /\ chunks' = chunks
      /\ outcome' = outcome /\ tshark = "running" /\ taken < Readable
      /\ taken' = taken + 1 /\ pipe' = Append(pipe, taken + 1)
      /\ stderr' = IF file.rows[taken + 1].warns THEN stderr + 1 ELSE stderr
  BY DEF Writes
<1>2. /\ IsFile(file) /\ PcapInv /\ PipeInv /\ OutputInv /\ StderrInv /\ taken \in 0..ReadableOf(file)
      /\ outcome = "reading"
  BY <1>1 DEF ParserInv, PcapInv
<1>3. PICK t \in Nat, r \in Nat : t = taken /\ r = ReadableOf(file) /\ t < r
  BY <1>1, <1>2, ReadableIs
<1>4. PICK p \in Seq(Nat), m \in Nat : p = pipe /\ m = Len(p) /\ m <= t /\ Seen = t - m
  BY <1>2, <1>3 DEF PipeInv, Seen
<1>5. PICK q \in Seq(Nat) : /\ q = Append(p, t + 1) /\ Len(q) = m + 1
                            /\ \A n \in 1..m : q[n] = p[n]
                            /\ q[m + 1] = t + 1
  <2>1. /\ Append(p, t + 1) \in Seq(Nat) /\ Len(Append(p, t + 1)) = m + 1
        /\ \A n \in 1..m : Append(p, t + 1)[n] = p[n]
        /\ Append(p, t + 1)[m + 1] = t + 1
    BY <1>3, <1>4
  <2>2. QED
    BY <2>1
<1>6. Seen' = Seen
  <2>1. pipe' = q /\ taken' = t + 1
    BY <1>1, <1>3, <1>4, <1>5
  <2>2. Seen' = (t + 1) - (m + 1)
    BY <1>5, <2>1 DEF Seen
  <2>3. QED
    BY <1>4, <2>2
<1>7. PipeInv'
  <2>1. \A n \in 1..m : q[n] = (t - m) + n
    BY <1>2, <1>4, <1>5 DEF PipeInv
  <2>2. \A n \in 1..m + 1 : q[n] = (t - m) + n
    BY <1>5, <2>1
  <2>3. pipe' = q /\ Seen' = t - m /\ taken' = t + 1
    BY <1>1, <1>3, <1>4, <1>5, <1>6
  <2>4. pipe' \in Seq(Nat) /\ Len(pipe') = m + 1 /\ m + 1 <= t + 1
    BY <1>4, <1>5, <2>3
  <2>5. \A n \in 1..Len(pipe') : pipe'[n] = Seen' + n
    BY <2>2, <2>3, <2>4
  <2>6. QED
    BY <2>3, <2>4, <2>5 DEF PipeInv
<1>8. OutputInv'
  BY <1>1, <1>2, <1>6 DEF OutputInv
<1>9. StderrInv'
  <2>1. PICK a \in Nat, b \in Nat :
           a = Cardinality(Complaints(file, t)) /\ b = Cardinality(Complaints(file, t + 1)) /\ a <= b
    <3>1. t \in 0..t + 1 /\ t + 1 \in Nat
      OBVIOUS
    <3>2. QED
      BY <3>1, ComplaintsCounted
  <2>2. file.rows[t + 1].warns => b = a + 1
    BY <2>1, ComplaintsCounted
  <2>3. stderr \in Nat /\ stderr <= a
    BY <1>2, <1>3, <2>1 DEF StderrInv
  <2>4. stderr' \in Nat /\ stderr' <= b
    <3>1. CASE file.rows[t + 1].warns
      <4>1. stderr' = stderr + 1
        BY <1>1, <1>3, <3>1
      <4>2. QED
        BY <2>1, <2>2, <2>3, <3>1, <4>1
    <3>2. CASE ~file.rows[t + 1].warns
      <4>1. stderr' = stderr
        BY <1>1, <1>3, <3>2
      <4>2. QED
        BY <2>1, <2>3, <4>1
    <3>3. QED
      BY <3>1, <3>2
  <2>5. QED
    BY <1>1, <1>3, <2>1, <2>4 DEF StderrInv
<1>10. PcapInv'
  BY <1>1, <1>2 DEF PcapInv
<1>11. taken' \in 0..ReadableOf(file')
  BY <1>1, <1>3
<1>12. QED
  BY <1>1, <1>2, <1>7, <1>8, <1>9, <1>10, <1>11 DEF ParserInv

\* tshark closes its output, or exits.
LEMMA TsharkEndsInv ==
    ASSUME ParserInv, file.format = "pcap", Closes \/ Exits
    PROVE  ParserInv'
<1>1. /\ file' = file /\ taken' = taken /\ pipe' = pipe /\ stderr' = stderr
      /\ batched' = batched /\ chunks' = chunks /\ outcome' = outcome
  BY DEF Closes, Exits
<1>2. /\ IsFile(file) /\ PcapInv /\ PipeInv /\ OutputInv /\ StderrInv /\ taken \in 0..ReadableOf(file)
      /\ outcome \in {"reading", "complete", "error"}
  BY DEF ParserInv
<1>3. PipeInv' /\ OutputInv'
  BY <1>1, <1>2 DEF PipeInv, OutputInv, Seen
<1>4. StderrInv'
  BY <1>1, <1>2 DEF StderrInv
<1>5. PcapInv'
  <2>1. Readable = ReadableOf(file) /\ ReadableOf(file) \in 0..Len(file.rows) /\ Len(file.rows) \in Nat
    BY <1>2, ReadableIs
  <2>2. CASE Closes
    <3>1. tshark = "running" /\ taken = Readable /\ tshark' = "closed"
      BY <2>2 DEF Closes
    <3>2. outcome = "reading"
      BY <1>2, <3>1 DEF PcapInv
    <3>3. QED
      BY <1>1, <2>1, <3>1, <3>2 DEF PcapInv
  <2>3. CASE Exits
    <3>1. tshark = "closed" /\ outcome = "reading"
      BY <2>3 DEF Exits
    <3>2. tshark' = IF Readable < Len(file.rows) THEN "failed" ELSE "exited"
      BY <2>3 DEF Exits, CaptureLength
    <3>3. tshark' \in {"failed", "exited"} /\ (tshark' = "exited" => ReadableOf(file) = Len(file.rows))
      BY <2>1, <3>2
    <3>4. taken = ReadableOf(file)
      BY <1>2, <3>1 DEF PcapInv
    <3>5. QED
      BY <1>1, <3>1, <3>3, <3>4 DEF PcapInv
  <2>4. QED
    BY <2>2, <2>3
<1>6. QED
  BY <1>1, <1>2, <1>3, <1>4, <1>5 DEF ParserInv

\* A line is read, and completes a batch or not.
LEMMA ReadLineInv ==
    ASSUME ParserInv, file.format = "pcap", ReadLine
    PROVE  ParserInv'
<1>1. /\ file' = file /\ taken' = taken /\ stderr' = stderr /\ tshark' = tshark /\ outcome' = outcome
      /\ outcome = "reading" /\ pipe # <<>> /\ pipe' = Tail(pipe)
  BY DEF ReadLine
<1>2. /\ IsFile(file) /\ PcapInv /\ PipeInv /\ OutputInv /\ StderrInv /\ taken \in 0..ReadableOf(file)
  BY DEF ParserInv
<1>3. PICK t \in Nat, n \in Nat : t = taken /\ n = Len(file.rows) /\ t <= n
  <2>1. /\ Len(file.rows) \in Nat /\ ReadableOf(file) \in Nat /\ taken \in Nat
        /\ ReadableOf(file) <= Len(file.rows) /\ taken <= ReadableOf(file)
    BY <1>2, ReadableIs
  <2>2. taken <= Len(file.rows)
    BY <2>1
  <2>3. QED
    BY <2>1, <2>2
<1>4. PICK p \in Seq(Nat), m \in Nat : p = pipe /\ m = Len(p) /\ 1 <= m /\ m <= t /\ Seen = t - m
  <2>1. pipe \in Seq(Nat) /\ Len(pipe) <= taken /\ pipe # <<>>
    BY <1>1, <1>2 DEF PipeInv
  <2>2. Len(pipe) \in Nat /\ 1 <= Len(pipe)
    BY <2>1
  <2>3. QED
    BY <1>3, <2>1, <2>2 DEF Seen
<1>5. PICK i \in Nat : i = Head(pipe) /\ i = Seen + 1 /\ i \in 1..n
  <2>1. pipe[1] = Seen + 1
    BY <1>2, <1>4 DEF PipeInv
  <2>2. Head(pipe) = pipe[1]
    BY <1>4
  <2>3. t - m + 1 \in 1..n /\ t - m + 1 \in Nat
    BY <1>3, <1>4
  <2>4. Head(pipe) = t - m + 1
    BY <1>4, <2>1, <2>2
  <2>5. QED
    BY <1>4, <2>3, <2>4
<1>6. PICK q \in Seq(Nat) : q = Tail(p) /\ Len(q) = m - 1 /\ \A k \in 1..m - 1 : q[k] = p[k + 1]
  <2>1. Tail(p) \in Seq(Nat) /\ Len(Tail(p)) = m - 1 /\ \A k \in 1..m - 1 : Tail(p)[k] = p[k + 1]
    BY <1>1, <1>4
  <2>2. QED
    BY <2>1
<1>7. pipe' = q /\ Seen' = i
  <2>1. pipe' = q
    BY <1>1, <1>4, <1>6
  <2>2. Seen' = t - (m - 1)
    BY <1>1, <1>3, <1>6, <2>1 DEF Seen
  <2>3. QED
    BY <1>4, <1>5, <2>1, <2>2
<1>8. PipeInv'
  <2>1. \A k \in 1..m : p[k] = (t - m) + k
    BY <1>2, <1>4 DEF PipeInv
  <2>2. \A k \in 1..m - 1 : q[k] = i + k
    <3>1. TAKE k \in 1..m - 1
    <3>2. k + 1 \in 1..m /\ p[k + 1] = (t - m) + (k + 1)
      BY <1>4, <2>1
    <3>3. q[k] = (t - m) + (k + 1)
      BY <1>6, <3>2
    <3>4. i = (t - m) + 1
      BY <1>4, <1>5
    <3>5. QED
      BY <1>4, <3>3, <3>4
  <2>3. m - 1 <= t
    BY <1>4
  <2>4. QED
    BY <1>1, <1>3, <1>6, <1>7, <2>2, <2>3 DEF PipeInv
<1>9. PICK grown : grown = batched \o parse_tshark_line(i)
  OBVIOUS
<1>10. \/ batched' = <<>> /\ chunks' = IF grown = <<>> THEN chunks ELSE Append(chunks, grown)
       \/ batched' = grown /\ chunks' = chunks
  BY <1>5, <1>9 DEF ReadLine, Yield
<1>11. /\ Chunked(file, chunks) /\ Batch(file, batched) /\ After(chunks, batched)
       /\ \A j : Out(chunks, j) \/ Holds(batched, j) <=> j \in 1..i - 1 /\ UsableIn(file, j)
  <2>1. Seen = i - 1
    BY <1>4, <1>5
  <2>2. QED
    BY <1>2, <2>1 DEF OutputInv
<1>12. /\ Batch(file, grown)
       /\ \A j : Holds(grown, j) <=> Holds(batched, j) \/ (j = i /\ UsableIn(file, i))
  <2>1. \A j : Holds(batched, j) => j # i
    BY <1>5, <1>11
  <2>2. i \in 1..Len(file.rows)
    BY <1>3, <1>5
  <2>3. QED
    BY <1>2, <1>9, <1>11, <2>1, <2>2, LineGrowsBatch
<1>13. After(chunks, grown)
  <2>1. SUFFICES ASSUME NEW k, NEW j, Out(chunks, k), Holds(grown, j) PROVE k < j
    BY DEF After
  <2>2. k \in 1..i - 1
    BY <1>11, <2>1
  <2>3. Holds(batched, j) \/ j = i
    BY <1>12, <2>1
  <2>4. Holds(batched, j) => k < j
    BY <1>11, <2>1 DEF After
  <2>5. QED
    BY <1>5, <2>2, <2>3, <2>4
<1>14. \A j : Out(chunks, j) \/ Holds(grown, j) <=> j \in 1..i /\ UsableIn(file, j)
  <2>1. \A j : j \in 1..i <=> j \in 1..i - 1 \/ j = i
    BY <1>5
  <2>2. QED
    BY <1>11, <1>12, <2>1
<1>15. OutputInv'
  <2>1. CASE batched' = grown /\ chunks' = chunks
    BY <1>1, <1>7, <1>11, <1>12, <1>13, <1>14, <2>1 DEF OutputInv
  <2>2. CASE batched' = <<>> /\ chunks' = IF grown = <<>> THEN chunks ELSE Append(chunks, grown)
    <3>1. /\ Chunked(file, chunks')
          /\ \A j : Out(chunks', j) <=> Out(chunks, j) \/ Holds(grown, j)
      BY <1>11, <1>12, <1>13, <2>2, YieldKeepsOrder
    <3>2. \A j : ~Holds(batched', j)
      BY <2>2 DEF Holds
    <3>3. Batch(file, batched') /\ After(chunks', batched')
      BY <2>2, <3>2 DEF Batch, After
    <3>4. \A j : Out(chunks', j) \/ Holds(batched', j) <=> j \in 1..i /\ UsableIn(file, j)
      BY <1>14, <3>1, <3>2
    <3>5. QED
      BY <1>1, <1>7, <3>1, <3>3, <3>4 DEF OutputInv
  <2>3. QED
    BY <1>10, <2>1, <2>2
<1>16. StderrInv'
  BY <1>1, <1>2 DEF StderrInv
<1>17. PcapInv'
  BY <1>1, <1>2 DEF PcapInv
<1>18. QED
  BY <1>1, <1>2, <1>8, <1>15, <1>16, <1>17 DEF ParserInv

\* The output has ended: the rest of the batch goes out.
LEMMA EndOfOutputInv ==
    ASSUME ParserInv, file.format = "pcap", EndOfOutput
    PROVE  ParserInv'
<1>1. /\ file' = file /\ taken' = taken /\ pipe' = pipe /\ stderr' = 0 /\ batched' = <<>>
      /\ outcome = "reading" /\ pipe = <<>> /\ tshark \in {"closed", "exited", "failed"}
      /\ tshark' = IF tshark = "closed" THEN "killed" ELSE tshark
      /\ outcome' = IF tshark = "exited" THEN "complete" ELSE "error"
      /\ chunks' = IF batched = <<>> THEN chunks ELSE Append(chunks, batched)
  BY DEF EndOfOutput, Yield
<1>2. /\ IsFile(file) /\ PcapInv /\ PipeInv /\ OutputInv /\ taken \in 0..ReadableOf(file)
  BY DEF ParserInv
<1>3. PipeInv'
  BY <1>1, <1>2 DEF PipeInv, Seen
<1>4. OutputInv'
  <2>1. /\ Chunked(file, chunks) /\ Batch(file, batched) /\ After(chunks, batched)
        /\ \A j : Out(chunks, j) \/ Holds(batched, j) <=> j \in 1..Seen /\ UsableIn(file, j)
    BY <1>2 DEF OutputInv
  <2>2. /\ Chunked(file, chunks')
        /\ \A j : Out(chunks', j) <=> Out(chunks, j) \/ Holds(batched, j)
    BY <1>1, <2>1, YieldKeepsOrder
  <2>3. \A j : ~Holds(batched', j)
    BY <1>1 DEF Holds
  <2>4. Batch(file, batched') /\ After(chunks', batched')
    BY <1>1, <2>3 DEF Batch, After
  <2>5. \A j : Out(chunks', j) \/ Holds(batched', j) <=> j \in 1..Seen /\ UsableIn(file, j)
    BY <2>1, <2>2, <2>3
  <2>6. Seen' = Seen
    BY <1>1 DEF Seen
  <2>7. QED
    BY <1>1, <2>2, <2>4, <2>5, <2>6 DEF OutputInv
<1>5. StderrInv'
  BY <1>1 DEF StderrInv
<1>6. PcapInv'
  BY <1>1, <1>2 DEF PcapInv
<1>7. outcome' \in {"complete", "error"}
  BY <1>1
<1>8. QED
  BY <1>1, <1>2, <1>3, <1>4, <1>5, <1>6, <1>7 DEF ParserInv

\* The property follows from the invariant.
LEMMA ParserInvImplies ==
    ASSUME ParserInv
    PROVE  ParsingIsFaithful
<1>1. /\ IsFile(file) /\ taken \in 0..ReadableOf(file) /\ PipeInv /\ OutputInv /\ StderrInv
      /\ file.format = "csv" => CsvInv
      /\ file.format = "pcap" => PcapInv
  BY DEF ParserInv
<1>2. /\ Readable = ReadableOf(file) /\ CaptureLength = Len(file.rows)
      /\ ReadableOf(file) \in Nat /\ Len(file.rows) \in Nat /\ ReadableOf(file) <= Len(file.rows)
      /\ file.format \in {"csv", "pcap"}
  BY <1>1, ReadableIs DEF CaptureLength, IsFile
<1>3. /\ Chunked(file, chunks)
      /\ \A i : Out(chunks, i) \/ Holds(batched, i) <=> i \in 1..Seen /\ UsableIn(file, i)
  BY <1>1 DEF OutputInv
<1>4. /\ chunks \in Seq(Seq(EventRecord)) /\ Len(chunks) \in Nat /\ DOMAIN chunks = 1..Len(chunks)
      /\ \A m \in 1..Len(chunks) : DOMAIN chunks[m] = 1..Len(chunks[m])
      /\ \A m \in 1..Len(chunks) : Batch(file, chunks[m]) /\ Len(chunks[m]) \in Nat
  BY <1>3 DEF Chunked
<1>5. ASSUME NEW p \in Places
      PROVE  \E m, n \in Nat : /\ m \in 1..Len(chunks) /\ n \in 1..Len(chunks[m])
                              /\ p = <<m, n>> /\ p[1] = m /\ p[2] = n /\ EventAt(p) = chunks[m][n]
  <2>1. PICK m \in DOMAIN chunks : \E n \in DOMAIN chunks[m] : p = <<m, n>>
    BY DEF Places
  <2>2. m \in 1..Len(chunks) /\ m \in Nat
    BY <1>4
  <2>3. PICK n \in 1..Len(chunks[m]) : p = <<m, n>>
    BY <1>4, <2>1, <2>2
  <2>4. n \in Nat
    BY <1>4, <2>2
  <2>5. p[1] = m /\ p[2] = n /\ EventAt(p) = chunks[m][n]
    BY <2>3 DEF EventAt
  <2>6. QED
    BY <2>2, <2>3, <2>4, <2>5
<1>6. \A i : i \in RowsOut <=> Out(chunks, i)
  <2>1. TAKE i
  <2>2. ASSUME i \in RowsOut PROVE Out(chunks, i)
    <3>1. PICK p \in Places : EventAt(p).row = i
      BY <2>2 DEF RowsOut
    <3>2. PICK m, n \in Nat : /\ m \in 1..Len(chunks) /\ n \in 1..Len(chunks[m])
                              /\ EventAt(p) = chunks[m][n]
      BY <1>5
    <3>3. Holds(chunks[m], i)
      BY <3>1, <3>2 DEF Holds
    <3>4. QED
      BY <3>2, <3>3 DEF Out
  <2>3. ASSUME Out(chunks, i) PROVE i \in RowsOut
    <3>1. PICK m \in 1..Len(chunks) : Holds(chunks[m], i)
      BY <2>3 DEF Out
    <3>2. PICK n \in 1..Len(chunks[m]) : chunks[m][n].row = i
      BY <3>1 DEF Holds
    <3>3. PICK p : p = <<m, n>>
      OBVIOUS
    <3>4. m \in DOMAIN chunks /\ n \in DOMAIN chunks[m]
      BY <1>4
    <3>5. p \in Places
      BY <3>3, <3>4 DEF Places
    <3>6. EventAt(p).row = i
      BY <3>2, <3>3 DEF EventAt
    <3>7. QED
      BY <3>5, <3>6 DEF RowsOut
  <2>4. QED
    BY <2>2, <2>3
<1>7. ASSUME NEW p \in Places PROVE IsEventOf(file, EventAt(p))
  <2>1. PICK m, n \in Nat : m \in 1..Len(chunks) /\ n \in 1..Len(chunks[m]) /\ EventAt(p) = chunks[m][n]
    BY <1>5
  <2>2. QED
    BY <1>4, <2>1 DEF Batch
<1>8. ASSUME NEW p \in Places, NEW q \in Places
      PROVE  /\ p[1] < q[1] => EventAt(p).row < EventAt(q).row
             /\ p[1] = q[1] /\ p[2] <= q[2] => EventAt(p).ts <= EventAt(q).ts
             /\ EventAt(p).row = EventAt(q).row => p = q
  <2>1. PICK m, n \in Nat :
           m \in 1..Len(chunks) /\ n \in 1..Len(chunks[m]) /\ p = <<m, n>> /\ p[1] = m /\ p[2] = n /\ EventAt(p) = chunks[m][n]
    BY <1>5
  <2>2. PICK k, o \in Nat :
           k \in 1..Len(chunks) /\ o \in 1..Len(chunks[k]) /\ q = <<k, o>> /\ q[1] = k /\ q[2] = o /\ EventAt(q) = chunks[k][o]
    BY <1>5
  <2>3. m \in Nat /\ k \in Nat /\ n \in Nat /\ o \in Nat
    BY <2>1, <2>2
  <2>4. PICK i \in Nat, j \in Nat : i = chunks[m][n].row /\ j = chunks[k][o].row
    <3>1. chunks[m][n] \in EventRecord /\ chunks[k][o] \in EventRecord
      BY <1>4, <2>1, <2>2 DEF Batch
    <3>2. QED
      BY <3>1 DEF EventRecord
  <2>5. PICK a \in Nat, b \in Nat : a = chunks[m][n].ts /\ b = chunks[k][o].ts
    <3>1. chunks[m][n] \in EventRecord /\ chunks[k][o] \in EventRecord
      BY <1>4, <2>1, <2>2 DEF Batch
    <3>2. QED
      BY <3>1 DEF EventRecord
  <2>6. Holds(chunks[m], i) /\ Holds(chunks[k], j)
    BY <2>1, <2>2, <2>4 DEF Holds
  <2>7. (m < k => i < j) /\ (k < m => j < i)
    BY <1>3, <2>1, <2>2, <2>6 DEF Chunked
  <2>8. m = k => (n < o => i # j /\ a <= b) /\ (o < n => i # j)
    <3>1. SUFFICES ASSUME m = k PROVE (n < o => i # j /\ a <= b) /\ (o < n => i # j)
      OBVIOUS
    <3>2. \A x, y \in 1..Len(chunks[m]) :
             x < y => chunks[m][x].row # chunks[m][y].row /\ chunks[m][x].ts <= chunks[m][y].ts
      BY <1>4, <2>1 DEF Batch
    <3>3. n \in 1..Len(chunks[m]) /\ o \in 1..Len(chunks[m])
      BY <2>1, <2>2, <3>1
    <3>4. /\ i = chunks[m][n].row /\ j = chunks[m][o].row
          /\ a = chunks[m][n].ts /\ b = chunks[m][o].ts
      BY <2>4, <2>5, <3>1
    <3>5. QED
      BY <3>2, <3>3, <3>4
  <2>9. m = k /\ n = o => a = b
    BY <2>5
  <2>10. m = k /\ n <= o => a <= b
    BY <2>3, <2>5, <2>8, <2>9
  <2>11. i = j => m = k /\ n = o
    BY <2>3, <2>4, <2>7, <2>8
  <2>12. QED
    BY <2>1, <2>2, <2>4, <2>5, <2>7, <2>10, <2>11
<1>9. ASSUME batched = <<>>
      PROVE  RowsOut = {i \in 1..Seen : UsableIn(file, i)}
  <2>1. \A i : ~Holds(batched, i)
    BY <1>9 DEF Holds
  <2>2. \A i : i \in RowsOut <=> i \in 1..Seen /\ UsableIn(file, i)
    BY <1>3, <1>6, <2>1
  <2>3. QED
    BY <2>2
<1>10. Seen = IF pipe = <<>> THEN taken ELSE taken - Len(pipe)
  <2>1. pipe = <<>> => Len(pipe) = 0
    OBVIOUS
  <2>2. taken \in Nat
    BY <1>1, <1>2
  <2>3. QED
    BY <2>1, <2>2 DEF Seen
<1>11. \A i : Usable(i) <=> UsableIn(file, i)
  BY DEF Usable, UsableIn
<1>12. outcome = "complete" => RowsOut = {i \in 1..CaptureLength : Usable(i)}
  <2>1. SUFFICES ASSUME outcome = "complete" PROVE RowsOut = {i \in 1..CaptureLength : Usable(i)}
    OBVIOUS
  <2>2. batched = <<>> /\ pipe = <<>> /\ taken = Len(file.rows)
    <3>1. CASE file.format = "csv"
      BY <1>1, <2>1, <3>1 DEF CsvInv
    <3>2. CASE file.format = "pcap"
      BY <1>1, <2>1, <3>2 DEF PcapInv
    <3>3. QED
      BY <1>2, <3>1, <3>2
  <2>3. Seen = CaptureLength
    BY <1>2, <1>10, <2>2
  <2>4. QED
    BY <1>9, <1>11, <2>2, <2>3
<1>13. outcome = "error" =>
          RowsOut = {i \in 1..IF file.format = "pcap" THEN Readable ELSE Readable - (Readable % CsvChunk) :
                        Usable(i)}
  <2>1. SUFFICES ASSUME outcome = "error"
                 PROVE  RowsOut = {i \in 1..IF file.format = "pcap" THEN Readable
                                            ELSE Readable - (Readable % CsvChunk) : Usable(i)}
    OBVIOUS
  <2>2. /\ batched = <<>> /\ pipe = <<>>
        /\ taken = IF file.format = "pcap" THEN Readable ELSE Readable - (Readable % CsvChunk)
    <3>1. CASE file.format = "csv"
      BY <1>1, <1>2, <2>1, <3>1 DEF CsvInv
    <3>2. CASE file.format = "pcap"
      BY <1>1, <1>2, <2>1, <3>2 DEF PcapInv
    <3>3. QED
      BY <1>2, <3>1, <3>2
  <2>3. Seen = IF file.format = "pcap" THEN Readable ELSE Readable - (Readable % CsvChunk)
    BY <1>10, <2>2
  <2>4. QED
    BY <1>9, <1>11, <2>2, <2>3
<1>14. EveryRowOnce
  <2>1. ASSUME NEW p \in Places
        PROVE  /\ Usable(EventAt(p).row) /\ EventAt(p).ts = file.rows[EventAt(p).row].ts
               /\ EventAt(p).fields \in {0, EventAt(p).row}
               /\ EventAt(p).fields = 0 <=> ~file.rows[EventAt(p).row].numeric
    <3>1. PICK i : i = EventAt(p).row
      OBVIOUS
    <3>2. i \in 1..Len(file.rows) /\ i # 0
      BY <1>2, <1>7, <3>1 DEF IsEventOf
    <3>3. EventAt(p).fields = IF file.rows[i].numeric THEN i ELSE 0
      BY <1>7, <3>1 DEF IsEventOf
    <3>4. QED
      BY <1>7, <1>11, <3>1, <3>2, <3>3 DEF IsEventOf
  <2>2. \A p, q \in Places : EventAt(p).row = EventAt(q).row => p = q
    BY <1>8
  <2>3. QED
    BY <1>12, <1>13, <2>1, <2>2 DEF EveryRowOnce
<1>15. ChunksAreOrdered
  BY <1>8 DEF ChunksAreOrdered
<1>16. WaitsOnlyForStderr
  <2>1. SUFFICES ASSUME file.format = "pcap", outcome = "reading", tshark = "running", taken # Readable,
                        file.rows[taken + 1].warns, ~(stderr < StderrLines)
                 PROVE  Cardinality({i \in 1..taken + 1 : file.rows[i].warns}) > StderrLines
    BY DEF WaitsOnlyForStderr
  <2>2. PICK t \in Nat : t = taken
    BY <1>1, <1>2
  <2>3. PICK a \in Nat : a = Cardinality(Complaints(file, t))
    BY ComplaintsCounted
  <2>4. Cardinality(Complaints(file, t + 1)) = a + 1
    BY <2>1, <2>2, <2>3, ComplaintsCounted
  <2>5. stderr \in Nat /\ stderr <= a /\ StderrLines \in Nat
    BY <1>1, <2>1, <2>2, <2>3, ParserAssumption DEF StderrInv
  <2>6. a + 1 > StderrLines
    BY <2>1, <2>5
  <2>7. QED
    BY <2>2, <2>4, <2>6 DEF Complaints
<1>17. QED
  BY <1>14, <1>15, <1>16 DEF ParsingIsFaithful

(* Whatever the file, with any sizes of chunks, batches and pipes: every     *)
(* usable row of services/ingest/parsers.py becomes one event with its own   *)
(* numbers, chunks follow the file and are sorted inside, and only a full    *)
(* standard error makes parser and tshark wait on each other for ever.       *)
THEOREM ParsingIsFaithfulHolds == ParserSpec => []ParsingIsFaithful
<1>1. ParserInit => ParserInv
  BY ParserInitInv
<1>2. ParserInv /\ [ParserNext]_parserVars => ParserInv'
  <2>1. SUFFICES ASSUME ParserInv, [ParserNext]_parserVars PROVE ParserInv'
    OBVIOUS
  <2>2. CASE ReadChunk
    BY <2>1, <2>2, ReadChunkInv
  <2>3. ASSUME Writes \/ Closes \/ Exits \/ ReadLine \/ EndOfOutput
        PROVE  file.format = "pcap"
    <3>1. file.format = "csv" => CsvInv /\ file.format # "pcap"
      BY <2>1 DEF ParserInv
    <3>2. ~(Writes \/ Closes \/ Exits \/ ReadLine \/ EndOfOutput) \/ file.format # "csv"
      BY <3>1 DEF CsvInv, Writes, Closes, Exits, ReadLine, EndOfOutput
    <3>3. file.format \in {"csv", "pcap"}
      BY <2>1 DEF ParserInv, IsFile
    <3>4. QED
      BY <2>3, <3>2, <3>3
  <2>4. CASE Writes
    BY <2>1, <2>3, <2>4, WritesInv
  <2>5. CASE Closes \/ Exits
    BY <2>1, <2>3, <2>5, TsharkEndsInv
  <2>6. CASE ReadLine
    BY <2>1, <2>3, <2>6, ReadLineInv
  <2>7. CASE EndOfOutput
    BY <2>1, <2>3, <2>7, EndOfOutputInv
  <2>8. CASE UNCHANGED parserVars
    <3>1. /\ file' = file /\ taken' = taken /\ pipe' = pipe /\ stderr' = stderr /\ tshark' = tshark
          /\ batched' = batched /\ chunks' = chunks /\ outcome' = outcome
      BY <2>8 DEF parserVars
    <3>2. QED
      BY <2>1, <3>1 DEF ParserInv, PipeInv, OutputInv, StderrInv, CsvInv, PcapInv, Seen
  <2>9. QED
    BY <2>1, <2>2, <2>4, <2>5, <2>6, <2>7, <2>8 DEF ParserNext
<1>3. ParserInv => ParsingIsFaithful
  BY ParserInvImplies
<1>4. QED
  BY <1>1, <1>2, <1>3, PTL DEF ParserSpec
=============================================================================
