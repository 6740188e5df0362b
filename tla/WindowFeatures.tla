---------------------------- MODULE WindowFeatures ----------------------------
(***************************************************************************)
(* services/features/compute.py: what one host did in a window becomes a   *)
(* vector.  Events are added to a hash of sums and of value counts, in     *)
(* whatever order they come, and forgotten; at the close of the window the *)
(* hash, the graph of all the hosts, the peers of old and the windows      *)
(* before give the features.  Ratios are pairs <<numerator, denominator>>; *)
(* `vector` also holds, for the properties, what happened in each window.  *)
(***************************************************************************)
EXTENDS Integers, Sequences, FiniteSets, Bags, FiniteSetsExt, SequencesExt

CONSTANTS
    Host,          \* the host whose window it is; hosts are numbers
    EventPool,     \* the events that can happen
    MaxInWindow,   \* bound: events in a window
    MaxHappened,   \* bound: events in all windows
    MaxWindows,    \* bound: windows
    MaxGapWindows, \* config: max_gap_windows
    ElevatedFanout, DegreeCap   \* config: elevated_fanout, clustering_degree_cap

\* A packet without a payload length (not TCP) has len = -1.
ASSUME WindowAssumption ==
    /\ EventPool \subseteq [kind : {"flow", "packet"}, src : Nat, dst : Nat, pkts : Nat,
                            syn : Nat, iat : Nat, len : Nat \cup {-1}, retrans : {0, 1}]
    /\ {Host, MaxInWindow, MaxHappened, MaxWindows, MaxGapWindows, ElevatedFanout, DegreeCap} \subseteq Nat

VARIABLES sums, dists, edges, previousEdges, knownPeers, lastTs, history, vector, happened

windowVars == <<sums, dists, edges, previousEdges, knownPeers, lastTs, history, vector, happened>>

Scalars == {"n_flows", "n_packets", "pkt_count", "flow_pkts", "syn", "iat_sum", "iat_sq",
            "n_payload", "payload_sum", "payload_sq", "retrans_count"}
DIST_PREFIXES == {"dst_ip", "payload", "iat_max"}
EmptySums == [f \in Scalars |-> 0]
EmptyDists == [d \in DIST_PREFIXES |-> EmptyBag]
DYNAMIC_SOURCES == {"syn_ratio", "out_degree", "iat_var"}

WindowInit ==
    /\ sums = EmptySums /\ dists = EmptyDists /\ edges = {} /\ previousEdges = {}
    /\ knownPeers = {} /\ lastTs = 0 /\ history = <<>> /\ vector = <<>> /\ happened = EmptyBag

-----------------------------------------------------------------------------
\* Numerics.  One never divides by zero.
Zero == <<0, 1>>
safe_div(n, d) == IF d = 0 THEN Zero ELSE <<n, d>>
variance(total, total_sq, n) ==
    IF n <= 0 THEN Zero ELSE <<Max({0, n * total_sq - total * total}), n * n>>

Occurrences(dist, S) == MapThenSumSet(LAMBDA v : CopiesIn(v, dist), S)
\* Nearest rank, q a ratio.
percentile(dist, q) ==
    LET values == BagToSet(dist)
        Reached(v) == q[2] * Occurrences(dist, {x \in values : x <= v})
                      >= q[1] * Occurrences(dist, values)
    IN IF values = {} THEN 0 ELSE Min({v \in values : Reached(v)})

\* In thousandths of a nat, for up to four observations.
Ln == <<0, 693, 1099, 1386>>
shannon_entropy(dist) ==
    LET n == Occurrences(dist, BagToSet(dist))
    IN IF n = 0 THEN Zero
       ELSE <<n * Ln[n] - MapThenSumSet(LAMBDA v : CopiesIn(v, dist) * Ln[CopiesIn(v, dist)],
                                        BagToSet(dist)), n>>

Minus(x, y) == <<x[1] * y[2] - y[1] * x[2], x[2] * y[2]>>
Same(x, y) == x[1] * y[2] = y[1] * x[2]
SLOPE_WINDOW == 3
\* The least-squares slope against 0, 1, 2: numerator over the denominator 2.
ols_slope(values) ==
    IF Len(values) < SLOPE_WINDOW THEN Zero
    ELSE LET d == Minus(values[3], values[1]) IN <<d[1], 2 * d[2]>>

-----------------------------------------------------------------------------
\* What one event adds to the sums of its source, and to its value counts.
event_increments(e) ==
    IF e.kind = "flow"
    THEN [EmptySums EXCEPT !["n_flows"] = 1, !["pkt_count"] = e.pkts, !["flow_pkts"] = e.pkts,
                           !["syn"] = e.syn, !["iat_sum"] = e.iat, !["iat_sq"] = e.iat * e.iat]
    ELSE LET payload == Max({e.len, 0})
         IN [EmptySums EXCEPT !["n_packets"] = 1, !["pkt_count"] = 1, !["syn"] = e.syn,
                              !["n_payload"] = IF e.len >= 0 THEN 1 ELSE 0,
                              !["payload_sum"] = payload, !["payload_sq"] = payload * payload,
                              !["retrans_count"] = e.retrans]
dist_fields(e) ==
    {<<"dst_ip", e.dst>>}
    \cup (IF e.kind = "flow" THEN {<<"iat_max", e.iat>>} ELSE {})
    \cup (IF e.kind = "packet" /\ e.len >= 0 THEN {<<"payload", e.len>>} ELSE {})

\* An event of the window: the sums are those of its source, the graph is
\* everyone's.
AddEvent(e) ==
    /\ BagCardinality(happened) < MaxInWindow /\ Len(vector) < MaxWindows
    /\ BagCardinality(happened) + MapThenSumSet(LAMBDA i : BagCardinality(vector[i].of), DOMAIN vector)
       < MaxHappened
    /\ edges' = edges \cup {<<e.src, e.dst>>}
    /\ happened' = happened (+) SetToBag({e})
    /\ IF e.src = Host
       THEN /\ sums' = [f \in Scalars |-> sums[f] + event_increments(e)[f]]
            /\ dists' = [d \in DIST_PREFIXES |->
                            dists[d] (+) SetToBag({p[2] : p \in {q \in dist_fields(e) : q[1] = d}})]
       ELSE UNCHANGED <<sums, dists>>
    /\ UNCHANGED <<previousEdges, knownPeers, lastTs, history, vector>>

\* The graph of a window.
successors(g, h) == {e[2] : e \in {x \in g : x[1] = h}}
predecessors(g, h) == {e[1] : e \in {x \in g : x[2] = h}}
reciprocity(g, h) ==
    safe_div(Cardinality(successors(g, h) \cap predecessors(g, h)), Cardinality(successors(g, h)))
clustering(g, h) ==
    LET Around(n) == successors(g, n) \cup predecessors(g, n)
        kept == {n \in Around(h) : Cardinality({m \in Around(h) : m < n}) < DegreeCap}
        n == Cardinality(kept)
        links == {p \in kept \X kept : p[1] < p[2] /\ p[2] \in Around(p[1])}
    IN IF n < 2 THEN Zero ELSE safe_div(2 * Cardinality(links), n * (n - 1))

-----------------------------------------------------------------------------
_flow_features ==
    [syn_ratio |-> safe_div(sums["syn"], sums["pkt_count"]),
     pkts_per_flow_mean |-> safe_div(sums["flow_pkts"], sums["n_flows"]),
     iat_mean |-> safe_div(sums["iat_sum"], sums["n_flows"]),
     iat_var |-> variance(sums["iat_sum"], sums["iat_sq"], sums["n_flows"]),
     iat_max |-> percentile(dists["iat_max"], <<1, 1>>)]

_packet_features ==
    [payload_size_mean |-> safe_div(sums["payload_sum"], sums["n_payload"]),
     payload_size_var |-> variance(sums["payload_sum"], sums["payload_sq"], sums["n_payload"]),
     payload_size_p95 |-> percentile(dists["payload"], <<95, 100>>),
     retrans_rate |-> safe_div(sums["retrans_count"], sums["n_packets"])]

_graph_features(new_peers) ==
    LET peers == successors(edges, Host)
        Elevated == {p \in peers : Cardinality(successors(previousEdges, p)) >= ElevatedFanout}
    IN [out_degree |-> <<Cardinality(peers), 1>>,
        in_degree |-> <<Cardinality(predecessors(edges, Host)), 1>>,
        dst_ip_entropy |-> shannon_entropy(dists["dst_ip"]), new_peer_count |-> new_peers,
        neighbour_risk_fraction |-> safe_div(Cardinality(Elevated), Cardinality(peers)),
        local_clustering_coeff |-> clustering(edges, Host),
        reciprocity |-> reciprocity(edges, Host)]

LastOnes(s, n) == SubSeq(s, Max({1, Len(s) - n + 1}), Len(s))
\* Mutant: the difference is against the oldest window kept.
StaleDynamics(current, before) ==
    [d |-> [f \in DYNAMIC_SOURCES |-> IF before = <<>> THEN Zero
                                      ELSE Minus(current[f], Head(before)[f])],
     slope3 |-> [f \in DYNAMIC_SOURCES |->
                    LET tail == LastOnes(before, SLOPE_WINDOW - 1)
                    IN ols_slope([i \in 1 .. Len(tail) |-> tail[i][f]] \o <<current[f]>>)]]

\* Against the windows before, oldest first.
_dynamics(current, before) ==
    [d |-> [f \in DYNAMIC_SOURCES |-> IF before = <<>> THEN Zero
                                      ELSE Minus(current[f], Last(before)[f])],
     slope3 |-> [f \in DYNAMIC_SOURCES |->
                    LET tail == LastOnes(before, SLOPE_WINDOW - 1)
                    IN ols_slope([i \in 1 .. Len(tail) |-> tail[i][f]] \o <<current[f]>>)]]
tracked_values(features) == [f \in DYNAMIC_SOURCES |-> features[f]]
HISTORY_LEN == 3

\* worker.py, _fill_gap: the windows since the host was last heard, as rows of
\* zeros and in the history, unless they are too many; then the history too
\* is dropped, and the sequence starts again.
silentWindows == IF lastTs = 0 THEN {} ELSE lastTs + 1 .. Len(vector)
_fill_gap ==
    IF Cardinality(silentWindows) > MaxGapWindows THEN <<>>
    ELSE LastOnes(history \o [i \in 1 .. Cardinality(silentWindows) |->
                                 [f \in DYNAMIC_SOURCES |-> Zero]], HISTORY_LEN)
zero_features == [f \in {"syn_ratio", "out_degree", "iat_mean"} |-> Zero]
Backfilled ==
    [i \in DOMAIN vector |->
        IF i \in silentWindows /\ Cardinality(silentWindows) <= MaxGapWindows
        THEN vector[i] @@ zero_features ELSE vector[i]]

NextWindow ==
    /\ Len(vector) < MaxWindows
    /\ previousEdges' = edges
    /\ edges' = {} /\ sums' = EmptySums /\ dists' = EmptyDists /\ happened' = EmptyBag

\* The close of a window in which the host sent something: the gap before is
\* filled, new peers are counted before they are added, the history trimmed.
compute_features ==
    /\ NextWindow
    /\ successors(edges, Host) # {}
    /\ LET peers == BagToSet(dists["dst_ip"])
           measured == _flow_features @@ _packet_features
                       @@ _graph_features(Cardinality(peers \ knownPeers))
           dynamics == _dynamics(measured, _fill_gap)
       IN /\ vector' = Append(Backfilled, measured @@ dynamics
                         @@ [is_active |-> sums["n_flows"] + sums["n_packets"] > 0,
                             of |-> happened])
          /\ knownPeers' = knownPeers \cup peers
          /\ lastTs' = Len(vector) + 1
          /\ history' = LastOnes(Append(_fill_gap, tracked_values(measured)), HISTORY_LEN)

\* One in which it sent nothing is closed without it: it gets no row yet.
SilentWindow ==
    /\ NextWindow
    /\ successors(edges, Host) = {}
    /\ vector' = Append(vector, [is_active |-> FALSE, of |-> happened])
    /\ UNCHANGED <<knownPeers, lastTs, history>>

WindowNext == compute_features \/ SilentWindow \/ \E e \in EventPool : AddEvent(e)

-----------------------------------------------------------------------------
\* Own(i, k): the host's own events of kind k in the i-th window.
OwnPackets(i, k) == {e \in BagToSet(vector[i].of) : e.src = Host /\ e.kind = k}
Times(i, e) == CopiesIn(e, vector[i].of)
Total(i, S, Of(_)) == MapThenSumSet(LAMBDA e : Times(i, e) * Of(e), S)
Destinations(i) == {e.dst : e \in {x \in BagToSet(vector[i].of) : x.src = Host}}
Degree(i) == Cardinality(Destinations(i))
Began == {j \in DOMAIN vector : vector[j].is_active}

\* Distributions: the largest gap of a flow, and the payloads' spread, which is
\* the mean squared distance from the mean, though no value was kept.
SpreadsAreRight(i) ==
    LET v == vector[i]
        payloads == {e \in OwnPackets(i, "packet") : e.len >= 0}
        n == Total(i, payloads, LAMBDA e : 1)
        S == Total(i, payloads, LAMBDA e : e.len)
    IN /\ \A e \in OwnPackets(i, "flow") : e.iat <= v.iat_max
       /\ OwnPackets(i, "flow") # {} => v.iat_max \in {e.iat : e \in OwnPackets(i, "flow")}
       /\ n > 0 => Same(v.payload_size_var,
                        <<Total(i, payloads, LAMBDA e : (n * e.len - S) * (n * e.len - S)), n * n * n>>)
       /\ \A e \in payloads : e.len <= v.payload_size_p95
       /\ (v.dst_ip_entropy[1] = 0) <=> (Degree(i) = 1)

\* Peers: new ones are those of no earlier window, ratios are within one.
PeersAreRight(i) ==
    LET v == vector[i]
    IN /\ v.new_peer_count
          = Cardinality(Destinations(i) \ UNION {Destinations(j) : j \in 1 .. i - 1})
       /\ \A r \in {v.local_clustering_coeff, v.reciprocity, v.neighbour_risk_fraction} :
             0 <= r[1] /\ r[1] <= r[2]

\* Dynamics: against the window before and the one before that, silent ones
\* included, as far back as the host has not been silent for longer than
\* max_gap_windows; nothing before it was first heard of, or heard of again.
InSequence(j, i) ==
    \E b \in Began : /\ b <= j
                     /\ \A k \in b .. i - MaxGapWindows :
                           (k .. k + MaxGapWindows) \cap Began # {}
DynamicsAreRight(i) ==
    LET v == vector[i]
    IN /\ Same(v.d["out_degree"], IF i > 1 /\ InSequence(i - 1, i)
                                  THEN <<Degree(i) - Degree(i - 1), 1>> ELSE Zero)
       /\ Same(v.slope3["out_degree"], IF i > 2 /\ InSequence(i - 2, i)
                                       THEN <<Degree(i) - Degree(i - 2), 2>> ELSE Zero)

\* The rows of a host: every window since it was last heard, or none of them,
\* so that a context has no hole (worker.py:10-19).
SequenceHasNoHole(i) ==
    LET Row(j) == "out_degree" \in DOMAIN vector[j]
    IN \A j \in 1 .. i : (\A k \in j .. i - 1 : k \notin Began) /\ j < i =>
          (Row(j) <=> InSequence(j, i))

\* The vector says of a window what an observer of all its events would, after
\* any order of the events, any silence and any peers before.
VectorsDescribeTheirWindows ==
    LET i == Len(vector)
    IN i \in Began => /\ SpreadsAreRight(i) /\ PeersAreRight(i)
                     /\ DynamicsAreRight(i) /\ SequenceHasNoHole(i)
=============================================================================
