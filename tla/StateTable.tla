------------------------------ MODULE StateTable ------------------------------
(***************************************************************************)
(* ml/nidra/data/windowize.py and graph_features.py: the flows and packets *)
(* of a day become one row per host and window.  Flow and packet           *)
(* aggregates are fused, a forward pass over the windows adds the graph    *)
(* features that depend on what came before, silent windows are filled in, *)
(* and differences and slopes are taken per host.  The rows keep one       *)
(* feature of each kind.                                                   *)
(***************************************************************************)
EXTENDS Integers, FiniteSets

CONSTANTS Peers,       \* addresses, as numbers
          LastDayWindow,  \* bound: windows of a day are 0 .. LastDayWindow
          MaxDayFlows, MaxDayPackets   \* bounds

ASSUME TableAssumption ==
    /\ IsFiniteSet(Peers)
    /\ {LastDayWindow, MaxDayFlows, MaxDayPackets} \subseteq Nat

VARIABLES dayFlows,    \* <<window_ts, src_ip, dst_ip>> of each flow
          dayPackets   \* <<window_ts, ip_src>> of each packet aggregate

tableVars == <<dayFlows, dayPackets>>

LowestOf(S) == CHOOSE x \in S : \A y \in S : x <= y
HighestOf(S) == CHOOSE x \in S : \A y \in S : y <= x

\* _fuse_flow_and_packet_windows: an outer join, of the hosts that start a
\* flow, within the range of the flows.
FlowWindows(flows) == {f[1] : f \in flows}
FlowSources(flows) == {f[2] : f \in flows}
Fused(flows, packets) ==
    {<<f[1], f[2]>> : f \in flows} \cup
    {p \in packets : /\ p[2] \in FlowSources(flows)
                     /\ p[1] >= LowestOf(FlowWindows(flows))
                     /\ p[1] <= HighestOf(FlowWindows(flows))}

\* compute_window_graph: out_peers and out_degree, over all its endpoints.
out_peers(flows, w, h) == {f[3] : f \in {g \in flows : g[1] = w /\ g[2] = h}}
GraphHosts(flows, w) == UNION {{f[2], f[3]} : f \in {g \in flows : g[1] = w}}
out_degree(flows, w) == [h \in GraphHosts(flows, w) |-> Cardinality(out_peers(flows, w, h))]

\* The k-th smallest of the degrees, equal ones counted apart.
Smallest(degree, k) ==
    CHOOSE d \in {degree[h] : h \in DOMAIN degree} :
        /\ Cardinality({h \in DOMAIN degree : degree[h] < d}) < k
        /\ k <= Cardinality({h \in DOMAIN degree : degree[h] <= d})
TwiceMedian(degree) ==
    LET n == Cardinality(DOMAIN degree)
    IN IF n = 0 THEN 0 ELSE Smallest(degree, (n + 1) \div 2) + Smallest(degree, n \div 2 + 1)

\* The forward pass goes over the windows in which any host sent something.
Passed(rows, w) == {r[1] : r \in {x \in rows : x[1] < w}}

\* PeerTracker when the pass has committed some windows: the peers of them
\* all, and the graph of the last.
NoGraph == [h \in {} |-> 0]
Tracker(flows, passed) ==
    [seen |-> [h \in Peers |-> UNION {out_peers(flows, v, h) : v \in passed}],
     prev |-> IF passed = {} THEN NoGraph ELSE out_degree(flows, HighestOf(passed))]

new_peer_count(tr, peers, h) == Cardinality(peers \ tr.seen[h])
\* The part of the peers with more than the median fan-out, of how many.
neighbour_risk_fraction(tr, peers) ==
    <<Cardinality({p \in peers \cap DOMAIN tr.prev : 2 * tr.prev[p] > TwiceMedian(tr.prev)}),
      Cardinality(peers)>>

\* A row of an active window, and a filled one.
Row(tr, flows, w, h) ==
    LET peers == out_peers(flows, w, h)
    IN [is_active |-> 1, degree |-> Cardinality(peers),
        new_peers |-> new_peer_count(tr, peers, h),
        risk |-> neighbour_risk_fraction(tr, peers)]
EmptyRow == [is_active |-> 0, degree |-> 0, new_peers |-> 0, risk |-> <<0, 0>>]

\* Mutant: slopes are taken over the window around a row.
CentredSlope(x, lo, hi, w) == IF w - 1 < lo \/ w + 1 > hi THEN 0 ELSE x[w + 1] - x[w - 1]

\* Twice the least-squares slope over x[w-2 .. w], of a host's windows lo .. hi.
TwiceSlope3(x, lo, hi, w) == IF w - 2 < lo THEN 0 ELSE x[w] - x[w - 2]
Diff(x, lo, w) == IF w = lo THEN 0 ELSE x[w] - x[w - 1]

\* _fill_empty_windows and _add_dynamics.
HostRows(active, h) ==
    LET ws == {k[1] : k \in {a \in DOMAIN active : a[2] = h}}
        lo == LowestOf(ws)
        hi == HighestOf(ws)
        base == [w \in lo .. hi |-> IF w \in ws THEN active[<<w, h>>] ELSE EmptyRow]
        degree == [w \in lo .. hi |-> base[w].degree]
    IN [w \in lo .. hi |-> [row |-> base[w], d |-> Diff(degree, lo, w),
                            slope |-> TwiceSlope3(degree, lo, hi, w)]]

\* Per host, its rows.
build_state_rows(flows, packets) ==
    LET rows == Fused(flows, packets)
        active == [r \in rows |-> Row(Tracker(flows, Passed(rows, r[1])), flows, r[1], r[2])]
    IN IF flows = {} THEN [h \in {} |-> 0]
       ELSE [h \in FlowSources(flows) |-> HostRows(active, h)]

-----------------------------------------------------------------------------
TableInit == dayFlows = {} /\ dayPackets = {}

RecordFlow ==
    /\ Cardinality(dayFlows) < MaxDayFlows
    /\ \E w \in 0 .. LastDayWindow, src, dst \in Peers :
          src # dst /\ dayFlows' = dayFlows \cup {<<w, src, dst>>}
    /\ UNCHANGED dayPackets

RecordPackets ==
    /\ Cardinality(dayPackets) < MaxDayPackets
    /\ \E w \in 0 .. LastDayWindow, src \in Peers : dayPackets' = dayPackets \cup {<<w, src>>}
    /\ UNCHANGED dayFlows

TableNext == RecordFlow \/ RecordPackets
TableSpec == TableInit /\ [][TableNext]_tableVars

-----------------------------------------------------------------------------
UpTo(S, w) == {x \in S : x[1] <= w}

\* What the graph prior of a row looks at: the windows passed, or their last.
SamePrior(v, rows, others) ==
    \/ Passed(rows, v) = {} /\ Passed(others, v) = {}
    \/ /\ Passed(rows, v) # {} /\ Passed(others, v) # {}
       /\ HighestOf(Passed(rows, v)) = HighestOf(Passed(others, v))

\* Two rows that agree in everything but the graph prior.
AgreeButForPrior(a, b) ==
    /\ a.row.is_active = b.row.is_active /\ a.row.degree = b.row.degree
    /\ a.row.new_peers = b.row.new_peers /\ a.d = b.d /\ a.slope = b.slope

(* What comes later changes no feature of a row: the rows of a table cut   *)
(* off after any window are, as far as they exist, the rows of the whole   *)
(* day, but for neighbour_risk_fraction, which a later flow changes when   *)
(* it makes a host of packets count and so tells which window was the last *)
(* before; and a host's rows are contiguous, from an active one to an      *)
(* active one.  (windowize.py:333, 347-348, 369-370; graph_features.py:42) *)
NoFeatureLooksAhead ==
    \E day \in {build_state_rows(dayFlows, dayPackets)} :
        /\ \A w \in 0 .. LastDayWindow :
             \E cut \in {build_state_rows(UpTo(dayFlows, w), UpTo(dayPackets, w))} :
                \A h \in DOMAIN cut : \A v \in DOMAIN cut[h] :
                    /\ h \in DOMAIN day /\ v \in DOMAIN day[h]
                    /\ AgreeButForPrior(cut[h][v], day[h][v])
                    /\ SamePrior(v, Fused(UpTo(dayFlows, w), UpTo(dayPackets, w)),
                                    Fused(dayFlows, dayPackets))
                          => cut[h][v] = day[h][v]
        /\ \A h \in DOMAIN day :
             /\ DOMAIN day[h] = LowestOf(DOMAIN day[h]) .. HighestOf(DOMAIN day[h])
             /\ day[h][LowestOf(DOMAIN day[h])].row.is_active = 1
             /\ day[h][HighestOf(DOMAIN day[h])].row.is_active = 1

(* "fraction of this host's peers whose out-degree in the PREVIOUS window  *)
(* exceeded the previous window's median" (graph_features.py:61-63): the   *)
(* prior of an active row is read from the graph of the window before it.  *)
PriorIsOfTheWindowBefore ==
    \E day \in {build_state_rows(dayFlows, dayPackets)} :
        \A h \in DOMAIN day : \A v \in DOMAIN day[h] :
            day[h][v].row.is_active = 1 =>
                LET before == out_degree(dayFlows, v - 1)
                    peers == out_peers(dayFlows, v, h)
                IN day[h][v].row.risk
                     = <<Cardinality({p \in peers \cap DOMAIN before :
                                         2 * before[p] > TwiceMedian(before)}), Cardinality(peers)>>
=============================================================================
