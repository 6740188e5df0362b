----------------------------- MODULE FlowAssembly -----------------------------
(***************************************************************************)
(* ml/nidra/data/flow_assemble.py: the packets of one connection, in time  *)
(* order, are cut into flows by one pass, and the flows are given a        *)
(* direction.  Connections do not meet: every table is grouped by key.     *)
(***************************************************************************)
EXTENDS Naturals, Sequences, FiniteSets

CONSTANTS FlowTimeout,     \* DEFAULT_FLOW_TIMEOUT_S
          FinCloses,       \* FIN_CLOSES_FLOW_AT
          MinPackets,      \* MIN_PACKETS_PER_FLOW
          MaxPackets, MaxGap   \* bounds: packets, and seconds between two

ASSUME AssemblyAssumption ==
    {FlowTimeout, FinCloses, MinPackets, MaxPackets, MaxGap} \subseteq Nat /\ FinCloses > 0

VARIABLES packets   \* of the connection, as captured so far

assemblyVars == <<packets>>

Flags == {"none", "fin", "rst"}
Ends == {"a", "b"}

\* What the loop of segment_ids carries from packet to packet.
Fresh(i, ps, seg, epoch) ==
    [seg |-> seg, epoch |-> epoch, start |-> ps[i].time, fin_seen |-> 0, closed |-> FALSE]

\* After the packet: an RST closes, and so does the FIN that completes the count.
Marked(st, flag) ==
    CASE flag = "rst" -> [st EXCEPT !.closed = TRUE]
      [] flag = "fin" -> [st EXCEPT !.fin_seen = @ + 1, !.closed = st.fin_seen + 1 >= FinCloses]
      [] OTHER -> st

\* Mutant: a timeout opens a flow, and the count of FINs goes on.
CutKeepsFins(st, ps, i) ==
    IF ~(st.closed \/ ps[i].time - st.start > FlowTimeout) THEN st
    ELSE [Fresh(i, ps, st.seg + 1, IF st.closed THEN st.epoch + 1 ELSE st.epoch)
            EXCEPT !.fin_seen = st.fin_seen]

\* A new flow after a closing packet, or too long after the flow's first one;
\* only a closing one starts a new direction epoch.
Cut(st, ps, i) ==
    IF ~(st.closed \/ ps[i].time - st.start > FlowTimeout) THEN st
    ELSE Fresh(i, ps, st.seg + 1, IF st.closed THEN st.epoch + 1 ELSE st.epoch)

segment_ids(ps) ==
    LET loop[i \in 1 .. Len(ps)] ==
            LET st == IF i = 1 THEN Fresh(1, ps, 0, 0) ELSE Cut(loop[i - 1].after, ps, i)
            IN [seg |-> st.seg, epoch |-> st.epoch, after |-> Marked(st, ps[i].flag)]
    IN [i \in 1 .. Len(ps) |-> [seg |-> loop[i].seg, epoch |-> loop[i].epoch]]

\* Forward is the side of the first packet of the direction epoch.
Source(ps, ids, i) ==
    ps[CHOOSE j \in 1 .. i : ids[j].epoch = ids[i].epoch
                             /\ \A k \in 1 .. j - 1 : ids[k].epoch # ids[j].epoch].from

\* One row per flow of at least MinPackets packets.
assemble_flows(ps) ==
    LET ids == segment_ids(ps)
        of(seg) == {i \in 1 .. Len(ps) : ids[i].seg = seg}
        firstOf(seg) == CHOOSE i \in of(seg) : \A j \in of(seg) : i <= j
    IN {[packets |-> of(seg), src |-> Source(ps, ids, firstOf(seg)),
         timestamp |-> ps[firstOf(seg)].time,
         fwd |-> Cardinality({i \in of(seg) : ps[i].from = Source(ps, ids, i)})] :
            seg \in {s \in {ids[i].seg : i \in 1 .. Len(ps)} : Cardinality(of(s)) >= MinPackets}}

-----------------------------------------------------------------------------
AssemblyInit == packets = <<>>

Capture ==
    /\ Len(packets) < MaxPackets
    /\ \E gap \in 0 .. MaxGap, flag \in Flags, from \in Ends :
          packets' = Append(packets, [from |-> from, flag |-> flag,
                        time |-> IF packets = <<>> THEN 0 ELSE packets[Len(packets)].time + gap])

AssemblyNext == Capture
AssemblySpec == AssemblyInit /\ [][AssemblyNext]_assemblyVars

-----------------------------------------------------------------------------
(* Is [i, j] a run of packets that stays one flow: all within the timeout  *)
(* of its first, no RST before its last, and fewer than FinCloses FINs.    *)
StaysOpen(i, j) ==
    /\ packets[j].time - packets[i].time <= FlowTimeout
    /\ \A k \in i .. j - 1 : packets[k].flag # "rst"
    /\ Cardinality({k \in i .. j - 1 : packets[k].flag = "fin"}) < FinCloses

(* The flows of a connection are the greedy cover of it: each one runs as  *)
(* far as it stays open, the next one starts right there, only those too   *)
(* short are dropped; and a flow that continues a timed-out one keeps its  *)
(* source, one that follows a closed one has that of its first packet.     *)
(* (flow_assemble.py:129-141, 202-203.)                                    *)
FlowsAreMaximalRuns ==
    LET ids == segment_ids(packets)
        n == Len(packets)
        starts == {i \in 1 .. n : i = 1 \/ ids[i].seg # ids[i - 1].seg}
        startOf(i) == CHOOSE s \in starts : s <= i /\ \A t \in starts : t <= i => t <= s
    IN /\ \A i \in 2 .. n : LET s == startOf(i - 1) IN
             /\ ids[i].seg = ids[i - 1].seg <=> StaysOpen(s, i)
             /\ ids[i].epoch # ids[i - 1].epoch <=>
                   /\ i \in starts
                   /\ \/ packets[i - 1].flag = "rst"
                      \/ /\ packets[i - 1].flag = "fin"
                         /\ Cardinality({k \in s .. i - 1 : packets[k].flag = "fin"}) = FinCloses
       /\ \A f \in assemble_flows(packets) :
             \E s \in starts :
                /\ f.packets = {i \in s .. n : startOf(i) = s}
                /\ Cardinality(f.packets) >= MinPackets /\ f.timestamp = packets[s].time
                /\ f.src = packets[CHOOSE e \in starts : /\ ids[e].epoch = ids[s].epoch
                                     /\ \A t \in starts : ids[t].epoch = ids[s].epoch => e <= t].from
=============================================================================
