--------------------------- MODULE CaptureAnalysis ---------------------------
(***************************************************************************)
(* scripts/analyze_pcap.py from the state table on: which hosts of an      *)
(* uploaded capture are shown, on which windows, and what each is forecast *)
(* from; and web/src/lib/demo-replay.ts, which ranks the hosts by index    *)
(* and draws the outcome of a forecast over its horizons.                  *)
(***************************************************************************)
EXTENDS Integers, FiniteSets, Sequences

CONSTANTS CaptureHosts,   \* as the state table sorts them among equals
          LastSlot,       \* bound: windows of a capture are 0 .. LastSlot
          ContextLength,
          HorizonLength,
          MaxShownHosts, MaxShownWindows,
          Candidates      \* TIMELINE_CANDIDATES

ASSUME AnalysisAssumption ==
    /\ CaptureHosts \subseteq Nat /\ IsFiniteSet(CaptureHosts) /\ LastSlot \in Nat
    /\ {ContextLength, HorizonLength, MaxShownHosts, MaxShownWindows, Candidates} \subseteq Nat \ {0}

VARIABLES windows,     \* build_state_rows: each host's windows, gap-filled, so an interval
          analysed   \* what was made of it

analysisVars == <<windows, analysed>>

NoWindows == <<0, -1>>
Interval(from, to) == [i \in 1 .. to - from + 1 |-> from + i - 1]
Stamps(tbl, h) == Interval(tbl[h][1], tbl[h][2])
WindowsOf(tbl, h) == tbl[h][1] .. tbl[h][2]

\* Some hosts by how many windows they have, most first.
Busier(tbl, g, h) ==
    \/ Len(Stamps(tbl, g)) > Len(Stamps(tbl, h))
    \/ Len(Stamps(tbl, g)) = Len(Stamps(tbl, h)) /\ g < h
Busiest(tbl, hosts) ==
    [i \in 1 .. Cardinality(hosts) |->
        CHOOSE h \in hosts : Cardinality({g \in hosts : Busier(tbl, g, h)}) = i - 1]

EligibleHosts(tbl) == {h \in CaptureHosts : Len(Stamps(tbl, h)) >= ContextLength + 1}
eligible(tbl) == Busiest(tbl, EligibleHosts(tbl))

\* _span: capped from the end, with room for the context run-up.
Kept == MaxShownWindows + ContextLength - 1
span(tbl, h) ==
    LET stamps == Stamps(tbl, h)
    IN IF Len(stamps) > Kept THEN SubSeq(stamps, Len(stamps) - Kept + 1, Len(stamps)) ELSE stamps

\* What is left of a span after the run-up.
Displayed(stamps) == SubSeq(stamps, ContextLength, Len(stamps))

\* The hosts that hold every one of some windows.
Holding(tbl, stamps) ==
    {h \in EligibleHosts(tbl) : {stamps[i] : i \in 1 .. Len(stamps)} \subseteq WindowsOf(tbl, h)}

\* Mutant: a host qualifies by the displayed windows alone.
CoveringDisplayed(tbl, stamps) == Busiest(tbl, Holding(tbl, Displayed(stamps)))

\* The hosts that hold every window of a span, busiest first.
Covering(tbl, stamps) == Busiest(tbl, Holding(tbl, stamps))

\* min(len(covering), max_hosts), then the longer timeline.
Score(tbl, h) == <<IF Len(Covering(tbl, span(tbl, h))) > MaxShownHosts THEN MaxShownHosts
                   ELSE Len(Covering(tbl, span(tbl, h))),
                   Len(Displayed(span(tbl, h)))>>
Beats(a, b) == a[1] > b[1] \/ (a[1] = b[1] /\ a[2] > b[2])

\* The first of the candidates no other one beats; 0 for a capture too short.
Definers(tbl) == {i \in 1 .. Len(eligible(tbl)) :
                    i <= Candidates /\ Len(span(tbl, eligible(tbl)[i])) >= ContextLength + 1}
Definer(tbl) ==
    IF Definers(tbl) = {} THEN 0
    ELSE CHOOSE i \in Definers(tbl) : \A j \in Definers(tbl) :
            LET a == Score(tbl, eligible(tbl)[i])
                b == Score(tbl, eligible(tbl)[j])
            IN Beats(a, b) \/ (a = b /\ i <= j)

\* forecast_host: one forecast per displayed window, from the rows that end there.
forecast_host(tbl, h, timeline) ==
    LET stamps == Stamps(tbl, h)
        end(w) == CHOOSE i \in 1 .. Len(stamps) : stamps[i] = w
        first(w) == IF end(w) >= ContextLength THEN end(w) - ContextLength + 1 ELSE 1
    IN [i \in 1 .. Len(timeline) |->
          [origin |-> timeline[i],
           context |-> SubSeq(stamps, first(timeline[i]), end(timeline[i]))]]

\* select_hosts and the loop of analyze; <<>> where AnalysisError is raised.
analyze(tbl) ==
    IF Definer(tbl) = 0 THEN <<>>
    ELSE LET stamps == span(tbl, eligible(tbl)[Definer(tbl)])
             covering == Covering(tbl, stamps)
             shown == SubSeq(covering, 1, IF Len(covering) > MaxShownHosts THEN MaxShownHosts
                                          ELSE Len(covering))
         IN [i \in 1 .. Len(shown) |->
               [host |-> shown[i], series |-> forecast_host(tbl, shown[i], Displayed(stamps))]]

\* realityOverlay: the horizons with a later observation, in their order.
Ascending(marks) ==
    [n \in 1 .. Cardinality(marks) |-> CHOOSE ts \in marks : Cardinality({u \in marks : u < ts}) = n - 1]
realityOverlay(series, i) ==
    Ascending({ts \in series[i].origin + 1 .. series[i].origin + HorizonLength :
                  \E j \in 1 .. Len(series) : series[j].origin = ts})

-----------------------------------------------------------------------------
AnalysisInit == windows = [h \in CaptureHosts |-> NoWindows] /\ analysed = <<>>

\* A capture arrives and is analysed.
Analyse ==
    /\ \A h \in CaptureHosts : windows[h] = NoWindows
    /\ windows' \in [CaptureHosts -> {NoWindows} \cup
                     {w \in (0 .. LastSlot) \X (0 .. LastSlot) : w[1] <= w[2]}]
    /\ analysed' = analyze(windows')

AnalysisNext == Analyse
AnalysisSpec == AnalysisInit /\ [][AnalysisNext]_analysisVars

-----------------------------------------------------------------------------
Series(i) == analysed[i].series

(* The hosts shown are ranked at one instant: at an index every one has a  *)
(* forecast, of the same window, from the ContextLength windows that end   *)
(* there; and the outcome marks of a forecast are those of its first       *)
(* horizons, so mark i is compared with the band of horizon i.             *)
(* (analyze_pcap.py:61-63, 158-170; demo-console.tsx:179-183.)             *)
RankedAtOneInstant ==
    \A i \in 1 .. Len(analysed) :
        /\ Len(Series(i)) = Len(Series(1)) /\ Len(Series(i)) > 0
        /\ \A t \in 1 .. Len(Series(i)) :
              /\ Series(i)[t].origin = Series(1)[t].origin
              /\ Series(i)[t].context = Interval(Series(i)[t].origin - ContextLength + 1,
                                                 Series(i)[t].origin)
              /\ LET marks == realityOverlay(Series(i), t)
                 IN marks = Interval(Series(i)[t].origin + 1, Series(i)[t].origin + Len(marks))
==============================================================================
