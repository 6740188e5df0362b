----------------------------- MODULE DemoReplay -----------------------------
(***************************************************************************)
(* scripts/make_demo_replay.py: the replay of one recorded day that the    *)
(* demo console shows, forecast window by window for the attacked host and *)
(* some quiet ones.  Times are in windows; of a forecast the windows it    *)
(* was made from and whether its peak reaches the threshold are kept.      *)
(***************************************************************************)
EXTENDS Integers, Sequences, FiniteSets, SequencesExt, FiniteSetsExt

CONSTANTS
    Victim, PeerOrder,     \* the attacked host; the others, as groupby sorts them
    OnVictimSubnet,        \* those of them on its /24
    DayTables,             \* of each host the windows it has and those labelled attack
    AnchorOnset, LeadIn, NWindows, ReplayContext, NeedQuiet,
    Limits                 \* --limit, 0 for none

ASSUME DemoReplayAssumption ==
    /\ OnVictimSubnet \subseteq ToSet(PeerOrder)
    /\ \A day \in DayTables : DOMAIN day = ToSet(PeerOrder) \cup {Victim}
    /\ {LeadIn, NWindows, ReplayContext, NeedQuiet} \cup Limits \subseteq Nat

VARIABLES
    day,          \* the cached table that was read
    replaying,    \* the choice of windows and hosts, while it runs
    shown,        \* forecasts made so far, in order
    explained,    \* explanations by the instant they are keyed to
    replay        \* demo-replay.json, if it was written

demoVars == <<day, replaying, shown, explained, replay>>

Undecided == [at |-> "none"]
Refused == [at |-> "refused"]

\* host_frame: the rows of a host, by time.
host_frame(host) ==
    LET has == day[host].windows
        Has(t) == t \in has
    IN  SelectSeq([i \in 1..(Max(has) - Min(has) + 1) |-> Min(has) + i - 1], Has)
contiguous(ts) == Len(ts) > 1 /\ \A i \in 1..(Len(ts) - 1) : ts[i + 1] - ts[i] = 1

\* The row of the first displayed window; 0 where pick_origins gives up.
pick_origins(ts, attacked) ==
    LET hits == {i \in DOMAIN ts : ts[i] = AnchorOnset}
        start == Min(hits) - LeadIn
    IN  IF \/ attacked = {} \/ hits = {} \/ AnchorOnset \notin attacked
           \/ start < ReplayContext \/ start + NWindows - 1 > Len(ts)
        THEN 0 ELSE start

\* Spanning the display is taken to be enough (a mutation).
Spanning(host, lo, hi) ==
    LET ts == host_frame(host)
    IN  /\ ts[1] <= lo - (ReplayContext - 1) /\ ts[Len(ts)] >= hi
        /\ day[host].attacked = {}

\* Hosts without a gap or an attack all day, with rows for every context.
Eligible(host, lo, hi) ==
    LET ts == host_frame(host)
    IN  /\ ts[1] <= lo - (ReplayContext - 1) /\ ts[Len(ts)] >= hi
        /\ contiguous(ts) /\ day[host].attacked = {}

find_quiet_hosts(lo, hi) ==
    LET eligible == SelectSeq(PeerOrder, LAMBDA h : Eligible(h, lo, hi))
        IsLocal(h) == h \in OnVictimSubnet
        IsOther(h) == h \notin OnVictimSubnet
        all == SelectSeq(eligible, IsLocal) \o SelectSeq(eligible, IsOther)
    IN  SubSeq(all, 1, Min({NeedQuiet, Len(all)}))

\* np.searchsorted: as many rows as are earlier, plus one.
searchsorted(ts, lo) == Cardinality({i \in DOMAIN ts : ts[i] < lo}) + 1

\* build, up to the forecasts.
ChooseWindows(limit) ==
    /\ replaying = Undecided
    /\ LET ts == host_frame(Victim)
           n == IF limit = 0 THEN NWindows ELSE limit
           start == IF contiguous(ts) THEN pick_origins(ts, day[Victim].attacked) ELSE 0
       IN  replaying' =
             IF start = 0 \/ start + n - 1 > Len(ts) THEN Refused
             ELSE LET quiet == find_quiet_hosts(ts[start], ts[start + n - 1])
                  IN  IF Len(quiet) < NeedQuiet THEN Refused
                      ELSE [at |-> "forecasting", n |-> n, start |-> start, lo |-> ts[start],
                            hosts |-> <<Victim>> \o quiet, left |-> <<Victim>> \o quiet]
    /\ UNCHANGED <<day, shown, explained, replay>>

Context(ts, end) == SubSeq(ts, end - ReplayContext + 1, end)

\* forecast_series of the next host; what the model says of a window is its own.
ForecastHost ==
    /\ replaying.at = "forecasting" /\ replaying.left # <<>>
    /\ LET host == Head(replaying.left)
           ts == host_frame(host)
           offset == searchsorted(ts, replaying.lo)
           n == replaying.n
           ends == [i \in 1..n |-> offset + i - 1]
       IN  /\ \E peaks \in IF host = Victim THEN [1..n -> BOOLEAN] ELSE {[i \in 1..n |-> FALSE]} :
                shown' = shown \o [i \in 1..n |->
                    [host |-> host, origin |-> ts[ends[i]], context |-> Context(ts, ends[i]), above |-> peaks[i]]]
           /\ explained' = IF host # Victim THEN explained
                           ELSE [t \in {ts[ends[i]] : i \in 1..n} |->
                                   Context(ts, CHOOSE e \in DOMAIN ts : ts[e] = t)]
    /\ replaying' = [replaying EXCEPT !.left = Tail(@)]
    /\ UNCHANGED <<day, replay>>

\* measure, over the rows the display starts at.
measure(series, start, n) ==
    LET ts == host_frame(Victim)
        IsAttack(i) == ts[start + i - 1] \in day[Victim].attacked
        Count(P(_)) == Cardinality({i \in 1..n : P(i)})
    IN  [attack_labelled_windows |-> Count(IsAttack),
         true_positives |-> Count(LAMBDA i : series[i].above /\ IsAttack(i)),
         false_positives |-> Count(LAMBDA i : series[i].above /\ ~IsAttack(i)),
         false_negatives |-> Count(LAMBDA i : ~series[i].above /\ IsAttack(i))]

WriteReplay ==
    /\ replaying.at = "forecasting" /\ replaying.left = <<>> /\ replay = Undecided
    /\ LET series == SelectSeq(shown, LAMBDA f : f.host = Victim)
       IN  replay' = [at |-> "file", hosts |-> replaying.hosts, forecasts |-> shown,
                      explanations |-> explained,
                      measured |-> measure(series, replaying.start, replaying.n)]
    /\ UNCHANGED <<day, replaying, shown, explained>>

DemoInit ==
    /\ day \in DayTables
    /\ replaying = Undecided /\ shown = <<>> /\ explained = <<>> /\ replay = Undecided

DemoNext ==
    \/ \E limit \in Limits : ChooseWindows(limit)
    \/ ForecastHost
    \/ WriteReplay

DemoSpec == DemoInit /\ [][DemoNext]_demoVars

-----------------------------------------------------------------------------
(* Properties, of the replay that was written.                             *)
SeriesOf(host) == SelectSeq(replay.forecasts, LAMBDA f : f.host = host)
ShowsWindow(host) == host \in ToSet(replay.hosts)

\* The same index is the same instant for every host, and each forecast and
\* explanation is made from the windows up to its own.
InStep ==
    /\ \A h \in ToSet(replay.hosts) : \A i \in DOMAIN SeriesOf(h) :
         LET f == SeriesOf(h)[i]
         IN  /\ f.origin = AnchorOnset - LeadIn + i - 1
             /\ f.context = [j \in 1..ReplayContext |-> f.origin - ReplayContext + j]
             /\ ToSet(f.context) \subseteq day[h].windows
    /\ DOMAIN replay.explanations = {f.origin : f \in ToSet(SeriesOf(Victim))}
    /\ \A f \in ToSet(SeriesOf(Victim)) : replay.explanations[f.origin] = f.context

\* A quiet row is quiet, and a stranger is shown only for want of neighbours.
QuietIsQuiet ==
    /\ Len(replay.hosts) = NeedQuiet + 1 /\ IsInjective(replay.hosts)
    /\ \A h \in ToSet(replay.hosts) \ {Victim} : day[h].attacked = {}
    /\ (\E h \in ToSet(PeerOrder) \ OnVictimSubnet : ShowsWindow(h)) =>
          \A h \in OnVictimSubnet :
             Eligible(h, AnchorOnset - LeadIn, AnchorOnset - LeadIn + replaying.n - 1) => ShowsWindow(h)

\* The figures are those of the windows shown.
MeasuredAsShown ==
    LET series == ToSet(SeriesOf(Victim))
        attacked == {f \in series : f.origin \in day[Victim].attacked}
        above == {f \in series : f.above}
    IN  /\ replay.measured.attack_labelled_windows = Cardinality(attacked)
        /\ replay.measured.true_positives = Cardinality(attacked \cap above)
        /\ replay.measured.false_positives = Cardinality(above \ attacked)
        /\ replay.measured.false_negatives = Cardinality(attacked \ above)

\* The replay shows every host at the same instants, attacks only where they
\* were, and the score of just what it shows (make_demo_replay.py:71-174,
\* 201-257): whatever gaps and ends the recorded tables have.
ReplayIsInStep == replay # Undecided => InStep /\ QuietIsQuiet /\ MeasuredAsShown
=============================================================================
