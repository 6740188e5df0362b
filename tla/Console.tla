------------------------------ MODULE Console ------------------------------
(***************************************************************************)
(* The demo console of web/: a workspace that shows the committed replay   *)
(* or the last accepted upload, the console mounted on it, and the upload  *)
(* panel, whose request outlives the panel.  A capture is the number of    *)
(* forecasts of each of its hosts; React remounts the console when the     *)
(* key of what is shown changes, and keeps its state when it does not.     *)
(***************************************************************************)
EXTENDS Naturals, FiniteSets

CONSTANTS Length,      \* per capture and host, how many forecasts
          BuiltIn,     \* the capture of the committed fixture
          KeyOf,       \* per capture, filename and packet count
          MaxRequests, \* bound: analyses started
          MaxMounts    \* bound: consoles mounted

ConsoleCaptures == DOMAIN Length
HostsOf(c) == DOMAIN Length[c]

\* page.tsx refuses a fixture whose hosts are misaligned.  Two captures of one
\* name and packet count have one key; the fixture's, "builtin", is its own.
ASSUME ConsoleAssumption ==
    /\ BuiltIn \in ConsoleCaptures /\ HostsOf(BuiltIn) # {}
    /\ \A h, g \in HostsOf(BuiltIn) : Length[BuiltIn][h] = Length[BuiltIn][g]
    /\ \A c \in ConsoleCaptures : \A h \in HostsOf(c) : Length[c][h] \in Nat
    /\ \A h \in HostsOf(BuiltIn) : Length[BuiltIn][h] > 0
    /\ \A c \in ConsoleCaptures : KeyOf[c] = KeyOf[BuiltIn] => c = BuiltIn

None == "none"

VARIABLES uploaded,    \* DemoWorkspace: the accepted upload
          screen,      \* the state of the mounted DemoConsole
          panel,       \* the CaptureUpload on the capture view
          inFlight,    \* the fetches, each with the panel that started it
          started      \* how many analyses have been started

consoleVars == <<uploaded, screen, panel, inFlight, started>>

ShownCapture(u) == IF u = None THEN BuiltIn ELSE u
capture_shown == ShownCapture(uploaded)

\* alignedHosts: the hosts of full length; {} when there is nothing to rank.
Present(c) == {h \in HostsOf(c) : Length[c][h] > 0}
Longest(c) == CHOOSE n \in {Length[c][h] : h \in Present(c)} :
                 \A h \in Present(c) : Length[c][h] <= n
alignedHosts(c) == {h \in Present(c) : Length[c][h] = Longest(c)}
windowCount == IF alignedHosts(capture_shown) = {} THEN 0 ELSE Longest(capture_shown)
ti == IF screen.t < windowCount THEN screen.t ELSE windowCount - 1

\* Without a forecast of its host the console renders a single line of text,
\* and with it nothing to press; its clock still runs.
Rendered == screen.host \in Present(capture_shown)
\* The record on screen; a stale one shows nothing, and still holds the clock.
DetailShown ==
    /\ screen.detail # <<>> /\ screen.detail[1] \in HostsOf(capture_shown)
    /\ screen.detail[2] < Length[capture_shown][screen.detail[1]]

\* A console as it mounts, on a host of the capture.
Mount(key, host, t, paused, n) ==
    [key |-> key, host |-> host, t |-> t, detail |-> <<>>, view |-> "dashboard",
     paused |-> paused, mount |-> n]
Closed == [open |-> 0, phase |-> "idle"]

\* The address names a host and a window; invalid ones fall back.
ConsoleInit ==
    /\ uploaded = None /\ panel = Closed /\ inFlight = {} /\ started = 0
    /\ \E h \in alignedHosts(BuiltIn), t \in 0 .. windowCount - 1 :
          screen = Mount(KeyOf[BuiltIn], h, t, t # 0, 1)

-----------------------------------------------------------------------------
\* The clock: whole windows, modulo the length; it holds under a record.
tick(steps) ==
    /\ ~screen.paused /\ screen.detail = <<>> /\ windowCount # 0
    /\ screen' = [screen EXCEPT !.t = (@ + steps) % windowCount]
    /\ UNCHANGED <<uploaded, panel, inFlight, started>>

seek(t) ==
    /\ Rendered /\ screen.view = "dashboard" /\ t < windowCount
    /\ screen' = [screen EXCEPT !.t = t, !.paused = TRUE]
    /\ UNCHANGED <<uploaded, panel, inFlight, started>>

setPlaying(paused) ==
    /\ Rendered /\ screen.view = "dashboard" /\ screen' = [screen EXCEPT !.paused = paused]
    /\ UNCHANGED <<uploaded, panel, inFlight, started>>

\* A row of the fleet table, or the recommendation to follow the crossing host.
setHost(h) ==
    /\ Rendered /\ screen.view = "dashboard" /\ h \in alignedHosts(capture_shown)
    /\ screen' = [screen EXCEPT !.host = h]
    /\ UNCHANGED <<uploaded, panel, inFlight, started>>

openDetail(h, i) ==
    /\ Rendered /\ screen.view # "capture" /\ ~DetailShown
    /\ h \in alignedHosts(capture_shown) /\ i < Length[capture_shown][h]
    /\ screen' = [screen EXCEPT !.detail = <<h, i>>, !.paused = TRUE]
    /\ UNCHANGED <<uploaded, panel, inFlight, started>>

closeDetail ==
    /\ Rendered /\ DetailShown /\ screen' = [screen EXCEPT !.detail = <<>>]
    /\ UNCHANGED <<uploaded, panel, inFlight, started>>

\* The rail stays usable under an open record; leaving the capture view
\* unmounts the panel, not its fetch.
setView(v) ==
    /\ Rendered /\ screen.view # v
    /\ screen' = [screen EXCEPT !.view = v]
    /\ panel' = IF v = "capture" THEN [open |-> started + 1, phase |-> "idle"] ELSE Closed
    /\ UNCHANGED <<uploaded, inFlight, started>>

\* analyse: a drop while running is ignored, a chosen file is not.
analyse(c) ==
    /\ panel.open # 0 /\ c # BuiltIn /\ started < MaxRequests
    /\ started' = started + 1
    /\ panel' = [panel EXCEPT !.phase = "running"]
    /\ inFlight' = inFlight \cup {[id |-> started + 1, capture |-> c, from |-> screen.mount,
                                   panel |-> panel.open]}
    /\ UNCHANGED <<uploaded, screen>>

\* What the panel that asked shows; nothing if it is gone.
Tell(f, phase) == panel' = IF panel.open = f.panel /\ screen.mount = f.from
                           THEN [panel EXCEPT !.phase = phase] ELSE panel

\* POST answers with a reason: not a pcap, too large, refused by the analyser,
\* timed out; or the route cannot be reached.
AnalysisFails(f) ==
    /\ inFlight' = inFlight \ {f} /\ Tell(f, "failed")
    /\ UNCHANGED <<uploaded, screen, started>>

\* Mutant: the console has no key, and its state outlives the capture.
ShowsWithoutRemount(u, from) ==
    screen' = IF screen.mount = from THEN [screen EXCEPT !.view = "dashboard"] ELSE screen

\* The console a change of `uploaded` leaves on screen: a fresh one under a
\* new key, else the old one, whose view the callback of `from` resets.
Shows(u, from) ==
    IF KeyOf[ShownCapture(u)] # screen.key
    THEN \E h \in alignedHosts(ShownCapture(u)) :
            screen' = Mount(KeyOf[ShownCapture(u)], h, 0, u # None, screen.mount + 1)
    ELSE screen' = IF screen.mount = from THEN [screen EXCEPT !.view = "dashboard"] ELSE screen

\* A panel goes with what it was rendered in, and a new one comes with it.
PanelAfter ==
    panel' = IF ~Rendered' \/ screen'.view # "capture" THEN Closed
             ELSE IF Rendered THEN panel ELSE [open |-> started + 1, phase |-> "idle"]

\* accept: an upload with nothing to rank is refused, and the callback of the
\* console that asked still returns to its dashboard.
accept_upload(f) ==
    /\ screen.mount < MaxMounts
    /\ inFlight' = inFlight \ {f}
    /\ uploaded' = IF alignedHosts(f.capture) = {} THEN uploaded ELSE f.capture
    /\ Shows(uploaded', f.from)
    /\ PanelAfter
    /\ UNCHANGED started

onClear ==
    /\ Rendered /\ screen.view = "capture" /\ uploaded # None /\ screen.mount < MaxMounts
    /\ uploaded' = None
    /\ Shows(None, screen.mount)
    /\ PanelAfter
    /\ UNCHANGED <<inFlight, started>>

ConsoleNext ==
    \/ \E steps \in 1 .. 2 : tick(steps)
    \/ \E t \in 0 .. windowCount : seek(t)
    \/ \E paused \in BOOLEAN : setPlaying(paused)
    \/ \E h \in HostsOf(capture_shown) : setHost(h)
    \/ \E h \in HostsOf(capture_shown), i \in 0 .. windowCount : openDetail(h, i)
    \/ closeDetail \/ onClear
    \/ \E v \in {"dashboard", "search", "capture"} : setView(v)
    \/ \E c \in ConsoleCaptures : analyse(c)
    \/ \E f \in inFlight : accept_upload(f) \/ AnalysisFails(f)

ConsoleSpec == ConsoleInit /\ [][ConsoleNext]_consoleVars

-----------------------------------------------------------------------------
(* Whatever arrives while the console runs, its host, its window and its   *)
(* open record were each chosen in a capture of the key now shown: indices *)
(* never outlive a change of key.  They exist in the capture shown only if *)
(* no other capture has its name and packet count: the console "is         *)
(* remounted (via `key`) when the source changes" (demo-workspace.tsx:     *)
(* 13-17), but line 75 gives two such sources one key.                     *)
IndicesFitTheCapture ==
    LET alike == {c \in ConsoleCaptures : KeyOf[c] = screen.key /\ alignedHosts(c) # {}}
    IN  /\ capture_shown \in alike
        /\ \E c \in alike : screen.host \in alignedHosts(c)
        /\ \E c \in alike : screen.t < Longest(c)
        /\ screen.detail # <<>> => \E c \in alike :
              screen.detail[1] \in alignedHosts(c) /\ screen.detail[2] < Longest(c)
        /\ alike = {capture_shown} => Rendered /\ screen.t < windowCount
=============================================================================
