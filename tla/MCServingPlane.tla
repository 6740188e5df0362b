--------------------------- MODULE MCServingPlane ---------------------------
(* Instances of the components of the serving plane that share no state:   *)
(* `unit` names the one that runs, the others stay as they are.            *)
EXTENDS EpisodeLifecycle, Fanout, RateLimit, Backlog, Accounts, Queries, Upload, Console,
        Parsers, StubPredictor, WhatIf, DemoReplay, FileForecasts,
        AttackMapping

VARIABLE unit

MCLimit == [general |-> 2, ingest |-> 1]
MCWindowMs == [general |-> 2, ingest |-> 3]
MCEmailOf == [r1 |-> "a", r2 |-> "a", r3 |-> "b"]
MCLength == [base |-> [h1 |-> 3, h2 |-> 3], short |-> [h3 |-> 1, h1 |-> 2], twin |-> [h2 |-> 1],
             empty |-> [h4 |-> 0]]
MCKeyOf == [base |-> "builtin", short |-> "short.pcap:1", twin |-> "short.pcap:1", empty |-> "empty.pcap:2"]

(* The stub's surrogate: two drivers, a squash and a logistic in tenths.    *)
MCWeight == [a |-> 2, b |-> 1]
MCIntercept == -3
MCBounds == [a |-> <<0, 4>>, b |-> <<-9, 9>>]
MCSquash(v) == IF v > 2 THEN 2 ELSE IF v < -2 THEN -2 ELSE v
MCSigmoid(z) == LET p == z + 5 IN IF p < 0 THEN 0 ELSE IF p > 10 THEN 10 ELSE p

(* The what-if's model: two features, of which the mask drops one, two      *)
(* windows of history and one context that is too short.                    *)
MCRaw(x, y) == [seen |-> x, dropped |-> y]
MCRawContexts == {<<MCRaw(0, 1), MCRaw(1, 2)>>, <<MCRaw(1, 1)>>}
MCScaleOf(f, v) == v - 1
MCMoveOf(fed, cur, prev, f) == (cur["seen"] - prev["seen"]) + fed[1]["seen"] + cur["dropped"]
MCNoise(draw, s, f) == IF (draw.seed + draw.drawn * s) % 3 = 0 THEN 1 ELSE 0
MCRiskOf(x) == x["seen"] + 1 + x["dropped"]

(* The demo's day: the victim with and without its attack in place, peers   *)
(* that are quiet, attacked, late, early or interrupted.                    *)
MCPeerOrder == <<"p", "q", "x">>
MCDay(windows, attacks) == [windows |-> windows, attacked |-> attacks]
MCPeerDays == {MCDay(1..8, {}), MCDay(3..8, {}),
               MCDay((1..8) \ {5}, {}), MCDay(1..8, {8}), MCDay(0..6, {})}
MCVictimDays == {MCDay(1..8, {5, 6}), MCDay(3..8, {5}), MCDay((1..8) \ {2}, {5}),
                 MCDay(1..8, {6}), MCDay(2..6, {5, 6}), MCDay(1..7, {3, 5, 7})}
MCDays == {[v |-> t, p |-> a, q |-> b, x |-> c] :
              t \in MCVictimDays, a \in MCPeerDays, b \in MCPeerDays, c \in MCPeerDays}

(* Captures of two hosts; the second has too few windows, or just enough.   *)
MCHost(h, low, high, attacks) ==
    [i \in 1..(high - low + 1) |->
        [host |-> h, ts |-> low + i - 1,
         stage |-> IF low + i - 1 \in attacks THEN "exfil" ELSE "benign"]]
MCTables == {MCHost("a", 1, 6, x) \o b :
                x \in {{3, 6}, {3, 4, 6}},
                b \in {MCHost("b", 4, 4, {}), MCHost("b", 4, 5, {4, 5})}}

(* Stage distributions: benign, one stage likely or two alike, a rare one.  *)
MCDist(recon, access, lateral, c2, exfil) ==
    [benign |-> 100 - recon - access - lateral - c2 - exfil, recon |-> recon,
     initial_access |-> access, lateral |-> lateral, c2 |-> c2, exfil |-> exfil]
MCStageDists == {MCDist(0, 0, 0, 0, 0), MCDist(25, 12, 2, 1, 0), MCDist(45, 0, 45, 0, 0),
                 MCDist(0, 5, 60, 4, 6), MCDist(0, 0, 0, 40, 40), MCDist(50, 0, 0, 0, 0)}

NoParse ==
    /\ file = [format |-> "csv", rows |-> <<>>, breaks |-> 1]
    /\ taken = 0 /\ pipe = <<>> /\ stderr = 0 /\ batched = <<>> /\ chunks = <<>>
    /\ tshark = "none" /\ outcome = "reading"
NoDemo == day = <<>> /\ replaying = Undecided /\ shown = <<>> /\ explained = <<>> /\ replay = Undecided
NoCapture == labelled = FALSE /\ stateRows = <<>> /\ origins = Unread /\ scores = <<>> /\ written = Unwritten

ServingInit ==
    /\ unit \in {"lifecycle", "fanout", "rate", "backlog", "accounts", "queries", "upload",
                 "console", "parser", "stub", "whatif", "demo", "file", "attack"}
    /\ EpisodeInit /\ FanoutInit /\ RateLimitInit /\ BacklogInit
    /\ AccountsInit /\ QueriesInit /\ UploadInit /\ StubInit /\ WhatIfInit /\ MappingInit
    /\ ConsoleInit /\ (unit # "console" => screen = Mount(KeyOf[BuiltIn], "h1", 0, FALSE, 1))
    /\ IF unit = "parser" THEN ParserInit ELSE NoParse
    /\ IF unit = "demo" THEN DemoInit ELSE NoDemo
    /\ IF unit = "file" THEN FileInit ELSE NoCapture

ServingNext ==
    /\ UNCHANGED unit
    /\ unit # "lifecycle" => UNCHANGED lifecycleVars
    /\ unit # "fanout" => UNCHANGED fanoutVars
    /\ unit # "rate" => UNCHANGED rateVars
    /\ unit # "backlog" => UNCHANGED backlogVars
    /\ unit # "accounts" => UNCHANGED accountVars
    /\ unit # "queries" => UNCHANGED queryVars
    /\ unit # "upload" => UNCHANGED uploadVars
    /\ unit # "console" => UNCHANGED consoleVars
    /\ unit # "parser" => UNCHANGED parserVars
    /\ unit # "stub" => UNCHANGED stubVars
    /\ unit # "whatif" => UNCHANGED whatIfVars
    /\ unit # "demo" => UNCHANGED demoVars
    /\ unit # "file" => UNCHANGED fileVars
    /\ unit # "attack" => UNCHANGED mappingVars
    /\ \/ unit = "lifecycle" /\ EpisodeNext
       \/ unit = "fanout" /\ FanoutNext
       \/ unit = "rate" /\ RateLimitNext
       \/ unit = "backlog" /\ BacklogNext
       \/ unit = "accounts" /\ AccountsNext
       \/ unit = "queries" /\ QueriesNext
       \/ unit = "upload" /\ UploadNext
       \/ unit = "console" /\ ConsoleNext
       \/ unit = "parser" /\ ParserNext
       \/ unit = "stub" /\ StubNext
       \/ unit = "whatif" /\ WhatIfNext
       \/ unit = "demo" /\ DemoNext
       \/ unit = "file" /\ FileNext
       \/ unit = "attack" /\ MappingNext

servingVars == <<unit, lifecycleVars, fanoutVars, rateVars, backlogVars, accountVars, queryVars,
                 uploadVars, consoleVars, parserVars, stubVars, whatIfVars, demoVars, fileVars,
                 mappingVars>>

ServingSpec == ServingInit /\ [][ServingNext]_servingVars /\ FanoutFairness

-----------------------------------------------------------------------------
(* What whoever asks for a forecast without the pipeline is told: by the   *)
(* stub predictor; by the what-ifs, the explanations and the ATT&CK        *)
(* mapping of the real one; and by the two programs that forecast a        *)
(* whole capture.                                                          *)
AnswersAreSound ==
    /\ unit = "stub" => StubAnswersAreSound
    /\ unit = "whatif" => WhatIfsAreComparable
    /\ unit = "attack" => MappingIsSound
    /\ unit = "demo" => ReplayIsInStep
    /\ unit = "file" => FileForecastsAddUp
=============================================================================
