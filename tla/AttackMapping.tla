---------------------------- MODULE AttackMapping ----------------------------
(***************************************************************************)
(* ml/nidra/data/attack_mapping.py: what the console is told a projected   *)
(* stage means in ATT&CK terms, as serve/predictor.py builds it, one       *)
(* horizon of a forecast at a time, and the rules of data/labels.py by     *)
(* which a raw label of the training captures becomes a stage.             *)
(*                                                                         *)
(* Tactics and techniques go by the names of the constants that hold them. *)
(* A label that needs it stands for the set of patterns it matches.        *)
(* Probabilities are percentages.  Wording (resolution, note) is left out. *)
(***************************************************************************)
EXTENDS Naturals, Sequences, SequencesExt, FiniteSets

CONSTANTS
    StageDists,   \* the stage distributions a horizon may have
    MappingK,     \* horizons of a forecast
    MinProb       \* min_prob of map_stage_distribution

STAGE_LABELS == <<"benign", "recon", "initial_access", "lateral", "c2", "exfil">>
StageSet == {STAGE_LABELS[i] : i \in DOMAIN STAGE_LABELS}
Index(stage) == CHOOSE i \in DOMAIN STAGE_LABELS : STAGE_LABELS[i] = stage

ASSUME MappingAssumption ==
    /\ StageDists \subseteq [StageSet -> Nat]
    /\ MappingK \in Nat \ {0} /\ MinProb \in Nat \ {0}

VARIABLES
    horizons,     \* of the forecast being built: [stage_dist, attack_mapping]
    progression   \* its progression, once there is one

mappingVars == <<horizons, progression>>
NoProgression == [at |-> "none"]

-----------------------------------------------------------------------------
\* The two curated tables.
STAGE_MAPPINGS ==
    [benign |-> <<>>,
     recon |-> <<"TA_RECON", "TA_DISCOVERY">>,
     initial_access |-> <<"TA_INITIAL_ACCESS", "TA_CREDENTIAL_ACCESS">>,
     lateral |-> <<"TA_LATERAL", "TA_DISCOVERY">>,
     c2 |-> <<"TA_C2">>,
     exfil |-> <<"TA_IMPACT", "TA_EXFIL">>]

TacticOf ==
    [T_SCAN_IP |-> "TA_RECON", T_NET_SVC_DISCOVERY |-> "TA_DISCOVERY",
     T_PASSWORD_GUESS |-> "TA_CREDENTIAL_ACCESS", T_EXTERNAL_REMOTE |-> "TA_INITIAL_ACCESS",
     T_EXPLOIT_PUBLIC |-> "TA_INITIAL_ACCESS", T_REMOTE_SERVICES |-> "TA_LATERAL",
     T_WEB_C2 |-> "TA_C2", T_NET_DOS_FLOOD |-> "TA_IMPACT", T_SVC_EXHAUST |-> "TA_IMPACT",
     T_APP_EXHAUST |-> "TA_IMPACT", T_EXFIL_C2 |-> "TA_EXFIL"]

\* A row of LABEL_MAPPINGS, its label given by the patterns it matches.
LabelRow(matches, stage, techniques) ==
    [matches |-> matches, stage |-> stage, techniques |-> techniques]

LABEL_MAPPINGS ==
    {LabelRow({"portscan"}, "recon", {"T_SCAN_IP", "T_NET_SVC_DISCOVERY"}),
     LabelRow({"ftp-patator"}, "initial_access", {"T_PASSWORD_GUESS", "T_EXTERNAL_REMOTE"}),
     LabelRow({"ssh-patator"}, "initial_access", {"T_PASSWORD_GUESS", "T_EXTERNAL_REMOTE"}),
     LabelRow({"web attack"}, "initial_access", {"T_PASSWORD_GUESS", "T_EXPLOIT_PUBLIC"}),
     LabelRow({"web attack"}, "initial_access", {"T_EXPLOIT_PUBLIC"}),
     LabelRow({"web attack", "sql injection"}, "initial_access", {"T_EXPLOIT_PUBLIC"}),
     LabelRow({"heartbleed"}, "initial_access", {"T_EXPLOIT_PUBLIC"}),
     LabelRow({"infilt"}, "lateral", {"T_REMOTE_SERVICES", "T_NET_SVC_DISCOVERY"}),
     LabelRow({"bot"}, "c2", {"T_WEB_C2"}),
     LabelRow({"dos"}, "exfil", {"T_APP_EXHAUST"}),
     LabelRow({"dos"}, "exfil", {"T_SVC_EXHAUST"}),
     LabelRow({"ddos"}, "exfil", {"T_NET_DOS_FLOOD"})}

\* labels.py: the rules of the CIC dialect, the first match wins; a label that
\* none of them knows is benign.
Rule(pattern, stage) == [pattern |-> pattern, stage |-> stage]
_LABEL_RULES ==
    <<Rule("portscan", "recon"), Rule("ftp-patator", "initial_access"),
      Rule("ssh-patator", "initial_access"), Rule("web attack", "initial_access"),
      Rule("ftp-bruteforce", "initial_access"), Rule("ssh-bruteforce", "initial_access"),
      Rule("brute force web", "initial_access"), Rule("sql injection", "initial_access"),
      Rule("heartbleed", "initial_access"), Rule("infilt", "lateral"), Rule("bot", "c2"),
      Rule("ddos", "exfil"), Rule("dos", "exfil"), Rule("benign", "benign")>>

map_label_to_stage(matches) ==
    LET hits == {i \in DOMAIN _LABEL_RULES : _LABEL_RULES[i].pattern \in matches}
    IN  IF hits = {} THEN "benign"
        ELSE _LABEL_RULES[CHOOSE i \in hits : \A j \in hits : i <= j].stage

\* The command line refuses to print tables that disagree.
validate_tables ==
    /\ \A m \in LABEL_MAPPINGS : map_label_to_stage(m.matches) = m.stage /\ m.stage \in StageSet
    /\ DOMAIN STAGE_MAPPINGS = StageSet

-----------------------------------------------------------------------------
stage_tactics(stage) == STAGE_MAPPINGS[stage]

techniques_for_stage(stage) ==
    UNION {m.techniques : m \in {m \in LABEL_MAPPINGS : m.stage = stage}}

\* The likeliest stage first; Python's sort and max keep equals in the order of
\* STAGE_LABELS.
Likelier(dist, a, b) == dist[a] > dist[b] \/ (dist[a] = dist[b] /\ Index(a) < Index(b))

map_stage_distribution(dist) ==
    LET kept == {s \in StageSet : s # "benign" /\ dist[s] >= MinProb}
        ranked == SetToSortSeq(kept, LAMBDA a, b : Likelier(dist, a, b))
    IN  [i \in DOMAIN ranked |->
           [stage |-> ranked[i], tactics |-> stage_tactics(ranked[i]),
            candidate_techniques |-> techniques_for_stage(ranked[i])]]

Argmax(dist) == CHOOSE s \in StageSet : \A r \in StageSet \ {s} : Likelier(dist, s, r)

\* The stage of each horizon, benign included, and the tactics of those stages
\* in the order in which they first come up.
progression_summary(dists) ==
    LET steps == [k \in DOMAIN dists |-> [k |-> k, stage |-> Argmax(dists[k])]]
        SetDefault(seen, entry) ==
            IF \E i \in DOMAIN seen : seen[i].tactic = entry.tactic THEN seen
            ELSE Append(seen, entry)
        AddStep(seen, step) ==
            LET tactics == stage_tactics(step.stage)
            IN  FoldLeft(SetDefault, seen,
                         [i \in DOMAIN tactics |->
                            [tactic |-> tactics[i], first_k |-> step.k, stage |-> step.stage]])
    IN  [at |-> "done", steps |-> steps, tactics_in_order |-> FoldLeft(AddStep, <<>>, steps)]

-----------------------------------------------------------------------------
MappingInit == horizons = <<>> /\ progression = NoProgression

\* One turn of the loop of forecast over its horizons.
AddHorizon ==
    /\ Len(horizons) < MappingK
    /\ \E dist \in StageDists :
          horizons' = Append(horizons, [stage_dist     |-> dist,
                                        attack_mapping |-> map_stage_distribution(dist)])
    /\ UNCHANGED progression

\* After the loop.
Summarise ==
    /\ Len(horizons) = MappingK /\ progression = NoProgression
    /\ progression' = progression_summary([k \in DOMAIN horizons |-> horizons[k].stage_dist])
    /\ UNCHANGED horizons

MappingNext == AddHorizon \/ Summarise

MappingSpec == MappingInit /\ [][MappingNext]_mappingVars

-----------------------------------------------------------------------------
(* The two answers a forecast gives about a horizon agree, and a technique *)
(* offered for a stage belongs to a tactic the stage is said to mean.  The *)
(* progression is not of "the argmax non-benign stage per step", as its    *)
(* docstring has it (attack_mapping.py:213): its stage is benign wherever  *)
(* benign is the likeliest, whatever attack the mapping ranks first; else  *)
(* it is that attack, or one that is too unlikely for the mapping.         *)
MappingsAgree ==
    /\ validate_tables
    /\ \A k \in DOMAIN horizons :
          \A i \in DOMAIN horizons[k].attack_mapping :
             LET entry == horizons[k].attack_mapping[i]
             IN  \A t \in entry.candidate_techniques :
                    \E j \in DOMAIN entry.tactics : entry.tactics[j] = TacticOf[t]
    /\ progression # NoProgression =>
          \A k \in DOMAIN horizons :
             LET stage == progression.steps[k].stage
                 dist == horizons[k].stage_dist
                 attacks == StageSet \ {"benign"}
             IN  IF \A s \in attacks : dist["benign"] >= dist[s] THEN stage = "benign"
                 ELSE /\ stage \in attacks /\ \A s \in attacks : dist[stage] >= dist[s]
                      /\ IF dist[stage] < MinProb THEN horizons[k].attack_mapping = <<>>
                         ELSE horizons[k].attack_mapping[1].stage = stage

(* Each tactic the projected stages mean is listed once, at the first      *)
(* horizon that means it, and the list goes forward in time.               *)
ProgressionGoesForward ==
    progression # NoProgression =>
        LET order == progression.tactics_in_order
            Means(k) == {STAGE_MAPPINGS[progression.steps[k].stage][i] :
                            i \in DOMAIN STAGE_MAPPINGS[progression.steps[k].stage]}
        IN  /\ \A i, j \in DOMAIN order :
                  i < j => order[i].tactic # order[j].tactic /\ order[i].first_k <= order[j].first_k
            /\ \A i \in DOMAIN order :
                  /\ order[i].tactic \in Means(order[i].first_k)
                  /\ \A k \in 1..(order[i].first_k - 1) : order[i].tactic \notin Means(k)
            /\ \A k \in DOMAIN progression.steps : \A t \in Means(k) :
                  \E i \in DOMAIN order : order[i].tactic = t

MappingIsSound == MappingsAgree /\ ProgressionGoesForward
==============================================================================
