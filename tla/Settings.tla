-------------------------------- MODULE Settings --------------------------------
(***************************************************************************)
(* What the layout rules run with (worker/emi_worker/rules/settings.py):   *)
(* documents from the project, from a file beside the board and from the   *)
(* app, merged over the built-in defaults, and the app's own idea of that  *)
(* (webapp/src/lib/rulesSettings.ts), from which it shows what the next    *)
(* analysis will run with and writes a file that gives the same.           *)
(*                                                                         *)
(* A number is in units of which One make 1.  A pattern is the set of the  *)
(* names it matches.                                                       *)
(***************************************************************************)
EXTENDS Integers, Sequences, FiniteSets, SequencesExt, Folds

CONSTANTS
  RULE_CATALOGUE,   \* function: rule to function: parameter to default
  PER_NET_PARAMS,   \* function: some rules to the parameters a group may set
  BOARD_DEFAULTS,   \* function: setting to default
  POSITIVE,         \* the board settings that must be above zero
  Dielectrics,      \* those that may be zero but not between zero and 1
  One,
  NetClass,         \* function: net to its class
  CableSolvers,
  Words,            \* a value that is no number
  WrongShape,       \* what is no mapping or list where one is due
  Unset             \* what a document does not say

ASSUME SettingsAssumption ==
  /\ DOMAIN PER_NET_PARAMS \subseteq DOMAIN RULE_CATALOGUE
  /\ \A r \in DOMAIN PER_NET_PARAMS : PER_NET_PARAMS[r] \subseteq DOMAIN RULE_CATALOGUE[r]
  /\ POSITIVE \cup Dielectrics \subseteq DOMAIN BOARD_DEFAULTS
  /\ One \in Nat \ {0}

SOURCES == << "default", "project", "file", "run" >>
SEVERITIES == {"critical", "warning", "info"}

Rules == DOMAIN RULE_CATALOGUE
AllParams == UNION {DOMAIN RULE_CATALOGUE[r] : r \in Rules}
Value(v, source) == [value |-> v, source |-> source]
Empty == [k \in {} |-> Unset]

\* The rule of a parameter that a group may set; "" if it is none.
per_net_rule(key) ==
  IF \E r \in DOMAIN PER_NET_PARAMS : key \in PER_NET_PARAMS[r]
    THEN CHOOSE r \in DOMAIN PER_NET_PARAMS : key \in PER_NET_PARAMS[r] ELSE ""

-----------------------------------------------------------------------------
\* The settings: [board, rules, groups, suppressions, cables, solver, warnings],
\* a warning being << source, what is ignored or doubted >>.
DefaultRule(r) ==
  [enabled |-> TRUE, enabled_source |-> "default", severity |-> "", severity_source |-> "default",
   params |-> [k \in DOMAIN RULE_CATALOGUE[r] |-> Value(RULE_CATALOGUE[r][k], "default")]]

defaults ==
  [board |-> [k \in DOMAIN BOARD_DEFAULTS |-> Value(BOARD_DEFAULTS[k], "default")],
   rules |-> [r \in Rules |-> DefaultRule(r)],
   groups |-> << >>, suppressions |-> << >>, cables |-> Empty, solver |-> "nec2c", warnings |-> {}]

check_value(key, v) ==
  /\ v # Words /\ v >= 0
  /\ key \in POSITIVE => v > 0
  /\ key \in Dielectrics => ~(0 < v /\ v < One)

\* What a mapping contributes to another, and what of it is warned about.
Taken(known, given) == RestrictDomain(given, LAMBDA k : k \in known /\ check_value(k, given[k]))
Sourced(given, source) == [k \in DOMAIN given |-> Value(given[k], source)]
Ignored(path, known, given) == {<< path, k >> : k \in DOMAIN given \ DOMAIN Taken(known, given)}

\* One section, or an empty one.
Mapping(section) == IF section = WrongShape THEN Empty ELSE section
Listing(section) == IF section = WrongShape THEN << >> ELSE section
Misshapen(doc, sections) == {<< s, "" >> : s \in {s \in sections : doc[s] = WrongShape}}

\* A rule is TRUE, FALSE or [enabled, severity, params]; TRUE and FALSE stand
\* for a mapping with nothing but enabled.
apply_rule(rule, spec, r, source) ==
  [enabled |-> IF spec.enabled = Unset THEN rule.enabled ELSE spec.enabled,
   enabled_source |-> IF spec.enabled = Unset THEN rule.enabled_source ELSE source,
   severity |-> IF spec.severity \in SEVERITIES THEN spec.severity ELSE rule.severity,
   severity_source |-> IF spec.severity \in SEVERITIES THEN source ELSE rule.severity_source,
   params |-> Sourced(Taken(DOMAIN RULE_CATALOGUE[r], Mapping(spec.params)), source) @@ rule.params]

RuleWarnings(spec, r) ==
  IF r \notin Rules \/ spec = WrongShape THEN {<< "rules", r >>}
  ELSE (IF spec.severity \in SEVERITIES \cup {""} THEN {} ELSE {<< r, "severity" >>})
       \cup (IF spec.params = WrongShape THEN {<< r, "params" >>} ELSE {})
       \cup Ignored(r, DOMAIN RULE_CATALOGUE[r], Mapping(spec.params))

\* A group's parameters are those that some rule looks up per net.
GroupParams == {k \in AllParams : per_net_rule(k) # ""}
apply_group(g, source) ==
  [match |-> g.match, netclass |-> g.netclass, source |-> source,
   params |-> Sourced(Taken(GroupParams, Mapping(g.params)), source)]

apply_assignments(cables) == RestrictDomain(Mapping(cables.connectors), LAMBDA ref : cables.connectors[ref] # WrongShape)

\* A cables section that is no mapping is passed over without a word.
CableSection(doc) == IF doc.cables = WrongShape THEN [solver |-> "", connectors |-> Empty] ELSE doc.cables

Suppressing(x, source) == [rule |-> x.rule, net |-> x.net, reason |-> x.reason, source |-> source]

_apply(s, source, doc) ==
  LET board == Mapping(doc.board)
      rules == Mapping(doc.rules)
      applied(r) == IF r \in DOMAIN rules /\ rules[r] # WrongShape
                      THEN apply_rule(s.rules[r], rules[r], r, source) ELSE s.rules[r]
      groups == SelectSeq(Listing(doc.groups), LAMBDA g : g # WrongShape)
      hidden == SelectSeq(Listing(doc.suppress), LAMBDA x : x # WrongShape)
      cables == CableSection(doc)
      said == Misshapen(doc, {"board", "rules", "groups", "suppress"})
              \cup Ignored("board", DOMAIN BOARD_DEFAULTS, board)
              \cup UNION {RuleWarnings(rules[r], r) : r \in DOMAIN rules}
              \cup UNION {Ignored("group", GroupParams, Mapping(g.params)) : g \in Range(groups)}
              \cup {<< "a group", "" >> : g \in Range(Listing(doc.groups)) \cap {WrongShape}}
              \cup (IF cables.solver \in CableSolvers \cup {""} THEN {} ELSE {<< "solver", cables.solver >>})
              \cup (IF cables.connectors = WrongShape THEN {<< "connectors", "" >>} ELSE {})
              \cup {<< "cable", ref >> : ref \in {ref \in DOMAIN Mapping(cables.connectors) : cables.connectors[ref] = WrongShape}}
              \cup {<< "a suppression", "" >> : x \in Range(Listing(doc.suppress)) \cap {WrongShape}}
              \cup {<< "no reason", x.rule >> : x \in {x \in Range(hidden) : x.reason = ""}}
              \cup {<< "no such rule", x.rule >> : x \in {x \in Range(hidden) : x.rule \cap Rules = {}}}
  IN  [board |-> Sourced(Taken(DOMAIN BOARD_DEFAULTS, board), source) @@ s.board,
       rules |-> [r \in Rules |-> applied(r)],
       groups |-> s.groups \o [i \in DOMAIN groups |-> apply_group(groups[i], source)],
       suppressions |-> s.suppressions \o [i \in DOMAIN hidden |-> Suppressing(hidden[i], source)],
       cables |-> apply_assignments(cables) @@ s.cables,
       solver |-> IF cables.solver \in CableSolvers THEN cables.solver ELSE s.solver,
       warnings |-> s.warnings \cup {<< source, w >> : w \in said}]

\* Documents << source, document >> in turn, most general first.  One that is no
\* mapping or of a newer version is skipped with a warning, and one that is
\* not there without.
load(layers) ==
  FoldLeft(LAMBDA s, l : CASE l[2] = Unset -> s
                           [] l[2] = WrongShape -> [s EXCEPT !.warnings = @ \cup {<< l[1], << "all", "" >> >>}]
                           [] OTHER -> _apply(s, l[1], l[2]),
           defaults, layers)

-----------------------------------------------------------------------------
\* What the rules ask.
matches(g, net) == IF g.netclass # "" THEN NetClass[net] = g.netclass ELSE net \in g.match

\* Mutant: the first group that matches.
FirstGroup(s, rule, key, net) ==
  LET fitting == {i \in DOMAIN s.groups : key \in DOMAIN s.groups[i].params /\ matches(s.groups[i], net)}
  IN  IF fitting # {} THEN s.groups[CHOOSE i \in fitting : \A j \in fitting : i <= j].params[key].value
      ELSE s.rules[rule].params[key].value

\* The last group that matches wins, over every layer's board-wide value.
param(s, rule, key, net) ==
  LET fitting == {i \in DOMAIN s.groups : key \in DOMAIN s.groups[i].params /\ matches(s.groups[i], net)}
  IN  IF fitting # {} THEN s.groups[CHOOSE i \in fitting : \A j \in fitting : i >= j].params[key].value
      ELSE s.rules[rule].params[key].value

enabled(s, rule) == s.rules[rule].enabled
severity(s, rule, natural) == IF s.rules[rule].severity = "" THEN natural ELSE s.rules[rule].severity

\* The first suppression that covers the finding, if there is one.
suppressed(s, rule, net) ==
  {s.suppressions[i] : i \in {i \in DOMAIN s.suppressions :
     LET covers(j) == rule \in s.suppressions[j].rule /\ net \in s.suppressions[j].net
     IN  covers(i) /\ \A j \in 1 .. i - 1 : ~covers(j)}}

\* What a run reports of its settings: rules.json has one of all layers and one
\* without the app's.
snapshot(s) == [s EXCEPT !.warnings = {}]

-----------------------------------------------------------------------------
\* rulesSettings.ts.  The app edits a layer of its own over a snapshot of the
\* others.
NoLayer == [board |-> Empty, rules |-> Empty, groups |-> << >>, suppress |-> << >>,
            cables |-> [solver |-> "", connectors |-> Empty]]
Unsaid == [enabled |-> Unset, severity |-> "", params |-> Empty]

\* What the app shows that the next analysis will run with.
overlay(base, layer) ==
  [base EXCEPT
     !.board = Sourced(layer.board, "run") @@ @,
     !.rules = [r \in DOMAIN @ |-> IF r \in DOMAIN layer.rules THEN
                  LET l == layer.rules[r]
                  IN  [enabled |-> IF l.enabled # Unset THEN l.enabled ELSE @[r].enabled,
                       enabled_source |-> IF l.enabled # Unset THEN "run" ELSE @[r].enabled_source,
                       severity |-> IF l.severity # "" THEN l.severity ELSE @[r].severity,
                       severity_source |-> IF l.severity # "" THEN "run" ELSE @[r].severity_source,
                       params |-> Sourced(l.params, "run") @@ @[r].params]
                ELSE @[r]],
     !.groups = @ \o [i \in DOMAIN layer.groups |-> [match |-> layer.groups[i].match, netclass |-> layer.groups[i].netclass,
                                                     source |-> "run", params |-> Sourced(layer.groups[i].params, "run")]],
     !.suppressions = @ \o [i \in DOMAIN layer.suppress |-> Suppressing(layer.suppress[i], "run")]]

\* What the layer sets to what is underneath anyway is dropped.
prune(layer, base) ==
  LET kept(r) == LET l == layer.rules[r]
                     b == base.rules[r]
                 IN  [enabled |-> IF l.enabled = b.enabled THEN Unset ELSE l.enabled,
                      severity |-> IF l.severity = b.severity THEN "" ELSE l.severity,
                      params |-> RestrictDomain(l.params, LAMBDA k : b.params[k].value # l.params[k])]
  IN  [layer EXCEPT !.board = RestrictDomain(@, LAMBDA k : base.board[k].value # @[k]),
                    !.rules = [r \in {r \in DOMAIN @ : kept(r) # Unsaid} |-> kept(r)]]

\* Everything that is not a default, whichever layer set it.
toRulesDocument(s) ==
  LET numbers(f) == [k \in {k \in DOMAIN f : f[k].source # "default"} |-> f[k].value]
      entry(r) == [enabled |-> IF r.enabled_source # "default" \/ ~r.enabled THEN r.enabled ELSE Unset,
                   severity |-> r.severity, params |-> numbers(r.params)]
  IN  [board |-> numbers(s.board),
       rules |-> [r \in {r \in DOMAIN s.rules : entry(s.rules[r]) # Unsaid} |-> entry(s.rules[r])],
       groups |-> [i \in DOMAIN s.groups |-> [match |-> s.groups[i].match, netclass |-> s.groups[i].netclass,
                                              params |-> [k \in DOMAIN s.groups[i].params |-> s.groups[i].params[k].value]]],
       suppress |-> [i \in DOMAIN s.suppressions |-> [rule |-> s.suppressions[i].rule, net |-> s.suppressions[i].net,
                                                      reason |-> s.suppressions[i].reason]],
       cables |-> [solver |-> IF s.solver = "nec2c" THEN "" ELSE s.solver, connectors |-> s.cables]]

-----------------------------------------------------------------------------
\* What the answers are for every rule and net.
Answers(s) ==
  [board |-> [k \in DOMAIN s.board |-> s.board[k].value],
   rules |-> [r \in Rules |-> << enabled(s, r), [n \in SEVERITIES |-> severity(s, r, n)] >>],
   params |-> [r \in Rules |-> [k \in DOMAIN RULE_CATALOGUE[r] |-> [n \in DOMAIN NetClass |-> param(s, r, k, n)]]],
   hidden |-> [r \in Rules |-> [n \in DOMAIN NetClass |-> {x.reason : x \in suppressed(s, r, n)}]],
   cables |-> s.cables, solver |-> s.solver]

\* A document that can be read.
Readable(layer) == layer[2] \notin {Unset, WrongShape}

\* Of the documents that say a value that can be used, the most specific wins,
\* and the value says where it came from; a group of any layer comes before
\* what the layers say for the whole board.
MostSpecificWins(layers) ==
  LET last(Says(_)) == LET who == {i \in DOMAIN layers : Readable(layers[i]) /\ Says(layers[i][2])}
                       IN  IF who = {} THEN 0 ELSE CHOOSE i \in who : \A j \in who : j <= i
      source(i) == IF i = 0 THEN "default" ELSE layers[i][1]
      boardSays(k, d) == d.board # WrongShape /\ k \in DOMAIN d.board /\ check_value(k, d.board[k])
      speaks(r, d) == d.rules # WrongShape /\ r \in DOMAIN d.rules /\ d.rules[r] # WrongShape
      ruleSays(r, k, d) == /\ speaks(r, d) /\ d.rules[r].params # WrongShape
                           /\ k \in DOMAIN d.rules[r].params
                           /\ check_value(k, d.rules[r].params[k])
      groupSays(k, n, g) == /\ g # WrongShape /\ g.params # WrongShape /\ k \in DOMAIN g.params
                            /\ check_value(k, g.params[k]) /\ matches(g, n)
      groupsSay(k, n, d) == d.groups # WrongShape /\ \E i \in DOMAIN d.groups : groupSays(k, n, d.groups[i])
      of(s) ==
        /\ \A k \in DOMAIN BOARD_DEFAULTS :
             LET i == last(LAMBDA d : boardSays(k, d))
             IN  s.board[k] = Value(IF i = 0 THEN BOARD_DEFAULTS[k] ELSE layers[i][2].board[k], source(i))
        /\ \A r \in Rules :
             LET i == last(LAMBDA d : speaks(r, d) /\ d.rules[r].enabled # Unset)
                 j == last(LAMBDA d : speaks(r, d) /\ d.rules[r].severity \in SEVERITIES)
             IN  /\ enabled(s, r) <=> i = 0 \/ layers[i][2].rules[r].enabled
                 /\ severity(s, r, "natural") = IF j = 0 THEN "natural" ELSE layers[j][2].rules[r].severity
        /\ \A r \in Rules : \A k \in DOMAIN RULE_CATALOGUE[r] :
             LET i == last(LAMBDA d : ruleSays(r, k, d))
             IN  /\ s.rules[r].params[k] = Value(IF i = 0 THEN RULE_CATALOGUE[r][k] ELSE layers[i][2].rules[r].params[k], source(i))
                 /\ \A n \in DOMAIN NetClass :
                      LET j == IF per_net_rule(k) = "" THEN 0 ELSE last(LAMBDA d : groupsSay(k, n, d))
                          by == IF j = 0 THEN << >> ELSE SelectSeq(layers[j][2].groups, LAMBDA g : groupSays(k, n, g))
                      IN  param(s, r, k, n) = IF j = 0 THEN s.rules[r].params[k].value ELSE by[Len(by)].params[k]
  IN  of(load(layers))

\* A document that is there either changes what it speaks of or is warned
\* about, and what it gets wrong changes nothing else.  Two things it may get
\* wrong are passed over: the whole of its cables, and the parameters of a group.
MistakesAreSaid(layer) ==
  LET said(s, d) ==
        LET warned(what, of) == << layer[1], << what, of >> >> \in s.warnings
            shaped(section) == d[section] # WrongShape
            ruleSaid(r, rule) ==
              /\ warned(r, "severity") \/ rule.severity \in {"", s.rules[r].severity}
              /\ IF rule.params = WrongShape THEN warned(r, "params")
                 ELSE \A k \in DOMAIN rule.params :
                        warned(r, k) \/ s.rules[r].params[k] = Value(rule.params[k], layer[1])
            groupSaid(g) ==
              IF g = WrongShape THEN warned("a group", "")
              ELSE \E i \in DOMAIN s.groups :
                     /\ s.groups[i].match = g.match /\ s.groups[i].netclass = g.netclass
                     /\ g.params # WrongShape => \A k \in DOMAIN g.params :
                          \/ warned("group", k)
                          \/ k \in DOMAIN s.groups[i].params /\ s.groups[i].params[k] = Value(g.params[k], layer[1])
            hidingSaid(x) ==
              IF x = WrongShape THEN warned("a suppression", "")
              ELSE /\ Suppressing(x, layer[1]) \in Range(s.suppressions)
                   /\ x.rule \cap Rules # {} \/ warned("no such rule", x.rule)
            cablesSaid(c) ==
              /\ warned("solver", c.solver) \/ c.solver \in {"", s.solver}
              /\ IF c.connectors = WrongShape THEN warned("connectors", "")
                 ELSE \A ref \in DOMAIN c.connectors :
                        warned("cable", ref) \/ (ref \in DOMAIN s.cables /\ s.cables[ref] = c.connectors[ref])
        IN  /\ \A section \in {"board", "rules", "groups", "suppress"} : shaped(section) \/ warned(section, "")
            /\ shaped("board") => \A k \in DOMAIN d.board : warned("board", k) \/ s.board[k] = Value(d.board[k], layer[1])
            /\ shaped("rules") => \A r \in DOMAIN d.rules : warned("rules", r) \/ ruleSaid(r, d.rules[r])
            /\ shaped("groups") => \A g \in Range(d.groups) : groupSaid(g)
            /\ shaped("suppress") => \A x \in Range(d.suppress) : hidingSaid(x)
            /\ shaped("cables") => cablesSaid(d.cables)
  IN  Readable(layer) => said(load(<< layer >>), layer[2])

\* The app shows what the worker will do with its layer, dropped values or not.
PreviewIsWhatRuns(layers, layer) ==
  LET over(base) ==
        \A l \in {layer, prune(layer, base)} :
          /\ overlay(base, l) = snapshot(load(Append(layers, << "run", l >>)))
          /\ Answers(overlay(base, l)) = Answers(overlay(base, layer))
  IN  over(snapshot(load(layers)))

\* The file the app writes, beside the board, gives the same analysis with no
\* layer of the app.
ExportGivesTheSame(layers) ==
  LET kept(s) == Answers(load(<< << "file", toRulesDocument(snapshot(s)) >> >>)) = Answers(s)
  IN  kept(load(layers))

=============================================================================
