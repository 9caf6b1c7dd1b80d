--------------------------------- MODULE Findings ---------------------------------
(***************************************************************************)
(* From the rules to the list a user reads (worker/emi_worker/rules/       *)
(* checks.py run_rules, model.py dedupe and as_dict, stages/ingest.py):    *)
(* the rules that are on run in turn and one that fails keeps what it had  *)
(* found; long nets are weighed by what other rules found; severities are  *)
(* overridden, the list is sorted and cut, and what is suppressed is set   *)
(* aside with its reason.                                                  *)
(***************************************************************************)
EXTENDS Checks

CONSTANTS
  per_rule_limit,
  RULES,         \* the rules in the order they run
  ByName         \* and sorted by name

RANKS == << "critical", "warning", "info" >>
Rank(severity_) == CHOOSE i \in DOMAIN RANKS : RANKS[i] = severity_

check(rule, b, s) ==
  CASE rule = "plane-gap" -> check_plane_gaps(b, s)
    [] rule = "return-via" -> check_return_vias(b, s)
    [] rule = "stitching" -> check_stitching(b, s)
    [] rule = "edge-stitching" -> check_edge_stitching(b, s)
    [] rule = "stackup" -> check_stackup(b)
    [] rule = "decoupling" -> check_decoupling(b, s)
    [] rule = "via-stub" -> check_via_stubs(b, s)
    [] rule = "radiator" -> check_radiators(b, s)
    [] rule = "edge-proximity" -> check_edge_proximity(b, s)
    [] rule = "copper-island" -> check_copper_islands(b, s)
    [] rule = "crystal" -> check_crystals(b, s)

\* A long net is critical only where its return path is broken too, on a board
\* with planes.
_weigh_radiators(b, found) ==
  LET broken == {f.net : f \in {f \in Range(found) : f.rule \in {"plane-gap", "return-via"} /\ f.severity = "critical" /\ ~Vacant(f.net)}}
      weighed(f) == IF b.dedicated /\ f.rule = "radiator" /\ f.severity = "critical" /\ f.net \notin broken
                      THEN [f EXCEPT !.severity = "warning"] ELSE f
  IN  [i \in DOMAIN found |-> weighed(found[i])]

Overridden(found, s) == [i \in DOMAIN found |-> [found[i] EXCEPT !.severity = severity(s, found[i].rule, @)]]

\* By severity, then by the rule's name, as they came.
Sorted(found) ==
  FlattenSeq([i \in DOMAIN RANKS |-> FlattenSeq([k \in DOMAIN ByName |->
    SelectSeq(found, LAMBDA f : f.severity = RANKS[i] /\ f.rule = ByName[k])])])

\* The mutant: what is over the limit is dropped.
dedupe_first(found) ==
  LET before(i) == {j \in 1 .. i - 1 : found[j].rule = found[i].rule}
      keep == {i \in DOMAIN found : Cardinality(before(i)) < per_rule_limit}
      kept == SelectSeq([i \in DOMAIN found |-> i], LAMBDA i : i \in keep)
  IN  [k \in DOMAIN kept |-> found[kept[k]]]

\* Of each rule the first of the most severe, and a row that counts the rest;
\* such rows follow in the order in which their rules come up.
dedupe(found) ==
  LET of(rule) == {i \in DOMAIN found : found[i].rule = rule}
      above(i, j) == Rank(found[j].severity) < Rank(found[i].severity) \/ (found[j].severity = found[i].severity /\ j < i)
      ahead(i) == {j \in of(found[i].rule) : above(i, j)}
      kept == SelectSeq([i \in DOMAIN found |-> i], LAMBDA i : Cardinality(ahead(i)) < per_rule_limit)
      firsts == SelectSeq([i \in DOMAIN found |-> i], LAMBDA i :
                  /\ \A j \in 1 .. i - 1 : found[j].rule # found[i].rule
                  /\ Cardinality(of(found[i].rule)) > per_rule_limit)
      more(rule) == Found(rule, "info", "", {}, {}, Cardinality(of(rule)) - per_rule_limit, "more")
  IN  [k \in DOMAIN kept |-> found[kept[k]]] \o [k \in DOMAIN firsts |-> more(found[firsts[k]].rule)]

\* A run is [board, settings, fails]; fails[r] findings precede the exception that
\* the rule r raises.  What each rule that is on yields:
Yielded(x) ==
  LET upTo(r, all) == IF r \in DOMAIN x.fails THEN FirstFew(all, x.fails[r]) ELSE all
  IN  [r \in {r \in Range(RULES) : enabled(x.settings, r)} |-> upTo(r, check(r, x.board, x.settings))]

\* The list is made of all of it, in the order of the rules; and who raised, and
\* which planes could not be looked at, is noted.
run_rules(x, yielded) ==
  LET on == SelectSeq(RULES, LAMBDA r : r \in DOMAIN yielded)
      found == FlattenSeq([i \in DOMAIN on |-> yielded[on[i]]])
  IN  [findings |-> dedupe(Sorted(Overridden(_weigh_radiators(x.board, found), x.settings))),
       notes |-> {<< "failed", r >> : r \in Range(on) \cap DOMAIN x.fails}
                 \cup (IF "plane-gap" \in Range(on) THEN {<< "unfilled", p >> : p \in Unfilled(x.board)} ELSE {})]

\* The rest of the stage: what the user reads, what is hidden and why, and the
\* counts, which are of both.
ingest(found, s) ==
  LET hides(f) == suppressed(s, f.rule, f.net)
      hidden == SelectSeq(found, LAMBDA f : hides(f) # {})
  IN  [findings |-> SelectSeq(found, LAMBDA f : hides(f) = {}),
       hidden |-> [i \in DOMAIN hidden |-> [rule |-> hidden[i].rule, net |-> hidden[i].net,
                                            reason |-> (CHOOSE x \in hides(hidden[i]) : TRUE).reason]],
       summary |-> [x \in Range(RANKS) |-> Len(SelectSeq(found, LAMBDA f : f.severity = x))]]

-----------------------------------------------------------------------------
\* Each thing that a rule finds is in the list, hidden with a reason, or counted
\* in a row of its rule; and what is only counted is no more severe than what
\* of its rule is not.
AllIsAccountedFor(x, yielded) ==
  LET s == x.settings
      plain(found) == {[f EXCEPT !.severity = ""] : f \in Range(found)}
      missing(raw, shown) == {g \in Range(raw) : [g EXCEPT !.severity = ""] \notin plain(shown)}
      shownOf(all, r) == SelectSeq(all, LAMBDA f : f.rule = r /\ f.kind # "more")
      cutOf(all, r) == SumSeq([i \in DOMAIN all |-> IF all[i].rule = r /\ all[i].kind = "more" THEN all[i].size ELSE 0])
      balanced(r, raw, shown, cut) ==
        /\ Len(shown) + cut = Len(raw) /\ plain(shown) \subseteq plain(raw)
        /\ \A g \in missing(raw, shown), f \in Range(shown) :
             r # "radiator" => Rank(f.severity) <= Rank(severity(s, r, g.severity))
      told(read, all) ==
        LET whole == read.findings \o read.hidden
        IN  /\ Len(whole) = Len(all)
            /\ \A f \in Range(all) : \E g \in Range(whole) : g.rule = f.rule /\ g.net = f.net
            /\ \A h \in Range(read.hidden) : \E y \in Range(s.suppressions) :
                 h.rule \in y.rule /\ h.net \in y.net /\ h.reason = y.reason
      of(all) == /\ told(ingest(all, s), all)
                 /\ \A r \in Range(RULES) :
                      balanced(r, IF r \in DOMAIN yielded THEN yielded[r] ELSE << >>, shownOf(all, r), cutOf(all, r))
  IN  of(run_rules(x, yielded).findings)

\* What one rule finds does not depend on whether another is on or has its
\* severities changed, but for how serious a long net is.
RulesAreIndependent(x, y, yielded) ==
  LET of(found, r) == SelectSeq(found, LAMBDA f : f.rule = r)
      weighing(q) == enabled(x.settings, q) # enabled(y.settings, q)
      alike(one, other) == \A r \in Range(RULES) : x.settings.rules[r] = y.settings.rules[r] =>
        of(one, r) = of(other, r) \/ (r = "radiator" /\ \E q \in {"plane-gap", "return-via"} : weighing(q))
  IN  alike(run_rules(x, yielded[1]).findings, run_rules(y, yielded[2]).findings)

\* Of some rules, each finding of the second is covered by one of the first.
NoWorse(rules, yielded) ==
  \A r \in rules : \A f \in Range(yielded[2][r]) : \E g \in Range(yielded[1][r]) :
     /\ (g.net = f.net \/ g.kind = "none") /\ Rank(g.severity) <= Rank(f.severity)
     /\ f.where \subseteq g.where \/ g.kind = "none"

\* Two runs of one board under different settings, one run, or two of which the
\* second has a ground via more or a looser limit, by which no rule that it
\* should please has anything new to say.
Grounding == {"return-via", "stitching", "edge-stitching", "copper-island"}
RulesHold(x) ==
  LET of(yielded) == CASE x.is = "account" -> AllIsAccountedFor(x.runs[1], yielded[1])
                       [] x.is = "compare" -> RulesAreIndependent(x.runs[1], x.runs[2], yielded)
                       [] x.is = "via" -> NoWorse(Grounding, yielded)
                       [] x.is = "limit" -> NoWorse(Range(RULES) \ {"radiator"}, yielded)
  IN  of([i \in DOMAIN x.runs |-> Yielded(x.runs[i])])

=============================================================================
