-------------------------------- MODULE Matching --------------------------------
(***************************************************************************)
(* What has to arrive together and what does not                           *)
(* (worker/emi_worker/kicad/netclass.py, rules/matching.py, stubs.py,      *)
(* impedance.py, and the rules about them in rules/checks.py): net classes, *)
(* differential pairs, byte lanes, skew, impedance and test points.        *)
(*                                                                         *)
(* A layout is [nets, refs, classes, wires]: the nets in the order of the  *)
(* board, the parts on each net, by number as their names are sorted, its  *)
(* net classes and each net's pad to pad paths, in the order they were     *)
(* found, [runs, vias] with the length on each layer.                      *)
(***************************************************************************)
EXTENDS Settings

CONSTANTS
  PairEnds,         \* net to the set of [by, base, positive, partner]: the suffixes it ends in
  Role,         \* net to [is, index, indexed]: "dq", "dqs", "dm", "ck", "address" or "other"
  NetRank,      \* net to its place by name
  SlowBase,     \* bases of pairs whose bit time is too long for skew to matter
  LaneClass,    \* classes whose names speak of a byte lane
  LANE,         \* data lines to a lane: eight
  FastNets,     \* those whose names say that they are fast
  DefaultStub,  \* a twentieth of a wavelength
  PS,           \* function: layer to the delay of a unit of length
  VIA_PS

\* The conventions for a pair's suffixes: _P/_N, _p/_n, +/-, DP/DM and P/N, the
\* order in which they are tried, and those that say something of one net.
PAIR_TRIED == << 1, 2, 3, 4, 5 >>
PAIR_SUFFIXES == {1, 2, 3, 5}

\* A name has one end by a suffix.  Of the names with that suffix's other half no
\* two have one partner, and none is a partner.
ASSUME PairEndsAssumption ==
  \A n \in DOMAIN PairEnds : \A e \in PairEnds[n] :
    e.positive =>
      /\ e.by \in Range(PAIR_TRIED)
      /\ \A f \in PairEnds[n] : f.positive /\ f.by = e.by => f = e
      /\ \A m \in DOMAIN PairEnds : \A f \in PairEnds[m] :
           f.positive /\ f.by = e.by => f.partner # n /\ (f.partner = e.partner => m = n)

FirstByName(nets) == CHOOSE n \in nets : \A m \in nets : NetRank[n] <= NetRank[m]

-----------------------------------------------------------------------------
\* Net classes.  A project lists [name, gap, width, nets] and, in the way of
\* newer versions, assigns nets to lists of classes; patterns come last.
NoClasses == [classes |-> Empty, assigned |-> Empty, patterns |-> << >>, available |-> FALSE]

_read_project(doc) ==
  LET names == {c.name : c \in {c \in Range(doc.classes) : c.name # ""}}
      last(S(_)) == CHOOSE i \in DOMAIN doc.classes : S(doc.classes[i]) /\ \A j \in i + 1 .. Len(doc.classes) : ~S(doc.classes[j])
      listed == UNION {c.nets : c \in {c \in Range(doc.classes) : c.name # ""}}
      inList(n) == doc.classes[last(LAMBDA c : n \in c.nets /\ c.name # "")].name
      known(list) == SelectSeq(list, LAMBDA c : c \in names)
      of(list) == IF known(list) # << >> THEN Head(known(list)) ELSE IF list = << >> THEN "" ELSE Head(list)
      given == {n \in DOMAIN doc.assignments : of(doc.assignments[n]) # ""}
  IN  [classes |-> [c \in names |-> doc.classes[last(LAMBDA k : k.name = c)]],
       assigned |-> [n \in given |-> of(doc.assignments[n])] @@ [n \in listed |-> inList(n)],
       patterns |-> doc.patterns, available |-> names # {}]

\* A file that is of another shape gives no classes at all.
parse_project(doc) == IF doc \in {Unset, WrongShape} THEN NoClasses ELSE _read_project(doc)

ClassOf(classes, n) ==
  LET fitting == SelectSeq(classes.patterns, LAMBDA p : n \in p.match)
  IN  CASE n \in DOMAIN classes.assigned -> classes.assigned[n]
        [] fitting # << >> -> Head(fitting).class
        [] "Default" \in DOMAIN classes.classes -> "Default"
        [] OTHER -> ""

-----------------------------------------------------------------------------
\* A net on its own is split by the first suffix that fits.
split_pair_name(n) == {e \in PairEnds[n] : e.by \in PAIR_SUFFIXES /\ \A f \in PairEnds[n] : f.by \in PAIR_SUFFIXES => e.by <= f.by}
Positive(n) == \A e \in split_pair_name(n) : e.positive

\* Pairs are made suffix by suffix, where both halves are there and in no pair.
PairsBy(suffix, free) ==
  UNION {{[base |-> e.base, positive |-> n, negative |-> e.partner] :
            e \in {e \in PairEnds[n] : e.positive /\ e.by = suffix /\ e.partner \in free}} : n \in free}
HalvesOf(pairs) == {p.positive : p \in pairs} \cup {p.negative : p \in pairs}

find_pairs(nets) ==
  LET found[i \in 0 .. Len(PAIR_TRIED)] ==
        IF i = 0 THEN {}
        ELSE LET before == found[i - 1]
             IN  before \cup PairsBy(PAIR_TRIED[i], Range(nets) \ HalvesOf(before))
  IN  found[Len(PAIR_TRIED)]

\* A pair's geometry is its class's, if that gives one.
Geometry(classes, p) ==
  LET c == ClassOf(classes, p.positive)
  IN  IF c \in DOMAIN classes.classes THEN [gap |-> classes.classes[c].gap, width |-> classes.classes[c].width] ELSE [gap |-> 0, width |-> 0]

-----------------------------------------------------------------------------
Matched(kind, members, reference, key) == [kind |-> kind, members |-> members, reference |-> reference, key |-> key]

\* By name, but positive halves first.
_positive_first(nets) ==
  LET p == {n \in nets : Positive(n)} IN IF p # {} THEN FirstByName(p) ELSE FirstByName(nets)

\* The strobe if the group has one, else the clock, else the first.
_reference_for(members) ==
  LET of(kind) == {n \in members : Role[n].is = kind}
  IN  CASE of("dqs") # {} -> _positive_first(of("dqs"))
        [] of("ck") # {} -> _positive_first(of("ck"))
        [] OTHER -> FirstByName(members)

\* Of the parts on a net, the last by name.
device_of(w, n) == IF w.refs[n] = {} THEN 0 ELSE CHOOSE r \in w.refs[n] : \A q \in w.refs[n] : q <= r

NumberOf(n) == IF Role[n].indexed THEN Role[n].index ELSE 0

\* The mutant: lines that are in no one's lane are held to the first strobe.
_strobe_any(w, key, strobes, pins) ==
  LET fit == {n \in strobes : IF pins THEN key # 0 /\ device_of(w, n) = key ELSE NumberOf(n) = key}
  IN  CASE fit # {} -> {_positive_first(fit)} [] strobes # {} -> {_positive_first(strobes)} [] OTHER -> {}

\* A lane's strobe: of its device, or of its number; a lone strobe is anyone's
\* where there are no pins to go by.
_strobe_for(w, key, strobes, pins) ==
  LET fit == {n \in strobes : IF pins THEN key # 0 /\ device_of(w, n) = key ELSE NumberOf(n) = key}
  IN  CASE fit # {} -> {_positive_first(fit)}
        [] ~pins /\ Cardinality(strobes) = 1 -> strobes
        [] OTHER -> {}

\* Data and mask lines by the device they end at; by their number if that is one
\* device.
_lanes_from_pins(w, data, masks, strobes) ==
  LET devices == {device_of(w, n) : n \in data} \ {0}
      pins == Cardinality(devices) > 1
      keyOf(n) == IF pins THEN device_of(w, n) ELSE NumberOf(n) \div LANE
      of(key) == {n \in data \cup masks : keyOf(n) = key}
  IN  {Matched("byte-lane", of(key) \cup _strobe_for(w, key, strobes, pins), CHOOSE s \in _strobe_for(w, key, strobes, pins) : TRUE, "byte_lane") :
         key \in {k \in {keyOf(n) : n \in data \cup masks} : _strobe_for(w, k, strobes, pins) # {}}}

\* Pairs, then classes, then lanes of what is in no class, then address and command
\* lines against a clock where there is memory.
find_groups(w, min_size) ==
  LET nets == Range(w.nets)
      pairs == {Matched("pair", {p.positive, p.negative}, p.positive, "intra_pair") : p \in {p \in find_pairs(w.nets) : p.base \notin SlowBase}}
      members(c) == {n \in nets : ClassOf(w.classes, n) = c}
      classes == {c \in LaneClass : w.classes.available /\ members(c) # {} /\ Cardinality(members(c)) >= min_size}
      byClass == {Matched("byte-lane", members(c), _reference_for(members(c)), "byte_lane") : c \in classes}
      claimed == UNION {members(c) : c \in classes}
      of(kind) == {n \in nets : Role[n].is = kind}
      free(kind) == of(kind) \ claimed
      lanes == IF free("dq") = {} \/ of("dqs") = {} THEN {}
               ELSE {g \in _lanes_from_pins(w, free("dq"), of("dm"), of("dqs")) : Cardinality(g.members) >= min_size}
      clocks == of("ck")
      positive == {n \in clocks : split_pair_name(n) # {} /\ Positive(n)}
      clock == IF positive # {} THEN FirstByName(positive) ELSE FirstByName(clocks)
      memory == of("dqs") # {} \/ byClass \cup lanes # {}
      command == IF free("address") # {} /\ clocks # {} /\ memory
                   THEN {Matched("address-command", free("address"), clock, "address_command")} ELSE {}
  IN  pairs \cup byClass \cup lanes \cup command

-----------------------------------------------------------------------------
\* The delay of the longest path, in length; -1 for a net without one.
SumOver(set, f) == FoldFunctionOnSet(+, 0, f, set)
LengthOfPath(p) == FoldFunction(+, 0, p.runs)
delay_ps(p) == FoldFunction(+, 0, [l \in DOMAIN p.runs |-> p.runs[l] * PS[l]]) + p.vias * VIA_PS
longest_path(paths) == CHOOSE i \in DOMAIN paths : \A j \in DOMAIN paths :
                         LengthOfPath(paths[j]) < LengthOfPath(paths[i]) \/ (LengthOfPath(paths[j]) = LengthOfPath(paths[i]) /\ i <= j)
_group_delay(w, n) == IF w.wires[n] = << >> THEN -1 ELSE delay_ps(w.wires[n][longest_path(w.wires[n])])

AbsDiff(x, y) == IF x < y THEN y - x ELSE x - y

\* Lanes against the middle one, in halves; off unless a budget is set.
_lane_to_lane(w, s, groups) ==
  LET lanes == {g \in groups : g.kind = "byte-lane" /\ _group_delay(w, g.reference) # -1}
      d(g) == _group_delay(w, g.reference)
      nth(k) == CHOOSE v \in {d(g) : g \in lanes} :
                  Cardinality({g \in lanes : d(g) < v}) < k /\ k <= Cardinality({g \in lanes : d(g) <= v})
      n == Cardinality(lanes)
      middle == IF n % 2 = 1 THEN 2 * nth(n \div 2 + 1) ELSE nth(n \div 2) + nth(n \div 2 + 1)
      tol == param(s, "ddr-skew", "lane_to_lane", "")
  IN  IF tol <= 0 \/ n < 2 THEN {}
      ELSE {[net |-> g.reference, by |-> 2 * d(g) - middle, against |-> "the lanes"] : g \in {g \in lanes : AbsDiff(2 * d(g), middle) > 2 * tol}}

check_length_matching(w, s) ==
  LET tol(g) == param(s, "ddr-skew", g.key, g.reference)
      ref(g) == _group_delay(w, g.reference)
      late(g) == {n \in g.members \ {g.reference} : _group_delay(w, n) # -1 /\ AbsDiff(_group_delay(w, n), ref(g)) > tol(g)}
      of(groups) ==
        _lane_to_lane(w, s, groups)
        \cup UNION {{[net |-> n, by |-> 2 * (_group_delay(w, n) - ref(g)), against |-> g.reference] : n \in late(g)} :
                      g \in {g \in groups : tol(g) > 0 /\ ref(g) # -1}}
  IN  of(find_groups(w, param(s, "ddr-skew", "min_group_size", "")))

-----------------------------------------------------------------------------
\* Impedance.  A trace is [layer, width]; a layer of e is [ref, kind, height,
\* above, assumed] and Ohms[layer, width] the formula's value.  Uncertainty is in
\* percent, and so is all that is compared.
UncertaintyOf(l, width, gap) ==
  8 + (IF l.assumed THEN 7 ELSE 0)
    + (IF l.kind = "stripline" /\ l.above > 0
         THEN IF 5 * AbsDiff(l.height, l.above) > l.height + l.above THEN 5 ELSE 0
         ELSE IF 10 * width < l.height \/ width > 3 * l.height THEN 10 ELSE 0)
    + (IF gap > 0 THEN 2 ELSE 0)

within(z, target, tol) ==
  /\ z.ohm * (100 + z.unc) >= target * (100 - tol)
  /\ z.ohm * (100 - z.unc) <= target * (100 + tol)

\* One net: its traces, its pair's geometry if it is a positive half, and its
\* target.
check_impedance(traces, geometry, target, tol, jump, e, Ohms) ==
  LET width(t) == IF geometry.gap > 0 /\ geometry.width > 0 THEN geometry.width ELSE t.width
      seen == {t \in traces : t.width > 0 /\ t.layer \in DOMAIN e /\ e[t.layer].ref # "" /\ Ohms[t.layer, width(t)] > 0}
      z(t) == [ohm |-> Ohms[t.layer, width(t)], unc |-> UncertaintyOf(e[t.layer], width(t), geometry.gap)]
      off == {t \in seen : target > 0 /\ ~within(z(t), target, tol)}
      ohms == {z(t).ohm : t \in seen}
      lo == CHOOSE o \in ohms : \A p \in ohms : o <= p
      hi == CHOOSE o \in ohms : \A p \in ohms : p <= o
  IN  (IF off # {} THEN {[is |-> "off target", on |-> {t.layer : t \in off}]} ELSE {})
      \cup (IF Cardinality(seen) > 1 /\ 100 * (hi - lo) >= jump * lo THEN {[is |-> "changes", on |-> {t.layer : t \in seen}]} ELSE {})

-----------------------------------------------------------------------------
\* Test points.  A net has pads and test points among them, and d[a, b] is the
\* length of copper between two that it reaches.  The branch to a test point is
\* measured from every two pads that are none, and doubled.
group_sets(s, key, net) == \E g \in Range(s.groups) : key \in DOMAIN g.params /\ matches(g, net)

StubOfPoint(d, others, tp) ==
  LET branch(a, b) == LET x == d[a, tp] + d[b, tp] - d[a, b] IN IF x < 0 THEN 0 ELSE x
      all == {branch(p[1], p[2]) : p \in {p \in others \X others : p[1] # p[2]}}
  IN  IF all = {} THEN 0 ELSE CHOOSE x \in all : \A y \in all : x <= y

check_test_point_stubs(net, paired, d, pads, points, s) ==
  LET budget == param(s, "test-point-stub", "max_stub", net)
      limit == IF budget > 0 THEN budget ELSE DefaultStub
      fast == net \in paired \cup FastNets \/ group_sets(s, "max_stub", net)
  IN  {[at |-> t, stub |-> StubOfPoint(d, pads \ points, t)] :
         t \in {t \in pads \cap points : fast /\ StubOfPoint(d, pads \ points, t) > 2 * limit}}

-----------------------------------------------------------------------------
\* No net is in two pairs, a pair's halves are there and are each other's, and no
\* two nets that could be a pair are left over.
CouldBe(n, m) == \E e \in PairEnds[n] : e.positive /\ e.partner = m
PairsAreWhole(nets) ==
  LET pairs == find_pairs(nets)
      halves(p) == {p.positive, p.negative}
  IN  /\ \A p, q \in pairs : p # q => halves(p) \cap halves(q) = {}
      /\ \A p \in pairs : halves(p) \subseteq Range(nets) /\ CouldBe(p.positive, p.negative)
      /\ \A n, m \in Range(nets) \ HalvesOf(pairs) : ~CouldBe(n, m)

\* A data line is found late exactly if it is against its own lane's strobe, or
\* against the only one there is.
DataIsHeldToItsStrobe(w, s, laneOf) ==
  LET found == {f \in check_length_matching(w, s) : f.against # "the lanes"}
      of(kind) == {n \in Range(w.nets) : Role[n].is = kind}
      alone == Cardinality(of("dqs")) = 1 /\ Cardinality({device_of(w, n) : n \in of("dq")}) = 1
      own(n) == {t \in of("dqs") : laneOf[t] = laneOf[n] \/ alone}
      lane(n) == {m \in of("dq") \cup of("dm") : laneOf[m] = laneOf[n]}
      strobe(n) == _positive_first(own(n))
      late(n) == /\ own(n) # {} /\ Cardinality(lane(n)) + 1 >= param(s, "ddr-skew", "min_group_size", "")
                 /\ w.wires[n] # << >> /\ w.wires[strobe(n)] # << >>
                 /\ AbsDiff(_group_delay(w, n), _group_delay(w, strobe(n))) > param(s, "ddr-skew", "byte_lane", strobe(n))
  IN  \A n \in of("dq") : {f.against : f \in {f \in found : f.net = n}} = IF late(n) THEN {strobe(n)} ELSE {}

\* The layers on which something is off its target.
Accused(found) == UNION {f.on : f \in {f \in found : f.is = "off target"}}

\* A board that is known less well, or a wider tolerance, is accused of no more.
UncertaintyAccusesLess(traces, geometry, target, tol, jump, e, Ohms) ==
  LET unsure == [l \in DOMAIN e |-> [e[l] EXCEPT !.assumed = TRUE]]
      now == Accused(check_impedance(traces, geometry, target, tol, jump, e, Ohms))
  IN  /\ Accused(check_impedance(traces, geometry, target, tol, jump, unsure, Ohms)) \subseteq now
      /\ Accused(check_impedance(traces, geometry, target, tol + 10, jump, e, Ohms)) \subseteq now

\* A net without loops: of any three of its places there is one on the way
\* between every two.
WithoutLoops(d, all) ==
  /\ d \in [all \X all -> Nat]
  /\ \A a, b \in all : d[a, b] = d[b, a]
  /\ \A a, b, t \in all : d[a, b] <= d[a, t] + d[t, b]
  /\ \A a, b, t \in all :
       \E v \in all : /\ d[a, v] + d[v, b] = d[a, b]
                     /\ d[a, v] + d[v, t] = d[a, t]
                     /\ d[b, v] + d[v, t] = d[b, t]

\* On a net without loops the test points that are reported are those whose
\* branch, from where it leaves the copper between the other pads, is too long.
StubIsTheBranch(net, d, all, pads, points, s) ==
  LET others == pads \ points
      route == {v \in all : \E a, b \in others : a # b /\ d[a, v] + d[v, b] = d[a, b]}
      branch(t) == CHOOSE x \in {d[v, t] : v \in route} : \A v \in route : x <= d[v, t]
      tooLong(t) == Cardinality(others) >= 2 /\ branch(t) > DefaultStub
  IN  WithoutLoops(d, all) =>
        check_test_point_stubs(net, {}, d, pads, points, s) =
          {[at |-> t, stub |-> 2 * branch(t)] : t \in {t \in pads \cap points : tooLong(t)}}

=============================================================================
