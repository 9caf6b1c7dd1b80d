---------------------------------- MODULE Checks ----------------------------------
(***************************************************************************)
(* The layout rules about the return path and about placement              *)
(* (worker/emi_worker/rules/checks.py, stitching.py, placement.py,         *)
(* decoupling.py), on the boards of Strip, with the settings s.            *)
(*                                                                         *)
(* A finding is [rule, severity, net, layers, where, size, kind]: the      *)
(* places it is about, none if it is about the whole board, and how much   *)
(* of what the rule measures, doubled where it may be odd.                 *)
(***************************************************************************)
EXTENDS Strip

CONSTANTS
  WAVELENGTH,              \* at the highest frequency, on the board
  VIA_WAVELENGTH,          \* the same in the board's material, in units of a height
  MIN_STUB,
  REPORT_PART, CRITICAL_PART,   \* a net is listed, and critical, from this part of a wavelength
  RADIATOR_MAX_REPORTED,
  EDGE_CRITICAL,           \* doubled
  GAP_CRITICAL,
  MIN_REGION, MAX_REGIONS,
  VIA_REACH, PAD_REACH, END_REACH,
  NetOrder, RefOrder,      \* the nets and the parts, sorted by name
  Designator               \* function: part to "ic", "cap", "crystal", "connector" or "other"

\* A limit for the whole board.  One of 0 means the default.
setting(s, rule, key) ==
  IF param(s, rule, key, "") = 0 THEN RULE_CATALOGUE[rule][key] ELSE param(s, rule, key, "")

Found(rule, severity_, net, layers, where, size, kind) ==
  [rule |-> rule, severity |-> severity_, net |-> net, layers |-> layers, where |-> where,
   size |-> size, kind |-> kind]

NearTo(xs, x) == LET d == {IF y < x THEN x - y ELSE y - x : y \in xs} IN CHOOSE m \in d : \A e \in d : m <= e
Distance(x, y) == IF x < y THEN y - x ELSE x - y
FirstFew(found, n) == SubSeq(found, 1, IF n < Len(found) THEN n ELSE Len(found))

\* A sequence by a number, largest first, ties in the order they had.
ByLargest(seq, Number(_)) ==
  LET sizes == {Number(seq[i]) : i \in DOMAIN seq}
      sorted[rest \in SUBSET sizes] ==
        IF rest = {} THEN << >>
        ELSE LET m == CHOOSE m \in rest : \A n \in rest : n <= m
             IN  SelectSeq(seq, LAMBDA f : Number(f) = m) \o sorted[rest \ {m}]
  IN  sorted[sizes]

\* The maximal runs of a set of numbers, lowest first.
RunsOf(S) ==
  LET starts == SelectSeq([k \in 1 .. 1 + Max({0} \cup S) |-> k - 1], LAMBDA i : i \in S /\ i - 1 \notin S)
      endOf(i) == CHOOSE j \in S : i <= j /\ i .. j \subseteq S /\ j + 1 \notin S
  IN  [k \in DOMAIN starts |-> starts[k] .. endOf(starts[k])]

-----------------------------------------------------------------------------
\* check_return_vias.
check_return_vias(b, s) ==
  LET ground == {v.x : v \in {v \in Range(b.vias) : classify_net(v.net) = "ground"}}
      radius == setting(s, "return-via", "max_distance")
      found(v, far) == Found("return-via",
                             CASE net_activity(v.net) = "slow" -> "info"
                               [] far > 3 * radius -> "critical" [] OTHER -> "warning",
                             v.net, {}, {v.x}, far, "far")
      lone(v) == ~single_part(b, v.net) /\ NearTo(ground, v.x) > radius
      all(vias) == [i \in DOMAIN vias |-> found(vias[i], NearTo(ground, vias[i].x))]
      of(signals) == CASE signals = << >> -> << >>
                       [] ground = {} -> << Found("return-via", "critical", "", {}, {}, 0, "none") >>
                       [] OTHER -> all(SelectSeq(signals, lone))
  IN  of(SelectSeq(b.vias, LAMBDA v : SignalNet(v.net)))

\* check_via_stubs.  A through via spans the stack; its net uses a part of it.
LayersUsed(b, n) ==
  {t.layer : t \in {t \in Range(b.tracks) : t.net = n}} \cup {z.layer : z \in {z \in Range(b.zones) : z.net = n}}

\* The length of the longer end that is not used, by what a layer's height is.
LongerEnd(names, z, used) ==
  LET top == CHOOSE i \in used : \A j \in used : i <= j
      bottom == CHOOSE i \in used : \A j \in used : j <= i
      longer(p, q) == IF p < q THEN q ELSE p
  IN  longer(z[Head(names)] - z[names[top]], z[names[bottom]] - z[Last(names)])
StubOf(b, layers) ==
  LET of(names) == LongerEnd(names, copper_z(b), {i \in DOMAIN names : names[i] \in layers}) IN of(copper_layer_names(b))

check_via_stubs(b, s) ==
  LET through == SelectSeq(b.vias, LAMBDA v : v.through /\ SignalNet(v.net) /\ Cardinality(LayersUsed(b, v.net)) >= 2)
      stubs == [i \in DOMAIN through |-> [via |-> through[i], stub |-> StubOf(b, LayersUsed(b, through[i].net))]]
      resonates(v) == /\ v.stub > 0 /\ v.stub >= MIN_STUB
                      /\ VIA_WAVELENGTH <= 4 * v.stub * setting(s, "via-stub", "margin")
      found(v) == Found("via-stub", IF VIA_WAVELENGTH > 4 * v.stub THEN "warning" ELSE "critical",
                        v.via.net, {}, {v.via.x}, v.stub, "stub")
      all(vias) == [i \in DOMAIN vias |-> found(vias[i])]
  IN  IF Len(copper_layer_names(b)) < 3 THEN << >> ELSE all(SelectSeq(stubs, resonates))

\* check_radiators.  Fast nets have the first of the listed slots; slow ones are
\* only counted.
LengthOf(t) == SumSeq([k \in 1 .. Len(t.pts) - 1 |-> Distance(t.pts[k], t.pts[k + 1])])
TotalOf(mine, n) == SumSeq([i \in DOMAIN mine |-> IF mine[i].net = n THEN LengthOf(mine[i]) ELSE 0])
Totals(mine) ==
  LET firsts == SelectSeq([i \in DOMAIN mine |-> i], LAMBDA i : \A j \in 1 .. i - 1 : mine[j].net # mine[i].net)
      of(t) == [net |-> t.net, start |-> Head(t.pts), layers |-> {u.layer : u \in {u \in Range(mine) : u.net = t.net}},
                length |-> TotalOf(mine, t.net)]
  IN  [k \in DOMAIN firsts |-> of(mine[firsts[k]])]

check_radiators(b, s) ==
  LET ranked(nets) == ByLargest(SelectSeq(nets, LAMBDA n : net_activity(n.net) = "fast"), LAMBDA n : n.length)
                      \o ByLargest(SelectSeq(nets, LAMBDA n : net_activity(n.net) = "unknown"), LAMBDA n : n.length)
      long(n) == REPORT_PART * n.length >= WAVELENGTH
      over(nets) == Len(SelectSeq(nets, LAMBDA n : 100 * n.length >= WAVELENGTH * setting(s, "radiator", "percent")))
      found(n) == Found("radiator",
                        IF net_activity(n.net) = "fast" /\ CRITICAL_PART * n.length >= WAVELENGTH THEN "critical" ELSE "warning",
                        n.net, n.layers, {n.start}, n.length, "long")
      rows(listed, more) == [i \in DOMAIN listed |-> found(listed[i])]
                            \o (IF more > Len(listed) THEN << Found("radiator", "info", "", {}, {}, more, "count") >> ELSE << >>)
      of(nets) == rows(FirstFew(SelectSeq(ranked(nets), long), RADIATOR_MAX_REPORTED), over(nets))
  IN  of(Totals(SelectSeq(b.tracks, LAMBDA t : SignalNet(t.net) /\ ~single_part(b, t.net))))

\* check_edge_proximity.  Every segment against the ends of the strip.
check_edge_proximity(b, s) ==
  LET gap(t) == LET p == Range(t.pts)
                IN  2 * (CHOOSE d \in {x : x \in p} \cup {b.size - x : x \in p} : \A x \in p : d <= x /\ d <= b.size - x) - t.width
      gaps == [i \in DOMAIN b.tracks |-> [net |-> b.tracks[i].net, layer |-> b.tracks[i].layer, gap |-> gap(b.tracks[i])]]
      worst(mine, n) == mine[CHOOSE i \in DOMAIN mine : mine[i].net = n /\ \A j \in DOMAIN mine : mine[j].net = n =>
                               mine[i].gap < mine[j].gap \/ (mine[i].gap = mine[j].gap /\ i <= j)]
      close(mine) == SelectSeq(NetOrder, LAMBDA n : \E g \in Range(mine) : g.net = n /\ g.gap < 2 * setting(s, "edge-proximity", "keepout"))
      of(mine, nets) == [i \in DOMAIN nets |-> worst(mine, nets[i])]
      found(g) == Found("edge-proximity", IF g.gap > EDGE_CRITICAL THEN "warning" ELSE "critical", g.net, {g.layer}, {}, g.gap, "edge")
      all(sorted) == [i \in DOMAIN sorted |-> found(sorted[i])]
      list(mine) == all(Reverse(ByLargest(of(mine, close(mine)), LAMBDA g : g.gap)))
  IN  IF b.edge = << >> THEN << >> ELSE list(SelectSeq(gaps, LAMBDA g : SignalNet(g.net)))

-----------------------------------------------------------------------------
\* check_plane_gaps.  The raster of a layer is of its pours, whatever their net.
_rasterize_layer(b, l) == UNION {z.a .. z.b : z \in {z \in Range(b.zones) : z.layer = l}}

\* The places a track is sampled at: each segment by its ends and the pixels
\* between, so a corner twice.
Samples(t) ==
  FlattenSeq([k \in 1 .. Len(t.pts) - 1 |->
    LET p == t.pts[k]
        q == t.pts[k + 1]
        steps == IF p = q THEN 1 ELSE Distance(p, q)
    IN  [i \in 1 .. steps + 1 |-> [x |-> CASE p = q -> p [] p < q -> p + i - 1 [] OTHER -> p - i + 1, adds |-> IF p = q THEN 0 ELSE 1]]])

\* The longest gap of a track over a plane, the first of two alike, as [size,
\* where].
GapOf(len, at) == [size |-> len, where |-> at]
LongestGap(t, copper) ==
  LET longer(g, h) == IF h.size > g.size THEN h ELSE g
      step(acc, x) == IF x.x \in copper THEN [worst |-> longer(acc.worst, acc.open), open |-> GapOf(0, {})]
                      ELSE [acc EXCEPT !.open = GapOf(@.size + x.adds, @.where \cup {x.x})]
      end == FoldLeft(step, [worst |-> GapOf(0, {}), open |-> GapOf(0, {})], Samples(t))
  IN  longer(end.worst, end.open)

\* The copper of the plane that each layer refers to, where there is any.
ReferenceCopper(b) ==
  LET under(pairs) == [l \in {l \in DOMAIN pairs : _rasterize_layer(b, pairs[l]) # {}} |-> _rasterize_layer(b, pairs[l])]
  IN  under(_layer_pairs(b))

\* A signal track's longest gap, over its plane's copper.
CrossingOf(t, copper) ==
  LET at(gap) == [net |-> t.net, layer |-> t.layer, size |-> gap.size, where |-> gap.where] IN at(LongestGap(t, copper[t.layer]))
Crossings(b, copper) ==
  LET of(mine) == [i \in DOMAIN mine |-> CrossingOf(mine[i], copper)]
  IN  of(SelectSeq(b.tracks, LAMBDA t : SignalNet(t.net) /\ ~single_part(b, t.net) /\ t.layer \in DOMAIN copper))

\* The worst of each net, layer and plane.
WorstOfEach(found) ==
  LET better(g, h) == h.net = g.net /\ h.layer = g.layer /\ h.size > g.size
      same(g, h) == h.net = g.net /\ h.layer = g.layer /\ h.size = g.size
      first == SelectSeq([i \in DOMAIN found |-> i], LAMBDA i : /\ \A j \in DOMAIN found : ~better(found[i], found[j])
                                                               /\ \A j \in 1 .. i - 1 : ~same(found[i], found[j]))
  IN  ByLargest([k \in DOMAIN first |-> found[first[k]]], LAMBDA g : g.size)

check_plane_gaps(b, s) ==
  LET wide(g) == g.where # {} /\ g.size >= setting(s, "plane-gap", "min_crossing")
      found(g) == Found("plane-gap",
                        CASE net_activity(g.net) = "slow" -> "info"
                          [] g.size > GAP_CRITICAL /\ b.dedicated -> "critical" [] OTHER -> "warning",
                        g.net, {g.layer}, g.where, g.size, "gap")
      all(worst) == [k \in DOMAIN worst |-> found(worst[k])]
  IN  all(WorstOfEach(SelectSeq(Crossings(b, ReferenceCopper(b)), wide)))

\* A reference plane with no pour in the file is noted: traces over it are not
\* checked.
Unfilled(b) == {p \in Range(_layer_pairs(b)) : _rasterize_layer(b, p) = {}}

-----------------------------------------------------------------------------
\* Stitching.  Cells are as wide as a place; distances are doubled.
_spacing(s, rule) == IF param(s, rule, "spacing", "") > 0 THEN 2 * param(s, rule, "spacing", "") ELSE WAVELENGTH \div 10
CellsOf(b) == 0 .. b.size + 1
_coverage(b, l) == UNION {z.a .. z.b : z \in {z \in Range(b.zones) : z.layer = l /\ z.net = plane_layers(b)[l]}} \cap CellsOf(b)
_stitch_points(b) ==
  {v.x : v \in {v \in Range(b.vias) : GroundNet(v.net) /\ (v.through \/ Cardinality(v.layers) >= 2)}}
  \cup {p.x : p \in {p \in Range(b.pads) : GroundNet(p.net) /\ p.through}}

StitchingOf(planes, overlap, vias, spacing) ==
  LET far == {c \in overlap : NearTo(vias, 2 * c + 1) > spacing}
      big == SelectSeq(RunsOf(far), LAMBDA r : Cardinality(r) >= MIN_REGION /\ 16 * Cardinality(r) >= spacing * spacing - 15)
      worst(r) == CHOOSE d \in {NearTo(vias, 2 * c + 1) : c \in r} : \A c \in r : NearTo(vias, 2 * c + 1) <= d
      found(r, d) == Found("stitching", IF d > 2 * spacing THEN "critical" ELSE "warning", "", {}, r, d, "region")
      all(regions) == [i \in DOMAIN regions |-> found(regions[i], worst(regions[i]))]
  IN  CASE Cardinality(planes) < 2 \/ overlap = {} -> << >>
        [] vias = {} -> << Found("stitching", "critical", "", planes, {}, 0, "none") >>
        [] OTHER -> all(FirstFew(ByLargest(Reverse(big), LAMBDA r : Cardinality(r)), MAX_REGIONS))

check_stitching(b, s) ==
  LET of(planes) == StitchingOf(planes, {c \in CellsOf(b) : \A l \in planes : c \in _coverage(b, l)},
                                {2 * x : x \in _stitch_points(b)}, _spacing(s, "stitching"))
  IN  of(ground_planes(b))

\* Along each ring of the outline, from its start to its start; a run does not
\* go on over the start.
RingSamples(ring) ==
  FlattenSeq([k \in 1 .. Len(ring) - 1 |->
    [i \in 1 .. Distance(ring[k], ring[k + 1]) |-> IF ring[k] < ring[k + 1] THEN ring[k] + i - 1 ELSE ring[k] - i + 1]])

EdgesOf(b, ground, vias, spacing, reach) ==
  LET open(x) == (x - reach .. x + reach) \cap ground # {} /\ NearTo(vias, 2 * x) > spacing
      row(p, r) == Found("edge-stitching", "warning", "", {}, {p[i] : i \in r}, Cardinality(r), "edge")
      rows(p, long) == [k \in DOMAIN long |-> row(p, long[k])]
      runs(p) == rows(p, SelectSeq(RunsOf({i \in DOMAIN p : open(p[i])}), LAMBDA r : 2 * Cardinality(r) >= spacing))
  IN  IF vias = {} THEN << Found("edge-stitching", "warning", "", {}, {}, 0, "none") >>
      ELSE FlattenSeq([k \in DOMAIN b.edge |-> runs(RingSamples(b.edge[k]))])

check_edge_stitching(b, s) ==
  LET of(planes) == IF b.edge = << >> \/ planes = {} THEN << >>
                    ELSE EdgesOf(b, UNION {_coverage(b, l) : l \in planes}, {2 * x : x \in _stitch_points(b)},
                                 _spacing(s, "edge-stitching"), setting(s, "edge-stitching", "band"))
  IN  of(ground_planes(b))

-----------------------------------------------------------------------------
\* placement.py.
check_stackup(b) ==
  LET order == copper_layer_names(b)
      routed(l) == l \notin DOMAIN plane_layers(b) /\ \E t \in Range(b.tracks) : SignalNet(t.net) /\ t.layer = l
      exposed(e) == SelectSeq(order, LAMBDA l : routed(l) /\ e[l].plane = "")
      noted(bare) == [k \in DOMAIN bare |-> Found("stackup", IF Len(order) <= 2 THEN "warning" ELSE "critical", "", {bare[k]}, {}, 0, "bare")]
      beside == SelectSeq([i \in 1 .. Len(order) - 1 |-> i], LAMBDA i : Len(order) > 2 /\ routed(order[i]) /\ routed(order[i + 1]))
  IN  noted(exposed(ElectricsOf(b)))
      \o [k \in DOMAIN beside |-> Found("stackup", "warning", "", {order[beside[k]], order[beside[k] + 1]}, {}, 0, "adjacent")]

\* Where a net's copper on a layer may be joined to a pour, with how near it has
\* to come: vias, pads, and both ends of tracks.
JoinsOf(b, l, n) ==
  {<< v.x, VIA_REACH >> : v \in {v \in Range(b.vias) : v.net = n /\ (v.through \/ l \in v.layers)}}
  \cup {<< p.x, PAD_REACH >> : p \in {p \in Range(b.pads) : p.net = n /\ (p.through \/ "*.Cu" \in p.layers \/ l \in p.layers)}}
  \cup UNION {{<< Head(t.pts), END_REACH >>, << Last(t.pts), END_REACH >>} : t \in {t \in Range(b.tracks) : t.net = n /\ t.layer = l}}

check_copper_islands(b, s) ==
  LET connected(z) == ~Vacant(z.net) /\ \E j \in JoinsOf(b, z.layer, z.net) : z.a - j[2] <= j[1] /\ j[1] <= z.b + j[2]
      islands == SelectSeq(b.zones, LAMBDA z : z.b - z.a >= setting(s, "copper-island", "min_area") /\ ~connected(z))
  IN  [k \in DOMAIN islands |-> Found("copper-island", "warning", islands[k].net, {islands[k].layer},
                                      islands[k].a .. islands[k].b, islands[k].b - islands[k].a, "island")]

\* Parts, in the order of their names.
PadsOf(b, r) == SelectSeq(b.pads, LAMBDA p : p.ref = r)
PartsOf(b, kind) == SelectSeq(RefOrder, LAMBDA r : Designator[r] = kind /\ PadsOf(b, r) # << >>)

CrystalOf(b, s, pads, lo, hi) ==
  LET margin == setting(s, "crystal", "margin")
      row(net, layers, size, kind) == Found("crystal", "warning", net, layers, lo .. hi, size, kind)
      rows(under) == [k \in DOMAIN under |-> row(under[k][1], {under[k][2]}, 0, "under")]
      near(places, limit, kind) == IF places # {} /\ NearTo(places, lo + hi) < 2 * setting(s, "crystal", limit)
                                     THEN << row("", {}, NearTo(places, lo + hi), kind) >> ELSE << >>
  IN  rows(SetToSeq(signals_under(b, lo - margin, hi + margin, {p.net : p \in pads}, UNION {p.layers : p \in pads} \cap CopperOf(b))))
      \o near(IF b.edge = << >> THEN {} ELSE {0, 2 * b.size}, "min_edge", "edge")
      \o near({2 * p.x : p \in {p \in Range(b.pads) : Designator[p.ref] = "connector"}}, "min_connector", "connector")

check_crystals(b, s) ==
  LET of(pads) == CrystalOf(b, s, pads, CHOOSE x \in {p.x : p \in pads} : \A p \in pads : x <= p.x,
                                        CHOOSE x \in {p.x : p \in pads} : \A p \in pads : p.x <= x)
      all(crystals) == FlattenSeq([k \in DOMAIN crystals |-> of(Range(PadsOf(b, crystals[k])))])
  IN  all(PartsOf(b, "crystal"))

\* decoupling.py.  A capacitor decouples with one pad on a supply and one on
\* ground; each pin that draws from the supply goes with the nearest.
CapsOn(b, n) ==
  SelectSeq(PartsOf(b, "cap"), LAMBDA r :
    LET pads == PadsOf(b, r)
    IN  /\ Len(pads) = 2
        /\ \E i \in 1 .. 2 : pads[i].net = n /\ classify_net(n) = "power" /\ GroundNet(pads[3 - i].net))
PadOn(b, r, n) == CHOOSE p \in Range(PadsOf(b, r)) : p.net = n
GroundPad(b, r) == CHOOSE p \in Range(PadsOf(b, r)) : GroundNet(p.net)
\* Of a supply's capacitors, [part, x], the nearest; d tells how far they are.
Nearest(caps, x) == caps[CHOOSE i \in DOMAIN caps : \A j \in DOMAIN caps :
                           \/ Distance(caps[i].x, x) < Distance(caps[j].x, x)
                           \/ Distance(caps[i].x, x) = Distance(caps[j].x, x) /\ i <= j]
PlacedCaps(b, n) ==
  LET at(caps) == [i \in DOMAIN caps |-> [part |-> caps[i], x |-> PadOn(b, caps[i], n).x]] IN at(CapsOn(b, n))

\* Each pin of a part that draws from a supply, with its capacitor: the part, if
\* there is one, and how far it is.
ServedPins(b, r, n) ==
  LET with(x, cap) == [net |-> n, x |-> x, part |-> {cap.part}, far |-> Distance(cap.x, x)]
      served(pins, caps) == [i \in DOMAIN pins |-> IF caps = << >> THEN [net |-> n, x |-> pins[i].x, part |-> {}, far |-> 0]
                                                   ELSE with(pins[i].x, Nearest(caps, pins[i].x))]
  IN  served(SelectSeq(PadsOf(b, r), LAMBDA p : p.net = n /\ p.draws), PlacedCaps(b, n))

\* The farthest pin of a part on a supply is reported.
PoorlyServed(pins, s) ==
  LET row(severity_, pin, kind) == << Found("decoupling", severity_, pin.net, {}, {pin.x}, pin.far, kind) >>
      of(pin) == CASE pin.part = {} -> row("critical", pin, "missing")
                   [] pin.far > setting(s, "decoupling", "max_distance") ->
                        row(IF pin.far > setting(s, "decoupling", "critical_distance") THEN "critical" ELSE "warning", pin, "distant")
                   [] OTHER -> << >>
      far == CHOOSE i \in DOMAIN pins : \A j \in DOMAIN pins : pins[j].far < pins[i].far \/ (pins[j].far = pins[i].far /\ i <= j)
  IN  IF pins = << >> THEN << >> ELSE of(pins[far])

\* A capacitor that serves a pin and is far from the ground.
Lifted(b, s, serving) ==
  LET stitches == {v.x : v \in {v \in Range(b.vias) : GroundNet(v.net)}}
                  \cup {p.x : p \in {p \in Range(b.pads) : GroundNet(p.net) /\ p.through}}
      lifted(p) == ~p.through /\ stitches # {} /\ NearTo(stitches, p.x) > setting(s, "decoupling", "max_ground_via")
      row(p) == Found("decoupling", "warning", p.net, {}, {p.x}, NearTo(stitches, p.x), "ground")
      all(pads) == [k \in DOMAIN pads |-> row(pads[k])]
      grounds(caps) == [k \in DOMAIN caps |-> GroundPad(b, caps[k])]
  IN  all(SelectSeq(grounds(SelectSeq(RefOrder, LAMBDA r : r \in serving)), lifted))

check_decoupling(b, s) ==
  LET rails == SelectSeq(NetOrder, LAMBDA n : classify_net(n) = "power")
      served(chips) == FlattenSeq([k \in DOMAIN chips |-> [i \in DOMAIN rails |-> ServedPins(b, chips[k], rails[i])]])
      serving(pins) == UNION {UNION {p.part : p \in Range(q)} : q \in Range(pins)}
      all(pins) == FlattenSeq([k \in DOMAIN pins |-> PoorlyServed(pins[k], s)]) \o Lifted(b, s, serving(pins))
  IN  all(served(PartsOf(b, "ic")))

-----------------------------------------------------------------------------
\* A layer refers to the nearest plane that it can see, up or down.
ReferenceIsNearest(b) ==
  LET planes == DOMAIN plane_layers(b)
      z == copper_z(b)
      order == copper_layer_names(b)
      e == ElectricsOf(b)
      seen(l) == {p \in planes \ {l} : LET i == IndexOf(order, l)
                                          j == IndexOf(order, p)
                                      IN  i - j \in {-1, 1}}
  IN  \A l \in CopperOf(b) :
        IF seen(l) = {} THEN e[l].plane = ""
        ELSE e[l].plane \in {p \in seen(l) : \A q \in seen(l) : Distance(z[p], z[l]) <= Distance(z[q], z[l])}

\* A gap is reported for a net and a layer if and only if some stretch of its
\* routing is without copper for long enough, and it is the longest.  A stretch is
\* measured in places, a corner in it counting twice.
GapsAreReal(b, s) ==
  LET places(t) == UNION {IF t.pts[k] <= t.pts[k + 1] THEN t.pts[k] .. t.pts[k + 1] ELSE t.pts[k + 1] .. t.pts[k] : k \in 1 .. Len(t.pts) - 1}
      corners(t, r) == Cardinality({k \in 2 .. Len(t.pts) - 1 : t.pts[k] \in r})
      stretches(t, copper) == {Cardinality(r) + corners(t, r) : r \in Range(RunsOf(places(t) \ copper))}
      long(n, l, copper) == {g \in UNION {stretches(t, copper) : t \in {t \in Range(b.tracks) : t.net = n /\ t.layer = l}} :
                               g >= setting(s, "plane-gap", "min_crossing")}
      right(mine, gaps) == IF gaps = {} THEN mine = {}
                           ELSE Cardinality(mine) = 1 /\ \A f \in mine : f.size \in gaps /\ \A g \in gaps : g <= f.size
      due(n, l, pairs) == IF SignalNet(n) /\ ~single_part(b, n) /\ l \in DOMAIN pairs
                            THEN LET copper == _rasterize_layer(b, pairs[l]) IN IF copper = {} THEN {} ELSE long(n, l, copper)
                            ELSE {}
      all(found, pairs) == \A n \in Range(NetOrder), l \in CopperOf(b) : right({f \in found : f.net = n /\ f.layers = {l}}, due(n, l, pairs))
  IN  all(Range(check_plane_gaps(b, s)), _layer_pairs(b))

=============================================================================
