---------------------------------- MODULE Strip ----------------------------------
(***************************************************************************)
(* What the layout rules know of a board before they look for anything     *)
(* (worker/emi_worker/rules/model.py, planes.py, under.py, stackup.py): what *)
(* a net is and carries, which layers are planes, and which plane a layer  *)
(* refers to.                                                              *)
(*                                                                         *)
(* The board is a strip, the places from 0 to its size on every layer, so a *)
(* pour is an interval and an area a length.  A place is a pixel of the    *)
(* rasters.  A board is [size, edge, stack, dedicated, tracks, vias, zones, *)
(* pads], with all in the order of the file and     *)
(*   stack   from the top, of [name, kind, thick, eps], kind "copper",     *)
(*           "dielectric" or "mask", thick even                            *)
(*   edge    the rings of the outline, each a sequence of places           *)
(*   tracks  [net, layer, pts, width], width even                          *)
(*   vias    [net, x, through, layers]                            *)
(*   zones   [net, layer, a, b], a < b                                     *)
(*   pads    [net, ref, x, layers, through, draws]                         *)
(***************************************************************************)
EXTENDS Settings

CONSTANTS
  NetSays,         \* function: net to the set of what the words of its name are
  PlanePercent,    \* pours of one net over so much of the board make a plane
  DEFAULT_EPSILON,
  MASK_EPSILON_BUMP

SumSeq(s) == LET sum[k \in 0 .. Len(s)] == IF k = 0 THEN 0 ELSE sum[k - 1] + s[k] IN sum[Len(s)]

copper_layer_names(b) == LET cu == SelectSeq(b.stack, LAMBDA e : e.kind = "copper") IN [i \in DOMAIN cu |-> cu[i].name]
CopperOf(b) == Range(copper_layer_names(b))
Vacant(n) == n = ""

-----------------------------------------------------------------------------
\* What a net is by its name: "unnamed" is KiCad's name for one without, "about"
\* a word such as EN or SENSE that makes a rail's name a signal's.
classify_net(n) ==
  CASE Vacant(n) -> "signal"
    [] "unnamed" \in NetSays[n] -> "signal"
    [] "ground" \in NetSays[n] -> "ground"
    [] "rail" \in NetSays[n] /\ "about" \notin NetSays[n] -> "power"
    [] OTHER -> "signal"

\* CLK_EN is an enable.
net_activity(n) ==
  CASE "slow" \in NetSays[n] -> "slow" [] "fast" \in NetSays[n] -> "fast" [] OTHER -> "unknown"

SignalNet(n) == ~Vacant(n) /\ classify_net(n) = "signal"
GroundNet(n) == ~Vacant(n) /\ classify_net(n) = "ground"

\* Two pins of one part and nothing else.
single_part(b, n) ==
  LET mine == {i \in DOMAIN b.pads : b.pads[i].net = n}
  IN  Cardinality(mine) >= 2 /\ \A i, j \in mine : b.pads[i].ref = b.pads[j].ref

-----------------------------------------------------------------------------
\* Of the nets that pour over enough of a layer, the one that pours most, and of
\* two alike the one that poured first.
Poured(b, l, n) == SumSeq([i \in DOMAIN b.zones |-> IF b.zones[i].layer = l /\ b.zones[i].net = n THEN b.zones[i].b - b.zones[i].a ELSE 0])
FirstPour(b, l, n) == CHOOSE i \in DOMAIN b.zones : b.zones[i].layer = l /\ b.zones[i].net = n
                         /\ \A j \in 1 .. i - 1 : ~(b.zones[j].layer = l /\ b.zones[j].net = n)

PourersOf(b, l) == {n \in {z.net : z \in {z \in Range(b.zones) : z.layer = l}} :
                      ~Vacant(n) /\ 100 * Poured(b, l, n) >= PlanePercent * b.size}
plane_layers(b) ==
  LET above(l, n, m, x, y) == x > y \/ (x = y /\ FirstPour(b, l, n) < FirstPour(b, l, m))
      most(l, nets) == CHOOSE n \in nets : \A m \in nets \ {n} : above(l, n, m, Poured(b, l, n), Poured(b, l, m))
  IN  [l \in {l \in CopperOf(b) : PourersOf(b, l) # {}} |-> most(l, PourersOf(b, l))]

ground_planes(b) ==
  LET grounded(planes) == {l \in DOMAIN planes : GroundNet(planes[l])} IN grounded(plane_layers(b))

-----------------------------------------------------------------------------
\* Heights are twice what they are.
None == [plane |-> "", far |-> 0, eps |-> 0]

\* The nearest plane in one direction; a copper layer that is none ends the
\* search.
_nearest_plane(stack, start, step, planes) ==
  LET first(known) == IF known = << >> THEN 0 ELSE Head(known).eps
      behind(layer, between) ==
        IF layer.name \notin planes THEN None
        ELSE [plane |-> layer.name,
              far |-> layer.thick + 2 * SumSeq([j \in DOMAIN between |-> between[j].thick]),
              eps |-> first(SelectSeq(between, LAMBDA e : e.kind = "dielectric" /\ e.eps > 0))]
      at(way, copper) == IF copper = {} THEN None ELSE behind(way[Min(copper)], SubSeq(way, 1, Min(copper) - 1))
      along(way) == at(way, {k \in DOMAIN way : way[k].kind = "copper"})
  IN  along([k \in 1 .. (IF step = 1 THEN Len(stack) - start ELSE start - 1) |-> stack[start + step * k]])

_has_mask(stack, i) == \E j \in {i - 1, i + 1} \cap DOMAIN stack : stack[j].kind = "mask"

\* What a copper layer refers to and what is between, from what is below and above
\* it; an override of the permittivity, if there is one, is everybody's.
Reference(below, above, masked, override) ==
  LET both == below # None /\ above # None
      near == IF above = None \/ (both /\ below.far <= above.far) THEN below ELSE above
      eps == CASE override > 0 -> override [] near.eps > 0 -> near.eps [] OTHER -> DEFAULT_EPSILON
  IN  [plane |-> near.plane, height |-> near.far,
       above |-> CASE ~both -> 0 [] near = below -> above.far [] OTHER -> below.far,
       kind |-> IF both THEN "stripline" ELSE "microstrip",
       eps |-> eps + IF ~both /\ masked THEN MASK_EPSILON_BUMP ELSE 0]

analyse(b, planes, override) ==
  LET names == copper_layer_names(b)
      of(l, i) == Reference(_nearest_plane(b.stack, i, 1, planes), _nearest_plane(b.stack, i, -1, planes),
                            l \in {Head(names), Last(names)} /\ _has_mask(b.stack, i), override)
  IN  [l \in CopperOf(b) |-> of(l, CHOOSE i \in DOMAIN b.stack : b.stack[i].name = l)]

\* The middle of each copper layer over the bottom, doubled.
copper_z(b) ==
  [l \in CopperOf(b) |->
     LET i == CHOOSE i \in DOMAIN b.stack : b.stack[i].name = l
     IN  b.stack[i].thick + 2 * SumSeq([j \in 1 .. Len(b.stack) - i |-> b.stack[i + j].thick])]

\* Ingest decides the planes once, from the pours, for all of them.
ElectricsOf(b) == analyse(b, DOMAIN plane_layers(b), 0)

_layer_pairs(b) ==
  LET referring(e) == [l \in {l \in DOMAIN e : e[l].plane \notin {"", l}} |-> e[l].plane] IN referring(ElectricsOf(b))

-----------------------------------------------------------------------------
\* A ground plane between a layer and every layer a part is on.
IndexOf(seq, v) == CHOOSE i \in DOMAIN seq : seq[i] = v
shielded(b, l, side) ==
  LET order == copper_layer_names(b)
      t == IndexOf(order, l)
      between(i, s, u) == (s < i /\ i < u) \/ (u < i /\ i < s)
  IN  side # {} /\ \A s \in side \cap Range(order) :
                     \E g \in ground_planes(b) : between(IndexOf(order, g), IndexOf(order, s), t)

\* The signals routed under a part, each with the first layer that is found.
signals_under(b, lo, hi, own, side) ==
  LET under(t) == /\ SignalNet(t.net) /\ t.net \notin own /\ t.layer \in CopperOf(b)
                  /\ ~shielded(b, t.layer, side)
                  /\ \E k \in 1 .. Len(t.pts) - 1 :
                       ~(t.pts[k] < lo /\ t.pts[k + 1] < lo) /\ ~(t.pts[k] > hi /\ t.pts[k + 1] > hi)
      found == SelectSeq(b.tracks, under)
  IN  {<< t.net, t.layer >> : t \in {found[i] : i \in {i \in DOMAIN found : \A j \in 1 .. i - 1 : found[j].net # found[i].net}}}

=============================================================================
