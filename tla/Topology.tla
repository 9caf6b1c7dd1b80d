------------------------------- MODULE Topology -------------------------------
(***************************************************************************)
(* Net connectivity (worker/emi_worker/topology.py): the graph of a net's  *)
(* tracks, vias, pads and pours, and the shortest routes between its pads. *)
(*                                                                         *)
(* A net's copper lies along one line: a point is a layer and a place on   *)
(* it.  Points closer than JOIN_TOLERANCE_MM are the same place.           *)
(***************************************************************************)
EXTENDS Integers, Sequences, FiniteSets, FiniteSetsExt

CONSTANTS
  CopperLayers,  \* copper_layer_names, top to bottom
  Places         \* 0 .. the length of the board

\* A net: tracks [layer, a, b]; vias [x, layers, spans], the layers the file
\* gives for it and the ones its barrel passes; pours [layer, a, b]; pads
\* [x, layers, through], a through-hole pad's layers being "*.Cu".
LayerNames == {CopperLayers[i] : i \in DOMAIN CopperLayers}

ASSUME TopologyAssumption ==
  /\ CopperLayers \in Seq(STRING) /\ CopperLayers # << >> /\ "zone" \notin LayerNames
  /\ IsFiniteSet(Places) /\ Places # {} /\ Places = 0 .. Cardinality(Places) - 1

Along(s, x) == s.a <= x /\ x <= s.b
Far == 1000  \* no route

\* Neighbours among some numbers.
Consecutive(on) == {q \in on \X on : q[1] < q[2] /\ ~\E z \in on : q[1] < z /\ z < q[2]}

-----------------------------------------------------------------------------
\* build, pass one: every endpoint, via and pad becomes a node.
Nodes(net) ==
  LET ends == UNION {{<< t.layer, t.a >>, << t.layer, t.b >>} : t \in net.tracks}
      barrels == UNION {{<< l, v.x >> : l \in v.layers} : v \in net.vias}
      pins == UNION {{<< l, p.x >> : l \in p.layers \cap LayerNames} : p \in net.pads}
  IN  ends \cup barrels \cup pins

\* Pass two: a track is split at every node that lies on it.
\* Mutant: only at its own ends.
TrackEdgesWhole(net) == {<< << t.layer, t.a >>, << t.layer, t.b >>, t.b - t.a >> : t \in net.tracks}

TrackEdges(net) ==
  UNION {LET on == {x \in Places : Along(t, x) /\ << t.layer, x >> \in Nodes(net)}
         IN  {<< << t.layer, q[1] >>, << t.layer, q[2] >>, q[2] - q[1] >> : q \in Consecutive(on)} :
         t \in net.tracks}

\* A via joins the layers the file gives for it, one after the other.
ViaEdges(net) ==
  UNION {LET listed == {i \in DOMAIN CopperLayers : CopperLayers[i] \in v.layers}
         IN  {<< << CopperLayers[q[1]], v.x >>, << CopperLayers[q[2]], v.x >>, 0 >> : q \in Consecutive(listed)} :
         v \in net.vias}

\* A through-hole pad with no named layer is on every one.
PadLayers(p) ==
  IF p.layers \cap LayerNames # {} THEN p.layers \cap LayerNames
  ELSE IF p.through THEN LayerNames ELSE {}

\* A pad joins the pours it sits in; a pour is one node.
PourEdges(net) ==
  UNION {{<< << z.layer, p.x >>, << "zone", z >>, 0 >> :
            p \in {p \in net.pads : z.layer \in PadLayers(p) /\ Along(z, p.x)}} : z \in net.pours}

Edges(net) == TrackEdges(net) \cup ViaEdges(net) \cup PourEdges(net)

\* _dijkstra: how far every node that can be reached is from the nearest source.
Ends(edges) == UNION {{e[1], e[2]} : e \in edges}
Longest == Len(CopperLayers) * (Cardinality(Places) - 1)  \* bound: no shortest route is longer

further(edges, reached) ==
  LET ways == edges \cup {<< e[2], e[1], e[3] >> : e \in edges}
  IN  reached \cup {<< s[1][2], s[2][2] + s[1][3] >> :
                      s \in {s \in ways \X reached : s[1][1] = s[2][1] /\ s[2][2] + s[1][3] <= Longest}}

_dijkstra(edges, sources) ==
  LET settle[reached \in SUBSET ((Ends(edges) \cup sources) \X (0 .. Longest))] ==
        LET more == further(edges, reached) IN IF more = reached THEN reached ELSE settle[more]
  IN  settle[sources \X {0}]

\* _finish: the nodes with edges a pad lands on; a pad without one is
\* unreachable.
Anchors(edges, p) ==
  LET layers == IF PadLayers(p) = {} THEN {CopperLayers[1]} ELSE PadLayers(p)
  IN  {n \in Ends(edges) : n[1] \in layers /\ n[2] = p.x}

Reached(net) == {p \in net.pads : Anchors(Edges(net), p) # {}}

\* NetTopology.path from a pad to every pad, as lengths; Far where there is none.
RoutesFrom(net, edges, p) ==
  LET reached == _dijkstra(edges, Anchors(edges, p))
  IN  [q \in net.pads |-> Min({r[2] : r \in {r \in reached : r[1] \in Anchors(edges, q)}} \cup {Far})]

path(net, p) == RoutesFrom(net, Edges(net), p)

-----------------------------------------------------------------------------
\* The copper itself, place by place: a track joins its places, a barrel and a
\* through-hole pad join the layers they pass, a pour joins what lies in it.
CopperSteps(net) ==
  UNION {{<< << t.layer, x >>, << t.layer, x + 1 >>, 1 >> : x \in t.a .. t.b - 1} : t \in net.tracks}
CopperBarrels(net) ==
  UNION {{<< << q[1], v.x >>, << q[2], v.x >>, 0 >> : q \in v.spans \X v.spans} : v \in net.vias}
CopperPins(net) ==
  UNION {{<< << q[1], p.x >>, << q[2], p.x >>, 0 >> : q \in LayerNames \X LayerNames} :
           p \in {p \in net.pads : p.through}}
CopperFills(net) ==
  UNION {{<< << z.layer, x >>, << "zone", z >>, 0 >> : x \in z.a .. z.b} : z \in net.pours}

CopperEdges(net) == CopperSteps(net) \cup CopperBarrels(net) \cup CopperPins(net) \cup CopperFills(net)

CopperPath(net, p) == RoutesFrom(net, CopperEdges(net), p)

\* What the graph is drawn for: pads on one layer, vias whose layers the file
\* spells out, and pours that only pads join, those that meet as well.
Plain(net) ==
  LET meet(y, z) == y # z /\ y.layer = z.layer /\ \E x \in Places : Along(y, x) /\ Along(z, x)
      joined(y, z) == \E p \in net.pads : z.layer \in PadLayers(p) /\ Along(y, p.x) /\ Along(z, p.x)
  IN  /\ \A p \in net.pads : ~p.through
      /\ \A v \in net.vias : v.layers = v.spans
      /\ \/ net.pours = {}
         \/ net.tracks \cup net.vias = {} /\ \A y, z \in net.pours : meet(y, z) => joined(y, z)

\* A net as a board has it: tracks, vias, pours and pads are on its layers and
\* within it, a via joins two layers at least, and a pad is on one.
Drawn(net) ==
  /\ \A set \in {net.tracks, net.vias, net.pours, net.pads} : IsFiniteSet(set)
  /\ \A t \in net.tracks \cup net.pours : t.layer \in LayerNames /\ t.a \in Places /\ t.b \in Places /\ t.a <= t.b
  /\ \A v \in net.vias : /\ v.x \in Places /\ v.layers \subseteq v.spans /\ v.spans \subseteq LayerNames
                        /\ \E l, m \in v.layers : l # m
  /\ \A p \in net.pads : p.x \in Places /\ PadLayers(p) # {}

\* A path that is reported is real: there is copper all the way, and none that
\* is shorter.  On a plain net it is the shortest, and every pad the copper
\* joins to another is reached.
PathsFollowTheCopper(net) ==
  LET agree(p, route, copper) ==
        \A q \in net.pads \ {p} : route[q] >= copper[q] /\ (Plain(net) => route[q] = copper[q])
  IN  \A p \in net.pads : \A route \in {path(net, p)}, copper \in {CopperPath(net, p)} : agree(p, route, copper)

\* "A via joins every layer it spans" (topology.py): so where tracks and vias
\* alone join two pads, there is a path.
ViasJoinWhatTheySpan(net) ==
  (net.pours = {} /\ \A p \in net.pads : ~p.through) =>
    \A p, q \in net.pads : CopperPath(net, p)[q] < Far => path(net, p)[q] < Far

=============================================================================
