-------------------------------- MODULE MCFindings --------------------------------
(***************************************************************************)
(* Small boards for the layout rules: a strip of nine places, on four or   *)
(* two copper layers, with one fast and one slow signal net, a ground and  *)
(* a supply.                                                               *)
(***************************************************************************)
EXTENDS MCRules, Findings

MCNetSays == [n \in {"clk", "rst", "GND", "VDD"} |->
                CASE n = "clk" -> {"fast"} [] n = "rst" -> {"slow", "fast"} [] n = "GND" -> {"ground"} [] OTHER -> {"rail"}]
MCDesignator == [r \in {1, 2, 3, 11} |-> CASE r = 1 -> "ic" [] r = 2 -> "crystal" [] r = 3 -> "connector" [] OTHER -> "cap"]
NetsByName == << "GND", "VDD", "clk", "rst" >>
PartsByName == << 1, 2, 3, 11 >>
RulesInTurn == << "plane-gap", "return-via", "stitching", "edge-stitching", "stackup", "decoupling", "via-stub", "radiator",
                  "edge-proximity", "copper-island", "crystal" >>
RulesByName == << "copper-island", "crystal", "decoupling", "edge-proximity", "edge-stitching", "plane-gap", "radiator",
                  "return-via", "stackup", "stitching", "via-stub" >>

Cu(n) == [name |-> n, kind |-> "copper", thick |-> 2, eps |-> 0]
Di(n, t, e) == [name |-> n, kind |-> "dielectric", thick |-> t, eps |-> e]
Mask(n) == [name |-> n, kind |-> "mask", thick |-> 0, eps |-> 0]
TwoLayers == << Mask("M1"), Cu("F"), Di("D1", 12, 40), Cu("B"), Mask("M2") >>
FourLayers == << Mask("M1"), Cu("F"), Di("D1", 2, 36), Cu("G"), Di("D2", 8, 0), Cu("P"), Di("D3", 4, 42), Cu("B"), Mask("M2") >>

Track(n, l, pts) == [net |-> n, layer |-> l, pts |-> pts, width |-> 2]
Via(n, x) == [net |-> n, x |-> x, through |-> TRUE, layers |-> {"F", "B"}]
Pour(n, l, x, y) == [net |-> n, layer |-> l, a |-> x, b |-> y]
PadAt(n, r, x) == [net |-> n, ref |-> r, x |-> x, layers |-> {"F"}, through |-> FALSE, draws |-> TRUE]
Board(stack, tracks, vias, zones, pads) ==
  [size |-> 8, edge |-> << << 0, 8, 0 >> >>, stack |-> stack, dedicated |-> Len(stack) > 5,
   tracks |-> tracks, vias |-> vias, zones |-> zones, pads |-> pads]

Fronts == {<< >>, << Track("clk", "F", << 1, 6 >>) >>, << Track("clk", "F", << 1, 4, 7 >>), Track("rst", "F", << 0, 3 >>) >>,
           << Track("rst", "F", << 7, 2 >>), Track("clk", "F", << 0, 2 >>), Track("clk", "F", << 3, 8 >>) >>}
Backs == {<< >>, << Track("clk", "G", << 2, 4 >>) >>, << Track("clk", "B", << 3, 7 >>) >>, << Track("rst", "B", << 4, 0 >>) >>}
Inners == {<< Pour("GND", "G", 0, 8) >>, << Pour("GND", "G", 0, 3), Pour("GND", "G", 6, 8) >>,
           << Pour("VDD", "G", 0, 4), Pour("GND", "G", 5, 8) >>, << Pour("GND", "G", 0, 1) >>, << >>}
Others == {<< Pour("GND", "P", 0, 8) >>, << Pour("VDD", "P", 0, 8) >>, << Pour("GND", "P", 0, 3), Pour("", "P", 6, 8) >>, << Pour("GND", "B", 0, 8) >>, << >>}
HoleSets == {<< >>, << Via("GND", 1) >>, << Via("clk", 4), Via("GND", 1) >>, << Via("clk", 7), Via("rst", 0), Via("GND", 3) >>,
          << Via("clk", 3), Via("rst", 6) >>}
Parts == {<< >>, << PadAt("VDD", 1, 2), PadAt("VDD", 11, 4), PadAt("GND", 11, 6) >>,
          << PadAt("VDD", 1, 1), PadAt("VDD", 1, 8), PadAt("VDD", 11, 3), PadAt("GND", 11, 4), PadAt("clk", 2, 5), PadAt("rst", 3, 0) >>,
          << PadAt("VDD", 1, 3), PadAt("clk", 3, 2), PadAt("clk", 3, 5) >>}

FourLayerBoards(holes, parts) ==
  {Board(FourLayers, f \o k, h, i \o o, p) : f \in Fronts, k \in Backs, i \in Inners, o \in Others, h \in holes, p \in parts}
TwoLayerBoards(holes, parts) ==
  {Board(TwoLayers, f \o k, h, z, p) : f \in Fronts, k \in Backs, h \in holes, p \in parts,
     z \in {<< >>, << Pour("GND", "B", 0, 8), Pour("GND", "F", 0, 8) >>, << Pour("GND", "B", 0, 3), Pour("GND", "B", 5, 8), Pour("VDD", "F", 4, 8) >>}}

NoPads == {<< >>}
BoardsToRead == FourLayerBoards(HoleSets, NoPads) \cup TwoLayerBoards(HoleSets, NoPads)
                \cup {Board(FourLayers, f, h, i, p) : f \in Fronts, h \in HoleSets, i \in Inners, p \in Parts}

\* Settings that differ from the defaults in a rule or two.
With(s, r, e, v) == [s EXCEPT !.rules[r].enabled = e, !.rules[r].severity = v]
SomeSettings ==
  {defaults} \cup {With(defaults, r, e, v) : r \in Range(RULES), << e, v >> \in {<< FALSE, "" >>, << TRUE, "info" >>, << TRUE, "critical" >>}}
SomeBoards == {Board(FourLayers, f \o k, h, i, p) : f \in Fronts, k \in Backs, h \in HoleSets, i \in Inners, p \in {q \in Parts : Len(q) # 3}}
Fewer == {b \in SomeBoards : Len(b.tracks) = 3 /\ b.vias # << >> /\ Len(b.zones) \in {1, 2}}
RunOf(b, s, f) == [board |-> b, settings |-> s, fails |-> f]
RunsToCompare == {[is |-> "compare", runs |-> << RunOf(b, defaults, Empty), RunOf(b, t, Empty) >>] : b \in Fewer, t \in SomeSettings}

Hides == {<< >>, << [rule |-> {"plane-gap"}, net |-> {"clk"}, reason |-> "known", source |-> "file"],
                    [rule |-> Range(RULES), net |-> {"", "clk"}, reason |-> "", source |-> "run"] >>}
RunsToAccount ==
  {[is |-> "account", runs |-> << RunOf(b, [With(defaults, r, TRUE, v) EXCEPT !.suppressions = h], f) >>] :
     b \in Fewer, r \in {"plane-gap", "edge-stitching"}, v \in {"", "info"}, h \in Hides,
     f \in {Empty, One2("return-via", 0), One2("radiator", 1)}}

\* Only the rules that a ground via is to please.
Groundings == [defaults EXCEPT !.rules = [r \in DOMAIN @ |-> [@[r] EXCEPT !.enabled = r \in Grounding]]]
ViasToAdd ==
  {[is |-> "via", runs |-> << RunOf(b, Groundings, Empty), RunOf([b EXCEPT !.vias = Append(@, Via("GND", x))], Groundings, Empty) >>] :
     b \in FourLayerBoards(HoleSets, NoPads), x \in {0, 4, 7}}

Limited(r, k, v) == [defaults EXCEPT !.rules[r].params[k].value = v]
Loosened == {Limited("return-via", "max_distance", 3), Limited("plane-gap", "min_crossing", 3), Limited("stitching", "spacing", 3),
             Limited("edge-stitching", "spacing", 3), Limited("copper-island", "min_area", 4), Limited("edge-proximity", "keepout", 1),
             Limited("via-stub", "margin", 1), Limited("decoupling", "max_distance", 3), Limited("decoupling", "max_ground_via", 3),
             Limited("crystal", "min_edge", 1)}
            \cup {Limited(r, k, 0) : << r, k >> \in {<< "return-via", "max_distance" >>, << "plane-gap", "min_crossing" >>,
                                                     << "copper-island", "min_area" >>, << "via-stub", "margin" >>,
                                                     << "decoupling", "max_distance" >>, << "decoupling", "max_ground_via" >>}}
LimitsToLoosen ==
  {[is |-> "limit", runs |-> << RunOf(b, defaults, Empty), RunOf(b, t, Empty) >>] : b \in {b \in SomeBoards : Len(b.tracks) = 3}, t \in Loosened}

=============================================================================
