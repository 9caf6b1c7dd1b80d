--------------------------------- MODULE MCRules ---------------------------------
(***************************************************************************)
(* Small settings documents for the layout rules.                          *)
(***************************************************************************)
EXTENDS Settings

\* Every rule of Findings and of Matching with what it reads; a group of nets
\* may set the limits of two.
MCCatalogue ==
  [r \in {"ddr-skew", "test-point-stub", "plane-gap", "return-via", "stitching", "edge-stitching", "stackup", "decoupling", "via-stub",
          "radiator", "edge-proximity", "copper-island", "crystal"} |->
     CASE r = "ddr-skew" -> [byte_lane |-> 3, intra_pair |-> 2, address_command |-> 6, lane_to_lane |-> 0, min_group_size |-> 3]
       [] r = "test-point-stub" -> [max_stub |-> 0]
       [] r = "plane-gap" -> [min_crossing |-> 2]
       [] r = "return-via" -> [max_distance |-> 1]
       [] r \in {"stitching"} -> [spacing |-> 0]
       [] r = "edge-stitching" -> [spacing |-> 0, band |-> 1]
       [] r = "decoupling" -> [max_distance |-> 1, critical_distance |-> 3, max_ground_via |-> 1]
       [] r = "via-stub" -> [margin |-> 4]
       [] r = "radiator" -> [percent |-> 5]
       [] r = "edge-proximity" -> [keepout |-> 2]
       [] r = "copper-island" -> [min_area |-> 2]
       [] r = "crystal" -> [min_edge |-> 5, min_connector |-> 10, margin |-> 1]
       [] OTHER -> Empty]
MCPerNet == ("ddr-skew" :> {"byte_lane", "intra_pair", "address_command"}) @@ ("test-point-stub" :> {"max_stub"})
MCBoard == [fmax |-> 10, epsilon |-> 0]
MCClass == [n \in {"clk", "rst", ""} |-> CASE n = "clk" -> "fast" [] n = "rst" -> "slow" [] OTHER -> ""]

Says(section, content) == [NoLayer EXCEPT ![section] = content]
One2(k, v) == [x \in {k} |-> v]

\* What a document may say of one section, right and wrong.
BoardSections == {WrongShape} \cup {One2(k, v) : k \in {"fmax", "epsilon", "fmx"}, v \in {0, 5, 20, -1, Words}}
RuleSections ==
  {WrongShape}
  \cup {One2(r, [Unsaid EXCEPT !.enabled = e, !.severity = v, !.params = p]) :
          r \in {"ddr-skew", "plane-gap"}, e \in {Unset, FALSE, TRUE}, v \in {"", "info", "wrning"},
          p \in {Empty, WrongShape, One2("byte_lane", 4), One2("min_crossing", 0), [byte_lane |-> Words, min_group_size |-> 5]}}
  \cup {One2("ddr-skw", Unsaid), One2("plane-gap", WrongShape)}

Group(m, c, p) == [match |-> m, netclass |-> c, params |-> p]
GroupSections ==
  {WrongShape, << WrongShape >>, << Group({"clk", "rst"}, "", WrongShape) >>,
   << Group({"clk"}, "", One2("byte_lane", 4)), Group({"clk", "rst"}, "", One2("byte_lane", 6)) >>,
   << Group({"clk", "rst"}, "", One2("byte_lane", 6)), Group({"clk"}, "", One2("byte_lane", 4)) >>,
   << Group({}, "slow", [byte_lane |-> 2, min_group_size |-> 2]), WrongShape >>,
   << Group({"clk"}, "fast", One2("byte_lane", Words)) >>, << Group({"clk"}, "", One2("byte_lan", 1)) >>}

Hidden(r, n, w) == [rule |-> r, net |-> n, reason |-> w]
SuppressSections ==
  {WrongShape, << WrongShape >>, << Hidden({"ddr-skew"}, {"clk"}, "known") >>,
   << Hidden({"ddr-skew", "plane-gap"}, {"clk", "rst"}, ""), Hidden({"ddr-skew"}, {"clk"}, "known") >>,
   << Hidden({}, {"clk"}, "misspelt") >>}
CableSections ==
  {WrongShape} \cup {[solver |-> s, connectors |-> c] :
                       s \in {"", "nec2c", "builtin", "nec5"}, c \in {WrongShape, Empty, One2("J1", "usb"), One2("J1", "none"), One2("J1", WrongShape)}}

Sections == [board |-> BoardSections, rules |-> RuleSections, groups |-> GroupSections,
             suppress |-> SuppressSections, cables |-> CableSections]
SectionNames == {"board", "rules", "groups", "suppress", "cables"}
DocumentsOf(section) == {Unset, WrongShape} \cup {Says(section, c) : c \in Sections[section]}
Documents == UNION {DocumentsOf(section) : section \in SectionNames}

\* Three layers that speak of one thing: all of them for the short sections; for
\* the rules, what the middle one may get wrong comes between two that do not.
GoodRules ==
  {Says("rules", One2("ddr-skew", [Unsaid EXCEPT !.enabled = e, !.severity = v, !.params = p])) :
     e \in {Unset, FALSE}, v \in {"", "info"}, p \in {Empty, One2("byte_lane", 4)}}
Layers(a, b, c) == << << "project", a >>, << "file", b >>, << "run", c >> >>
LayerStacks ==
  {Layers(Unset, b, c) : b \in DocumentsOf("groups"), c \in DocumentsOf("groups")}
  \cup {Layers(a, b, c) : a \in DocumentsOf("suppress"), b \in DocumentsOf("suppress"), c \in DocumentsOf("suppress")}
  \cup {Layers(a, b, c) : a \in {Unset, Says("board", One2("fmax", 20))}, b \in DocumentsOf("board"), c \in DocumentsOf("board")}
  \cup {Layers(Unset, b, c) : b \in DocumentsOf("cables"), c \in DocumentsOf("cables")}
  \cup {Layers(a, b, c) : a \in GoodRules, b \in DocumentsOf("rules"), c \in {Unset} \cup GoodRules}

\* What the editor writes: it checks a value before it keeps it.
AppLayers ==
  {[NoLayer EXCEPT !.board = b, !.rules = r, !.groups = g, !.suppress = x] :
     b \in {Empty, One2("fmax", 20)},
     r \in {Empty, One2("ddr-skew", [Unsaid EXCEPT !.enabled = TRUE, !.params = One2("byte_lane", 4)]),
            One2("ddr-skew", [Unsaid EXCEPT !.enabled = FALSE, !.severity = "info", !.params = [byte_lane |-> 3, min_group_size |-> 5]]),
            One2("plane-gap", [Unsaid EXCEPT !.severity = "critical"])},
     g \in {<< >>, << Group({"clk"}, "", One2("byte_lane", 4)) >>},
     x \in {<< >>, << Hidden({"ddr-skew"}, {"clk"}, "mine") >>}}
Previews == {[layers |-> << << "project", Unset >>, << "file", d >> >>, layer |-> l] : d \in Documents, l \in AppLayers}

=============================================================================
