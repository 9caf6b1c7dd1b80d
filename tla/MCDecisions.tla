------------------------------ MODULE MCDecisions ------------------------------
(***************************************************************************)
(* The worker's decisions on small inputs: a question is put to one of the *)
(* modules, and the invariants say what its answer has to be.              *)
(***************************************************************************)
EXTENDS Decisions, Conducted, MCLayout, MCParts, MCFindings, MCSignals

\* Compliance: two connectors, a far field and a dense grid that meet at three
\* of six frequencies, and a standard from 2 to 6 in two segments.
J == {"J1", "J2"}
MCStrength == [r \in {"board"} \cup J |-> CASE r = "board" -> 1 [] r = "J1" -> 2 [] OTHER -> 4]
MCFarGrid == {2, 3, 4, 6}
MCDenseGrid == {1, 2, 4, 6}
MCSegments == {[lo |-> 2, hi |-> 4, level |-> 9], [lo |-> 4, hi |-> 6, level |-> 6]}
MCScanRules == {[below |-> 2, to |-> 4], [below |-> 4, to |-> 5]}

NoDriver == [kind |-> "none", period |-> 1, bandwidth |-> 0, rise |-> FALSE, square |-> FALSE,
             lo |-> 1, hi |-> 6]
Clocks == {[NoDriver EXCEPT !.kind = "trapezoid", !.period = p, !.square = s] : p \in 1 .. 3, s \in BOOLEAN}
Captures == {[NoDriver EXCEPT !.kind = "waveform", !.period = p, !.bandwidth = b, !.rise = r] :
               p \in 1 .. 2, b \in {0, 3}, r \in BOOLEAN}

Solve == [found |-> TRUE, dated |-> TRUE, converged |-> TRUE, excited |-> {"P1"},
          far |-> [found |-> TRUE, current |-> TRUE, excited |-> {"P1"}, usable |-> MCFarGrid,
                   near |-> FALSE],
          transfers |-> [r \in J |-> MCDenseGrid], antennas |-> J, dense |-> TRUE]
Declared == [cables |-> [r \in J |-> "modelled"], undriven_source |-> FALSE, metal |-> FALSE,
             power |-> "dc", highest |-> 0]
Estimate == [standard |-> "radiated-3m", art |-> Solve, driver |-> NoDriver, decl |-> Declared,
             power_entry |-> FALSE]

\* What the solve holds, what drives it and which cables are declared.
Solved ==
  {[Estimate EXCEPT !.driver = d, !.art.far.usable = u, !.art.transfers.J1 = t,
                    !.art.antennas = a, !.decl.cables = c] :
     d \in Clocks \cup Captures, u \in {MCFarGrid, {2, 3, 4}, {2, 4, 6}, {2, 6}, {3, 4, 6}},
     t \in {MCDenseGrid, {}, {1, 2, 4}, {1, 2, 6}, {4, 6}},
     a \in SUBSET J, c \in [J -> {"unset", "none", "modelled", "other"}]}

\* What may be wrong with it otherwise.
Unusual ==
  {[Estimate EXCEPT !.driver = d, !.standard = s, !.art.found = f, !.art.converged = v] :
     d \in Clocks \cup {NoDriver}, s \in {"radiated-3m", "radiated-10m", "conducted"},
     f \in BOOLEAN, v \in BOOLEAN}
  \cup {[Estimate EXCEPT !.driver = d, !.art.far.current = n, !.art.far.near = z, !.art.dense = p,
                         !.art.excited = e, !.art.far.excited = e] :
          d \in Clocks, n \in BOOLEAN, z \in BOOLEAN, p \in BOOLEAN, e \in {{"P1"}, {"P1", "P2"}}}
  \cup {[Estimate EXCEPT !.driver = d, !.decl.highest = h, !.decl.power = p, !.decl.metal = m,
                         !.decl.undriven_source = u, !.power_entry = y] :
          d \in Clocks, h \in {0, 1, 5}, p \in {"", "ac", "dc"}, m \in BOOLEAN, u \in BOOLEAN,
          y \in BOOLEAN}
  \cup {[Estimate EXCEPT !.driver = d, !.art.far.found = FALSE, !.art.dated = a] :
          d \in Clocks, a \in BOOLEAN}

\* Topology: three layers and three places, up to two tracks, two vias, a pour
\* and three pads.
Stack == << "F", "In", "B" >>
Segment == {[layer |-> l, a |-> a, b |-> b] : l \in LayerNames, << a, b >> \in {<< 0, 1 >>, << 1, 2 >>, << 0, 2 >>}}
Vias == {[x |-> x, layers |-> l[1], spans |-> l[2]] :
           x \in Places, l \in {<< LayerNames, LayerNames >>, << {"F", "B"}, LayerNames >>,
                                << {"F", "In"}, {"F", "In"} >>}}
Pads(x, l) == [x |-> x, layers |-> {l}, through |-> l = "*.Cu"]
Circuits ==
  {[tracks |-> {s, t}, vias |-> v, pours |-> z, pads |-> {Pads(0, "F"), Pads(1, h), Pads(2, l)}] :
     s, t \in Segment, v \in {{}} \cup {{w} : w \in {w \in Vias : w.x # 2}} \cup {{w \in Vias : w.layers = l /\ w.x # 1} : l \in {LayerNames, {"F", "B"}}},
     z \in {{}, {[layer |-> "F", a |-> 0, b |-> 1]}, {[layer |-> "In", a |-> 1, b |-> 2]}},
     h \in {"F", "*.Cu"}, l \in {"F", "B"}}
  \cup {[tracks |-> {}, vias |-> {}, pours |-> z, pads |-> {Pads(0, "F"), Pads(1, h), Pads(2, l)}] :
          z \in {z \in SUBSET Segment : Cardinality(z) <= 3}, h \in {"F", "*.Cu"}, l \in {"F", "B"}}

\* Conducted: J1 on a 12 V input; up to two of a bead, an eFuse and a charger in
\* series and perhaps one bead more; U1 behind them and perhaps U2 behind U1
\* or beside it; perhaps U1's output on a second connector.
MCVolts == [n \in {"GND", "IN", "EF", "SYS", "N1", "N2", "SW1", "SW2", "UG", "OUT3", "OUT24", "OUT2", "NEG"} |->
              CASE n \in {"IN", "EF"} -> 12 [] n = "SYS" -> 5 [] n = "OUT3" -> 3
                [] n = "OUT24" -> 24 [] n = "OUT2" -> 2 [] OTHER -> 0]
MCSignalNets == {"N1", "N2", "SW1", "SW2", "UG"}
MCSwitchNames == {"SW1"}

Part(ref, type, pads) ==
  [ref |-> ref, type |-> type, pads |-> pads, pn |-> {}, small |-> TRUE, edge |-> TRUE]

\* What may be in series, each with the net behind it: an eFuse joins two nets
\* of one name, so it is first; a charger feeds a regulator, so it is last.
InSeries == {<< "bead", "N1" >>, << "bead", "N2" >>, << "ic", "EF" >>, << "ic", "SYS" >>}
Chains == {c \in UNION {[1 .. n -> InSeries] : n \in 0 .. 3} :
             \A i, j \in DOMAIN c :
               /\ i # j => c[i] # c[j]
               /\ c[i][2] = "EF" => i = 1
               /\ c[i][2] = "SYS" => i = Len(c)}
Behind(c, i) == IF i = 0 THEN "IN" ELSE c[i][2]
Furthest(c) == Behind(c, Len(c))
SeriesParts(c) == {Part(10 + i, c[i][1], {Behind(c, i - 1), c[i][2]} \cup (IF c[i][1] = "ic" THEN {"GND"} ELSE {})) : i \in DOMAIN c}
Caps(nets) == {Part(20, "capacitor", {n, "GND"}) : n \in nets}

\* A regulator of a topology from one net to another; its switches are its
\* own, or external with an inductor numbered like one ("L") or like an IC
\* ("U").  A module has its inductor inside.
RegulatorParts(ref, topology, in, sw, out, pn, external) ==
  LET module == "module" \in pn
      u == [Part(ref, "ic", {in, "GND"} \cup (CASE external = "U" -> {"UG"} [] module -> {} [] OTHER -> {sw}) \cup (IF topology = "inverting" THEN {} ELSE {out}))
              EXCEPT !.pn = pn]
      l == Part(30 + ref, IF external = "U" THEN "u-inductor" ELSE "inductor",
                CASE topology = "buck" -> {sw, out} [] topology = "boost" -> {in, sw} [] OTHER -> {sw, "GND"})
      d == IF topology = "buck" THEN {} ELSE {Part(40 + ref, "diode", {sw, out})}
      q == IF external # "" THEN {Part(50 + ref, "fet", {in, sw, "UG"})} ELSE {}
  IN  {u} \cup (IF module THEN {} ELSE {l}) \cup d \cup q \cup Caps({in, out})

OutputOf(topology) == CASE topology = "buck" -> "OUT3" [] topology = "boost" -> "OUT24" [] OTHER -> "NEG"

\* chain, topology, external switches, part number known, U2's input, U2's
\* part number, an output connector, a monitor that watches U1's two supplies.
BoardOf(c, t, q, k, v, w, j, h) ==
  LET last == Furthest(c)
      second == IF v = "" THEN {} ELSE RegulatorParts(2, "buck", v, "SW2", "OUT2", w, "")
      output == IF j THEN {[Part(6, "connector", {OutputOf(t), "GND"}) EXCEPT !.edge = FALSE]} ELSE {}
      watch == IF h THEN {Part(7, "ic", {last, OutputOf(t), "GND"})} ELSE {}
      entry == Part(5, "connector", {"IN", "GND"})
  IN  [board |-> {entry} \cup watch \cup Caps({"IN"}) \cup SeriesParts(c) \cup output \cup second
                 \cup RegulatorParts(1, t, last, "SW1", OutputOf(t), IF k THEN {t} ELSE {}, q),
       input |-> "IN",
       rail |-> {Behind(c, i) : i \in 0 .. Min({Len(c), MAX_DEPTH})},
       regulators |-> {[ref |-> 1, topology |-> t, inputs |-> {last}]}
                      \cup (IF v = "" THEN {} ELSE {[ref |-> 2, topology |-> "buck", inputs |-> {v}]})]

\* A boost is known for one by its part number only where it draws from a
\* charger or its output crosses a connector; and a monitor is taken for a pass
\* element where U2 draws from the far side of it.
\* A third part in series is beyond the scan's depth, and is put before a plain
\* buck only; and the switches are external where there is no second regulator.
FirstRegulators ==
  {r \in Chains \X {"buck", "boost", "inverting"} \X BOOLEAN \X BOOLEAN :
     /\ r[2] = "boost" /\ (Furthest(r[1]) = "SYS" \/ r[4]) => r[3]
     /\ Len(r[1]) = 3 => r[2] = "buck" /\ ~r[4]}
SecondRegulators ==
  ({""} \X {"", "L", "U"} \X {{}} \X BOOLEAN)
  \cup ({"beside"} \X {""} \X {{}, {"buck"}, {"buck", "module"}} \X BOOLEAN)
  \cup ({"OUT3", "OUT24"} \X {""} \X {{}, {"buck"}, {"buck", "module"}} \X {FALSE})
PowerTrees ==
  {BoardOf(r[1], r[2], s[2], r[3], IF s[1] = "beside" THEN Furthest(r[1]) ELSE s[1], s[3], r[4], s[4]) :
     r \in FirstRegulators, s \in SecondRegulators}

\* The long ones first.
MCTopics ==
  << "account", "vias", "grid", "parts", "drivers", "margin", "regulators", "nets",
     "paths", "limits", "compare", "boards", "settings", "previews", "memories",
     "doubts", "mistakes", "islands", "heights", "joins", "pulses", "offsets", "pairs", "traces",
     "trees" >>

MCQuestions(topic) ==
  CASE topic = "account" -> RunsToAccount
    [] topic = "boards" -> BoardsToRead
    [] topic = "compare" -> RunsToCompare
    [] topic = "doubts" -> Doubted
    [] topic = "drivers" -> DriverDocuments
    [] topic = "grid" -> Axes
    [] topic = "heights" -> Stackups
    [] topic = "islands" -> Bitmaps
    [] topic = "joins" -> Joins
    [] topic = "limits" -> LimitsToLoosen
    [] topic = "margin" -> Solved \cup Unusual
    [] topic = "memories" -> MemoriesToCheck
    [] topic = "mistakes" -> Documents
    [] topic = "nets" -> GerberBoards
    [] topic = "offsets" -> Applications
    [] topic = "pairs" -> PairLists
    [] topic = "parts" -> Capacitors \cup Pairs
    [] topic = "paths" -> Circuits
    [] topic = "previews" -> Previews
    [] topic = "pulses" -> Pulses
    [] topic = "regulators" -> PowerTrees
    [] topic = "settings" -> LayerStacks
    [] topic = "traces" -> TracesToMeasure
    [] topic = "trees" -> Trees
    [] topic = "vias" -> ViasToAdd

\* Topology: what tracks and vias join has a path.
ViasJoin == Asked("paths", ViasJoinWhatTheySpan)

\* Conducted: the regulators behind the power input are found as what they are.
RegulatorsAreKnown == Asked("regulators", DiscoveryIsRight)

\* Mesh: the grid keeps every line that a narrow trace needs and comes near all
\* the others, its cells grade, none is over the wavelength's limit, and the
\* lines it fills in cost no timestep.
GridIsFit == Asked("grid", GridFitsTheCopper) /\ Asked("heights", LayersAreResolved)

\* connectivity.Connectivity: a netlist that is laid on the board as it was
\* written names copper, holes and pins as what they are or not at all; and
\* raster.label_components: two pixels have one label exactly if copper joins them.
NetsAreKnown == Asked("nets", NetsAreRight) /\ Asked("islands", IslandsAreConnected)

\* Settings: the most specific document that says a usable value wins, what is
\* not usable is said and changes nothing else, and what the app shows or
\* writes to a file is what the worker will do.  Rules: a layer refers to the
\* nearest plane, a gap is reported exactly if it is there, nothing that a rule
\* finds is lost on its way to the user, one rule does not change another's
\* findings, and neither a ground via nor a looser limit makes anything worse.
\* Matching: no net is in two pairs, a data line is held to its own lane's strobe,
\* a board that is known less well is accused of no more, and a test point's stub
\* is the branch that leads to it.
RulesAreObeyed ==
  /\ Asked("settings", LAMBDA x : MostSpecificWins(x) /\ ExportGivesTheSame(x))
  /\ Asked("mistakes", LAMBDA x : MistakesAreSaid(<< "file", x >>))
  /\ Asked("previews", LAMBDA x : PreviewIsWhatRuns(x.layers, x.layer))
  /\ Asked("boards", LAMBDA b : ReferenceIsNearest(b) /\ GapsAreReal(b, defaults))
  /\ AskedOneOf({"account", "compare", "vias", "limits"}, RulesHold)
  /\ Asked("pairs", PairsAreWhole)
  /\ Asked("memories", LAMBDA m : DataIsHeldToItsStrobe(m.w, defaults, m.lane))
  /\ Asked("traces", LAMBDA x : UncertaintyAccusesLess(x.traces, x.geometry, x.target, 10, 20, x.e, OhmsOf))
  /\ Asked("trees", LAMBDA t : StubIsTheBranch("CK_P", t.d, 1 .. 5, t.pads, t.points, defaults))

=============================================================================
