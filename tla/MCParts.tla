-------------------------------- MODULE MCParts --------------------------------
(***************************************************************************)
(* Small libraries, parts and footprints for the component models, and     *)
(* drivers.                                                                *)
(***************************************************************************)
EXTENDS Components, Drivers

MCMetric == [i \in {"0402", "0603"} |-> IF i = "0402" THEN "1005" ELSE "1608"]

Document(id, prov, type, value, package, numbers) ==
  [id |-> id, shape |-> "ok", prov |-> prov, type |-> type, value |-> value, package |-> package,
   numbers |-> numbers, c |-> value, esl |-> TRUE, esr |-> TRUE,
   esl_of |-> IF type = "mlcc_family" THEN {"0402"} ELSE {}, sources |-> {""}, bias |-> FALSE]

\* The library is read file by file, the classes before the named parts.
MCLibrary ==
  << Document("family", "generic", "mlcc_family", 0, "", {}),
     Document("generic", "generic", "series_rlc", 1, "0402", {}),
     Document("other", "vendor", "series_rlc", 1, "0402", {"C2"}),
     Document("named", "vendor", "series_rlc", 1, "0402", {"C1", "MPN1"}) >>

\* A user's own: one for a value and a package, with a part number and without,
\* one that lacks its ESL, a family, and some that are to be refused.
Own ==
  {Document("u1", "user", "series_rlc", 1, "0402", {}),
   Document("u2", "user", "series_rlc", 2, "0402", {"C2"}),
   [Document("u3", "measured", "series_rlc", 1, "0603", {"C3"}) EXCEPT !.esl = FALSE, !.sources = {"ESR"}],
   [Document("u4", "user", "mlcc_family", 0, "", {"C1"}) EXCEPT !.esl_of = {"0603"}, !.sources = {"ESL"}],
   [Document("u5", "user", "series_rlc", 1, "0402", {"C1"}) EXCEPT !.sources = {"ESL"}],
   [Document("u6", "vendor", "series_rlc", 1, "0402", {}) EXCEPT !.sources = {}, !.esl = FALSE, !.esr = FALSE],
   [Document("u7", "user", "series_rlc", 1, "0402", {}) EXCEPT !.shape = "newer"],
   [Document("u8", "user", "series_rlc", Unreadable, "", {"C2"}) EXCEPT !.c = 1]}

Footprints ==
  {[form |-> f, imperial |-> i, metric |-> m] :
     f \in {"standard", "bare", "custom"}, i \in {"0402", "0603", "2010"}, m \in {"1005", "1608"}}

Pad(l, x, y) == [layers |-> l, x |-> x, y |-> y]
Facing == << Pad(<< "F" >>, << 0, 3 >>, << 0, 4 >>), Pad(<< "F" >>, << 6, 9 >>, << 0, 4 >>) >>
Whole == [x |-> << 0, 20 >>, y |-> << 0, 20 >>]

Capacitor(value, footprint, numbers, candidates) ==
  [part |-> [value |-> value, footprint |-> footprint, numbers |-> numbers], candidates |-> candidates,
   wanted |-> TRUE, solver |-> TRUE, pads |-> Facing, region |-> Whole]

Capacitors ==
  {Capacitor(v, f, n, c) :
     v \in 0 .. 2, f \in Footprints, n \in {{}, {"C1"}, {"C2"}, {"C9", "MPN1"}},
     c \in {s \in BoundedSeq(Own, 2) : Cardinality(Range(s)) = Len(s)}}

\* Two rectangles wherever they lie to each other.
Spans == {<< 0, 3 >>, << 1, 4 >>, << 4, 7 >>, << 6, 9 >>}
Pairs ==
  {[Capacitor(1, [form |-> "standard", imperial |-> "0402", metric |-> "1005"], {}, << >>)
      EXCEPT !.pads = << Pad(<< "F" >>, x, y), Pad(l, v, w) >>, !.region = r, !.wanted = o] :
     x \in Spans, y \in Spans, v \in Spans, w \in Spans, l \in {<< >>, << "F", "B" >>, << "B" >>},
     r \in {Whole, [Whole EXCEPT !.x = << 2, 5 >>]}, o \in BOOLEAN}

\* Drivers: every pulse on a small grid; captures of three to six samples; and
\* what is known of the numbers.
Pulses == [amplitude : {-1, 2}, period : 0 .. 6, width : 0 .. 6, rise : 0 .. 3, fall : 0 .. 3]

MCSigma == [s \in {"scope", "datasheet", "assumed"} |-> CASE s = "scope" -> 1 [] s = "datasheet" -> 3 [] OTHER -> 6]

\* The odd lines of a wave have the height of its first corner and the even ones
\* that of its second, more or less by the corners' times, the period and the edge.
MCSeries(wave, period, edge, n) ==
  LET v == wave[IF n % 2 = 0 THEN 2 ELSE 1].v
      t == MapThenSumSet(LAMBDA i : i * wave[i].t, DOMAIN wave) + period + MapThenSumSet(LAMBDA x : x.rise, edge)
  IN  Max({v, -v}) * (1 + (t % 7))

AllNumbers == {"amplitude_v", "period_s", "pulse_width_s", "rise_s", "fall_s", "source_impedance_ohm", "input_current_a"}
Supplied == AllNumbers \cup {"input_voltage_v"}
Usual == [n \in Supplied |->
            CASE n = "period_s" -> 6 [] n = "pulse_width_s" -> 3 [] n = "source_impedance_ohm" -> 0 [] OTHER -> 1]
Numbers(names, worst, s) == [n \in names |-> [value |-> Usual[n], source |-> IF n \in worst THEN s ELSE "scope"]]
Points == << [f |-> 2, level |-> 0], [f |-> 4, level |-> 4], [f |-> 8, level |-> 8] >>
Good == [shape |-> "ok", kind |-> "trapezoid", role |-> "signal", values |-> Numbers(AllNumbers, {}, ""),
         points |-> Points, samples |-> << 1, 2, 0, 3 >>, interval |-> 2, bandwidth |-> 0]
Put(d, name, v, s) == [d EXCEPT !.values = (name :> [value |-> v, source |-> s]) @@ @]
Drop(d, name) == [d EXCEPT !.values = RestrictDomain(@, LAMBDA n : n # name)]

DriverDocuments ==
  {[Put(Good, "period_s", p, "scope") EXCEPT !.kind = "waveform", !.samples = [k \in 1 .. n |-> k % 3], !.interval = i] :
     n \in 1 .. 6, i \in 0 .. 4, p \in 1 .. 12}
  \cup {[Good EXCEPT !.kind = k, !.role = r, !.values = Numbers(has, {worst}, s), !.points = o] :
          k \in {"trapezoid", "waveform", "spectrum"}, r \in {"signal", "switching-regulator"},
          has \in {AllNumbers, Supplied, {"period_s", "source_impedance_ohm"}},
          worst \in AllNumbers, s \in {"datasheet", "assumed", "hearsay"}, o \in {Points, Reverse(Points)}}

\* Two documents that differ in a number, in what it is, where it is from or
\* whether it is there, and alike are more or less sure of another.
Altered(d, name) ==
  {Drop(d, name)} \cup {Put(d, name, IF name = "period_s" THEN 4 ELSE 2, s) : s \in {"scope", "assumed"}}
Unsure(name) ==
  {[Good EXCEPT !.kind = k, !.role = r, !.bandwidth = b, !.values = Numbers(Supplied, {name} \cup m, s)] :
     k \in {"trapezoid", "waveform", "spectrum"}, r \in {"signal", "switching-regulator"}, b \in {0, 2},
     m \in {{}, {"period_s"}, {"source_impedance_ohm"}}, s \in {"scope", "assumed", "hearsay"}}
Doubted ==
  {[driver |-> x[2], other |-> x[3], port |-> [recorded |-> 1 .. 9, current |-> {1, 2, 3, 4, 6}], reference |-> 5, freqs |-> 1 .. 8] :
     x \in UNION {UNION {{name} \X {d} \X Altered(d, name) : d \in Unsure(name)} : name \in Supplied}}

\* Captures whose odd and even lines have a height each, up to a bandwidth; a
\* rise of 0 is none that is declared, and one of 4 fits no period.
Harmonics(odd, even, bandwidth, period, rise) ==
  LET d == [Put(Good, "period_s", period, "scope") EXCEPT
              !.kind = "waveform", !.bandwidth = bandwidth, !.samples = << odd, even, 3, 0 >>,
              !.interval = IF period = 6 THEN 2 ELSE 1]
  IN  IF rise = 0 THEN Drop(d, "rise_s") ELSE Put(d, "rise_s", rise, "scope")
Joins ==
  {[driver |-> Harmonics(o, e, b, p, r), freqs |-> 1 .. 24] :
     o \in 0 .. 2, e \in 0 .. 2, b \in 0 .. 20, p \in {2, 3, 6}, r \in {0, 1, 4}}

\* One of them is not sampled twice in a period.
Applications ==
  {[driver |-> d, port |-> [recorded |-> r, current |-> c], reference |-> m, freqs |-> fs] :
     d \in {Harmonics(2, 0, 0, 6, 1), Harmonics(1, 2, 4, 3, 0), [Good EXCEPT !.kind = "spectrum"], Good,
            [Put(Good, "period_s", 2, "scope") EXCEPT !.kind = "waveform"], Harmonics(1, 2, 2, 6, 1)},
     r \in {1 .. 9, {2, 3, 4, 6}}, c \in {1 .. 9, {2, 3}}, m \in {0, 5}, fs \in SUBSET (1 .. 6) \ {{}}}

================================================================================
