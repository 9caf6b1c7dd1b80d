------------------------------ MODULE Compliance ------------------------------
(***************************************************************************)
(* The compliance estimate (worker/emi_worker/compliance/, drivers/ and    *)
(* stages/compliance.py): from a finished solve, the driver attached to it *)
(* and what the user declares to radiating paths, to the gate on what is   *)
(* missing, and to the margin.                                             *)
(*                                                                         *)
(* Frequencies are small integers and the scans are sets of them; a level  *)
(* is a whole number and every radiator has one strength, so interpolating *)
(* between two points of a path gives that strength.  What is kept is who  *)
(* says something at a frequency, who says nothing, and who says zero.     *)
(***************************************************************************)
EXTENDS Integers, FiniteSets, FiniteSetsExt

CONSTANTS
  Connectors,  \* connectors ingest found on the board
  Strength,    \* function: field per volt of "board" and of each connector's cable
  FarGrid,     \* frequencies the far field was asked for
  DenseGrid,   \* dense_frequencies_hz
  Segments,    \* the standard's limit segments: [lo, hi, level]
  ScanRules,   \* scan_range.rules: [below, to]
  MaxLines     \* MAX_LINES

\* The segments leave no gap (limits._parse).
ASSUME ComplianceAssumption ==
  /\ IsFiniteSet(Connectors) /\ "board" \notin Connectors
  /\ \A grid \in {FarGrid, DenseGrid} : IsFiniteSet(grid) /\ grid \subseteq Nat \ {0}
  /\ Segments # {} /\ IsFiniteSet(Segments)
  /\ \A s \in Segments : s.lo \in Nat /\ s.hi \in Nat /\ s.lo <= s.hi /\ s.level \in Int
  /\ \A s, t \in Segments : \A f \in s.lo .. t.hi : \E q \in Segments : q.lo <= f /\ f <= q.hi
  /\ \A r \in ScanRules : r.below \in Nat /\ r.to \in Nat
  /\ \A r \in {"board"} \cup Connectors : Strength[r] \in Nat
  /\ MaxLines \in Nat

Silent == -1   \* a path, a driver or a number that says nothing

-----------------------------------------------------------------------------
\* limits.py.
range_hz == [lo |-> Min({s.lo : s \in Segments}), hi |-> Max({s.hi : s \in Segments})]
in_range(f) == range_hz.lo <= f /\ f <= range_hz.hi
limit_at(f) == Min({s.level : s \in {t \in Segments : t.lo <= f /\ f <= t.hi}})

\* The rules are read in order; above them it is the fifth harmonic.
scan_to_hz(h) ==
  LET met == {r \in ScanRules : h < r.below}
  IN  IF met = {} THEN 5 * h ELSE (CHOOSE r \in met : \A q \in met : r.below <= q.below).to

-----------------------------------------------------------------------------
\* Drivers: [kind, period, bandwidth, rise, square, lo, hi]; kind "none" is no
\* driver.  A period is given by the frequency it repeats at; bandwidth 0 is
\* none declared, and a square wave is null at its even harmonics.
Periodic(d) == d.kind \in {"trapezoid", "waveform"}

_resolve_lines(d, f) ==
  IF f % d.period # 0 THEN Silent
  ELSE IF d.square /\ (f \div d.period) % 2 = 0 THEN 0 ELSE 1

\* Above its bandwidth a capture goes on with the envelope of a declared rise
\* time or says nothing.
_resolve_waveform(d, f) ==
  IF d.bandwidth = 0 \/ f <= d.bandwidth \/ _resolve_lines(d, f) = Silent
    THEN _resolve_lines(d, f)
  ELSE IF d.rise THEN 1 ELSE Silent

_resolve_spectrum(d, f) == IF d.lo <= f /\ f <= d.hi THEN 1 ELSE Silent

resolve(d, f) ==
  CASE d.kind = "trapezoid" -> _resolve_lines(d, f)
    [] d.kind = "waveform"  -> _resolve_waveform(d, f)
    [] d.kind = "spectrum"  -> _resolve_spectrum(d, f)

-----------------------------------------------------------------------------
\* assemble.py.  The solve: [found, dated, converged, excited, far, transfers,
\* antennas, dense]; far: [found, current, excited, usable, near]; transfers
\* gives each gap port's usable part of the dense grid, {} for a connector
\* without one.

\* The usable points, and the unusable ones among them.
_usable_series(grid, usable) ==
  [fs |-> usable,
   holes |-> {f \in grid \ usable : \E a, b \in usable : a < f /\ f < b}]

Span(fs) == [lo |-> Min(fs), hi |-> Max(fs)]
Meet(a, b) == [lo |-> Max({a.lo, b.lo}), hi |-> Min({a.hi, b.hi})]
Within(f, band) == band.lo <= f /\ f <= band.hi

\* Where a path is evaluated: at the harmonics in its band, or at the points
\* of its own grid that an uploaded spectrum covers.
_evaluation_frequencies(d, band, grid) ==
  IF Periodic(d) THEN {f \in band.lo .. band.hi : f % d.period = 0 /\ in_range(f)}
  ELSE {f \in grid : d.lo <= f /\ f <= d.hi /\ in_range(f)}

TooManyLines(d, band) == Periodic(d) /\ (band.hi \div d.period) - ((band.lo - 1) \div d.period) > MaxLines

\* One radiator driven by d: what its transfer function covers, its points and
\* where the driver or the solve says nothing.
Compose(who, d, grid, usable) ==
  LET s == _usable_series(grid, usable)
      band == Meet(Span(s.fs), range_hz)
      asked == IF d.kind = "none" \/ band.lo > band.hi THEN {}
               ELSE _evaluation_frequencies(d, band, s.fs)
      driven == {f \in asked : resolve(d, f) # Silent}
  IN  IF s.fs = {} THEN [covered |-> {}, path |-> {}, undriven |-> s.holes, fails |-> FALSE]
      ELSE [covered |-> {Span(s.fs)},
            path |-> IF d.kind = "none" \/ band.lo > band.hi THEN {}
                     ELSE {[who |-> who, line |-> Periodic(d), band |-> band,
                            points |-> [f \in driven |-> Strength[who] * resolve(d, f)]]},
            undriven |-> s.holes \cup (asked \ driven),
            fails |-> d.kind # "none" /\ band.lo <= band.hi /\ TooManyLines(d, band)]

_board_path(d, far) == Compose("board", d, FarGrid, far.usable)
compose_cable(d, ref, usable) == Compose(ref, d, DenseGrid, usable)

NoAssembly ==
  [paths |-> {}, excited |-> {}, far_field_ports |-> {}, modelled |-> {}, covered |-> {},
   undriven |-> {}, highest |-> 0, problems |-> {}, fails |-> FALSE]

assemble(art, d) ==
  IF ~art.dated THEN [NoAssembly EXCEPT !.problems = {"solve-format"}]
  ELSE IF ~art.converged
    THEN [NoAssembly EXCEPT !.problems = {"solve-unconverged"}, !.excited = art.excited]
  ELSE
    LET far == art.far
        field == far.found /\ far.current /\ Cardinality(far.excited) <= 1
        board == IF field THEN {_board_path(d, far)} ELSE {}
        fitted == {r \in Connectors : art.transfers[r] # {}}
        modelled == fitted \cap art.antennas
        cables == IF art.dense THEN {compose_cable(d, r, art.transfers[r]) : r \in modelled}
                  ELSE {}
        problems ==
          (IF far.found /\ ~far.current THEN {"far-field-format"} ELSE {})
          \cup (IF far.found /\ far.current /\ ~field THEN {"far-field-sources"} ELSE {})
          \cup (IF fitted # modelled THEN {"cable-antenna"} ELSE {})
          \cup (IF modelled # {} /\ ~art.dense THEN {"cable-port"} ELSE {})
          \cup (IF field /\ far.near THEN {"distance"} ELSE {})
        of(all) ==
          [paths |-> UNION {c.path : c \in all},
           excited |-> art.excited,
           far_field_ports |-> IF field THEN far.excited ELSE {},
           modelled |-> modelled,
           covered |-> UNION {c.covered : c \in all},
           undriven |-> UNION {c.undriven : c \in all},
           highest |-> IF Periodic(d) THEN d.period ELSE 0,
           problems |-> problems,
           fails |-> \E c \in all : c.fails]
    IN  of(board \cup cables)

-----------------------------------------------------------------------------
\* predict.py.

\* A line spectrum is zero between its lines; a continuous one is read between
\* its points; outside its band a path says nothing.
path_at(p, f) ==
  LET fs == DOMAIN p.points
  IN  IF f \in fs THEN p.points[f]
      ELSE IF ~Within(f, p.band) THEN Silent
      ELSE IF p.line THEN 0
      ELSE IF fs # {} /\ Within(f, Span(fs)) THEN Strength[p.who] ELSE Silent

common_grid(paths) == {f \in UNION {DOMAIN p.points : p \in paths} : in_range(f)}

\* One driver's paths add in amplitude.
combine(paths, f) == MapThenSumSet(LAMBDA p : IF path_at(p, f) = Silent THEN 0 ELSE path_at(p, f), paths)

\* The worst margin of the points that have a level.
outlook(paths) ==
  LET scored == {f \in common_grid(paths) : combine(paths, f) > 0}
  IN  IF scored = {} THEN {} ELSE {Min({limit_at(f) - combine(paths, f) : f \in scored})}

-----------------------------------------------------------------------------
\* completeness.py.  asm is {} where no solve was given; decl: [cables,
\* undriven_source, metal, power, highest], a connector's cable being
\* "unset", "none", "modelled" (what the solve modelled) or "other".
\* Mutant: a connector nobody declared a cable for is no gap.
CableGapDeclared(ref, cable, modelled) ==
  IF cable \in {"unset", "none"} \/ ref \in modelled THEN {} ELSE {"cable-solve"}

CableGap(ref, cable, modelled) ==
  IF cable = "none" THEN {}
  ELSE IF ref \notin modelled THEN {IF cable = "unset" THEN "cable" ELSE "cable-solve"}
  ELSE IF cable = "other" THEN {"cable-mismatch"} ELSE {}

PowerGap(power, entry_found) ==
  IF power = "" THEN {"power"} ELSE IF power # "dc" /\ ~entry_found THEN {"power-entry"} ELSE {}

completeness_check(found, asm, d, decl, required, power_entry_found) ==
  (IF ~found THEN {"solve"} ELSE {})
  \cup asm.problems
  \cup (IF d.kind = "none" THEN {"no-driver"} ELSE {})
  \cup (IF d.kind # "none" /\ decl.undriven_source THEN {"driver-net"} ELSE {})
  \cup (IF found /\ Cardinality(asm.excited) > 1 THEN {"sources"} ELSE {})
  \cup (UNION {CableGap(r, decl.cables[r], asm.modelled) : r \in Connectors})
  \cup (IF asm.excited \subseteq asm.far_field_ports THEN {} ELSE {"far-field"})
  \cup (IF required = {} THEN IF found THEN {"highest-frequency"} ELSE {}
        ELSE {"band" : c \in {c \in asm.covered : \E q \in required : c.lo > q.lo \/ c.hi < q.hi}})
  \cup {"harmonic" : f \in {f \in asm.undriven : \A q \in required : Within(f, q)}}
  \cup (IF decl.metal THEN {"metal-enclosure"} ELSE {})
  \cup PowerGap(decl.power, power_entry_found)

\* run_compliance: the standard is refused before anything is read; the gate's
\* inputs come from the board and the solve.  The result is what it says of
\* the product: its gaps, and its margin if it has one.
Refused == [gaps |-> {"refused"}, margin |-> {}]

\* The scan's top edge, from the driver's fundamental or a higher frequency
\* the user states; {} where neither is known.
RequiredBand(asm, decl) ==
  LET highest == Max({asm.highest, decl.highest})
  IN  IF highest = 0 THEN {}
      ELSE {[lo |-> range_hz.lo, hi |-> Min({scan_to_hz(highest), range_hz.hi})]}

run_compliance(x) ==
  LET gaps(asm) == completeness_check(x.art.found, asm, x.driver, x.decl,
                                      RequiredBand(asm, x.decl), x.power_entry)
      judged(asm, missing) == [gaps |-> missing, margin |-> IF missing = {} THEN outlook(asm.paths) ELSE {}]
      of(asm) == IF asm.fails THEN Refused ELSE judged(asm, gaps(asm))
  IN  IF x.standard # "radiated-3m" THEN Refused
      ELSE of(IF x.art.found THEN assemble(x.art, x.driver) ELSE NoAssembly)

-----------------------------------------------------------------------------
\* What an estimate is asked of: a solve that drove a port, with transfer
\* functions on the grids it was asked for, a driver and what the user declares.
Estimable(x) ==
  /\ x.driver.period \in Nat \ {0}
  /\ x.art.excited # {} /\ x.art.far.usable \subseteq FarGrid
  /\ x.art.transfers \in [Connectors -> SUBSET DenseGrid]
  /\ x.decl.highest \in Nat
  /\ x.decl.cables \in [Connectors -> {"unset", "none", "modelled", "other"}]

\* What the product radiates at f: its board and every connector that carries
\* a cable, each driven by what the driver drives there.
Radiators(x) == {"board"} \cup {r \in Connectors : x.decl.cables[r] # "none"}

TrueLevel(x, f) == MapThenSumSet(LAMBDA r : Strength[r] * resolve(x.driver, f), Radiators(x))

\* A margin that is published for a periodic driver is not better than the
\* whole product's at any of the driver's lines in the scan: no connector, no
\* harmonic and no part of the scan is left out of a complete estimate.  (A
\* far field without one usable frequency leaves the board out: README.)
MarginIsOfTheWholeProduct(x) ==
  LET doc == run_compliance(x)
      scan == [lo |-> range_hz.lo,
               hi |-> Min({range_hz.hi, scan_to_hz(Max({x.driver.period, x.decl.highest}))})]
  IN  (Periodic(x.driver) /\ x.art.far.usable # {}) =>
        \A m \in doc.margin, f \in {f \in scan.lo .. scan.hi : f % x.driver.period = 0} :
          /\ resolve(x.driver, f) # Silent
          /\ TrueLevel(x, f) > 0 => m <= limit_at(f) - TrueLevel(x, f)

=============================================================================
