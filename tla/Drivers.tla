--------------------------------- MODULE Drivers ---------------------------------
(***************************************************************************)
(* Drivers (worker/emi_worker/drivers/): which documents are taken and how *)
(* far they are trusted, the pulse a trapezoid is, the part of a capture   *)
(* that is transformed, how it goes on above its bandwidth, and the offset *)
(* that applies a driver to a solve.                                       *)
(*                                                                         *)
(* Times, frequencies and heights are whole numbers.  A wave is a sequence *)
(* of corners [t, v], in half units of time so that an edge has a middle.  *)
(***************************************************************************)
EXTENDS Integers, Sequences, FiniteSets, FiniteSetsExt, SequencesExt

CONSTANTS
  SOURCE_SIGMA_DB,  \* function: source to decibels
  MAX_SAMPLES,      \* samples of a capture, or points of a spectrum
  JOIN_HARMONICS,
  CYCLE,            \* a period times the frequency it repeats at
  piecewise_linear_series(_, _, _, _)
    \* (wave, period, edge, n): the height of the n-th line of a wave that repeats
    \* after a period, 0 for a null; in terms of the edge's envelope if there is one

ASSUME DriversAssumption ==
  /\ MAX_SAMPLES \in Nat /\ JOIN_HARMONICS \in Nat /\ JOIN_HARMONICS > 2 /\ CYCLE \in Nat \ {0}
  /\ \A s \in DOMAIN SOURCE_SIGMA_DB : SOURCE_SIGMA_DB[s] \in Nat

\* What a driver drives at a frequency: a height, and the pulse in terms of whose
\* envelope it is, {} for one that is absolute.
Level(height, edge) == [height |-> height, edge |-> edge]
Undriven == Level(-1, {})   \* None, for which there is a reason

-----------------------------------------------------------------------------
\* spectrum.py: a pulse [amplitude, period, width, rise, fall].
flat_top(t) == 2 * t.width - (t.rise + t.fall)

validate(t) ==
  /\ t.period > 0 /\ t.rise > 0 /\ t.fall > 0 /\ t.width > 0
  /\ flat_top(t) >= 0
  /\ 2 * t.rise + flat_top(t) + 2 * t.fall <= 2 * t.period

breakpoints(t) ==
  LET top == 2 * t.rise + flat_top(t)
      end == top + 2 * t.fall
      corners == << [t |-> 0, v |-> 0], [t |-> 2 * t.rise, v |-> t.amplitude],
                    [t |-> top, v |-> t.amplitude], [t |-> end, v |-> 0] >>
  IN  IF end < 2 * t.period THEN Append(corners, [t |-> 2 * t.period, v |-> 0]) ELSE corners

-----------------------------------------------------------------------------
\* document.py.  A document is [shape, kind, role, values, samples, interval,
\* bandwidth, points]; values gives each number that is there as [value, source],
\* and a bandwidth of 0 is none.
Needed(kind) ==
  CASE kind = "trapezoid" -> {"amplitude_v", "period_s", "pulse_width_s", "rise_s", "fall_s", "source_impedance_ohm"}
    [] kind = "waveform" -> {"period_s", "source_impedance_ohm"}
    [] OTHER -> {"source_impedance_ohm"}

Optional(kind) == IF kind = "waveform" THEN {"rise_s"} ELSE {}
OfRole(role) == IF role = "switching-regulator" THEN {"input_current_a", "input_voltage_v"} ELSE {}

\* The numbers that are read; others of the document are not.
Read(d) == (Needed(d.kind) \cup OfRole(d.role) \cup Optional(d.kind)) \cap DOMAIN d.values

ValueOf(d, name) == d.values[name].value

trapezoid(d) ==
  [amplitude |-> ValueOf(d, "amplitude_v"), period |-> ValueOf(d, "period_s"), width |-> ValueOf(d, "pulse_width_s"),
   rise |-> ValueOf(d, "rise_s"), fall |-> ValueOf(d, "fall_s")]

Captured(d) == (Len(d.samples) - 1) * d.interval

parse_driver(d) ==
  /\ d.shape = "ok"
  /\ Needed(d.kind) \cup OfRole(d.role) \subseteq DOMAIN d.values
  /\ \A name \in Read(d) : d.values[name].source \in DOMAIN SOURCE_SIGMA_DB
  /\ CASE d.kind = "trapezoid" -> validate(trapezoid(d)) /\ ValueOf(d, "source_impedance_ohm") >= 0
       [] d.kind = "waveform" -> /\ Len(d.samples) \in 2 .. MAX_SAMPLES /\ d.interval > 0
                                 /\ Captured(d) >= ValueOf(d, "period_s")
       [] OTHER -> /\ Len(d.points) \in 2 .. MAX_SAMPLES
                   /\ \A i \in 1 .. Len(d.points) - 1 : d.points[i].f < d.points[i + 1].f

\* The worst of the numbers that are read, not their average.
sigma_db(d) == Max({SOURCE_SIGMA_DB[d.values[name].source] : name \in Read(d)})

-----------------------------------------------------------------------------
\* resolve.py.  Which harmonic a frequency is, 0 for none.
_harmonic_index(f, period) == IF (f * period) % CYCLE = 0 THEN (f * period) \div CYCLE ELSE 0

lines_level(wave, period, f) ==
  IF _harmonic_index(f, period) < 1 THEN Undriven
  ELSE Level(piecewise_linear_series(wave, period, {}, _harmonic_index(f, period)), {})

\* Python's round of a quotient: a half goes to the even neighbour.
Rounded(a, b) ==
  LET n == a \div b
  IN  IF 2 * (a % b) < b \/ (2 * (a % b) = b /\ n % 2 = 0) THEN n ELSE n + 1

\* The samples of one period of a capture, to the nearest one; {} if it is not
\* sampled twice in a period.
period_taken(d) == {Min({n + 1, Len(d.samples)}) : n \in {Rounded(ValueOf(d, "period_s"), d.interval)} \ {0, 1}}

Wave(d) == [k \in 1 .. Max(period_taken(d)) |-> [t |-> 2 * (k - 1) * d.interval, v |-> d.samples[k]]]

\* The pulse with the declared edges, half a period wide, if they give one.  (In
\* half units of time, for the half.)
Edge(amplitude, period, rise) ==
  [amplitude |-> amplitude, period |-> 2 * period, width |-> period, rise |-> 2 * rise, fall |-> 2 * rise]

envelope_trap(d) ==
  LET heights == {c.v : c \in Range(Wave(d))}
      edges == {Edge(Max(heights) - Min(heights), ValueOf(d, "period_s"), ValueOf(d, name)) :
                  name \in {"rise_s"} \cap DOMAIN d.values}
  IN  {edge \in edges : edge.amplitude > 0 /\ validate(edge)}

\* Mutant: every second harmonic may be one parity.
StrideOf(k) == k

\* The envelope is scaled to the highest line, in its terms, of the top octave.
\* Harmonics are taken from the top at an odd stride.
Odd(k) == IF k % 2 = 0 THEN k + 1 ELSE k

join_stride(count) == Odd(Max({1, (count + JOIN_HARMONICS - 1) \div JOIN_HARMONICS}))

LastHarmonic(bandwidth, period) == (bandwidth * period) \div CYCLE
FirstOfOctave(last) == Max({1, (last + 1) \div 2})

join_scale(wave, period, bandwidth, edge) ==
  LET hi == LastHarmonic(bandwidth, period)
      lo == FirstOfOctave(hi)
      step == join_stride(hi - lo + 1)
      seen == {piecewise_linear_series(wave, period, edge, n) : n \in {n \in lo .. hi : (hi - n) % step = 0}}
  IN  IF hi < 1 \/ Max(seen) = 0 THEN 1 ELSE Max(seen)

waveform_level(d, f) ==
  LET period == ValueOf(d, "period_s")
      edge == envelope_trap(d)
  IN  IF d.bandwidth = 0 \/ f <= d.bandwidth \/ _harmonic_index(f, period) < 1 THEN lines_level(Wave(d), period, f)
      ELSE IF edge = {} THEN Undriven ELSE Level(join_scale(Wave(d), period, d.bandwidth, edge), edge)

\* An uploaded spectrum is interpolated between its points.
spectrum_level(points, f) ==
  IF f < points[1].f \/ points[Len(points)].f < f THEN Undriven
  ELSE LET i == CHOOSE i \in 1 .. Len(points) - 1 : points[i].f <= f /\ f <= points[i + 1].f
           a == points[i]
           b == points[i + 1]
       IN  Level(a.level + ((b.level - a.level) * (f - a.f)) \div (b.f - a.f), {})

level(d, f) ==
  CASE d.kind = "trapezoid" -> lines_level(breakpoints(trapezoid(d)), ValueOf(d, "period_s"), f)
    [] d.kind = "waveform" -> waveform_level(d, f)
    [] OTHER -> spectrum_level(d.points, f)

Unresolvable(d) == d.kind = "waveform" /\ period_taken(d) = {}

-----------------------------------------------------------------------------
\* apply.py.  A port has the frequencies it recorded and those at which it had
\* a current.  A frequency it did not record fails the whole, but only if the
\* driver drives it; the driver's own nulls have a reason and no offset.  An
\* offset is what it is computed from.
Failed == [failed |-> TRUE]

apply_driver(d, port, reference, freqs) ==
  LET driven == {f \in freqs : level(d, f).height > 0}
  IN  IF freqs = {} \/ Unresolvable(d) \/ reference <= 0 \/ ~(driven \subseteq port.recorded) THEN Failed
      ELSE [failed |-> FALSE,
            offset |-> [f \in driven \cap port.current |->
                          << reference, level(d, f), ValueOf(d, "source_impedance_ohm") >>],
            undriven |-> [f \in freqs \ (driven \cap port.current) |->
                            CASE level(d, f) = Undriven -> "not driven"
                              [] level(d, f).height = 0 -> "null"
                              [] OTHER -> "no current"]]

-----------------------------------------------------------------------------
\* A pulse that is accepted is the pulse that was described: it starts and ends
\* at zero, fills the period and is as wide at half its height as it says.
PulseIsAsDescribed(t) ==
  validate(t) =>
    LET b == breakpoints(t)
    IN  /\ b[1] = [t |-> 0, v |-> 0] /\ b[Len(b)].v = 0 /\ b[Len(b)].t = 2 * t.period
        /\ \A i \in 1 .. Len(b) - 1 : b[i].t <= b[i + 1].t
        /\ (b[3].t + b[4].t) - (b[1].t + b[2].t) = 4 * t.width

\* A capture that is accepted is transformed over one period, to half a sample.
OnePeriodIsTaken(d) ==
  (d.kind = "waveform" /\ parse_driver(d)) =>
    \A n \in period_taken(d) : LET t == (n - 1) * d.interval
                               IN  2 * t - 2 * ValueOf(d, "period_s") \in -d.interval .. d.interval

\* The numbers that differ between two documents, and those of a document that
\* are less certain than it says, or of no source that is known.
Differing(d, e) ==
  {name \in DOMAIN d.values \cup DOMAIN e.values :
     ~(name \in DOMAIN d.values \cap DOMAIN e.values /\ ValueOf(d, name) = ValueOf(e, name))}
Doubtful(d) ==
  {name \in DOMAIN d.values :
     ~(d.values[name].source \in DOMAIN SOURCE_SIGMA_DB /\ SOURCE_SIGMA_DB[d.values[name].source] <= sigma_db(d))}

\* A number that is less certain than the driver says is without effect: two
\* documents that are accepted and differ in such numbers only, in what they are
\* or in whether they are there, give a solve the same.  So what a number does
\* to a level is in the driver's confidence, whichever part of the level it shapes.
DoubtfulNumbersDoNothing(q) ==
  LET d == q.driver
      e == q.other
  IN  (/\ parse_driver(d) /\ parse_driver(e)
       /\ \A field \in {"kind", "role", "samples", "interval", "bandwidth", "points"} : d[field] = e[field]
       /\ Differing(d, e) \subseteq Doubtful(d) \cup Doubtful(e))
      => apply_driver(d, q.port, q.reference, q.freqs) = apply_driver(e, q.port, q.reference, q.freqs)

\* Above its bandwidth a capture goes on at the height it had below: that of
\* its harmonics, also if every second one is a null.
JoinHasNoStep(q) ==
  LET d == q.driver
      period == ValueOf(d, "period_s")
      hi == LastHarmonic(d.bandwidth, period)
      height(n) == piecewise_linear_series(Wave(d), period, envelope_trap(d), n)
      octave == FirstOfOctave(hi) .. hi
  IN  \A f \in q.freqs :
        (d.bandwidth > 0 /\ f > d.bandwidth /\ _harmonic_index(f, period) > 0 /\ hi >= 1 /\ envelope_trap(d) # {}) =>
          LET l == level(d, f)
          IN  /\ l.edge = envelope_trap(d) /\ l.height > 0
              /\ (\E n \in octave : height(n) > 0) => \A n \in octave : height(n) <= l.height
              /\ (\E n \in octave : height(n) > 0) => \E n \in octave : height(n) = l.height

\* What a frequency gets does not depend on what else is asked for, and a
\* frequency has an offset exactly if there is no reason why not.
EachFrequencyByItself(q) ==
  LET alike(f, one, all) ==
        ~one.failed /\ IF f \in DOMAIN all.offset THEN f \in DOMAIN one.offset /\ one.offset[f] = all.offset[f]
                       ELSE f \in DOMAIN one.undriven /\ one.undriven[f] = all.undriven[f]
      of(all, each) == IF all.failed THEN \E f \in q.freqs : each[f].failed
                       ELSE \A f \in q.freqs : alike(f, each[f], all)
  IN  of(apply_driver(q.driver, q.port, q.reference, q.freqs),
         [f \in q.freqs |-> apply_driver(q.driver, q.port, q.reference, {f})])

=============================================================================
