---------------------------- MODULE DecisionProofs ----------------------------
(***************************************************************************)
(* Proofs about the worker's decisions, for every input: what a driver and *)
(* a pulse are read as, what a solve's frequencies get from them, which    *)
(* document answers for a part and where its element goes, which paths a   *)
(* net's copper has, which of a layer's pixels are one island, which nets  *)
(* are pairs, what a doubt about a board may change and how long the       *)
(* branch to a test point is; and from those and from ComplianceProofs,    *)
(* that the system of questions is answered right whatever may be asked.   *)
(*                                                                         *)
(* The arithmetic ones come down to what a quotient and its remainder are  *)
(* (DivMod); where a greatest number is taken of a set, the set is finite  *)
(* and so has one (LargestOf), or has two members at most (LargerOfTwo).   *)
(* The library's order is a function by recursion on its length, so that   *)
(* it exists, and what it lists, is shown by its least counterexample.  So *)
(* is the search for paths, which ends with the least set that holds its   *)
(* sources and is closed under the edges: to show what it reaches is to    *)
(* show a set that is closed (Searching).                                  *)
(*                                                                         *)
(* The labelling of a raster keeps an invariant from run to run (Sound):   *)
(* runs that touch have one root, and runs of one root reach the same.     *)
(* What a union does to the roots is UnionIs, and JoinAllIs for several.   *)
(***************************************************************************)
EXTENDS Decisions, Nets, Matching, ComplianceProofs, SequenceTheorems

\* A pulse that is accepted is the pulse that was described (spectrum.py).
THEOREM PulsesAreAsDescribed ==
  ASSUME NEW t \in Pulse
  PROVE  PulseIsAsDescribed(t)
<1> SUFFICES ASSUME validate(t) PROVE PulseIsAsDescribed(t)
  BY DEF PulseIsAsDescribed
<1> DEFINE top == 2 * t.rise + flat_top(t)
           end == top + 2 * t.fall
           last == 2 * t.period
           four == << [t |-> 0, v |-> 0], [t |-> 2 * t.rise, v |-> t.amplitude],
                      [t |-> top, v |-> t.amplitude], [t |-> end, v |-> 0] >>
           b == breakpoints(t)
<1>1. /\ t.rise > 0 /\ t.fall > 0 /\ flat_top(t) >= 0 /\ end <= last
      /\ t.rise \in Int /\ t.amplitude \in Int /\ top \in Int /\ end \in Int /\ last \in Int
      /\ 0 <= 2 * t.rise /\ 2 * t.rise <= top /\ top <= end
      /\ top + end - (0 + 2 * t.rise) = 4 * t.width
  BY DEF validate, Pulse, flat_top
<1>2. b = IF end < last THEN Append(four, [t |-> last, v |-> 0]) ELSE four
  BY DEF breakpoints
<1> HIDE DEF top, end, last, b
<1>3. /\ (Len(b) = 4 /\ end = last) \/ Len(b) = 5
      /\ b[1] = [t |-> 0, v |-> 0] /\ b[2].t = 2 * t.rise /\ b[3].t = top /\ b[4].t = end
      /\ Len(b) = 4 => b[4].v = 0
      /\ Len(b) = 5 => b[5] = [t |-> last, v |-> 0]
  BY <1>1, <1>2
<1>4. \A i \in 1 .. Len(b) - 1 : b[i].t <= b[i + 1].t
  <2> SUFFICES ASSUME NEW i \in 1 .. Len(b) - 1 PROVE b[i].t <= b[i + 1].t
    OBVIOUS
  <2>1. b[1].t <= b[2].t /\ b[2].t <= b[3].t /\ b[3].t <= b[4].t /\ (Len(b) = 5 => b[4].t <= b[5].t)
    BY <1>1, <1>3
  <2>2. CASE Len(b) = 4
    <3>1. (i = 1 /\ i + 1 = 2) \/ (i = 2 /\ i + 1 = 3) \/ (i = 3 /\ i + 1 = 4)
      BY <2>2
    <3> QED BY <2>1, <3>1, Zenon
  <2>3. CASE Len(b) = 5
    <3>1. (i = 1 /\ i + 1 = 2) \/ (i = 2 /\ i + 1 = 3) \/ (i = 3 /\ i + 1 = 4) \/ (i = 4 /\ i + 1 = 5)
      BY <2>3
    <3> QED BY <2>1, <2>3, <3>1, Zenon
  <2> QED BY <1>3, <2>2, <2>3
<1>5. b[Len(b)].v = 0 /\ b[Len(b)].t = last
  <2>1. CASE Len(b) = 4
    BY <1>3, <2>1
  <2>2. CASE Len(b) = 5
    BY <1>3, <2>2
  <2> QED BY <1>3, <2>1, <2>2
<1>6. (b[3].t + b[4].t) - (b[1].t + b[2].t) = 4 * t.width
  BY <1>1, <1>3
<1> QED BY <1>3, <1>4, <1>5, <1>6 DEF PulseIsAsDescribed, b, last

-----------------------------------------------------------------------------

\* A number is its quotient times the divisor, and a remainder below it.
LEMMA DivMod ==
  ASSUME NEW a \in Nat, NEW b \in Nat \ {0}
  PROVE  /\ a \div b \in Nat /\ a % b \in Nat /\ a % b < b
         /\ a = b * (a \div b) + (a % b)
  BY SMT

\* What Python's round of a quotient is: a nearest whole number.
LEMMA RoundedIsNearest ==
  ASSUME NEW a \in Nat, NEW b \in Nat \ {0}
  PROVE  /\ Rounded(a, b) \in Nat
         /\ 2 * (Rounded(a, b) * b) - 2 * a <= b
         /\ 2 * a - 2 * (Rounded(a, b) * b) <= b
<1> DEFINE n == a \div b
           r == a % b
<1>1. n \in Nat /\ r \in Nat /\ r < b /\ a = b * n + r
  BY SMT
<1>2. (n + 1) * b = b * n + b /\ n * b = b * n /\ b * n \in Int
  BY <1>1
<1>3. CASE Rounded(a, b) = n
  <2>1. 2 * r <= b
    BY <1>1, <1>3 DEF Rounded
  <2> QED BY <1>1, <1>2, <1>3, <2>1
<1>4. CASE Rounded(a, b) = n + 1
  <2>1. 2 * r >= b
    BY <1>1, <1>4 DEF Rounded
  <2> QED BY <1>1, <1>2, <1>4, <2>1
<1> QED BY <1>3, <1>4 DEF Rounded

\* A capture that is accepted is transformed over one period, to half a sample
\* (resolve.py).
THEOREM PeriodsAreTakenOnce ==
  ASSUME NEW d, Capture(d)
  PROVE  OnePeriodIsTaken(d)
<1> DEFINE period == ValueOf(d, "period_s")
           samples == Len(d.samples)
           m == Rounded(period, d.interval)
<1> SUFFICES ASSUME d.kind = "waveform", parse_driver(d), NEW n \in period_taken(d)
             PROVE  2 * ((n - 1) * d.interval) - 2 * period \in -d.interval .. d.interval
  BY DEF OnePeriodIsTaken
<1>1. /\ samples \in Nat /\ samples >= 2 /\ d.interval \in Nat /\ d.interval > 0 /\ period \in Nat
      /\ (samples - 1) * d.interval >= period
  <2>1. samples \in 2 .. MAX_SAMPLES /\ d.interval > 0 /\ Captured(d) >= period /\ "period_s" \in DOMAIN d.values
    BY DEF parse_driver, Needed
  <2>2. d.interval \in Nat /\ period \in Nat
    BY <2>1 DEF Capture
  <2> QED BY <2>1, <2>2, DriversAssumption DEF Captured, DriversAssumption
<1>2. /\ m \in Nat
      /\ 2 * (m * d.interval) - 2 * period <= d.interval
      /\ 2 * period - 2 * (m * d.interval) <= d.interval
  <2>1. d.interval \in Nat \ {0}
    BY <1>1
  <2> QED BY <1>1, <2>1, RoundedIsNearest
<1>3. n = Min({m + 1, samples})
  BY DEF period_taken
<1> HIDE DEF m, samples, period
<1>4. CASE m + 1 <= samples
  <2>1. n = m + 1
    BY <1>1, <1>2, <1>3, <1>4 DEF Min
  <2> QED BY <1>1, <1>2, <2>1
<1>5. CASE samples < m + 1
  <2>1. n = samples
    BY <1>1, <1>2, <1>3, <1>5 DEF Min
  <2>2. (n - 1) * d.interval <= m * d.interval /\ (n - 1) * d.interval \in Nat
    <3>1. n - 1 <= m /\ n - 1 \in Nat
      BY <1>1, <1>2, <1>5, <2>1
    <3> QED BY <1>1, <1>2, <3>1
  <2> QED BY <1>1, <1>2, <2>1, <2>2
<1> QED BY <1>1, <1>2, <1>4, <1>5

-----------------------------------------------------------------------------

\* Of finitely many numbers there is a largest.
LEMMA LargestOf ==
  ASSUME NEW S, IsFiniteSet(S), S # {}, NEW v, \A x \in S : v[x] \in Nat
  PROVE  \E x \in S : \A y \in S : v[y] <= v[x]
<1> DEFINE HasLargest(T) == \E x \in T : \A y \in T : v[y] <= v[x]
           Bad == {T \in FiniteSubsetsOf(S) : T # {} /\ ~HasLargest(T)}
<1>1. SUFFICES ASSUME Bad # {} PROVE FALSE
  BY DEF FiniteSubsetsOf
<1>2. PICK T \in Bad : \A U \in Bad : ~ (<<U, T>> \in StrictSubsetOrdering(S))
  BY <1>1, FS_StrictSubsetOrderingWellFounded, WFMin
<1>3. T \subseteq S /\ IsFiniteSet(T) /\ T # {} /\ ~HasLargest(T)
  BY <1>2 DEF FiniteSubsetsOf
<1>4. PICK x \in T : TRUE
  BY <1>3
<1>5. T \ {x} \in FiniteSubsetsOf(S) /\ <<T \ {x}, T>> \in StrictSubsetOrdering(S)
  BY <1>3, <1>4, FS_RemoveElement DEF FiniteSubsetsOf, StrictSubsetOrdering
<1>6. T \ {x} = {} \/ HasLargest(T \ {x})
  BY <1>2, <1>5
<1>7. CASE T \ {x} = {}
  <2>1. \A y \in T : y = x
    BY <1>7
  <2> QED BY <1>3, <1>4, <2>1
<1>8. CASE HasLargest(T \ {x})
  <2>1. PICK z \in T \ {x} : \A y \in T \ {x} : v[y] <= v[z]
    BY <1>8
  <2>2. \A y \in T : v[y] \in Nat
    BY <1>3
  <2> QED BY <1>3, <1>4, <2>1, <2>2
<1> QED BY <1>6, <1>7, <1>8

\* No number that is read is less certain than the driver says it is (document.py).
LEMMA NothingReadIsDoubtful ==
  ASSUME NEW d, parse_driver(d), NEW name \in Read(d)
  PROVE  name \notin Doubtful(d)
<1> DEFINE v == [n \in Read(d) |-> SOURCE_SIGMA_DB[d.values[n].source]]
<1>1. d.values[name].source \in DOMAIN SOURCE_SIGMA_DB
  BY DEF parse_driver
<1>2. \A n \in Read(d) : v[n] \in Nat
  BY DriversAssumption DEF DriversAssumption, parse_driver
<1>3. IsFiniteSet(Read(d))
  <2> DEFINE known == {"amplitude_v", "period_s", "pulse_width_s", "rise_s", "fall_s",
                       "source_impedance_ohm", "input_current_a", "input_voltage_v"}
  <2>1. IsFiniteSet(known)
    <3>1. IsFiniteSet({"amplitude_v"})
      BY FS_Singleton
    <3>2. IsFiniteSet({"amplitude_v"} \cup {"period_s"} \cup {"pulse_width_s"} \cup {"rise_s"})
      BY <3>1, FS_AddElement
    <3>3. IsFiniteSet({"amplitude_v"} \cup {"period_s"} \cup {"pulse_width_s"} \cup {"rise_s"}
                      \cup {"fall_s"} \cup {"source_impedance_ohm"})
      BY <3>2, FS_AddElement
    <3>4. IsFiniteSet({"amplitude_v"} \cup {"period_s"} \cup {"pulse_width_s"} \cup {"rise_s"}
                      \cup {"fall_s"} \cup {"source_impedance_ohm"} \cup {"input_current_a"} \cup {"input_voltage_v"})
      BY <3>3, FS_AddElement
    <3>5. known = {"amplitude_v"} \cup {"period_s"} \cup {"pulse_width_s"} \cup {"rise_s"}
                      \cup {"fall_s"} \cup {"source_impedance_ohm"} \cup {"input_current_a"} \cup {"input_voltage_v"}
      OBVIOUS
    <3> QED BY <3>4, <3>5
  <2>2. Read(d) \subseteq known
    BY DEF Read, Needed, OfRole, Optional
  <2> QED BY <2>1, <2>2, FS_Subset
<1> HIDE DEF v
<1>4. PICK x \in Read(d) : \A y \in Read(d) : v[y] <= v[x]
  BY <1>2, <1>3, LargestOf
<1>5. sigma_db(d) = v[x]
  <2>1. sigma_db(d) = Max({v[n] : n \in Read(d)})
    BY DEF sigma_db, v
  <2> QED BY <1>2, <1>4, <2>1 DEF Max
<1>6. SOURCE_SIGMA_DB[d.values[name].source] <= sigma_db(d)
  BY <1>4, <1>5 DEF v
<1> QED BY <1>1, <1>6 DEF Doubtful

\* What a kind of driver in a role may be computed from.
Used(d) == Needed(d.kind) \cup OfRole(d.role) \cup Optional(d.kind)

\* Documents that differ in doubtful numbers only agree in those.
LEMMA UsedNumbersAgree ==
  ASSUME NEW d, NEW e, parse_driver(d), parse_driver(e), d.kind = e.kind, d.role = e.role,
         Differing(d, e) \subseteq Doubtful(d) \cup Doubtful(e), NEW name \in Used(d)
  PROVE  /\ name \in DOMAIN d.values <=> name \in DOMAIN e.values
         /\ name \in DOMAIN d.values => ValueOf(d, name) = ValueOf(e, name)
<1>1. name \notin Doubtful(d)
  <2>1. name \in DOMAIN d.values => name \in Read(d)
    BY DEF Read, Used
  <2>2. name \notin DOMAIN d.values => name \notin Doubtful(d)
    BY DEF Doubtful
  <2> QED BY <2>1, <2>2, NothingReadIsDoubtful
<1>2. name \notin Doubtful(e)
  <2>1. name \in DOMAIN e.values => name \in Read(e)
    BY DEF Read, Used
  <2>2. name \notin DOMAIN e.values => name \notin Doubtful(e)
    BY DEF Doubtful
  <2> QED BY <2>1, <2>2, NothingReadIsDoubtful
<1>3. name \notin Differing(d, e)
  BY <1>1, <1>2
<1> QED BY <1>3 DEF Differing

\* The part of a capture that is transformed, and the edge it goes on with, come
\* from its samples and from numbers that are used (resolve.py).
LEMMA CapturesAgree ==
  ASSUME NEW d, NEW e, d.samples = e.samples, d.interval = e.interval,
         ValueOf(d, "period_s") = ValueOf(e, "period_s"),
         "rise_s" \in DOMAIN d.values <=> "rise_s" \in DOMAIN e.values,
         "rise_s" \in DOMAIN d.values => ValueOf(d, "rise_s") = ValueOf(e, "rise_s")
  PROVE  period_taken(d) = period_taken(e) /\ Wave(d) = Wave(e) /\ envelope_trap(d) = envelope_trap(e)
<1>1. period_taken(d) = period_taken(e)
  BY DEF period_taken
<1>2. Wave(d) = Wave(e)
  BY <1>1 DEF Wave
<1>3. envelope_trap(d) = envelope_trap(e)
  <2> DEFINE declared(x) == {"rise_s"} \cap DOMAIN x.values
             amplitude == Max({c.v : c \in Range(Wave(d))}) - Min({c.v : c \in Range(Wave(d))})
             edges(x) == {Edge(amplitude, ValueOf(x, "period_s"), ValueOf(x, name)) : name \in declared(x)}
  <2>1. envelope_trap(d) = {edge \in edges(d) : edge.amplitude > 0 /\ validate(edge)}
    BY DEF envelope_trap
  <2>2. envelope_trap(e) = {edge \in edges(e) : edge.amplitude > 0 /\ validate(edge)}
    BY <1>2 DEF envelope_trap
  <2>3. edges(d) = edges(e)
    <3> HIDE DEF amplitude
    <3>1. declared(d) = declared(e) /\ \A name \in declared(d) : ValueOf(d, name) = ValueOf(e, name)
      OBVIOUS
    <3> HIDE DEF declared
    <3> QED BY <3>1
  <2> QED BY <2>1, <2>2, <2>3
<1> QED BY <1>1, <1>2, <1>3

\* What a driver gives at every frequency is settled by the numbers that are as
\* certain as it says it is, and no number that it takes is left out of that: not
\* one that only some drivers have, nor one that is read above a bandwidth only
\* (document.py, resolve.py, apply.py).
THEOREM DoubtfulNumbersAreWithoutEffect ==
  ASSUME NEW q
  PROVE  DoubtfulNumbersDoNothing(q)
<1> DEFINE d == q.driver
           e == q.other
<1> SUFFICES ASSUME parse_driver(d), parse_driver(e),
                    \A field \in {"kind", "role", "samples", "interval", "bandwidth", "points"} : d[field] = e[field],
                    Differing(d, e) \subseteq Doubtful(d) \cup Doubtful(e)
             PROVE  apply_driver(d, q.port, q.reference, q.freqs) = apply_driver(e, q.port, q.reference, q.freqs)
  BY DEF DoubtfulNumbersDoNothing
<1> HIDE DEF d, e
<1>1. /\ d.kind = e.kind /\ d.role = e.role /\ d.samples = e.samples
      /\ d.interval = e.interval /\ d.bandwidth = e.bandwidth /\ d.points = e.points
  OBVIOUS
<1>2. \A name \in Used(d) : /\ name \in DOMAIN d.values <=> name \in DOMAIN e.values
                            /\ name \in DOMAIN d.values => ValueOf(d, name) = ValueOf(e, name)
  BY <1>1, UsedNumbersAgree
<1>3. \A name \in Needed(d.kind) : ValueOf(d, name) = ValueOf(e, name)
  BY <1>2 DEF Used, parse_driver
<1>4. ValueOf(d, "source_impedance_ohm") = ValueOf(e, "source_impedance_ohm")
  BY <1>3 DEF Needed
<1>5. Unresolvable(d) = Unresolvable(e) /\ \A f : level(d, f) = level(e, f)
  <2>1. CASE d.kind = "trapezoid"
    <3>1. trapezoid(d) = trapezoid(e)
      BY <1>3, <2>1 DEF trapezoid, Needed
    <3>2. ValueOf(d, "period_s") = ValueOf(e, "period_s")
      BY <1>3, <2>1 DEF Needed
    <3>3. \A f : level(d, f) = lines_level(breakpoints(trapezoid(d)), ValueOf(d, "period_s"), f)
      BY <2>1 DEF level
    <3>4. \A f : level(e, f) = lines_level(breakpoints(trapezoid(e)), ValueOf(e, "period_s"), f)
      BY <1>1, <2>1 DEF level
    <3> QED BY <1>1, <2>1, <3>1, <3>2, <3>3, <3>4 DEF Unresolvable
  <2>2. CASE d.kind = "waveform"
    <3>1. ValueOf(d, "period_s") = ValueOf(e, "period_s")
      BY <1>3, <2>2 DEF Needed
    <3>2. /\ "rise_s" \in DOMAIN d.values <=> "rise_s" \in DOMAIN e.values
          /\ "rise_s" \in DOMAIN d.values => ValueOf(d, "rise_s") = ValueOf(e, "rise_s")
      BY <1>2, <2>2 DEF Used, Optional
    <3>3. period_taken(d) = period_taken(e) /\ Wave(d) = Wave(e) /\ envelope_trap(d) = envelope_trap(e)
      BY <1>1, <3>1, <3>2, CapturesAgree
    <3>4. \A f : waveform_level(d, f) = waveform_level(e, f)
      BY <1>1, <3>1, <3>3 DEF waveform_level
    <3> QED BY <1>1, <2>2, <3>3, <3>4 DEF level, Unresolvable
  <2>3. CASE d.kind # "trapezoid" /\ d.kind # "waveform"
    BY <1>1, <2>3 DEF level, Unresolvable
  <2> QED BY <2>1, <2>2, <2>3
<1> DEFINE driven(x) == {f \in q.freqs : level(x, f).height > 0}
           offset(x) == [f \in driven(x) \cap q.port.current |->
                           << q.reference, level(x, f), ValueOf(x, "source_impedance_ohm") >>]
           why(x, f) == CASE level(x, f) = Undriven -> "not driven"
                          [] level(x, f).height = 0 -> "null"
                          [] OTHER -> "no current"
           undriven(x) == [f \in q.freqs \ (driven(x) \cap q.port.current) |-> why(x, f)]
           fails(x) == q.freqs = {} \/ Unresolvable(x) \/ q.reference <= 0 \/ ~(driven(x) \subseteq q.port.recorded)
<1>6. \A x : apply_driver(x, q.port, q.reference, q.freqs)
               = IF fails(x) THEN Failed ELSE [failed |-> FALSE, offset |-> offset(x), undriven |-> undriven(x)]
  BY DEF apply_driver
<1>7. driven(d) = driven(e)
  BY <1>5
<1>8. \A f : why(d, f) = why(e, f)
  BY <1>5
<1> HIDE DEF driven, why
<1>9. offset(d) = offset(e)
  BY <1>4, <1>5, <1>7
<1>10. undriven(d) = undriven(e)
  BY <1>7, <1>8
<1>11. fails(d) = fails(e)
  BY <1>5, <1>7
<1> HIDE DEF offset, undriven, fails
<1> QED BY <1>6, <1>9, <1>10, <1>11

-----------------------------------------------------------------------------

\* Heights that are one of two have a largest.
LEMMA LargerOfTwo ==
  ASSUME NEW S, NEW x \in Nat, NEW y \in Nat, S \subseteq {x, y}, S # {}
  PROVE  Max(S) \in S /\ \A z \in S : z <= Max(S)
<1>1. \E m \in S : \A z \in S : m >= z
  <2>1. PICK a \in S : TRUE
    OBVIOUS
  <2>2. CASE S = {a}
    BY <2>2
  <2>3. CASE S # {a}
    <3>1. PICK b \in S : b # a
      BY <2>1, <2>3
    <3>2. (a = x /\ b = y) \/ (a = y /\ b = x)
      BY <2>1, <3>1
    <3> QED BY <2>1, <3>1, <3>2
  <2> QED BY <2>2, <2>3
<1>2. Max(S) \in S /\ \A z \in S : Max(S) >= z
  BY <1>1 DEF Max
<1> QED BY <1>2

\* The stride over an octave is odd, and shorter than an octave that has two lines.
LEMMA StrideIsOdd ==
  ASSUME NEW count \in Nat \ {0}
  PROVE  /\ join_stride(count) \in Nat /\ join_stride(count) % 2 = 1
         /\ count > 1 => join_stride(count) < count
<1> DEFINE k == (count + JOIN_HARMONICS - 1) \div JOIN_HARMONICS
<1>1. JOIN_HARMONICS \in Nat /\ JOIN_HARMONICS > 2
  BY DriversAssumption DEF DriversAssumption
<1>2. k \in Nat /\ k * JOIN_HARMONICS <= count + JOIN_HARMONICS - 1 /\ k >= 1
  <2> DEFINE n == count + JOIN_HARMONICS - 1
             r == n % JOIN_HARMONICS
  <2>1. n \in Nat /\ n >= JOIN_HARMONICS
    BY <1>1
  <2>2. k \in Nat /\ r \in Nat /\ r < JOIN_HARMONICS /\ n = JOIN_HARMONICS * k + r
    <3> HIDE DEF n
    <3>1. JOIN_HARMONICS \in Nat \ {0}
      BY <1>1
    <3> QED BY <2>1, <3>1, DivMod DEF k, n
  <2>3. k * JOIN_HARMONICS = JOIN_HARMONICS * k
    BY <1>1, <2>2
  <2> HIDE DEF k, r
  <2>4. k # 0
    BY <1>1, <2>1, <2>2
  <2> QED BY <1>1, <2>1, <2>2, <2>3, <2>4
<1> HIDE DEF k
<1>3. 3 * (k - 1) <= count - 1
  <2>1. (k - 1) * JOIN_HARMONICS = k * JOIN_HARMONICS - JOIN_HARMONICS
    BY <1>1, <1>2
  <2>2. (k - 1) * 3 <= (k - 1) * JOIN_HARMONICS
    BY <1>1, <1>2
  <2> QED BY <1>1, <1>2, <2>1, <2>2
<1>4. join_stride(count) = Odd(k)
  <2>1. Max({1, k}) = k
    BY <1>2 DEF Max
  <2> QED BY <2>1 DEF join_stride, k
<1> QED BY <1>2, <1>3, <1>4 DEF Odd

\* Above its bandwidth a capture goes on at the height it had below, whatever
\* number of harmonics is looked at, though every second harmonic may be a null
\* (resolve.py).
THEOREM CapturesGoOnAtTheirHeight ==
  ASSUME NEW q, Harmonic(q)
  PROVE  JoinHasNoStep(q)
<1> DEFINE d == q.driver
           period == ValueOf(d, "period_s")
           edge == envelope_trap(d)
           height(n) == piecewise_linear_series(Wave(d), period, edge, n)
           hi == LastHarmonic(d.bandwidth, period)
           lo == FirstOfOctave(hi)
           octave == lo .. hi
           step == join_stride(hi - lo + 1)
           taken == {n \in octave : (hi - n) % step = 0}
           seen == {height(n) : n \in taken}
           m == Max(seen)
<1> SUFFICES ASSUME NEW f \in q.freqs, d.bandwidth > 0, f > d.bandwidth, _harmonic_index(f, period) > 0,
                    hi >= 1, edge # {}
             PROVE  LET l == level(d, f)
                    IN  /\ l.edge = edge /\ l.height > 0
                        /\ (\E n \in octave : height(n) > 0) => \A n \in octave : height(n) <= l.height
                        /\ (\E n \in octave : height(n) > 0) => \E n \in octave : height(n) = l.height
  BY DEF JoinHasNoStep
<1>1. /\ d.kind = "waveform" /\ d.bandwidth \in Nat /\ period \in Nat /\ f \in Nat
      /\ \A n \in 1 .. hi : height(n) \in Nat /\ height(n) = height(IF n % 2 = 0 THEN 2 ELSE 1)
  BY DEF Harmonic
<1>2. hi \in Nat
  <2>1. d.bandwidth * period \in Nat /\ CYCLE \in Nat \ {0}
    BY <1>1, DriversAssumption DEF DriversAssumption
  <2> QED BY <2>1, DivMod DEF LastHarmonic
<1>3. _harmonic_index(f, period) \in Int
  <2>1. f * period \in Nat /\ CYCLE \in Nat \ {0}
    BY <1>1, DriversAssumption DEF DriversAssumption
  <2> QED BY <2>1, DivMod DEF _harmonic_index
<1>4. level(d, f) = Level(join_scale(Wave(d), period, d.bandwidth, edge), edge)
  <2>1. ~(d.bandwidth = 0 \/ f <= d.bandwidth \/ _harmonic_index(f, period) < 1)
    BY <1>1, <1>3
  <2>2. level(d, f) = waveform_level(d, f)
    BY <1>1 DEF level
  <2> QED BY <2>1, <2>2 DEF waveform_level
<1>5. join_scale(Wave(d), period, d.bandwidth, edge) = IF m = 0 THEN 1 ELSE m
  BY <1>2 DEF join_scale
<1> HIDE DEF hi
<1>6. lo \in Nat /\ 1 <= lo /\ lo <= hi
  <2>1. lo = IF (hi + 1) \div 2 <= 1 THEN 1 ELSE (hi + 1) \div 2
    BY <1>2 DEF FirstOfOctave, Max
  <2> QED BY <1>2, <2>1
<1> HIDE DEF lo
<1>7. step \in Nat /\ step % 2 = 1 /\ (lo < hi => hi - step >= lo)
  <2> DEFINE count == hi - lo + 1
  <2>1. count \in Nat \ {0}
    BY <1>2, <1>6
  <2>2. step = join_stride(count)
    OBVIOUS
  <2> HIDE DEF step
  <2>3. step \in Nat /\ step % 2 = 1 /\ (count > 1 => step < count)
    <3> HIDE DEF count
    <3> QED BY <2>1, <2>2, StrideIsOdd
  <2> QED BY <1>2, <1>6, <2>1, <2>3
<1> HIDE DEF step, height
<1>8. \A n \in octave : height(n) \in Nat /\ height(n) = height(IF n % 2 = 0 THEN 2 ELSE 1)
  BY <1>1, <1>2, <1>6
<1>9. \A n, k \in octave : n % 2 = k % 2 => height(n) = height(k)
  BY <1>8
<1>10. hi \in taken
  <2>1. 0 % step = 0
    BY <1>7
  <2> QED BY <1>2, <1>6, <2>1
<1>11. \A n \in octave : \E k \in taken : height(k) = height(n)
  <2> SUFFICES ASSUME NEW n \in octave PROVE \E k \in taken : height(k) = height(n)
    OBVIOUS
  <2>1. CASE n % 2 = hi % 2
    <3>1. height(hi) = height(n)
      BY <1>2, <1>6, <1>9, <2>1
    <3> QED BY <1>10, <3>1
  <2>2. CASE n % 2 # hi % 2
    <3>1. lo < hi
      BY <1>2, <1>6, <2>2
    <3>2. hi - step \in octave /\ hi - (hi - step) = step
      BY <1>2, <1>6, <1>7, <3>1
    <3>3. step % step = 0
      BY <1>7
    <3>4. hi - step \in taken
      BY <3>2, <3>3
    <3>5. (hi - step) % 2 = n % 2
      BY <1>2, <1>6, <1>7, <2>2
    <3>6. height(hi - step) = height(n)
      BY <1>9, <3>2, <3>5
    <3> QED BY <3>4, <3>6
  <2> QED BY <2>1, <2>2
<1>12. seen \subseteq {height(hi), height(IF lo < hi THEN hi - 1 ELSE hi)} /\ seen # {}
  <2> DEFINE other == IF lo < hi THEN hi - 1 ELSE hi
  <2>1. hi \in octave /\ other \in octave
    BY <1>2, <1>6
  <2>2. \A n \in octave : n % 2 = hi % 2 \/ n % 2 = other % 2
    BY <1>2, <1>6
  <2> HIDE DEF other, octave
  <2>3. \A n \in taken : height(n) \in {height(hi), height(other)}
    BY <1>9, <2>1, <2>2
  <2>4. height(hi) \in seen
    BY <1>10
  <2> HIDE DEF taken
  <2>5. seen \subseteq {height(hi), height(other)}
    BY <2>3
  <2> QED BY <2>4, <2>5 DEF other
<1>13. /\ m \in Nat
       /\ \A n \in octave : height(n) \in Nat /\ height(n) <= m
       /\ \E n \in octave : height(n) = m
  <2> DEFINE x == height(hi)
             y == height(IF lo < hi THEN hi - 1 ELSE hi)
  <2>1. x \in Nat /\ y \in Nat
    <3>1. hi \in octave /\ (IF lo < hi THEN hi - 1 ELSE hi) \in octave
      BY <1>2, <1>6
    <3> HIDE DEF octave
    <3> QED BY <1>8, <3>1
  <2>2. m \in seen /\ \A z \in seen : z <= m
    <3> HIDE DEF seen, x, y
    <3>1. seen \subseteq {x, y} /\ seen # {}
      BY <1>12 DEF x, y
    <3> QED BY <2>1, <3>1, LargerOfTwo
  <2> HIDE DEF m
  <2>3. \A n \in octave : height(n) \in seen
    <3> HIDE DEF taken, octave
    <3> QED BY <1>11
  <2>4. \E n \in octave : height(n) = m
    BY <2>2
  <2> HIDE DEF seen, octave
  <2> QED BY <1>8, <2>2, <2>3, <2>4
<1> DEFINE l == level(d, f)
<1>14. l.edge = edge /\ l.height = IF m = 0 THEN 1 ELSE m
  <2> HIDE DEF m, edge, d
  <2> QED BY <1>4, <1>5 DEF Level
<1> HIDE DEF m, octave, l, height
<1>15. /\ l.height > 0
       /\ (\E n \in octave : height(n) > 0) => \A n \in octave : height(n) <= l.height
       /\ (\E n \in octave : height(n) > 0) => \E n \in octave : height(n) = l.height
  BY <1>13, <1>14
<1> QED BY <1>14, <1>15, Zenon DEF l

\* What a frequency gets from a driver does not depend on what else is asked for
\* (apply.py): a solve fails for a frequency of its own or for none.
THEOREM FrequenciesAreIndependent ==
  ASSUME NEW q, q.freqs # {}
  PROVE  EachFrequencyByItself(q)
<1> DEFINE drives(F) == {f \in F : level(q.driver, f).height > 0}
           fails(F) == Unresolvable(q.driver) \/ q.reference <= 0 \/ ~(drives(F) \subseteq q.port.recorded)
           answer(F) == apply_driver(q.driver, q.port, q.reference, F)
           from(f) == << q.reference, level(q.driver, f), ValueOf(q.driver, "source_impedance_ohm") >>
           offset(F) == [f \in drives(F) \cap q.port.current |-> from(f)]
           why(f) == CASE level(q.driver, f) = Undriven -> "not driven"
                       [] level(q.driver, f).height = 0 -> "null"
                       [] OTHER -> "no current"
           undriven(F) == [f \in F \ (drives(F) \cap q.port.current) |-> why(f)]
           each == [f \in q.freqs |-> answer({f})]
           all == answer(q.freqs)
<1>1. \A F : F # {} => answer(F) = IF fails(F) THEN Failed
                               ELSE [failed |-> FALSE, offset |-> offset(F), undriven |-> undriven(F)]
  BY DEF apply_driver
<1>2. \A f \in q.freqs : drives({f}) = drives(q.freqs) \cap {f}
  OBVIOUS
<1>3. EachFrequencyByItself(q) <=>
        IF all.failed THEN \E f \in q.freqs : each[f].failed
        ELSE \A f \in q.freqs :
               /\ ~each[f].failed
               /\ IF f \in DOMAIN all.offset THEN f \in DOMAIN each[f].offset /\ each[f].offset[f] = all.offset[f]
                  ELSE f \in DOMAIN each[f].undriven /\ each[f].undriven[f] = all.undriven[f]
  BY DEF EachFrequencyByItself
<1> HIDE DEF drives, answer, why, from
<1>4. CASE fails(q.freqs)
  <2>1. PICK f \in q.freqs : fails({f})
    <3>1. CASE Unresolvable(q.driver) \/ q.reference <= 0
      BY <3>1
    <3>2. CASE ~(drives(q.freqs) \subseteq q.port.recorded)
      <4>1. PICK f \in drives(q.freqs) : f \notin q.port.recorded
        BY <3>2
      <4>2. f \in q.freqs
        BY DEF drives
      <4>3. f \in drives({f})
        BY <1>2, <4>1, <4>2
      <4> QED BY <4>1, <4>2, <4>3
    <3> QED BY <1>4, <3>1, <3>2
  <2>2. all = Failed /\ each[f] = Failed
    BY <1>1, <1>4, <2>1
  <2>3. all.failed = TRUE /\ each[f].failed = TRUE
    BY <2>2 DEF Failed
  <2> HIDE DEF all, each
  <2> QED BY <1>3, <2>3, Zenon
<1>5. CASE ~fails(q.freqs)
  <2>1. all = [failed |-> FALSE, offset |-> offset(q.freqs), undriven |-> undriven(q.freqs)]
    BY <1>1, <1>5
  <2>2. SUFFICES ASSUME NEW f \in q.freqs
                 PROVE  /\ ~each[f].failed
                        /\ IF f \in DOMAIN all.offset THEN f \in DOMAIN each[f].offset /\ each[f].offset[f] = all.offset[f]
                           ELSE f \in DOMAIN each[f].undriven /\ each[f].undriven[f] = all.undriven[f]
    <3>1. all.failed = FALSE
      BY <2>1
    <3> HIDE DEF all, each
    <3> QED BY <1>3, <3>1, Zenon
  <2>3. each[f] = [failed |-> FALSE, offset |-> offset({f}), undriven |-> undriven({f})]
    <3>1. ~fails({f})
      BY <1>2, <1>5
    <3> QED BY <1>1, <3>1
  <2> DEFINE driven(F) == drives(F) \cap q.port.current
  <2>6. f \in driven({f}) <=> f \in driven(q.freqs)
    BY <1>2
  <2> HIDE DEF driven
  <2>7. ~each[f].failed
    BY <2>3
  <2>4. CASE f \in driven(q.freqs)
    <3>1. f \in DOMAIN all.offset /\ all.offset[f] = from(f)
      BY <2>1, <2>4 DEF driven
    <3>2. f \in DOMAIN each[f].offset /\ each[f].offset[f] = from(f)
      BY <2>3, <2>4, <2>6 DEF driven
    <3> HIDE DEF all, each
    <3> QED BY <2>7, <3>1, <3>2
  <2>5. CASE f \notin driven(q.freqs)
    <3>1. f \notin DOMAIN all.offset
      BY <2>1, <2>5 DEF driven
    <3>2. all.undriven[f] = why(f)
      BY <2>1, <2>5 DEF driven
    <3>3. f \in DOMAIN each[f].undriven /\ each[f].undriven[f] = why(f)
      BY <2>3, <2>5, <2>6 DEF driven
    <3> HIDE DEF all, each
    <3> QED BY <2>7, <3>1, <3>2, <3>3
  <2> QED BY <2>4, <2>5
<1> QED BY <1>4, <1>5

-----------------------------------------------------------------------------

\* The larger and the smaller of two numbers.
LEMMA PairBounds ==
  ASSUME NEW a \in Int, NEW b \in Int
  PROVE  /\ Max({a, b}) \in Int /\ a <= Max({a, b}) /\ b <= Max({a, b})
         /\ Min({a, b}) \in Int /\ Min({a, b}) <= a /\ Min({a, b}) <= b
  BY DEF Max, Min

\* Between two pads along one axis, and beside each other along the other.
LEMMA PlacedBetween ==
  ASSUME NEW axis, NEW layer, NEW region, NEW r \in Spans2, NEW s \in Spans2, NEW v \in Spans2, NEW w \in Spans2,
         NEW e \in Placeable(axis, layer, Gap(r, s), Overlap(v, w), region)
  PROVE  /\ e = [axis |-> axis, layer |-> layer, along |-> Gap(r, s), across |-> Overlap(v, w)]
         /\ e.along[1] \in {r[2], s[2]} /\ e.along[2] \in {r[1], s[1]}
         /\ e.along[1] < e.along[2] /\ e.across[1] < e.across[2]
         /\ \A p \in {r, s} : p[2] <= e.along[1] \/ e.along[2] <= p[1]
         /\ Holds(v, e.across) /\ Holds(w, e.across)
         /\ Holds(region.x, IF axis = "x" THEN e.along ELSE e.across)
         /\ Holds(region.y, IF axis = "x" THEN e.across ELSE e.along)
<1> DEFINE along == Gap(r, s)
           across == Overlap(v, w)
<1>1. /\ e = [axis |-> axis, layer |-> layer, along |-> along, across |-> across]
      /\ ~(along[2] - along[1] < MIN_GAP) /\ ~(across[2] <= across[1])
      /\ Holds(region.x, IF axis = "x" THEN along ELSE across)
      /\ Holds(region.y, IF axis = "x" THEN across ELSE along)
  BY DEF Placeable
<1>2. /\ along = << r[2], s[1] >> \/ along = << s[2], r[1] >>
      /\ {r[1], r[2], s[1], s[2], v[1], v[2], w[1], w[2]} \subseteq Int
  <2>1. along = << r[2], s[1] >> \/ along = << s[2], r[1] >>
    BY DEF Gap
  <2>2. \A z \in Spans2 : z[1] \in Int /\ z[2] \in Int
    BY DEF Spans2
  <2> QED BY <2>1, <2>2
<1>3. /\ across[1] \in Int /\ v[1] <= across[1] /\ w[1] <= across[1]
      /\ across[2] \in Int /\ across[2] <= v[2] /\ across[2] <= w[2]
  BY <1>2, PairBounds DEF Overlap
<1>4. MIN_GAP \in Nat /\ MIN_GAP > 0
  BY ComponentsAssumption DEF ComponentsAssumption
<1>5. Holds(v, across) /\ Holds(w, across)
  BY <1>3 DEF Holds
<1> HIDE DEF along, across
<1>6. along[1] \in Int /\ along[2] \in Int /\ along[1] < along[2]
  BY <1>1, <1>2, <1>4
<1>7. across[1] < across[2]
  BY <1>1, <1>3
<1>8. /\ along[1] \in {r[2], s[2]} /\ along[2] \in {r[1], s[1]}
      /\ \A p \in {r, s} : p[2] <= along[1] \/ along[2] <= p[1]
  BY <1>2
<1>9. e.along = along /\ e.across = across
  BY <1>1
<1> QED BY <1>1, <1>5, <1>6, <1>7, <1>8, <1>9 DEF along, across

\* An element that is placed joins its part's two pads, touches each along its
\* whole edge and lies inside the region (place.py, model.py).
THEOREM PlacedElementsJoinTheirPads ==
  ASSUME NEW q, q.pads \in Seq(PadShapes)
  PROVE  ElementsJoinTheirPads(q)
<1> SUFFICES ASSUME NEW e \in _plan_components(q)
             PROVE  LET a == q.pads[1]
                        b == q.pads[2]
                        near(p) == IF e.axis = "x" THEN p.x ELSE p.y
                        beside(p) == IF e.axis = "x" THEN p.y ELSE p.x
                    IN  /\ {near(a)[2], near(b)[2]} \cap {e.along[1]} # {} /\ {near(a)[1], near(b)[1]} \cap {e.along[2]} # {}
                        /\ e.along[1] < e.along[2] /\ e.across[1] < e.across[2]
                        /\ \A p \in {a, b} : /\ Holds(beside(p), e.across) /\ e.layer = p.layers[1]
                                             /\ near(p)[2] <= e.along[1] \/ e.along[2] <= near(p)[1]
                        /\ Holds(q.region.x, IF e.axis = "x" THEN e.along ELSE e.across)
                        /\ Holds(q.region.y, IF e.axis = "x" THEN e.across ELSE e.along)
  BY DEF ElementsJoinTheirPads
<1> DEFINE a == q.pads[1]
           b == q.pads[2]
<1>1. Len(q.pads) = 2 /\ e \in plan_placement(q.pads, q.region)
  BY DEF _plan_components, plan_placement
<1>2. a \in PadShapes /\ b \in PadShapes
  BY <1>1
<1>3. a.x \in Spans2 /\ a.y \in Spans2 /\ b.x \in Spans2 /\ b.y \in Spans2
  BY <1>2 DEF PadShapes
<1>4. /\ a.layers[1] = b.layers[1]
      /\ \/ e \in Placeable("x", a.layers[1], Gap(a.x, b.x), Overlap(a.y, b.y), q.region)
         \/ e \in Placeable("y", a.layers[1], Gap(a.y, b.y), Overlap(a.x, b.x), q.region)
  BY <1>1 DEF plan_placement
<1> HIDE DEF a, b
<1>5. CASE e \in Placeable("x", a.layers[1], Gap(a.x, b.x), Overlap(a.y, b.y), q.region)
  <2>1. /\ e.axis = "x" /\ e.layer = a.layers[1]
        /\ e.along[1] \in {a.x[2], b.x[2]} /\ e.along[2] \in {a.x[1], b.x[1]}
        /\ e.along[1] < e.along[2] /\ e.across[1] < e.across[2]
        /\ \A p \in {a.x, b.x} : p[2] <= e.along[1] \/ e.along[2] <= p[1]
        /\ Holds(a.y, e.across) /\ Holds(b.y, e.across)
    BY <1>3, <1>5, PlacedBetween
  <2>2. /\ Holds(q.region.x, IF e.axis = "x" THEN e.along ELSE e.across)
        /\ Holds(q.region.y, IF e.axis = "x" THEN e.across ELSE e.along)
    <3>1. e.axis = "x"
      BY <2>1
    <3> QED BY <1>3, <1>5, <3>1, PlacedBetween
  <2> QED BY <1>4, <2>1, <2>2, Zenon DEF a, b
<1>6. CASE e \in Placeable("y", a.layers[1], Gap(a.y, b.y), Overlap(a.x, b.x), q.region)
  <2>1. /\ e.axis = "y" /\ e.layer = a.layers[1]
        /\ e.along[1] \in {a.y[2], b.y[2]} /\ e.along[2] \in {a.y[1], b.y[1]}
        /\ e.along[1] < e.along[2] /\ e.across[1] < e.across[2]
        /\ \A p \in {a.y, b.y} : p[2] <= e.along[1] \/ e.along[2] <= p[1]
        /\ Holds(a.x, e.across) /\ Holds(b.x, e.across)
    BY <1>3, <1>6, PlacedBetween
  <2>2. /\ Holds(q.region.x, IF e.axis = "x" THEN e.along ELSE e.across)
        /\ Holds(q.region.y, IF e.axis = "x" THEN e.across ELSE e.along)
    <3>1. e.axis = "y"
      BY <2>1
    <3> QED BY <1>3, <1>6, <3>1, PlacedBetween
  <2> QED BY <1>4, <2>1, <2>2, Zenon DEF a, b
<1> QED BY <1>4, <1>5, <1>6

-------------------------------------------------------------------------------
(* Which document answers for a part.                                        *)

\* A set of indices has a least one.
LEMMA LeastIndex ==
  ASSUME NEW n \in Nat, NEW S \in SUBSET (0 .. n), S # {}
  PROVE  Min(S) \in S /\ \A i \in S : Min(S) <= i
<1> DEFINE v == [i \in 0 .. n |-> i]
<1>1. IsFiniteSet(S) /\ \A i \in S : v[i] \in Int
  <2>1. IsFiniteSet(0 .. n)
    BY FS_Interval
  <2>2. IsFiniteSet(S)
    BY <2>1, FS_Subset
  <2> QED BY <2>2
<1>2. \E i \in S : \A j \in S : v[i] <= v[j]
  <2> HIDE DEF v
  <2> QED BY <1>1, LeastOf
<1>3. PICK i \in S : \A j \in S : i <= j
  BY <1>2
<1> QED BY <1>3 DEF Min

\* What InOrder's function does with the library's first documents.
Picks(f, keep, n) ==
  f = [m \in 0 .. n |->
         IF m = 0 THEN << >> ELSE IF Library[m] \in keep THEN Append(f[m - 1], Library[m]) ELSE f[m - 1]]

LEMMA PicksExist ==
  ASSUME NEW keep, NEW n \in Nat
  PROVE  \E f : Picks(f, keep, n)
<1> DEFINE Bad == {m \in 0 .. n : ~\E f : Picks(f, keep, m)}
<1>1. SUFFICES ASSUME Bad # {} PROVE FALSE
  OBVIOUS
<1>2. PICK m \in Bad : \A i \in Bad : m <= i
  <2>1. Bad \in SUBSET (0 .. n)
    OBVIOUS
  <2> HIDE DEF Bad
  <2> QED BY <1>1, <2>1, LeastIndex
<1>3. m # 0
  <2>1. Picks([i \in 0 .. 0 |-> << >>], keep, 0)
    BY DEF Picks
  <2> QED BY <1>2, <2>1
<1>4. m - 1 \in 0 .. n /\ m - 1 \notin Bad
  BY <1>2, <1>3
<1>5. PICK g : Picks(g, keep, m - 1)
  BY <1>4
<1> DEFINE last == IF Library[m] \in keep THEN Append(g[m - 1], Library[m]) ELSE g[m - 1]
           f == [i \in 0 .. m |-> IF i = m THEN last ELSE g[i]]
<1>6. \A i \in 0 .. m - 1 :
        g[i] = IF i = 0 THEN << >> ELSE IF Library[i] \in keep THEN Append(g[i - 1], Library[i]) ELSE g[i - 1]
  BY <1>3, <1>5 DEF Picks
<1>7. \A i \in 0 .. m :
        f[i] = IF i = 0 THEN << >> ELSE IF Library[i] \in keep THEN Append(f[i - 1], Library[i]) ELSE f[i - 1]
  <2> SUFFICES ASSUME NEW i \in 0 .. m
               PROVE  f[i] = IF i = 0 THEN << >>
                             ELSE IF Library[i] \in keep THEN Append(f[i - 1], Library[i]) ELSE f[i - 1]
    OBVIOUS
  <2>1. CASE i = m
    <3>1. f[i] = last /\ f[i - 1] = g[m - 1]
      BY <1>3, <2>1
    <3> QED BY <1>3, <2>1, <3>1
  <2>2. CASE i # m
    <3>1. i \in 0 .. m - 1 /\ f[i] = g[i]
      BY <2>2
    <3>2. i # 0 => f[i - 1] = g[i - 1]
      BY <2>2
    <3> HIDE DEF f
    <3> QED BY <1>6, <3>1, <3>2
  <2> QED BY <2>1, <2>2
<1>8. Picks(f, keep, m)
  <2>1. f = [i \in 0 .. m |-> f[i]]
    OBVIOUS
  <2> HIDE DEF f
  <2> QED BY <1>7, <2>1 DEF Picks
<1> QED BY <1>2, <1>8

\* The library's documents that are kept are documents of the library.
LEMMA InOrderIsOfTheLibrary ==
  ASSUME NEW keep
  PROVE  InOrder(keep) \in Seq(Range(Library))
<1> DEFINE n == Len(Library)
           f == CHOOSE g : g = [m \in 0 .. n |->
                  IF m = 0 THEN << >> ELSE IF Library[m] \in keep THEN Append(g[m - 1], Library[m]) ELSE g[m - 1]]
<1>1. n \in Nat /\ \A m \in 1 .. n : Library[m] \in Range(Library)
  BY LibraryAssumption DEF LibraryAssumption, Range
<1>2. InOrder(keep) = f[n]
  BY DEF InOrder
<1>3. Picks(f, keep, n)
  <2>1. \E g : Picks(g, keep, n)
    BY <1>1, PicksExist
  <2> QED BY <2>1 DEF Picks
<1> HIDE DEF f
<1> DEFINE Bad == {m \in 0 .. n : f[m] \notin Seq(Range(Library))}
<1>4. Bad = {}
  <2> SUFFICES ASSUME Bad # {} PROVE FALSE
    OBVIOUS
  <2>1. PICK m \in Bad : \A i \in Bad : m <= i
    <3>1. Bad \in SUBSET (0 .. n)
      OBVIOUS
    <3> HIDE DEF Bad
    <3> QED BY <1>1, <3>1, LeastIndex
  <2>2. f[m] = IF m = 0 THEN << >> ELSE IF Library[m] \in keep THEN Append(f[m - 1], Library[m]) ELSE f[m - 1]
    BY <1>3, <2>1 DEF Picks
  <2> DEFINE all == Range(Library)
  <2>3. m # 0 /\ f[m] \notin Seq(all)
    <3>1. << >> \in Seq(all)
      BY EmptySeq
    <3> QED BY <2>1, <2>2, <3>1
  <2>4. m - 1 \in 0 .. n /\ f[m - 1] \in Seq(Range(Library)) /\ Library[m] \in Range(Library)
    BY <1>1, <2>1, <2>3
  <2>5. f[m] = IF Library[m] \in keep THEN Append(f[m - 1], Library[m]) ELSE f[m - 1]
    BY <2>2, <2>3
  <2>6. Append(f[m - 1], Library[m]) \in Seq(all)
    BY <2>4, AppendProperties
  <2> QED BY <2>3, <2>4, <2>5, <2>6
<1> QED BY <1>1, <1>2, <1>4

\* The library that is searched: documents of the library, in some order.
LEMMA BuiltInIsTheLibrary ==
  /\ built_in \in Seq(Range(Library)) /\ built_in \in Seq(ComponentDocuments)
  /\ \A i \in 1 .. Len(built_in) : parse(built_in[i])
<1> DEFINE v == InOrder(Vendor)
           r == InOrder(Range(Library) \ (Vendor \cup Families))
           f == InOrder(Families)
<1>1. v \in Seq(Range(Library)) /\ r \in Seq(Range(Library)) /\ f \in Seq(Range(Library))
  BY InOrderIsOfTheLibrary
<1>2. built_in = v \o r \o f
  BY DEF built_in
<1> HIDE DEF v, r, f
<1>3. built_in \in Seq(Range(Library))
  BY <1>1, <1>2, ConcatProperties
<1>4. Range(Library) \subseteq ComponentDocuments /\ \A d \in Range(Library) : parse(d)
  BY LibraryAssumption DEF LibraryAssumption, Range
<1>5. built_in \in Seq(ComponentDocuments)
  BY <1>3, <1>4, SeqMonotonic
<1>6. \A i \in 1 .. Len(built_in) : built_in[i] \in Range(Library)
  BY <1>3, ElementOfSeq
<1> QED BY <1>3, <1>4, <1>5, <1>6

\* The first of a list that is one of K.
First(list, K) == list[Min({i \in DOMAIN list : list[i] \in K})]
IsFirst(list, K, i) == i \in 1 .. Len(list) /\ list[i] \in K /\ \A j \in 1 .. i - 1 : list[j] \notin K
NoneOf(list, K) == \A i \in 1 .. Len(list) : list[i] \notin K

LEMMA FirstOf ==
  ASSUME NEW D, NEW list \in Seq(D), NEW K, ~NoneOf(list, K)
  PROVE  \E i : IsFirst(list, K, i) /\ First(list, K) = list[i]
<1> DEFINE S == {i \in DOMAIN list : list[i] \in K}
           n == Len(list)
<1>1. n \in Nat /\ DOMAIN list = 1 .. n
  BY LenProperties
<1>2. S \in SUBSET (0 .. n) /\ S # {}
  BY <1>1 DEF NoneOf
<1> HIDE DEF n
<1>3. Min(S) \in S /\ \A i \in S : Min(S) <= i
  <2> HIDE DEF S
  <2> QED BY <1>1, <1>2, LeastIndex
<1> DEFINE k == Min(S)
<1>4. k \in 1 .. n /\ list[k] \in K /\ First(list, K) = list[k]
  BY <1>1, <1>3 DEF First
<1>5. \A j \in 1 .. n : list[j] \in K => k <= j
  BY <1>1, <1>3
<1> HIDE DEF k
<1>6. \A j \in 1 .. k - 1 : list[j] \notin K
  BY <1>1, <1>4, <1>5
<1> QED BY <1>4, <1>6 DEF IsFirst, n

LEMMA FirstIsOnly ==
  ASSUME NEW D, NEW list \in Seq(D), NEW K, NEW i, IsFirst(list, K, i)
  PROVE  First(list, K) = list[i] /\ ~NoneOf(list, K)
<1>1. ~NoneOf(list, K)
  BY DEF NoneOf, IsFirst
<1>2. PICK j : IsFirst(list, K, j) /\ First(list, K) = list[j]
  BY <1>1, FirstOf
<1>3. Len(list) \in Nat
  OBVIOUS
<1>4. i = j
  BY <1>2, <1>3 DEF IsFirst
<1> QED BY <1>1, <1>2, <1>4

\* A list without its k-th, and what comes after it.
LEMMA Without ==
  ASSUME NEW D, NEW c \in Seq(D), NEW t \in Seq(D), NEW k \in 1 .. Len(c)
  PROVE  /\ RemoveAt(c, k) \in Seq(D)
         /\ RemoveAt(c, k) \o t \in Seq(D)
         /\ Len(c \o t) \in Nat /\ k \in 1 .. Len(c \o t)
         /\ Len(RemoveAt(c, k) \o t) = Len(c \o t) - 1
         /\ \A i \in 1 .. Len(c \o t) - 1 : (RemoveAt(c, k) \o t)[i] = (c \o t)[IF i < k THEN i ELSE i + 1]
<1> DEFINE n == Len(c)
           a == SubSeq(c, 1, k - 1)
           b == SubSeq(c, k + 1, n)
           r == RemoveAt(c, k)
<1>1. n \in Nat /\ k \in 1 .. n /\ Len(t) \in Nat /\ \A i \in 1 .. n : c[i] \in D
  BY LenProperties, ElementOfSeq
<1>2. r = a \o b
  BY DEF RemoveAt
<1> HIDE DEF n
<1>3. /\ a \in Seq(D) /\ Len(a) = k - 1
      /\ \A i \in 1 .. k - 1 : a[i] = c[i]
  <2>1. k - 1 \in Int /\ \A i \in 1 .. k - 1 : c[i] \in D
    BY <1>1
  <2>2. /\ SubSeq(c, 1, k - 1) \in Seq(D)
        /\ Len(SubSeq(c, 1, k - 1)) = IF 1 <= k - 1 THEN k - 1 - 1 + 1 ELSE 0
        /\ \A i \in 1 .. k - 1 - 1 + 1 : SubSeq(c, 1, k - 1)[i] = c[1 + i - 1]
    BY <2>1, SubSeqProperties
  <2> QED BY <1>1, <2>2
<1>4. /\ b \in Seq(D) /\ Len(b) = n - k
      /\ \A i \in 1 .. n - k : b[i] = c[k + i]
  <2>1. k + 1 \in Int /\ n \in Int /\ \A i \in k + 1 .. n : c[i] \in D
    BY <1>1
  <2>2. /\ SubSeq(c, k + 1, n) \in Seq(D)
        /\ Len(SubSeq(c, k + 1, n)) = IF k + 1 <= n THEN n - (k + 1) + 1 ELSE 0
        /\ \A i \in 1 .. n - (k + 1) + 1 : SubSeq(c, k + 1, n)[i] = c[k + 1 + i - 1]
    BY <2>1, SubSeqProperties
  <2>3. (IF k + 1 <= n THEN n - (k + 1) + 1 ELSE 0) = n - k /\ n - (k + 1) + 1 = n - k
        /\ \A i \in 1 .. n - k : k + 1 + i - 1 = k + i
    BY <1>1
  <2> HIDE DEF n
  <2> QED BY <2>2, <2>3
<1> HIDE DEF a, b
<1>5. /\ r \in Seq(D) /\ Len(r) = n - 1
      /\ \A i \in 1 .. n - 1 : r[i] = IF i < k THEN c[i] ELSE c[i + 1]
  <2>1. /\ a \o b \in Seq(D) /\ Len(a \o b) = Len(a) + Len(b)
        /\ \A i \in 1 .. Len(a) + Len(b) : (a \o b)[i] = IF i <= Len(a) THEN a[i] ELSE b[i - Len(a)]
    BY <1>3, <1>4, ConcatProperties
  <2>2. Len(a) + Len(b) = n - 1
    BY <1>1, <1>3, <1>4
  <2>3. ASSUME NEW i \in 1 .. n - 1 PROVE r[i] = IF i < k THEN c[i] ELSE c[i + 1]
    <3>1. r[i] = IF i <= k - 1 THEN a[i] ELSE b[i - (k - 1)]
      BY <1>2, <1>3, <2>1, <2>2
    <3>2. CASE i < k
      BY <1>1, <1>3, <3>1, <3>2
    <3>3. CASE ~(i < k)
      <4>1. r[i] = b[i - (k - 1)] /\ i - (k - 1) \in 1 .. n - k /\ k + (i - (k - 1)) = i + 1
        BY <1>1, <3>1, <3>3
      <4> QED BY <1>4, <3>3, <4>1
    <3> QED BY <3>2, <3>3
  <2> QED BY <1>2, <2>1, <2>2, <2>3
<1> HIDE DEF r
<1>6. /\ r \o t \in Seq(D) /\ Len(r \o t) = Len(r) + Len(t)
      /\ \A i \in 1 .. Len(r) + Len(t) : (r \o t)[i] = IF i <= Len(r) THEN r[i] ELSE t[i - Len(r)]
  BY <1>5, ConcatProperties
<1>7. /\ Len(c \o t) = n + Len(t)
      /\ \A i \in 1 .. n + Len(t) : (c \o t)[i] = IF i <= n THEN c[i] ELSE t[i - n]
  BY ConcatProperties DEF n
<1>8. ASSUME NEW i \in 1 .. Len(c \o t) - 1 PROVE (r \o t)[i] = (c \o t)[IF i < k THEN i ELSE i + 1]
  <2>1. CASE i <= n - 1
    <3>1. (r \o t)[i] = IF i < k THEN c[i] ELSE c[i + 1]
      BY <1>1, <1>5, <1>6, <1>7, <1>8, <2>1
    <3>2. (c \o t)[i] = c[i] /\ (c \o t)[i + 1] = c[i + 1]
      BY <1>1, <1>7, <2>1
    <3> QED BY <3>1, <3>2
  <2>2. CASE ~(i <= n - 1)
    <3>1. (r \o t)[i] = t[i - (n - 1)]
      BY <1>1, <1>5, <1>6, <1>7, <2>2
    <3>2. ~(i < k) /\ (c \o t)[i + 1] = t[i + 1 - n] /\ i + 1 - n = i - (n - 1)
      BY <1>1, <1>7, <2>2
    <3> QED BY <3>1, <3>2
  <2> QED BY <2>1, <2>2
<1>9. Len(r \o t) = Len(c \o t) - 1 /\ Len(c \o t) \in Nat /\ k \in 1 .. Len(c \o t)
  BY <1>1, <1>5, <1>6, <1>7
<1> QED BY <1>5, <1>6, <1>8, <1>9 DEF r

\* One that is not the first may go.
LEMMA FirstWithoutAnother ==
  ASSUME NEW D, NEW c \in Seq(D), NEW t \in Seq(D), NEW k \in 1 .. Len(c), NEW K
  PROVE  /\ NoneOf(c \o t, K) => NoneOf(RemoveAt(c, k) \o t, K)
         /\ ~NoneOf(c \o t, K) /\ First(c \o t, K) # c[k] =>
              ~NoneOf(RemoveAt(c, k) \o t, K) /\ First(RemoveAt(c, k) \o t, K) = First(c \o t, K)
<1> DEFINE s == c \o t
           w == RemoveAt(c, k) \o t
           n == Len(s)
<1>1. /\ w \in Seq(D) /\ s \in Seq(D) /\ Len(w) = n - 1 /\ n \in Nat /\ k \in 1 .. n /\ s[k] = c[k]
      /\ \A i \in 1 .. n - 1 : w[i] = s[IF i < k THEN i ELSE i + 1]
  <2>1. /\ w \in Seq(D) /\ Len(w) = n - 1 /\ n \in Nat /\ k \in 1 .. n
        /\ \A i \in 1 .. n - 1 : w[i] = s[IF i < k THEN i ELSE i + 1]
    BY Without
  <2>2. s \in Seq(D) /\ s[k] = c[k]
    <3>1. Len(c) \in Nat /\ Len(t) \in Nat
      BY LenProperties
    <3>2. s \in Seq(D) /\ \A i \in 1 .. Len(c) + Len(t) : s[i] = IF i <= Len(c) THEN c[i] ELSE t[i - Len(c)]
      BY ConcatProperties
    <3> HIDE DEF s
    <3> QED BY <3>1, <3>2
  <2> QED BY <2>1, <2>2
<1> HIDE DEF s, w
<1>2. ASSUME NoneOf(s, K) PROVE NoneOf(w, K)
  <2> SUFFICES ASSUME NEW i \in 1 .. n - 1 PROVE w[i] \notin K
    BY <1>1 DEF NoneOf
  <2> DEFINE j == IF i < k THEN i ELSE i + 1
  <2>1. w[i] = s[j] /\ j \in 1 .. n
    BY <1>1
  <2> HIDE DEF j
  <2> QED BY <1>2, <2>1 DEF NoneOf
<1>3. ASSUME ~NoneOf(s, K), First(s, K) # s[k] PROVE ~NoneOf(w, K) /\ First(w, K) = First(s, K)
  <2>1. PICK i : IsFirst(s, K, i) /\ First(s, K) = s[i]
    BY <1>1, <1>3, FirstOf
  <2>2. i # k /\ i \in 1 .. n
    BY <1>3, <2>1 DEF IsFirst
  <2> DEFINE j == IF i < k THEN i ELSE i - 1
  <2>3. j \in 1 .. n - 1 /\ w[j] = s[i]
    <3>1. CASE i < k
      <4>1. j = i /\ j \in 1 .. n - 1
        BY <1>1, <2>2, <3>1
      <4> HIDE DEF j
      <4> QED BY <1>1, <3>1, <4>1
    <3>2. CASE ~(i < k)
      <4>1. j = i - 1 /\ j \in 1 .. n - 1 /\ ~(j < k) /\ j + 1 = i
        BY <1>1, <2>2, <3>2
      <4> HIDE DEF j
      <4> QED BY <1>1, <4>1
    <3> QED BY <3>1, <3>2
  <2>4. \A l \in 1 .. j - 1 : w[l] \notin K
    <3> SUFFICES ASSUME NEW l \in 1 .. j - 1 PROVE w[l] \notin K
      OBVIOUS
    <3> DEFINE h == IF l < k THEN l ELSE l + 1
    <3>1. i \in Int /\ k \in Int /\ n \in Int /\ l \in Int /\ 1 <= l /\ l <= j - 1 /\ i <= n
      BY <1>1, <2>2, <2>3
    <3>2. l \in 1 .. n - 1 /\ h \in 1 .. i - 1
      BY <2>2, <3>1
    <3>3. w[l] = s[h]
      BY <1>1, <3>2
    <3> QED BY <2>1, <3>2, <3>3 DEF IsFirst
  <2>5. IsFirst(w, K, j)
    <3> HIDE DEF j
    <3> QED BY <1>1, <2>1, <2>3, <2>4 DEF IsFirst
  <2> HIDE DEF j
  <2>6. First(w, K) = w[j] /\ ~NoneOf(w, K)
    BY <1>1, <2>5, FirstIsOnly
  <2> QED BY <2>1, <2>3, <2>6
<1> QED BY <1>1, <1>2, <1>3 DEF s, w

\* The documents that go by a part number of the part's, and by its value.
ByNumbers(m) == {d \in ComponentDocuments : Numbered(d, m)}
ByValues(m) == {d \in ComponentDocuments : Valued(d, m)}

LEMMA Resolving ==
  ASSUME NEW m, NEW c, c \o built_in \in Seq(ComponentDocuments)
  PROVE  resolve_part(m, c) =
           IF ~NoneOf(c \o built_in, ByNumbers(m)) THEN ByNumber(First(c \o built_in, ByNumbers(m)), m)
           ELSE IF ~NoneOf(c \o built_in, ByValues(m)) THEN ByValue(First(c \o built_in, ByValues(m)), m) ELSE Bare
<1> DEFINE list == c \o built_in
<1>1. DOMAIN list = 1 .. Len(list) /\ \A i \in DOMAIN list : list[i] \in ComponentDocuments
  BY LenProperties, ElementOfSeq
<1> HIDE DEF list
<1>2. /\ {i \in DOMAIN list : Numbered(list[i], m)} = {i \in DOMAIN list : list[i] \in ByNumbers(m)}
      /\ {i \in DOMAIN list : Valued(list[i], m)} = {i \in DOMAIN list : list[i] \in ByValues(m)}
  BY <1>1 DEF ByNumbers, ByValues
<1>3. /\ {i \in DOMAIN list : list[i] \in ByNumbers(m)} # {} <=> ~NoneOf(list, ByNumbers(m))
      /\ {i \in DOMAIN list : list[i] \in ByValues(m)} # {} <=> ~NoneOf(list, ByValues(m))
  BY <1>1 DEF NoneOf
<1> QED BY <1>2, <1>3, Zenon DEF resolve_part, First, list

\* The one number a document answers with.
LEMMA TheOnly ==
  ASSUME NEW d \in ComponentDocuments, NEW farads, NEW package, resolve_for(d, farads, package) # {}
  PROVE  LET got == Only(resolve_for(d, farads, package))
         IN  got.esl = (d.type = "mlcc_family" \/ d.esl) /\ got.esr = d.esr
<1>1. d.type \in {"series_rlc", "mlcc_family"} /\ d.esl \in BOOLEAN /\ d.esr \in BOOLEAN
  BY DEF ComponentDocuments
<1> DEFINE got == Only(resolve_for(d, farads, package))
<1>2. got \in resolve_for(d, farads, package)
  BY DEF Only
<1> HIDE DEF got
<1>3. CASE d.type = "series_rlc"
  <2>1. got = [c |-> d.c, esl |-> d.esl, esr |-> d.esr]
    BY <1>2, <1>3 DEF resolve_for
  <2>2. got.esl = d.esl /\ got.esr = d.esr /\ d.type # "mlcc_family"
    BY <1>3, <2>1
  <2> QED BY <1>1, <2>2 DEF got
<1>4. CASE d.type = "mlcc_family"
  <2>1. got = [c |-> farads, esl |-> TRUE, esr |-> d.esr]
    BY <1>2, <1>4 DEF resolve_for
  <2>2. got.esl = TRUE /\ got.esr = d.esr
    BY <2>1
  <2> QED BY <1>1, <1>4, <2>2 DEF got
<1> QED BY <1>1, <1>3, <1>4

\* What is taken is what names the part, or describes it and stands for no
\* other.
LEMMA TakenIsRight ==
  ASSUME NEW d \in ComponentDocuments, NEW m
  PROVE  /\ d \in ByNumbers(m) <=> Names(d, m)
         /\ d \in ByValues(m) <=> Describes(d, m) /\ Anonymous(d)
         /\ d \in ByNumbers(m) => _rlc_for(d, m) = resolve_for(d, m.farads, m.package)
<1>1. d.type = "series_rlc" \/ d.type = "mlcc_family"
  BY DEF ComponentDocuments
<1>2. CASE d.type = "series_rlc"
  <2>1. resolve_for(d, m.farads, m.package) # {} /\ _rlc_for(d, m) = resolve_for(d, m.farads, m.package)
    BY <1>2 DEF resolve_for, _rlc_for
  <2>2. d.type # "mlcc_family"
    BY <1>2
  <2> QED BY <1>2, <2>1, <2>2 DEF ByNumbers, ByValues, Numbered, Valued, Names, Describes, Anonymous, _matches
<1>3. CASE d.type = "mlcc_family"
  <2>1. /\ resolve_for(d, m.farads, m.package) # {} <=> m.package \in d.esl_of
        /\ _rlc_for(d, m) = IF modellable(m) THEN resolve_for(d, m.farads, m.package) ELSE {}
    BY <1>3 DEF resolve_for, _rlc_for
  <2>2. d.type # "series_rlc"
    BY <1>3
  <2> QED BY <1>3, <2>1, <2>2 DEF ByNumbers, ByValues, Numbered, Valued, Names, Describes, Anonymous, _matches
<1> QED BY <1>1, <1>2, <1>3

\* A number that is used has a source.
LEMMA UsedIsCited ==
  ASSUME NEW d \in ComponentDocuments, parse(d), NEW farads, NEW package, resolve_for(d, farads, package) # {}
  PROVE  LET got == Only(resolve_for(d, farads, package))
         IN  (got.esl => cites(d, "ESL")) /\ (got.esr /\ d.type = "series_rlc" => cites(d, "ESR"))
<1> DEFINE got == Only(resolve_for(d, farads, package))
<1>1. d.type = "series_rlc" \/ d.type = "mlcc_family"
  BY DEF ComponentDocuments
<1>2. got.esl = (d.type = "mlcc_family" \/ d.esl) /\ got.esr = d.esr
  BY TheOnly
<1> HIDE DEF got
<1>3. CASE d.type = "series_rlc"
  <2>1. (d.esl => cites(d, "ESL")) /\ (d.esr => cites(d, "ESR"))
    BY <1>3 DEF parse
  <2>2. got.esl = d.esl
    <3>1. d.esl \in BOOLEAN /\ d.type # "mlcc_family"
      BY <1>3 DEF ComponentDocuments
    <3> QED BY <1>2, <3>1
  <2> QED BY <1>2, <2>1, <2>2 DEF got
<1>4. CASE d.type = "mlcc_family"
  <2>1. cites(d, "ESL") /\ d.type # "series_rlc"
    BY <1>4 DEF parse
  <2> QED BY <2>1
<1> QED BY <1>1, <1>3, <1>4

LEMMA ContradictionsAreNoted ==
  ASSUME NEW d, NEW m, Contradicts(d, m)
  PROVE  _disagreements(d, m) # {}
<1>1. CASE d.value \notin {0, Unreadable, m.farads} /\ m.farads # 0
  BY <1>1 DEF _disagreements
<1>2. CASE d.package \notin {NoPackage, m.package} /\ m.package # NoPackage
  BY <1>2 DEF _disagreements
<1> QED BY <1>1, <1>2 DEF Contradicts

\* A part is modelled as the first document that names it or, when none does,
\* describes it; bare only if there is none (resolve.py).
THEOREM PartsAreModelledRight ==
  ASSUME NEW q, Fittable(q)
  PROVE  PartsAreModelled(q)
<1> DEFINE m == match_part(q.part)
           c == q.candidates
           list == c \o built_in
           got == resolve_part(m, c)
           N == ByNumbers(m)
           V == ByValues(m)
           nth == CHOOSE d \in Range(list) : d.id = got.id
           fits(d) == Describes(d, m) /\ Anonymous(d)
           better(d) == IF got.by = "value" THEN fits(d) ELSE Names(d, m)
           stays(d) == \A i \in DOMAIN c : IF c[i] = d THEN \A j \in 1 .. i - 1 : ~better(c[j])
                                           ELSE resolve_part(m, RemoveAt(c, i)) = got
           answered(d) ==
             /\ IF got.by = "part number" THEN Names(d, m) ELSE fits(d) /\ \A e \in Range(list) : ~Names(e, m)
             /\ got.by = "part number" /\ Contradicts(d, m) => got.notes # {}
             /\ (got.rlc.esl => cites(d, "ESL")) /\ (got.rlc.esr /\ d.type = "series_rlc" => cites(d, "ESR"))
             /\ stays(d)
<1>1. SUFFICES ASSUME \A i \in DOMAIN c : parse(c[i])
               PROVE  IF got = Bare THEN \A d \in Range(list) : ~Names(d, m) /\ ~fits(d) ELSE answered(nth)
  BY DEF PartsAreModelled
<1>2. /\ c \in Seq(ComponentDocuments) /\ built_in \in Seq(ComponentDocuments) /\ list \in Seq(ComponentDocuments)
      /\ Apart(list) /\ DOMAIN c = 1 .. Len(c) /\ DOMAIN list = 1 .. Len(list)
      /\ Len(c) \in Nat /\ Len(list) = Len(c) + Len(built_in) /\ Len(built_in) \in Nat
      /\ \A i \in 1 .. Len(c) : list[i] = c[i]
      /\ \A i \in 1 .. Len(built_in) : list[Len(c) + i] = built_in[i]
  <2>1. c \in Seq(ComponentDocuments) /\ built_in \in Seq(ComponentDocuments) /\ Apart(list)
    BY BuiltInIsTheLibrary DEF Fittable
  <2>2. /\ list \in Seq(ComponentDocuments) /\ Len(list) = Len(c) + Len(built_in)
        /\ \A i \in 1 .. Len(c) + Len(built_in) : list[i] = IF i <= Len(c) THEN c[i] ELSE built_in[i - Len(c)]
    BY <2>1, ConcatProperties
  <2> HIDE DEF list
  <2>3. Len(c) \in Nat /\ Len(built_in) \in Nat /\ DOMAIN c = 1 .. Len(c) /\ DOMAIN list = 1 .. Len(list)
    BY <2>1, <2>2, LenProperties
  <2>4. \A i \in 1 .. Len(built_in) : list[Len(c) + i] = built_in[i]
    <3> SUFFICES ASSUME NEW i \in 1 .. Len(built_in) PROVE list[Len(c) + i] = built_in[i]
      OBVIOUS
    <3>1. Len(c) + i \in 1 .. Len(c) + Len(built_in) /\ ~(Len(c) + i <= Len(c)) /\ (Len(c) + i) - Len(c) = i
      BY <2>3
    <3> QED BY <2>2, <3>1
  <2>5. \A i \in 1 .. Len(c) : list[i] = c[i]
    BY <2>2, <2>3
  <2> QED BY <2>1, <2>2, <2>3, <2>4, <2>5
<1>3. \A i \in 1 .. Len(list) : list[i] \in ComponentDocuments /\ parse(list[i])
  <2>0. \A i \in 1 .. Len(c) : parse(c[i])
    BY <1>1, <1>2
  <2> HIDE DEF list, c
  <2> SUFFICES ASSUME NEW i \in 1 .. Len(list) PROVE list[i] \in ComponentDocuments /\ parse(list[i])
    OBVIOUS
  <2>1. list[i] \in ComponentDocuments
    BY <1>2, ElementOfSeq
  <2>2. CASE i <= Len(c)
    <3>1. i \in 1 .. Len(c)
      BY <1>2, <2>2
    <3>2. list[i] = c[i]
      BY <1>2, <3>1
    <3> QED BY <2>0, <2>1, <3>1, <3>2
  <2>3. CASE ~(i <= Len(c))
    <3> DEFINE j == i - Len(c)
    <3>2. j \in 1 .. Len(built_in) /\ i = Len(c) + j
      BY <1>2, <2>3
    <3> HIDE DEF j
    <3>1. j \in 1 .. Len(built_in) /\ list[i] = built_in[j]
      BY <1>2, <3>2
    <3> QED BY <2>1, <3>1, BuiltInIsTheLibrary
  <2> QED BY <2>2, <2>3
<1>4. got = IF ~NoneOf(list, N) THEN ByNumber(First(list, N), m)
            ELSE IF ~NoneOf(list, V) THEN ByValue(First(list, V), m) ELSE Bare
  BY <1>2, Resolving
<1>5. Range(list) = {list[i] : i \in 1 .. Len(list)}
  BY <1>2 DEF Range
<1>6. \A d \in ComponentDocuments : (d \in N <=> Names(d, m)) /\ (d \in V <=> fits(d))
  BY TakenIsRight
<1>7. \A i \in 1 .. Len(c) :
        resolve_part(m, RemoveAt(c, i)) =
          LET rest == RemoveAt(c, i) \o built_in
          IN  IF ~NoneOf(rest, N) THEN ByNumber(First(rest, N), m)
              ELSE IF ~NoneOf(rest, V) THEN ByValue(First(rest, V), m) ELSE Bare
  BY <1>2, Without, Resolving
<1> HIDE DEF m, got, c, N, V
<1>8. \A i \in 1 .. Len(list) : got.id = list[i].id => nth = list[i]
  <2> HIDE DEF list
  <2> SUFFICES ASSUME NEW i \in 1 .. Len(list), got.id = list[i].id PROVE nth = list[i]
    OBVIOUS
  <2>1. nth \in Range(list) /\ nth.id = list[i].id
    <3>1. list[i] \in Range(list) /\ list[i].id = got.id
      BY <1>5
    <3> HIDE DEF list
    <3> QED BY <3>1, Zenon
  <2>2. PICK j \in 1 .. Len(list) : nth = list[j]
    BY <1>5, <2>1
  <2> HIDE DEF nth
  <2> QED BY <1>2, <2>1, <2>2 DEF Apart
\* The first of K answers, so it has none before it and any other may go.
<1>9. ASSUME NEW K, NEW i, IsFirst(list, K, i), First(list, K) = list[i]
      PROVE  /\ i \in 1 .. Len(list) /\ list[i] \in ComponentDocuments /\ parse(list[i]) /\ list[i] \in K
             /\ \A k \in 1 .. Len(c) :
                  /\ c[k] = list[i] => \A j \in 1 .. k - 1 : c[j] \notin K
                  /\ c[k] # list[i] => ~NoneOf(RemoveAt(c, k) \o built_in, K) /\ First(RemoveAt(c, k) \o built_in, K) = list[i]
  <2>1. i \in 1 .. Len(list) /\ list[i] \in K /\ \A j \in 1 .. i - 1 : list[j] \notin K
    BY <1>9 DEF IsFirst
  <2>2. ASSUME NEW k \in 1 .. Len(c), c[k] = list[i] PROVE \A j \in 1 .. k - 1 : c[j] \notin K
    <3> HIDE DEF list
    <3>1. k \in 1 .. Len(list) /\ list[k] = list[i]
      BY <1>2, <2>2
    <3>2. k = i
      BY <1>2, <2>1, <3>1 DEF Apart
    <3>3. \A j \in 1 .. k - 1 : c[j] = list[j]
      BY <1>2, <2>2
    <3> QED BY <2>1, <3>2, <3>3
  <2>3. ASSUME NEW k \in 1 .. Len(c), c[k] # list[i]
        PROVE  ~NoneOf(RemoveAt(c, k) \o built_in, K) /\ First(RemoveAt(c, k) \o built_in, K) = list[i]
    <3>1. ~NoneOf(c \o built_in, K) /\ First(c \o built_in, K) = list[i]
      BY <1>2, <1>9, FirstIsOnly
    <3> QED BY <1>2, <2>3, <3>1, FirstWithoutAnother
  <2> QED BY <1>3, <2>1, <2>2, <2>3
<1>10. ASSUME NoneOf(list, N) PROVE (\A d \in Range(list) : ~Names(d, m))
                                    /\ \A k \in 1 .. Len(c) : NoneOf(RemoveAt(c, k) \o built_in, N)
  <2>1. \A d \in Range(list) : ~Names(d, m)
    <3> HIDE DEF list
    <3> QED BY <1>3, <1>5, <1>6, <1>10 DEF NoneOf
  <2>2. ASSUME NEW k \in 1 .. Len(c) PROVE NoneOf(RemoveAt(c, k) \o built_in, N)
    BY <1>2, <1>10, FirstWithoutAnother
  <2> QED BY <2>1, <2>2
<1>11. \A i \in 1 .. Len(c) : c[i] \in ComponentDocuments
  BY <1>2, ElementOfSeq
<1>12. CASE ~NoneOf(list, N)
  <2>1. PICK i : IsFirst(list, N, i) /\ First(list, N) = list[i]
    BY <1>2, <1>12, FirstOf
  <2> DEFINE d == list[i]
             rlc == Only(_rlc_for(d, m))
  <2>2. got = ByNumber(d, m) /\ d \in ComponentDocuments /\ d \in N /\ parse(d)
    BY <1>4, <1>9, <1>12, <2>1
  <2>3. got.by = "part number" /\ got.id = d.id /\ got.rlc = rlc /\ got.notes = _disagreements(d, m)
    BY <2>2 DEF ByNumber, _resolved
  <2>4. nth = d
    BY <1>8, <1>9, <2>1, <2>3
  <2>5. got # Bare
    <3>1. got.by = "part number" /\ Bare.by = "none"
      BY <2>3 DEF Bare
    <3> QED BY <3>1
  <2>6. Names(d, m)
    BY <1>6, <2>2
  <2>7. got.by = "part number" /\ Contradicts(d, m) => got.notes # {}
    BY <2>3, ContradictionsAreNoted
  <2>8. (got.rlc.esl => cites(d, "ESL")) /\ (got.rlc.esr /\ d.type = "series_rlc" => cites(d, "ESR"))
    <3>1. _rlc_for(d, m) = resolve_for(d, m.farads, m.package) /\ _rlc_for(d, m) # {}
      BY <2>2, TakenIsRight DEF N, ByNumbers, Numbered
    <3> QED BY <2>2, <2>3, <3>1, UsedIsCited
  <2>9. stays(d)
    <3> SUFFICES ASSUME NEW k \in 1 .. Len(c)
                 PROVE  IF c[k] = d THEN \A j \in 1 .. k - 1 : ~better(c[j]) ELSE resolve_part(m, RemoveAt(c, k)) = got
      BY <1>2
    <3>1. /\ c[k] = d => \A j \in 1 .. k - 1 : c[j] \notin N
          /\ c[k] # d => ~NoneOf(RemoveAt(c, k) \o built_in, N) /\ First(RemoveAt(c, k) \o built_in, N) = d
      <4> HIDE DEF list
      <4> QED BY <1>9, <2>1
    <3>5. got.by = "part number"
      BY <2>3
    <3>6. \A j \in 1 .. k - 1 : j \in 1 .. Len(c)
      BY <1>2
    <3>2. got.by # "value" /\ \A j \in 1 .. k - 1 : c[j] \in ComponentDocuments
      BY <1>11, <3>5, <3>6
    <3> HIDE DEF d, list, fits
    <3>3. ASSUME c[k] = d PROVE \A j \in 1 .. k - 1 : ~better(c[j])
      BY <1>6, <3>1, <3>2, <3>3
    <3>4. ASSUME c[k] # d PROVE resolve_part(m, RemoveAt(c, k)) = got
      BY <1>7, <2>2, <3>1, <3>4
    <3> QED BY <3>3, <3>4
  <2> HIDE DEF d, list, nth, fits, stays
  <2> QED BY <2>3, <2>4, <2>5, <2>6, <2>7, <2>8, <2>9
<1>13. CASE NoneOf(list, N) /\ ~NoneOf(list, V)
  <2>1. PICK i : IsFirst(list, V, i) /\ First(list, V) = list[i]
    BY <1>2, <1>13, FirstOf
  <2> DEFINE d == list[i]
             rlc == Only(resolve_for(d, m.farads, m.package))
  <2>2. got = ByValue(d, m) /\ d \in ComponentDocuments /\ d \in V /\ parse(d)
    BY <1>4, <1>9, <1>13, <2>1
  <2>3. got.by = "value" /\ got.id = d.id /\ got.rlc = rlc
    BY <2>2 DEF ByValue, _resolved
  <2>4. nth = d
    BY <1>8, <1>9, <2>1, <2>3
  <2>5. got # Bare
    BY <2>3 DEF Bare
  <2>6. fits(d) /\ \A e \in Range(list) : ~Names(e, m)
    BY <1>6, <1>10, <1>13, <2>2
  <2>8. (got.rlc.esl => cites(d, "ESL")) /\ (got.rlc.esr /\ d.type = "series_rlc" => cites(d, "ESR"))
    <3>1. resolve_for(d, m.farads, m.package) # {}
      BY <2>2 DEF V, ByValues, Valued
    <3> QED BY <2>2, <2>3, <3>1, UsedIsCited
  <2>9. stays(d)
    <3> SUFFICES ASSUME NEW k \in 1 .. Len(c)
                 PROVE  IF c[k] = d THEN \A j \in 1 .. k - 1 : ~better(c[j]) ELSE resolve_part(m, RemoveAt(c, k)) = got
      BY <1>2
    <3>4. NoneOf(RemoveAt(c, k) \o built_in, N)
      BY <1>10, <1>13
    <3>5. /\ c[k] = d => \A j \in 1 .. k - 1 : c[j] \notin V
          /\ c[k] # d => ~NoneOf(RemoveAt(c, k) \o built_in, V) /\ First(RemoveAt(c, k) \o built_in, V) = d
      <4> HIDE DEF list
      <4> QED BY <1>9, <2>1
    <3>1. /\ c[k] = d => \A j \in 1 .. k - 1 : c[j] \notin V
          /\ c[k] # d => ~NoneOf(RemoveAt(c, k) \o built_in, V) /\ First(RemoveAt(c, k) \o built_in, V) = d
          /\ NoneOf(RemoveAt(c, k) \o built_in, N)
      BY <3>4, <3>5
    <3>2. \A j \in 1 .. k - 1 : c[j] \in ComponentDocuments
      BY <1>2, <1>11
    <3> HIDE DEF d, list
    <3>3. ASSUME c[k] = d PROVE \A j \in 1 .. k - 1 : ~better(c[j])
      <4> HIDE DEF fits
      <4> QED BY <1>6, <2>3, <3>1, <3>2, <3>3
    <3>6. ASSUME c[k] # d PROVE resolve_part(m, RemoveAt(c, k)) = got
      BY <1>7, <2>2, <3>1, <3>6
    <3> QED BY <3>3, <3>6
  <2> HIDE DEF d, list, nth, fits, stays
  <2> QED BY <2>3, <2>4, <2>5, <2>6, <2>8, <2>9
<1>14. CASE NoneOf(list, N) /\ NoneOf(list, V)
  <2>1. got = Bare
    BY <1>4, <1>14
  <2>2. \A d \in Range(list) : ~Names(d, m) /\ ~fits(d)
    <3> HIDE DEF list, fits
    <3> QED BY <1>3, <1>5, <1>6, <1>14 DEF NoneOf
  <2> QED BY <2>1, <2>2
<1> HIDE DEF list, nth, fits, answered
<1> QED BY <1>12, <1>13, <1>14

-------------------------------------------------------------------------------
(* The paths of a net.                                                       *)

LEMMA LongestIsANumber == Longest \in Nat
<1>1. Len(CopperLayers) \in Nat /\ Cardinality(Places) - 1 \in Nat
  <2>1. Len(CopperLayers) \in Nat
    BY TopologyAssumption, LenProperties DEF TopologyAssumption
  <2>2. Cardinality(Places) \in Nat /\ Cardinality(Places) # 0
    BY TopologyAssumption, FS_CardinalityType, FS_EmptySet DEF TopologyAssumption
  <2> QED BY <2>1, <2>2
<1>2. \A a, b \in Nat : a * b \in Nat
  OBVIOUS
<1> QED BY <1>1, <1>2 DEF Longest

\* What an edge does for a set of places and distances, either way.
Over(edges, N) == \A e \in edges : e[1] \in N /\ e[2] \in N /\ e[3] \in Nat
Onward(C, n, m, w) == \A d \in 0 .. Longest : << n, d >> \in C /\ d + w <= Longest => << m, d + w >> \in C
ClosedUnder(C, edges) == \A e \in edges : Onward(C, e[1], e[2], e[3]) /\ Onward(C, e[2], e[1], e[3])

LEMMA FurtherHolds ==
  ASSUME NEW N, NEW edges, Over(edges, N), NEW r \in SUBSET (N \X (0 .. Longest))
  PROVE  /\ r \subseteq further(edges, r) /\ further(edges, r) \subseteq N \X (0 .. Longest)
         /\ further(edges, r) = r <=> ClosedUnder(r, edges)
         /\ \A c : r \subseteq c /\ ClosedUnder(c, edges) => further(edges, r) \subseteq c
<1> DEFINE ways == edges \cup {<< e[2], e[1], e[3] >> : e \in edges}
           more == {<< s[1][2], s[2][2] + s[1][3] >> :
                      s \in {s \in ways \X r : s[1][1] = s[2][1] /\ s[2][2] + s[1][3] <= Longest}}
<1>1. further(edges, r) = r \cup more
  BY DEF further
<1>2. \A w \in ways, d \in 0 .. Longest :
        << w[1], d >> \in r /\ d + w[3] <= Longest => << w[2], d + w[3] >> \in more
  <2> SUFFICES ASSUME NEW w \in ways, NEW d \in 0 .. Longest, << w[1], d >> \in r, d + w[3] <= Longest
               PROVE  << w[2], d + w[3] >> \in more
    OBVIOUS
  <2> DEFINE s == << w, << w[1], d >> >>
  <2>1. s \in ways \X r /\ s[1] = w /\ s[2][1] = w[1] /\ s[2][2] = d
    OBVIOUS
  <2> HIDE DEF s, ways
  <2> QED BY <2>1
<1>3. \A g \in more : \E w \in ways, d \in 0 .. Longest :
        << w[1], d >> \in r /\ d + w[3] <= Longest /\ g = << w[2], d + w[3] >>
  <2> SUFFICES ASSUME NEW g \in more
               PROVE  \E w \in ways, d \in 0 .. Longest :
                        << w[1], d >> \in r /\ d + w[3] <= Longest /\ g = << w[2], d + w[3] >>
    OBVIOUS
  <2>1. PICK s \in ways \X r : /\ s[1][1] = s[2][1] /\ s[2][2] + s[1][3] <= Longest
                               /\ g = << s[1][2], s[2][2] + s[1][3] >>
    <3> HIDE DEF ways
    <3> QED OBVIOUS
  <2>2. s[1] \in ways /\ s[2] \in r /\ s[2] \in N \X (0 .. Longest)
    <3> HIDE DEF ways
    <3> QED BY <2>1
  <2>3. s[2] = << s[2][1], s[2][2] >> /\ s[2][2] \in 0 .. Longest
    BY <2>2
  <2> HIDE DEF ways
  <2> QED BY <2>1, <2>2, <2>3
<1>4. \A w \in ways : w[1] \in N /\ w[2] \in N /\ w[3] \in Nat
  BY DEF Over
<1>5. /\ \A e \in edges : e \in ways /\ << e[2], e[1], e[3] >> \in ways
      /\ \A w \in ways : \E e \in edges : w[3] = e[3] /\ ((w[1] = e[1] /\ w[2] = e[2]) \/ (w[1] = e[2] /\ w[2] = e[1]))
  <2>1. \A e \in edges : e \in ways /\ << e[2], e[1], e[3] >> \in ways
    OBVIOUS
  <2>2. ASSUME NEW w \in ways
        PROVE  \E e \in edges : w[3] = e[3] /\ ((w[1] = e[1] /\ w[2] = e[2]) \/ (w[1] = e[2] /\ w[2] = e[1]))
    <3>1. CASE w \in edges
      <4> HIDE DEF ways
      <4> QED BY <3>1, Zenon
    <3>2. CASE w \notin edges
      <4>1. PICK e \in edges : w = << e[2], e[1], e[3] >>
        BY <3>2
      <4> QED BY <4>1
    <3> QED BY <3>1, <3>2
  <2> HIDE DEF ways
  <2> QED BY <2>1, <2>2
<1> HIDE DEF ways, more
<1>6. more \subseteq N \X (0 .. Longest)
  <2> SUFFICES ASSUME NEW g \in more PROVE g \in N \X (0 .. Longest)
    OBVIOUS
  <2>1. PICK w \in ways, d \in 0 .. Longest : << w[1], d >> \in r /\ d + w[3] <= Longest /\ g = << w[2], d + w[3] >>
    BY <1>3
  <2>2. w[2] \in N /\ d + w[3] \in 0 .. Longest
    <3>1. w[3] \in Nat
      BY <1>4
    <3> QED BY <1>4, <2>1, <3>1, LongestIsANumber
  <2> QED BY <2>1, <2>2
<1>7. \A c : r \subseteq c /\ ClosedUnder(c, edges) => more \subseteq c
  <2> SUFFICES ASSUME NEW c, r \subseteq c, ClosedUnder(c, edges), NEW g \in more PROVE g \in c
    OBVIOUS
  <2>1. PICK w \in ways, d \in 0 .. Longest : << w[1], d >> \in r /\ d + w[3] <= Longest /\ g = << w[2], d + w[3] >>
    BY <1>3
  <2>2. PICK e \in edges : w[3] = e[3] /\ ((w[1] = e[1] /\ w[2] = e[2]) \/ (w[1] = e[2] /\ w[2] = e[1]))
    BY <1>5
  <2> QED BY <2>1, <2>2 DEF ClosedUnder, Onward
<1>8. more \subseteq r => ClosedUnder(r, edges)
  <2> SUFFICES ASSUME more \subseteq r, NEW e \in edges, NEW d \in 0 .. Longest, d + e[3] <= Longest
               PROVE  /\ << e[1], d >> \in r => << e[2], d + e[3] >> \in r
                      /\ << e[2], d >> \in r => << e[1], d + e[3] >> \in r
    BY DEF ClosedUnder, Onward
  <2> DEFINE back == << e[2], e[1], e[3] >>
  <2>1. e \in ways /\ back \in ways /\ back[1] = e[2] /\ back[2] = e[1] /\ back[3] = e[3]
    BY <1>5
  <2> HIDE DEF back
  <2> QED BY <1>2, <2>1
<1> QED BY <1>1, <1>6, <1>7, <1>8

\* The search's function: from a set of places on to the least that is closed.
Settling(f, edges, G) == f = [r \in SUBSET G |-> IF further(edges, r) = r THEN r ELSE f[further(edges, r)]]

LEMMA SettlingExists ==
  ASSUME NEW N, NEW edges, Over(edges, N)
  PROVE  \E f : Settling(f, edges, N \X (0 .. Longest))
<1> DEFINE G == N \X (0 .. Longest)
           closed(r) == {c \in SUBSET G : r \subseteq c /\ further(edges, c) = c}
           f == [r \in SUBSET G |-> {g \in G : \A c \in closed(r) : g \in c}]
<1>1. \A r \in SUBSET G : f[r] = IF further(edges, r) = r THEN r ELSE f[further(edges, r)]
  <2> SUFFICES ASSUME NEW r \in SUBSET G
               PROVE  f[r] = IF further(edges, r) = r THEN r ELSE f[further(edges, r)]
    OBVIOUS
  <2>1. r \subseteq further(edges, r) /\ further(edges, r) \in SUBSET G
    BY FurtherHolds
  <2>2. CASE further(edges, r) = r
    <3>1. r \in closed(r)
      BY <2>2
    <3> QED BY <2>2, <3>1
  <2>3. closed(further(edges, r)) = closed(r)
    <3> SUFFICES ASSUME NEW c \in SUBSET G, r \subseteq c, further(edges, c) = c
                 PROVE  further(edges, r) \subseteq c
      BY <2>1
    <3>1. ClosedUnder(c, edges)
      BY FurtherHolds
    <3> QED BY <3>1, FurtherHolds
  <2> HIDE DEF closed
  <2> QED BY <2>1, <2>2, <2>3
<1>2. f = [r \in SUBSET G |-> f[r]]
  OBVIOUS
<1> HIDE DEF f
<1> QED BY <1>1, <1>2 DEF Settling

\* What the search ends with is closed, and in everything else that is.
LEMMA SettlingIsLeast ==
  ASSUME NEW N, IsFiniteSet(N), NEW edges, Over(edges, N), NEW f, Settling(f, edges, N \X (0 .. Longest)),
         NEW r \in SUBSET (N \X (0 .. Longest))
  PROVE  /\ f[r] \in SUBSET (N \X (0 .. Longest)) /\ r \subseteq f[r] /\ ClosedUnder(f[r], edges)
         /\ \A c : r \subseteq c /\ ClosedUnder(c, edges) => f[r] \subseteq c
<1> DEFINE G == N \X (0 .. Longest)
           Least(q) == /\ f[q] \in SUBSET G /\ q \subseteq f[q] /\ ClosedUnder(f[q], edges)
                       /\ \A c : q \subseteq c /\ ClosedUnder(c, edges) => f[q] \subseteq c
           Bad == {T \in FiniteSubsetsOf(G) : ~Least(G \ T)}
<1>1. IsFiniteSet(G)
  <2>1. IsFiniteSet(0 .. Longest)
    BY LongestIsANumber, FS_Interval
  <2> QED BY <2>1, FS_Product
<1>2. \A q \in SUBSET G : G \ q \in FiniteSubsetsOf(G) /\ G \ (G \ q) = q
  <2>1. \A T \in SUBSET G : IsFiniteSet(T)
    BY <1>1, FS_Subset
  <2> HIDE DEF G
  <2> QED BY <2>1 DEF FiniteSubsetsOf
<1>3. SUFFICES ASSUME Bad # {} PROVE FALSE
  <2> HIDE DEF G, Least
  <2>1. Bad = {} => Least(r)
    <3>1. G \ r \in FiniteSubsetsOf(G) /\ G \ (G \ r) = r
      BY <1>2 DEF G
    <3> QED BY <3>1
  <2> QED BY <2>1 DEF Least, G
<1>4. PICK T \in Bad : \A U \in Bad : ~ (<<U, T>> \in StrictSubsetOrdering(G))
  <2>1. Bad \subseteq FiniteSubsetsOf(G)
    OBVIOUS
  <2> HIDE DEF Bad
  <2> QED BY <1>3, <2>1, FS_StrictSubsetOrderingWellFounded, WFMin
<1> DEFINE q == G \ T
           more == further(edges, q)
<1>5. q \in SUBSET G /\ T \in FiniteSubsetsOf(G) /\ ~Least(q) /\ T = G \ q
  <2> HIDE DEF Least, G
  <2> QED BY <1>4 DEF FiniteSubsetsOf
<1>6. q \subseteq more /\ more \in SUBSET G /\ (more = q <=> ClosedUnder(q, edges))
      /\ \A c : q \subseteq c /\ ClosedUnder(c, edges) => more \subseteq c
  BY <1>5, FurtherHolds
<1>7. f[q] = IF more = q THEN q ELSE f[more]
  <2>1. f = [p \in SUBSET G |-> IF further(edges, p) = p THEN p ELSE f[further(edges, p)]]
    BY DEF Settling
  <2> HIDE DEF G, q, Bad, Least
  <2> QED BY <1>5, <2>1 DEF q
<1> HIDE DEF q, more, G, Bad
<1>8. more # q
  BY <1>5, <1>6, <1>7
<1>9. Least(more)
  <2>1. G \ more \in FiniteSubsetsOf(G) /\ G \ (G \ more) = more
    BY <1>2, <1>6
  <2>2. << G \ more, T >> \in StrictSubsetOrdering(G)
    BY <1>5, <1>6, <1>8, <2>1 DEF StrictSubsetOrdering, FiniteSubsetsOf
  <2>3. G \ more \notin Bad
    BY <1>4, <2>2
  <2> HIDE DEF Least
  <2> QED BY <2>1, <2>3 DEF Bad
<1>10. Least(q)
  BY <1>6, <1>7, <1>8, <1>9
<1> QED BY <1>5, <1>10

\* A search reaches its sources, goes on along every edge as far as the bound, and
\* reaches nothing else.
LEMMA Searching ==
  ASSUME NEW N, IsFiniteSet(N), NEW edges, Over(edges, N), NEW sources \in SUBSET N
  PROVE  LET D == _dijkstra(edges, sources)
         IN  /\ D \subseteq N \X (0 .. Longest) /\ sources \X {0} \subseteq D /\ ClosedUnder(D, edges)
             /\ \A c : sources \X {0} \subseteq c /\ ClosedUnder(c, edges) => D \subseteq c
<1> DEFINE M == Ends(edges) \cup sources
           G == M \X (0 .. Longest)
           f == CHOOSE f : Settling(f, edges, G)
<1>1. M \subseteq N
  BY DEF Ends, Over
<1>2. IsFiniteSet(M)
  <2> HIDE DEF M
  <2> QED BY <1>1, FS_Subset
<1>3. Over(edges, M)
  BY DEF Over, Ends
<1>4. sources \X {0} \in SUBSET G
  BY LongestIsANumber
<1>5. _dijkstra(edges, sources) = f[sources \X {0}]
  BY DEF _dijkstra, Settling
<1> HIDE DEF M
<1>6. Settling(f, edges, G)
  <2>1. \E g : Settling(g, edges, G)
    BY <1>3, SettlingExists
  <2> QED BY <2>1
<1> HIDE DEF f
<1> DEFINE r == sources \X {0}
<1>7. r \in SUBSET G
  BY <1>4
<1> HIDE DEF r
<1>8. /\ f[r] \in SUBSET G /\ r \subseteq f[r] /\ ClosedUnder(f[r], edges)
      /\ \A c : r \subseteq c /\ ClosedUnder(c, edges) => f[r] \subseteq c
  BY <1>2, <1>3, <1>6, <1>7, SettlingIsLeast
<1>9. G \subseteq N \X (0 .. Longest)
  BY <1>1
<1> HIDE DEF G
<1> QED BY <1>5, <1>8, <1>9 DEF r

\* Numbers that are finitely many: one that has a greater among them has a next,
\* and one that has a smaller among them has one before it.
LEMMA Neighbours ==
  ASSUME NEW S, IsFiniteSet(S), S \subseteq Int, NEW x \in S, NEW z \in S, x < z
  PROVE  /\ \E y \in S : x < y /\ y <= z /\ << x, y >> \in Consecutive(S)
         /\ \E y \in S : x <= y /\ y < z /\ << y, z >> \in Consecutive(S)
<1> DEFINE up == {y \in S : x < y}
           down == {y \in S : y < z}
           v == [y \in S |-> y]
<1>1. IsFiniteSet(up) /\ IsFiniteSet(down) /\ up # {} /\ down # {}
  BY FS_Subset
<1>2. \A y \in S : v[y] = y /\ y \in Int
  OBVIOUS
<1>3. PICK y \in up : \A k \in up : y <= k
  <2>1. \E y \in up : \A k \in up : v[y] <= v[k]
    <3>1. \A k \in up : v[k] \in Int
      BY <1>2
    <3> HIDE DEF v, up
    <3> QED BY <1>1, <3>1, LeastOf
  <2> HIDE DEF v
  <2> QED BY <1>2, <2>1
<1>4. PICK y2 \in down : \A k \in down : k <= y2
  <2>1. \A k \in down : v[k] \in Int
    BY <1>2
  <2>2. \E y2 \in down : \A k \in down : v[k] <= v[y2]
    <3> HIDE DEF v, down
    <3> QED BY <1>1, <2>1, Extremes
  <2> HIDE DEF v
  <2> QED BY <1>2, <2>2
<1> HIDE DEF v
<1>5. << x, y >> \in Consecutive(S) /\ y <= z
  BY <1>2, <1>3 DEF Consecutive
<1>6. << y2, z >> \in Consecutive(S) /\ x <= y2
  BY <1>2, <1>4 DEF Consecutive
<1> QED BY <1>3, <1>4, <1>5, <1>6

\* One way after another is a way.
LEMMA OnwardTwice ==
  ASSUME NEW C, NEW n, NEW m, NEW k, NEW v \in Nat, NEW w \in Nat, Onward(C, n, m, v), Onward(C, m, k, w)
  PROVE  Onward(C, n, k, v + w)
<1> SUFFICES ASSUME NEW d \in 0 .. Longest, << n, d >> \in C, d + (v + w) <= Longest
             PROVE  << k, d + (v + w) >> \in C
  BY DEF Onward
<1>1. d + v \in 0 .. Longest /\ (d + v) + w = d + (v + w) /\ d + v <= Longest
  BY LongestIsANumber
<1>2. << m, d + v >> \in C
  BY <1>1 DEF Onward
<1> QED BY <1>1, <1>2 DEF Onward

\* The places of a board: what its layers, and a net's pours, can be a node of.
Points(net) == (LayerNames \X Places) \cup ({"zone"} \X net.pours)

LEMMA PointsAreFinite ==
  ASSUME NEW net, Drawn(net)
  PROVE  IsFiniteSet(Points(net)) /\ IsFiniteSet(Places) /\ Places \subseteq Nat
<1>1. IsFiniteSet(LayerNames)
  <2>1. Len(CopperLayers) \in Nat /\ CopperLayers \in [1 .. Len(CopperLayers) -> STRING]
    BY TopologyAssumption, LenProperties DEF TopologyAssumption
  <2>2. CopperLayers \in Surjection(1 .. Len(CopperLayers), LayerNames)
    BY <2>1 DEF Surjection, LayerNames
  <2>3. IsFiniteSet(1 .. Len(CopperLayers))
    BY <2>1, FS_Interval
  <2> QED BY <2>2, <2>3, FS_Surjection
<1>2. IsFiniteSet(Places) /\ Places \subseteq Nat
  BY TopologyAssumption, FS_CardinalityType DEF TopologyAssumption
<1>3. IsFiniteSet(LayerNames \X Places)
  BY <1>1, <1>2, FS_Product
<1>4. IsFiniteSet({"zone"} \X net.pours)
  BY FS_Singleton, FS_Product DEF Drawn
<1> QED BY <1>2, <1>3, <1>4, FS_Union DEF Points

\* A stretch of a board is of its places.
LEMMA Stretch ==
  ASSUME NEW a \in Places, NEW b \in Places
  PROVE  a \in Nat /\ b \in Nat /\ a .. b \subseteq Places
<1>1. Places = 0 .. Cardinality(Places) - 1 /\ Cardinality(Places) \in Nat
  BY TopologyAssumption, FS_CardinalityType DEF TopologyAssumption
<1> QED BY <1>1

\* The graph's edges, and what of the board they join.
LEMMA TrackEdgesAre ==
  ASSUME NEW net, Drawn(net)
  PROVE  /\ \A e \in TrackEdges(net) : \E t \in net.tracks, x, y \in Places :
              /\ e = << << t.layer, x >>, << t.layer, y >>, y - x >>
              /\ t.a <= x /\ x < y /\ y <= t.b
         /\ \A t \in net.tracks, x, y \in Places :
              (/\ t.a <= x /\ x < y /\ y <= t.b
               /\ << t.layer, x >> \in Nodes(net) /\ << t.layer, y >> \in Nodes(net)
               /\ \A z \in Places : x < z /\ z < y => << t.layer, z >> \notin Nodes(net))
                => << << t.layer, x >>, << t.layer, y >>, y - x >> \in TrackEdges(net)
<1> DEFINE on(t) == {x \in Places : Along(t, x) /\ << t.layer, x >> \in Nodes(net)}
           of(t) == {<< << t.layer, q[1] >>, << t.layer, q[2] >>, q[2] - q[1] >> : q \in Consecutive(on(t))}
<1>1. TrackEdges(net) = UNION {of(t) : t \in net.tracks}
  BY DEF TrackEdges
<1>2. \A t \in net.tracks : t.a \in Nat /\ t.b \in Nat
  BY Stretch DEF Drawn
<1>3. \A x \in Places : x \in Nat
  BY Stretch
<1>4. ASSUME NEW e \in TrackEdges(net)
      PROVE  \E t \in net.tracks, x, y \in Places : /\ e = << << t.layer, x >>, << t.layer, y >>, y - x >>
                                                    /\ t.a <= x /\ x < y /\ y <= t.b
  <2>1. PICK t \in net.tracks : e \in of(t)
    <3> HIDE DEF of
    <3> QED BY <1>1
  <2>2. PICK q \in Consecutive(on(t)) : e = << << t.layer, q[1] >>, << t.layer, q[2] >>, q[2] - q[1] >>
    <3> HIDE DEF on
    <3> QED BY <2>1
  <2>3. q[1] \in on(t) /\ q[2] \in on(t) /\ q[1] < q[2]
    <3> HIDE DEF on
    <3> QED BY DEF Consecutive
  <2> QED BY <2>2, <2>3 DEF Along
<1>5. ASSUME NEW t \in net.tracks, NEW x \in Places, NEW y \in Places, t.a <= x, x < y, y <= t.b,
             << t.layer, x >> \in Nodes(net), << t.layer, y >> \in Nodes(net),
             \A z \in Places : x < z /\ z < y => << t.layer, z >> \notin Nodes(net)
      PROVE  << << t.layer, x >>, << t.layer, y >>, y - x >> \in TrackEdges(net)
  <2>1. x \in on(t) /\ y \in on(t) /\ ~\E z \in on(t) : x < z /\ z < y
    <3>1. t.a \in Nat /\ t.b \in Nat /\ x \in Nat /\ y \in Nat
      BY <1>2, <1>3
    <3>2. Along(t, x) /\ Along(t, y)
      BY <1>5, <3>1 DEF Along
    <3> QED BY <1>5, <3>2
  <2> DEFINE q == << x, y >>
  <2>2. q \in Consecutive(on(t)) /\ q[1] = x /\ q[2] = y
    <3> HIDE DEF on
    <3> QED BY <1>5, <2>1 DEF Consecutive
  <2> HIDE DEF on, q
  <2>3. << << t.layer, x >>, << t.layer, y >>, y - x >> \in of(t)
    BY <2>2
  <2> QED BY <1>1, <2>3
<1> QED BY <1>4, <1>5

LEMMA ViaEdgesAre ==
  ASSUME NEW net, Drawn(net)
  PROVE  /\ \A e \in ViaEdges(net) : \E v \in net.vias : \E l, m \in v.layers :
              e = << << l, v.x >>, << m, v.x >>, 0 >>
         /\ \A v \in net.vias :
              \A q \in Consecutive({i \in DOMAIN CopperLayers : CopperLayers[i] \in v.layers}) :
                << << CopperLayers[q[1]], v.x >>, << CopperLayers[q[2]], v.x >>, 0 >> \in ViaEdges(net)
<1> DEFINE listed(v) == {i \in DOMAIN CopperLayers : CopperLayers[i] \in v.layers}
           of(v) == {<< << CopperLayers[q[1]], v.x >>, << CopperLayers[q[2]], v.x >>, 0 >> : q \in Consecutive(listed(v))}
<1>1. ViaEdges(net) = UNION {of(v) : v \in net.vias}
  BY DEF ViaEdges
<1>2. ASSUME NEW e \in ViaEdges(net)
      PROVE  \E v \in net.vias : \E l, m \in v.layers : e = << << l, v.x >>, << m, v.x >>, 0 >>
  <2>1. PICK v \in net.vias : e \in of(v)
    <3> HIDE DEF of
    <3> QED BY <1>1
  <2>2. PICK q \in Consecutive(listed(v)) : e = << << CopperLayers[q[1]], v.x >>, << CopperLayers[q[2]], v.x >>, 0 >>
    <3> HIDE DEF listed
    <3> QED BY <2>1
  <2>3. q[1] \in listed(v) /\ q[2] \in listed(v)
    <3> HIDE DEF listed
    <3> QED BY DEF Consecutive
  <2> QED BY <2>2, <2>3
<1>3. ASSUME NEW v \in net.vias, NEW q \in Consecutive(listed(v))
      PROVE  << << CopperLayers[q[1]], v.x >>, << CopperLayers[q[2]], v.x >>, 0 >> \in ViaEdges(net)
  <2> HIDE DEF listed
  <2>1. << << CopperLayers[q[1]], v.x >>, << CopperLayers[q[2]], v.x >>, 0 >> \in of(v)
    OBVIOUS
  <2> HIDE DEF of
  <2> QED BY <1>1, <2>1
<1> QED BY <1>2, <1>3

LEMMA PourEdgesAre ==
  ASSUME NEW net
  PROVE  /\ \A e \in PourEdges(net) : \E z \in net.pours : \E p \in net.pads :
              /\ e = << << z.layer, p.x >>, << "zone", z >>, 0 >>
              /\ z.layer \in PadLayers(p) /\ Along(z, p.x)
         /\ \A z \in net.pours, p \in net.pads :
              z.layer \in PadLayers(p) /\ Along(z, p.x)
                => << << z.layer, p.x >>, << "zone", z >>, 0 >> \in PourEdges(net)
<1> DEFINE in(z) == {p \in net.pads : z.layer \in PadLayers(p) /\ Along(z, p.x)}
           of(z) == {<< << z.layer, p.x >>, << "zone", z >>, 0 >> : p \in in(z)}
<1>1. PourEdges(net) = UNION {of(z) : z \in net.pours}
  BY DEF PourEdges
<1>2. \A z \in net.pours : \A e \in of(z) : \E p \in net.pads :
        /\ e = << << z.layer, p.x >>, << "zone", z >>, 0 >>
        /\ z.layer \in PadLayers(p) /\ Along(z, p.x)
  OBVIOUS
<1>3. \A z \in net.pours, p \in net.pads :
        z.layer \in PadLayers(p) /\ Along(z, p.x) => << << z.layer, p.x >>, << "zone", z >>, 0 >> \in of(z)
  OBVIOUS
<1> HIDE DEF of
<1> QED BY <1>1, <1>2, <1>3

LEMMA CopperEdgesAre ==
  ASSUME NEW net
  PROVE  /\ CopperEdges(net) = CopperSteps(net) \cup CopperBarrels(net) \cup CopperPins(net) \cup CopperFills(net)
         /\ \A e : e \in CopperSteps(net) <=>
              \E t \in net.tracks : \E x \in t.a .. t.b - 1 : e = << << t.layer, x >>, << t.layer, x + 1 >>, 1 >>
         /\ \A e : e \in CopperBarrels(net) <=>
              \E v \in net.vias : \E l, m \in v.spans : e = << << l, v.x >>, << m, v.x >>, 0 >>
         /\ \A e : e \in CopperPins(net) <=>
              \E p \in net.pads : p.through /\ \E l, m \in LayerNames : e = << << l, p.x >>, << m, p.x >>, 0 >>
         /\ \A e : e \in CopperFills(net) <=>
              \E z \in net.pours : \E x \in z.a .. z.b : e = << << z.layer, x >>, << "zone", z >>, 0 >>
<1>1. CopperEdges(net) = CopperSteps(net) \cup CopperBarrels(net) \cup CopperPins(net) \cup CopperFills(net)
  BY DEF CopperEdges
<1>2. \A e : e \in CopperSteps(net) <=>
        \E t \in net.tracks : \E x \in t.a .. t.b - 1 : e = << << t.layer, x >>, << t.layer, x + 1 >>, 1 >>
  <2> DEFINE of(t) == {<< << t.layer, x >>, << t.layer, x + 1 >>, 1 >> : x \in t.a .. t.b - 1}
  <2>1. CopperSteps(net) = UNION {of(t) : t \in net.tracks}
    BY DEF CopperSteps
  <2>2. \A t \in net.tracks : \A e : e \in of(t) <=>
          \E x \in t.a .. t.b - 1 : e = << << t.layer, x >>, << t.layer, x + 1 >>, 1 >>
    BY Zenon
  <2> HIDE DEF of
  <2> QED BY <2>1, <2>2
<1>3. \A e : e \in CopperBarrels(net) <=>
        \E v \in net.vias : \E l, m \in v.spans : e = << << l, v.x >>, << m, v.x >>, 0 >>
  <2> DEFINE of(v) == {<< << q[1], v.x >>, << q[2], v.x >>, 0 >> : q \in v.spans \X v.spans}
  <2>1. CopperBarrels(net) = UNION {of(v) : v \in net.vias}
    BY DEF CopperBarrels
  <2>2. \A v \in net.vias : \A e : e \in of(v) <=> \E l, m \in v.spans : e = << << l, v.x >>, << m, v.x >>, 0 >>
    <3> SUFFICES ASSUME NEW v \in net.vias, NEW e
                 PROVE  e \in of(v) <=> \E l, m \in v.spans : e = << << l, v.x >>, << m, v.x >>, 0 >>
      OBVIOUS
    <3>1. ASSUME e \in of(v) PROVE \E l, m \in v.spans : e = << << l, v.x >>, << m, v.x >>, 0 >>
      BY <3>1
    <3>2. ASSUME NEW l \in v.spans, NEW m \in v.spans, e = << << l, v.x >>, << m, v.x >>, 0 >> PROVE e \in of(v)
      <4> DEFINE q == << l, m >>
      <4>1. q \in v.spans \X v.spans /\ q[1] = l /\ q[2] = m
        OBVIOUS
      <4> HIDE DEF q
      <4> QED BY <3>2, <4>1
    <3> QED BY <3>1, <3>2
  <2> HIDE DEF of
  <2> QED BY <2>1, <2>2
<1>4. \A e : e \in CopperPins(net) <=>
        \E p \in net.pads : p.through /\ \E l, m \in LayerNames : e = << << l, p.x >>, << m, p.x >>, 0 >>
  <2> DEFINE of(p) == {<< << q[1], p.x >>, << q[2], p.x >>, 0 >> : q \in LayerNames \X LayerNames}
             pads == {p \in net.pads : p.through}
  <2>1. CopperPins(net) = UNION {of(p) : p \in pads}
    BY DEF CopperPins
  <2>2. \A p \in pads : \A e : e \in of(p) <=> \E l, m \in LayerNames : e = << << l, p.x >>, << m, p.x >>, 0 >>
    <3> SUFFICES ASSUME NEW p \in pads, NEW e
                 PROVE  e \in of(p) <=> \E l, m \in LayerNames : e = << << l, p.x >>, << m, p.x >>, 0 >>
      OBVIOUS
    <3>1. ASSUME e \in of(p) PROVE \E l, m \in LayerNames : e = << << l, p.x >>, << m, p.x >>, 0 >>
      BY <3>1
    <3>2. ASSUME NEW l \in LayerNames, NEW m \in LayerNames, e = << << l, p.x >>, << m, p.x >>, 0 >> PROVE e \in of(p)
      <4> DEFINE q == << l, m >>
      <4>1. q \in LayerNames \X LayerNames /\ q[1] = l /\ q[2] = m
        OBVIOUS
      <4> HIDE DEF q
      <4> QED BY <3>2, <4>1
    <3> QED BY <3>1, <3>2
  <2>3. \A p : p \in pads <=> p \in net.pads /\ p.through
    OBVIOUS
  <2> HIDE DEF of, pads
  <2> QED BY <2>1, <2>2, <2>3
<1>5. \A e : e \in CopperFills(net) <=>
        \E z \in net.pours : \E x \in z.a .. z.b : e = << << z.layer, x >>, << "zone", z >>, 0 >>
  <2> DEFINE of(z) == {<< << z.layer, x >>, << "zone", z >>, 0 >> : x \in z.a .. z.b}
  <2>1. CopperFills(net) = UNION {of(z) : z \in net.pours}
    BY DEF CopperFills
  <2>2. \A z \in net.pours : \A e : e \in of(z) <=> \E x \in z.a .. z.b : e = << << z.layer, x >>, << "zone", z >>, 0 >>
    BY Zenon
  <2> HIDE DEF of
  <2> QED BY <2>1, <2>2
<1> QED BY <1>1, <1>2, <1>3, <1>4, <1>5

LEMMA EdgesAreOfTheBoard ==
  ASSUME NEW net, Drawn(net)
  PROVE  Over(Edges(net), Points(net)) /\ Over(CopperEdges(net), Points(net))
<1>1. \A l \in LayerNames, x \in Places : << l, x >> \in Points(net)
  BY DEF Points
<1>2. \A z \in net.pours : << "zone", z >> \in Points(net)
  BY DEF Points
<1>3. \A t \in net.tracks \cup net.pours : t.layer \in LayerNames /\ t.a \in Places /\ t.b \in Places
  BY DEF Drawn
<1>4. \A x \in Places : x \in Nat
  BY Stretch
<1>5. ASSUME NEW e \in Edges(net) PROVE e[1] \in Points(net) /\ e[2] \in Points(net) /\ e[3] \in Nat
  <2>1. CASE e \in TrackEdges(net)
    <3>1. PICK t \in net.tracks, x, y \in Places :
            e = << << t.layer, x >>, << t.layer, y >>, y - x >> /\ t.a <= x /\ x < y /\ y <= t.b
      BY <2>1, TrackEdgesAre
    <3>2. x \in Nat /\ y \in Nat /\ e[1] = << t.layer, x >> /\ e[2] = << t.layer, y >> /\ e[3] = y - x
      BY <1>4, <3>1
    <3> QED BY <1>1, <1>3, <3>1, <3>2
  <2>2. CASE e \in ViaEdges(net)
    <3>1. PICK v \in net.vias : \E l, m \in v.layers : e = << << l, v.x >>, << m, v.x >>, 0 >>
      BY <2>2, ViaEdgesAre
    <3>2. v.layers \subseteq LayerNames /\ v.x \in Places
      BY DEF Drawn
    <3> QED BY <1>1, <3>1, <3>2
  <2>3. CASE e \in PourEdges(net)
    <3>1. PICK z \in net.pours : \E p \in net.pads : e = << << z.layer, p.x >>, << "zone", z >>, 0 >>
      BY <2>3, PourEdgesAre
    <3>2. PICK p \in net.pads : e = << << z.layer, p.x >>, << "zone", z >>, 0 >>
      BY <3>1
    <3>3. p.x \in Places
      BY DEF Drawn
    <3> QED BY <1>1, <1>2, <1>3, <3>2, <3>3
  <2> QED BY <2>1, <2>2, <2>3 DEF Edges
<1>6. ASSUME NEW e \in CopperEdges(net) PROVE e[1] \in Points(net) /\ e[2] \in Points(net) /\ e[3] \in Nat
  <2>1. CASE e \in CopperSteps(net)
    <3>1. PICK t \in net.tracks : \E x \in t.a .. t.b - 1 : e = << << t.layer, x >>, << t.layer, x + 1 >>, 1 >>
      BY <2>1, CopperEdgesAre
    <3>2. PICK x \in t.a .. t.b - 1 : e = << << t.layer, x >>, << t.layer, x + 1 >>, 1 >>
      BY <3>1
    <3>3. t.layer \in LayerNames /\ t.a \in Nat /\ t.b \in Nat /\ t.a .. t.b \subseteq Places
      BY <1>3, Stretch
    <3>4. x \in Places /\ x + 1 \in Places
      BY <3>3
    <3> QED BY <1>1, <3>2, <3>3, <3>4
  <2>2. CASE e \in CopperBarrels(net)
    <3>1. PICK v \in net.vias : \E l, m \in v.spans : e = << << l, v.x >>, << m, v.x >>, 0 >>
      BY <2>2, CopperEdgesAre
    <3>2. v.spans \subseteq LayerNames /\ v.x \in Places
      BY DEF Drawn
    <3> QED BY <1>1, <3>1, <3>2
  <2>3. CASE e \in CopperPins(net)
    <3>1. PICK p \in net.pads : \E l, m \in LayerNames : e = << << l, p.x >>, << m, p.x >>, 0 >>
      BY <2>3, CopperEdgesAre
    <3>2. p.x \in Places
      BY DEF Drawn
    <3> QED BY <1>1, <3>1, <3>2
  <2>4. CASE e \in CopperFills(net)
    <3>1. PICK z \in net.pours : \E x \in z.a .. z.b : e = << << z.layer, x >>, << "zone", z >>, 0 >>
      BY <2>4, CopperEdgesAre
    <3>2. PICK x \in z.a .. z.b : e = << << z.layer, x >>, << "zone", z >>, 0 >>
      BY <3>1
    <3>3. z.layer \in LayerNames /\ z.a .. z.b \subseteq Places
      BY <1>3, Stretch
    <3>4. x \in Places
      BY <3>3
    <3> QED BY <1>1, <1>2, <3>2, <3>3, <3>4
  <2> QED BY <2>1, <2>2, <2>3, <2>4, CopperEdgesAre
<1> QED BY <1>5, <1>6 DEF Over

\* Each end of an edge of the graph is copper that is joined to something.
LEMMA EndsAreCopper ==
  ASSUME NEW net, Drawn(net)
  PROVE  Ends(Edges(net)) \subseteq Ends(CopperEdges(net))
<1>1. \A e \in CopperEdges(net) : e[1] \in Ends(CopperEdges(net)) /\ e[2] \in Ends(CopperEdges(net))
  BY DEF Ends
<1>2. CopperSteps(net) \subseteq CopperEdges(net) /\ CopperBarrels(net) \subseteq CopperEdges(net)
      /\ CopperFills(net) \subseteq CopperEdges(net)
  BY CopperEdgesAre
<1>3. SUFFICES ASSUME NEW e \in Edges(net)
               PROVE  e[1] \in Ends(CopperEdges(net)) /\ e[2] \in Ends(CopperEdges(net))
  BY DEF Ends
<1>4. CASE e \in TrackEdges(net)
  <2>1. PICK t \in net.tracks, x, y \in Places :
          e = << << t.layer, x >>, << t.layer, y >>, y - x >> /\ t.a <= x /\ x < y /\ y <= t.b
    BY <1>4, TrackEdgesAre
  <2>2. x \in Nat /\ y \in Nat /\ t.a \in Nat /\ t.b \in Nat
    BY Stretch DEF Drawn
  <2> DEFINE first == << << t.layer, x >>, << t.layer, x + 1 >>, 1 >>
             last == << << t.layer, y - 1 >>, << t.layer, (y - 1) + 1 >>, 1 >>
  <2>3. first \in CopperSteps(net) /\ last \in CopperSteps(net)
    <3>1. x \in t.a .. t.b - 1 /\ y - 1 \in t.a .. t.b - 1
      BY <2>1, <2>2
    <3> QED BY <3>1, CopperEdgesAre
  <2>4. first[1] = e[1] /\ last[2] = e[2]
    BY <2>1, <2>2
  <2> HIDE DEF first, last
  <2> QED BY <1>1, <1>2, <2>3, <2>4
<1>5. CASE e \in ViaEdges(net)
  <2>1. PICK v \in net.vias : \E l, m \in v.layers : e = << << l, v.x >>, << m, v.x >>, 0 >>
    BY <1>5, ViaEdgesAre
  <2>2. v.layers \subseteq v.spans
    BY DEF Drawn
  <2>3. e \in CopperBarrels(net)
    BY <2>1, <2>2, CopperEdgesAre
  <2> QED BY <1>1, <1>2, <2>3
<1>6. CASE e \in PourEdges(net)
  <2>1. PICK z \in net.pours : \E p \in net.pads :
          e = << << z.layer, p.x >>, << "zone", z >>, 0 >> /\ Along(z, p.x)
    BY <1>6, PourEdgesAre
  <2>2. PICK p \in net.pads : e = << << z.layer, p.x >>, << "zone", z >>, 0 >> /\ Along(z, p.x)
    BY <2>1
  <2>3. p.x \in z.a .. z.b
    <3>1. p.x \in Nat /\ z.a \in Nat /\ z.b \in Nat
      BY Stretch DEF Drawn
    <3> QED BY <2>2, <3>1 DEF Along
  <2>4. e \in CopperFills(net)
    BY <2>2, <2>3, CopperEdgesAre
  <2> QED BY <1>1, <1>2, <2>4
<1> QED BY <1>4, <1>5, <1>6 DEF Edges

\* Where one search comes at least as near as another, its route is no longer.
LEMMA RoutesCompare ==
  ASSUME NEW net, NEW N, IsFiniteSet(N), NEW some, Over(some, N), NEW other, Over(other, N),
         NEW p \in net.pads, NEW q \in net.pads,
         \A r \in _dijkstra(some, Anchors(some, p)) : r[1] \in Anchors(some, q) =>
           \E s \in _dijkstra(other, Anchors(other, p)) : s[1] \in Anchors(other, q) /\ s[2] <= r[2]
  PROVE  /\ RoutesFrom(net, other, p)[q] <= RoutesFrom(net, some, p)[q]
         /\ RoutesFrom(net, other, p)[q] \in Int /\ RoutesFrom(net, some, p)[q] \in Int
<1> DEFINE D(edges) == _dijkstra(edges, Anchors(edges, p))
           S(edges) == {r[2] : r \in {r \in D(edges) : r[1] \in Anchors(edges, q)}} \cup {Far}
           bound == Longest + Far
<1>1. \A edges \in {some, other} : Anchors(edges, p) \subseteq N
  BY DEF Anchors, Ends, Over
<1>2. D(some) \subseteq N \X (0 .. Longest) /\ D(other) \subseteq N \X (0 .. Longest)
  <2>1. ASSUME NEW edges, edges \in {some, other} PROVE D(edges) \subseteq N \X (0 .. Longest)
    BY <1>1, <2>1, Searching
  <2> QED BY <2>1
<1>3. bound \in Nat /\ Far \in 0 .. bound /\ 0 .. Longest \subseteq 0 .. bound
  BY LongestIsANumber DEF Far
<1> HIDE DEF D, bound
<1>4. \A edges \in {some, other} :
        /\ S(edges) \in SUBSET (0 .. bound) /\ S(edges) # {} /\ Far \in S(edges)
        /\ RoutesFrom(net, edges, p)[q] = Min(S(edges))
        /\ \A r \in D(edges) : r[1] \in Anchors(edges, q) => r[2] \in S(edges)
        /\ \A d \in S(edges) : d = Far \/ \E r \in D(edges) : r[1] \in Anchors(edges, q) /\ d = r[2]
  BY <1>2, <1>3 DEF RoutesFrom, D
<1> HIDE DEF S
<1>5. \A edges \in {some, other} : Min(S(edges)) \in S(edges) /\ \A d \in S(edges) : Min(S(edges)) <= d
  BY <1>3, <1>4, LeastIndex
<1> DEFINE a == Min(S(some))
           b == Min(S(other))
<1>6. a \in S(some) /\ b \in S(other) /\ (\A d \in S(other) : b <= d) /\ a \in Int /\ b \in Int
  BY <1>3, <1>4, <1>5
<1> HIDE DEF a, b
<1>7. b <= a
  <2>1. CASE a = Far
    BY <1>4, <1>6, <2>1
  <2>2. CASE a # Far
    <3>1. PICK r \in D(some) : r[1] \in Anchors(some, q) /\ a = r[2]
      BY <1>4, <1>6, <2>2
    <3>2. PICK s \in D(other) : s[1] \in Anchors(other, q) /\ s[2] <= r[2]
      BY <3>1 DEF D
    <3>3. s[2] \in S(other) /\ s[2] \in Int
      BY <1>3, <1>4, <3>2
    <3> QED BY <1>6, <3>1, <3>2, <3>3
  <2> QED BY <2>1, <2>2
<1> QED BY <1>4, <1>6, <1>7 DEF a, b

\* Copper goes on along its track.
LEMMA CopperGoesAlong ==
  ASSUME NEW net, Drawn(net), NEW D, ClosedUnder(D, CopperEdges(net)),
         NEW t \in net.tracks, NEW x \in Places, NEW y \in Places, t.a <= x, x < y, y <= t.b
  PROVE  /\ Onward(D, << t.layer, x >>, << t.layer, y >>, y - x)
         /\ Onward(D, << t.layer, y >>, << t.layer, x >>, y - x)
<1>1. x \in Nat /\ y \in Nat /\ t.a \in Nat /\ t.b \in Nat
  BY Stretch DEF Drawn
<1>2. \A k \in x .. y - 1 : /\ Onward(D, << t.layer, k >>, << t.layer, k + 1 >>, 1)
                            /\ Onward(D, << t.layer, k + 1 >>, << t.layer, k >>, 1)
  <2> SUFFICES ASSUME NEW k \in x .. y - 1
               PROVE  /\ Onward(D, << t.layer, k >>, << t.layer, k + 1 >>, 1)
                      /\ Onward(D, << t.layer, k + 1 >>, << t.layer, k >>, 1)
    OBVIOUS
  <2> DEFINE e == << << t.layer, k >>, << t.layer, k + 1 >>, 1 >>
  <2>1. k \in t.a .. t.b - 1
    BY <1>1
  <2>2. e \in CopperEdges(net)
    BY <2>1, CopperEdgesAre
  <2>3. e[1] = << t.layer, k >> /\ e[2] = << t.layer, k + 1 >> /\ e[3] = 1
    OBVIOUS
  <2> HIDE DEF e
  <2> QED BY <2>2, <2>3 DEF ClosedUnder
<1> DEFINE n == y - x
           There(i) == Onward(D, << t.layer, x >>, << t.layer, x + i >>, i)
           Back(i) == Onward(D, << t.layer, x + i >>, << t.layer, x >>, i)
           Bad == {i \in 0 .. n : ~(There(i) /\ Back(i))}
<1>3. Bad = {}
  <2> SUFFICES ASSUME Bad # {} PROVE FALSE
    OBVIOUS
  <2>1. n \in Nat /\ Bad \in SUBSET (0 .. n)
    BY <1>1
  <2>2. PICK i \in Bad : \A j \in Bad : i <= j
    <3> HIDE DEF Bad, n
    <3> QED BY <2>1, LeastIndex
  <2>3. i \in 0 .. n /\ ~(There(i) /\ Back(i))
    OBVIOUS
  <2>4. There(0) /\ Back(0)
    BY <1>1 DEF Onward
  <2>5. i # 0
    <3> HIDE DEF There, Back
    <3> QED BY <2>3, <2>4
  <2> DEFINE j == i - 1
  <2>6. j \in 0 .. n /\ ~(i <= j) /\ j + 1 = i /\ j \in Nat
    BY <2>1, <2>3, <2>5
  <2>7. There(j) /\ Back(j)
    <3> HIDE DEF There, Back, j
    <3> QED BY <2>2, <2>6
  <2>8. /\ Onward(D, << t.layer, x + j >>, << t.layer, x + i >>, 1)
        /\ Onward(D, << t.layer, x + i >>, << t.layer, x + j >>, 1)
    <3>1. x + j \in x .. y - 1 /\ (x + j) + 1 = x + i
      BY <1>1, <2>3, <2>6
    <3> HIDE DEF j
    <3> QED BY <1>2, <3>1
  <2> HIDE DEF j
  <2>9. There(j + 1) /\ Back(1 + j)
    <3>1. Onward(D, << t.layer, x >>, << t.layer, x + i >>, j + 1)
      BY <2>6, <2>7, <2>8, OnwardTwice
    <3>2. Onward(D, << t.layer, x + i >>, << t.layer, x >>, 1 + j)
      BY <2>6, <2>7, <2>8, OnwardTwice
    <3>3. j + 1 = i /\ 1 + j = i
      BY <2>6
    <3> QED BY <3>1, <3>2, <3>3
  <2>10. j + 1 = i /\ 1 + j = i
    BY <2>6
  <2> HIDE DEF There, Back
  <2> QED BY <2>3, <2>9, <2>10
<1>4. There(n) /\ Back(n)
  <2>1. n \in 0 .. n
    BY <1>1
  <2> HIDE DEF There, Back, n
  <2> QED BY <1>3, <2>1
<1>5. x + n = y
  BY <1>1
<1> HIDE DEF n
<1>6. Onward(D, << t.layer, x >>, << t.layer, y >>, n) /\ Onward(D, << t.layer, y >>, << t.layer, x >>, n)
  BY <1>4, <1>5
<1> QED BY <1>6 DEF n

\* A path that is reported is one of the copper, and no longer than there is one.
LEMMA PathsAreReal ==
  ASSUME NEW net, Drawn(net), NEW p \in net.pads, NEW q \in net.pads
  PROVE  /\ CopperPath(net, p)[q] <= path(net, p)[q]
         /\ CopperPath(net, p)[q] \in Int /\ path(net, p)[q] \in Int
<1> DEFINE D == _dijkstra(CopperEdges(net), Anchors(CopperEdges(net), p))
<1>1. IsFiniteSet(Points(net)) /\ Over(Edges(net), Points(net)) /\ Over(CopperEdges(net), Points(net))
  BY PointsAreFinite, EdgesAreOfTheBoard
<1>2. \A o \in net.pads : /\ Anchors(Edges(net), o) \subseteq Anchors(CopperEdges(net), o)
                          /\ Anchors(CopperEdges(net), o) \subseteq Points(net)
                          /\ Anchors(Edges(net), o) \subseteq Points(net)
  BY <1>1, EndsAreCopper DEF Anchors, Ends, Over
<1>3. Anchors(CopperEdges(net), p) \X {0} \subseteq D /\ ClosedUnder(D, CopperEdges(net))
  BY <1>1, <1>2, Searching
<1>4. ClosedUnder(D, Edges(net))
  <2> HIDE DEF D
  <2> SUFFICES ASSUME NEW e \in Edges(net)
               PROVE  Onward(D, e[1], e[2], e[3]) /\ Onward(D, e[2], e[1], e[3])
    BY DEF ClosedUnder
  <2>1. CASE e \in TrackEdges(net)
    <3>1. PICK t \in net.tracks, x, y \in Places :
            e = << << t.layer, x >>, << t.layer, y >>, y - x >> /\ t.a <= x /\ x < y /\ y <= t.b
      BY <2>1, TrackEdgesAre
    <3>2. /\ Onward(D, << t.layer, x >>, << t.layer, y >>, y - x)
          /\ Onward(D, << t.layer, y >>, << t.layer, x >>, y - x)
      BY <1>3, <3>1, CopperGoesAlong
    <3> QED BY <3>1, <3>2
  <2>2. CASE e \in ViaEdges(net)
    <3>1. PICK v \in net.vias : \E l, m \in v.layers : e = << << l, v.x >>, << m, v.x >>, 0 >>
      BY <2>2, ViaEdgesAre
    <3>2. v.layers \subseteq v.spans
      BY DEF Drawn
    <3>3. e \in CopperEdges(net)
      BY <3>1, <3>2, CopperEdgesAre
    <3> QED BY <1>3, <3>3 DEF ClosedUnder
  <2>3. CASE e \in PourEdges(net)
    <3>1. PICK z \in net.pours : \E o \in net.pads :
            e = << << z.layer, o.x >>, << "zone", z >>, 0 >> /\ Along(z, o.x)
      BY <2>3, PourEdgesAre
    <3>2. PICK o \in net.pads : e = << << z.layer, o.x >>, << "zone", z >>, 0 >> /\ Along(z, o.x)
      BY <3>1
    <3>3. o.x \in z.a .. z.b
      <4>1. o.x \in Nat /\ z.a \in Nat /\ z.b \in Nat
        BY Stretch DEF Drawn
      <4> QED BY <3>2, <4>1 DEF Along
    <3>4. e \in CopperEdges(net)
      BY <3>2, <3>3, CopperEdgesAre
    <3> QED BY <1>3, <3>4 DEF ClosedUnder
  <2> QED BY <2>1, <2>2, <2>3 DEF Edges
<1>5. _dijkstra(Edges(net), Anchors(Edges(net), p)) \subseteq D
  <2>1. Anchors(Edges(net), p) \X {0} \subseteq D
    BY <1>2, <1>3
  <2> HIDE DEF D
  <2> QED BY <1>1, <1>2, <1>4, <2>1, Searching
<1>6. \A r \in _dijkstra(Edges(net), Anchors(Edges(net), p)) : r[1] \in Anchors(Edges(net), q) =>
        \E s \in D : s[1] \in Anchors(CopperEdges(net), q) /\ s[2] <= r[2]
  <2> SUFFICES ASSUME NEW r \in _dijkstra(Edges(net), Anchors(Edges(net), p)), r[1] \in Anchors(Edges(net), q)
               PROVE  r \in D /\ r[1] \in Anchors(CopperEdges(net), q) /\ r[2] <= r[2]
    OBVIOUS
  <2>1. r \in Points(net) \X (0 .. Longest)
    BY <1>1, <1>2, Searching
  <2>2. r[2] \in Int
    BY <2>1
  <2> HIDE DEF D
  <2> QED BY <1>2, <1>5, <2>2
<1> QED BY <1>1, <1>6, RoutesCompare DEF path, CopperPath

\* On a net of tracks and vias: the node that copper at a place is nearest to on
\* its way, itself if it is one, and how far a search has come there.
Distance(x, y) == IF x < y THEN y - x ELSE x - y
Between(z, x, y) == (x <= z /\ z <= y) \/ (y <= z /\ z <= x)
Near(net, l, x, y) ==
  /\ << l, y >> \in Nodes(net)
  /\ \A z \in Places : Between(z, x, y) /\ z # y => << l, z >> \notin Nodes(net)
  /\ x # y => \E t \in net.tracks : t.layer = l /\ Along(t, x) /\ Along(t, y)
HeldWithin(net, D, l, x, d) ==
  \E y \in Places, e \in 0 .. Longest : Near(net, l, x, y) /\ << << l, y >>, e >> \in D /\ e + Distance(x, y) <= d

LEMMA NodesAre ==
  ASSUME NEW net
  PROVE  /\ \A t \in net.tracks : << t.layer, t.a >> \in Nodes(net) /\ << t.layer, t.b >> \in Nodes(net)
         /\ \A v \in net.vias : \A l \in v.layers : << l, v.x >> \in Nodes(net)
         /\ \A p \in net.pads : \A l \in p.layers \cap LayerNames : << l, p.x >> \in Nodes(net)
<1> DEFINE ends == UNION {{<< t.layer, t.a >>, << t.layer, t.b >>} : t \in net.tracks}
           of(v) == {<< l, v.x >> : l \in v.layers}
           barrels == UNION {of(v) : v \in net.vias}
           at(p) == {<< l, p.x >> : l \in p.layers \cap LayerNames}
           pins == UNION {at(p) : p \in net.pads}
<1>1. Nodes(net) = ends \cup barrels \cup pins
  BY DEF Nodes
<1>2. \A t \in net.tracks : << t.layer, t.a >> \in ends /\ << t.layer, t.b >> \in ends
  OBVIOUS
<1>3. \A v \in net.vias : \A l \in v.layers : << l, v.x >> \in barrels
  <2>1. \A v \in net.vias : \A l \in v.layers : << l, v.x >> \in of(v)
    OBVIOUS
  <2> HIDE DEF of
  <2> QED BY <2>1
<1>4. \A p \in net.pads : \A l \in p.layers \cap LayerNames : << l, p.x >> \in pins
  <2>1. \A p \in net.pads : \A l \in p.layers \cap LayerNames : << l, p.x >> \in at(p)
    OBVIOUS
  <2> HIDE DEF at
  <2> QED BY <2>1
<1> HIDE DEF ends, barrels, pins
<1> QED BY <1>1, <1>2, <1>3, <1>4

\* A node is near itself.
LEMMA NodeIsNear ==
  ASSUME NEW net, NEW l, NEW x \in Places, << l, x >> \in Nodes(net), NEW D
  PROVE  /\ Near(net, l, x, x)
         /\ \A d \in 0 .. Longest : HeldWithin(net, D, l, x, d) <=> \E e \in 0 .. Longest : e <= d /\ << << l, x >>, e >> \in D
<1>1. \A y \in Places : y \in Nat
  BY Stretch
<1>2. Near(net, l, x, x)
  <2>1. \A z \in Places : Between(z, x, x) => z = x
    BY <1>1 DEF Between
  <2> QED BY <2>1 DEF Near
<1>3. \A y \in Places : Near(net, l, x, y) => y = x
  <2>1. \A y \in Places : Between(x, x, y)
    BY <1>1 DEF Between
  <2> QED BY <2>1 DEF Near
<1>4. Distance(x, x) = 0
  BY <1>1 DEF Distance
<1>5. \A e \in 0 .. Longest : e + 0 = e
  OBVIOUS
<1>6. ASSUME NEW d \in 0 .. Longest
      PROVE  HeldWithin(net, D, l, x, d) <=> \E e \in 0 .. Longest : e <= d /\ << << l, x >>, e >> \in D
  <2>1. ASSUME HeldWithin(net, D, l, x, d) PROVE \E e \in 0 .. Longest : e <= d /\ << << l, x >>, e >> \in D
    <3>1. PICK y \in Places, e \in 0 .. Longest :
            Near(net, l, x, y) /\ << << l, y >>, e >> \in D /\ e + Distance(x, y) <= d
      BY <2>1 DEF HeldWithin
    <3>2. y = x
      BY <1>3, <3>1
    <3> QED BY <1>4, <1>5, <3>1, <3>2
  <2>2. ASSUME NEW e \in 0 .. Longest, e <= d, << << l, x >>, e >> \in D PROVE HeldWithin(net, D, l, x, d)
    <3>1. e + Distance(x, x) <= d
      BY <1>4, <1>5, <2>2
    <3> QED BY <1>2, <2>2, <3>1 DEF HeldWithin
  <2> QED BY <2>1, <2>2
<1> QED BY <1>2, <1>6

\* One step along a track, either way, is followed by the search.
LEMMA TracksAreFollowed ==
  ASSUME NEW net, Drawn(net), NEW D, ClosedUnder(D, TrackEdges(net)),
         NEW t \in net.tracks, NEW x \in Places, NEW w \in Places, Along(t, x), Along(t, w),
         w = x + 1 \/ x = w + 1,
         NEW d \in 0 .. Longest, d + 1 <= Longest, HeldWithin(net, D, t.layer, x, d)
  PROVE  HeldWithin(net, D, t.layer, w, d + 1)
<1> DEFINE l == t.layer
<1>1. \A z \in Places : z \in Nat
  BY Stretch
<1>2. PICK y \in Places, e \in 0 .. Longest :
        Near(net, l, x, y) /\ << << l, y >>, e >> \in D /\ e + Distance(x, y) <= d
  BY DEF HeldWithin
<1>3. /\ << l, y >> \in Nodes(net)
      /\ \A z \in Places : Between(z, x, y) /\ z # y => << l, z >> \notin Nodes(net)
      /\ << l, t.a >> \in Nodes(net) /\ << l, t.b >> \in Nodes(net) /\ t.a \in Places /\ t.b \in Places
  BY <1>2, NodesAre DEF Near, Drawn
<1>4. /\ x \in Nat /\ w \in Nat /\ y \in Nat /\ t.a \in Nat /\ t.b \in Nat /\ d \in Nat /\ e \in Nat
      /\ Longest \in Nat
  BY <1>1, <1>3, LongestIsANumber
<1>5. t.a <= x /\ x <= t.b /\ t.a <= w /\ w <= t.b
  BY DEF Along
<1>6. d + 1 \in 0 .. Longest
  BY <1>4
\* Toward the node: it stays the nearest.
<1>7. CASE (w = x + 1 /\ w <= y) \/ (x = w + 1 /\ y <= w)
  <2>1. \A z \in Places : Between(z, w, y) => Between(z, x, y)
    <3> SUFFICES ASSUME NEW z \in Places, Between(z, w, y) PROVE Between(z, x, y)
      OBVIOUS
    <3>1. z \in Nat
      BY <1>1
    <3> QED BY <1>4, <1>7, <3>1 DEF Between
  <2>2. x # y /\ e + Distance(w, y) <= d + 1
    BY <1>2, <1>4, <1>7 DEF Distance
  <2>3. \E s \in net.tracks : s.layer = l /\ Along(s, w) /\ Along(s, y)
    <3>1. PICK s \in net.tracks : s.layer = l /\ Along(s, x) /\ Along(s, y)
      BY <1>2, <2>2 DEF Near
    <3>2. s.a \in Nat /\ s.b \in Nat
      BY <1>1 DEF Drawn
    <3>3. Along(s, w)
      BY <1>4, <1>7, <3>1, <3>2 DEF Along
    <3> QED BY <3>1, <3>3
  <2>4. Near(net, l, w, y)
    BY <1>3, <2>1, <2>3 DEF Near
  <2> QED BY <1>2, <2>2, <2>4 DEF HeldWithin
\* Away from it: the track's own end is no nearer, so the track covers it.
<1>8. CASE (w = x + 1 /\ y <= x) \/ (x = w + 1 /\ x <= y)
  <2>1. t.a <= y /\ y <= t.b
    <3>1. ~(t.a > y /\ w = x + 1)
      <4>1. t.a > y /\ w = x + 1 => Between(t.a, x, y) /\ t.a # y
        BY <1>4, <1>5, <1>8 DEF Between
      <4> QED BY <1>3, <4>1
    <3>2. ~(y > t.b /\ x = w + 1)
      <4>1. y > t.b /\ x = w + 1 => Between(t.b, x, y) /\ t.b # y
        BY <1>4, <1>5, <1>8 DEF Between
      <4> QED BY <1>3, <4>1
    <3> QED BY <1>4, <1>5, <1>8, <3>1, <3>2
  <2>2. Distance(w, y) = Distance(x, y) + 1 /\ w # y
    BY <1>4, <1>8 DEF Distance
  <2>3. \A z \in Places : Between(z, w, y) => z = w \/ Between(z, x, y)
    BY <1>1, <1>4, <1>8 DEF Between
  <2>4. CASE << l, w >> \notin Nodes(net)
    <3>1. Near(net, l, w, y)
      <4>1. Along(t, w) /\ Along(t, y)
        BY <2>1 DEF Along
      <4> QED BY <1>3, <2>3, <2>4, <4>1 DEF Near
    <3>2. Distance(x, y) \in Nat
      BY <1>4 DEF Distance
    <3>3. e + Distance(w, y) <= d + 1
      BY <1>2, <1>4, <2>2, <3>2
    <3> QED BY <1>2, <3>1, <3>3 DEF HeldWithin
  <2>5. CASE << l, w >> \in Nodes(net)
    <3> DEFINE far == Distance(w, y)
    <3>1. Onward(D, << l, y >>, << l, w >>, far)
      <4>1. CASE y < w
        <5> DEFINE edge == << << l, y >>, << l, w >>, w - y >>
        <5>1. \A z \in Places : y < z /\ z < w => << l, z >> \notin Nodes(net)
          <6>1. ASSUME NEW z \in Places, y < z, z < w PROVE Between(z, x, y) /\ z # y
            <7>1. z \in Nat
              BY <1>1
            <7> QED BY <1>4, <1>8, <4>1, <6>1, <7>1 DEF Between
          <6> QED BY <1>3, <6>1
        <5>2. edge \in TrackEdges(net)
          BY <1>3, <1>5, <2>1, <2>5, <4>1, <5>1, TrackEdgesAre
        <5>3. edge[1] = << l, y >> /\ edge[2] = << l, w >> /\ edge[3] = far
          BY <1>4, <4>1 DEF Distance
        <5> HIDE DEF edge, far
        <5> QED BY <5>2, <5>3 DEF ClosedUnder
      <4>2. CASE w < y
        <5> DEFINE edge == << << l, w >>, << l, y >>, y - w >>
        <5>1. \A z \in Places : w < z /\ z < y => << l, z >> \notin Nodes(net)
          <6>1. ASSUME NEW z \in Places, w < z, z < y PROVE Between(z, x, y) /\ z # y
            <7>1. z \in Nat
              BY <1>1
            <7> QED BY <1>4, <1>8, <4>2, <6>1, <7>1 DEF Between
          <6> QED BY <1>3, <6>1
        <5>2. edge \in TrackEdges(net)
          BY <1>3, <1>5, <2>1, <2>5, <4>2, <5>1, TrackEdgesAre
        <5>3. edge[1] = << l, w >> /\ edge[2] = << l, y >> /\ edge[3] = far
          BY <1>4, <4>2 DEF Distance
        <5> HIDE DEF edge, far
        <5> QED BY <5>2, <5>3 DEF ClosedUnder
      <4> QED BY <1>4, <2>2, <4>1, <4>2
    <3>2. Distance(x, y) \in Nat
      BY <1>4 DEF Distance
    <3>3. far \in Nat /\ e + far <= d + 1
      BY <1>2, <1>4, <2>2, <3>2
    <3> HIDE DEF far
    <3>4. e + far \in 0 .. Longest /\ e + far <= Longest
      BY <1>4, <3>3
    <3>5. << << l, w >>, e + far >> \in D
      BY <1>2, <3>1, <3>4 DEF Onward
    <3>6. HeldWithin(net, D, l, w, d + 1) <=> \E k \in 0 .. Longest : k <= d + 1 /\ << << l, w >>, k >> \in D
      BY <1>6, <2>5, NodeIsNear
    <3> QED BY <3>3, <3>4, <3>5, <3>6
  <2> QED BY <2>4, <2>5
<1> QED BY <1>4, <1>7, <1>8

\* A via's layers are joined, those that are listed, one after the other.
LEMMA ViasAreFollowed ==
  ASSUME NEW net, Drawn(net), NEW D, ClosedUnder(D, ViaEdges(net)),
         NEW v \in net.vias, NEW l \in v.layers, NEW m \in v.layers
  PROVE  Onward(D, << l, v.x >>, << m, v.x >>, 0)
<1> DEFINE listed == {i \in DOMAIN CopperLayers : CopperLayers[i] \in v.layers}
           at(i) == << CopperLayers[i], v.x >>
           n == Len(CopperLayers)
<1>1. n \in Nat /\ DOMAIN CopperLayers = 1 .. n
  BY TopologyAssumption, LenProperties DEF TopologyAssumption
<1>2. v.layers \subseteq LayerNames
  BY DEF Drawn
<1>3. PICK i \in DOMAIN CopperLayers, j \in DOMAIN CopperLayers : CopperLayers[i] = l /\ CopperLayers[j] = m
  BY <1>2 DEF LayerNames
<1>4. i \in listed /\ j \in listed /\ listed \subseteq 1 .. n /\ IsFiniteSet(listed)
  <2>1. IsFiniteSet(1 .. n)
    BY <1>1, FS_Interval
  <2> HIDE DEF n
  <2>2. i \in listed /\ j \in listed /\ listed \in SUBSET (1 .. n)
    BY <1>1, <1>3
  <2> HIDE DEF listed
  <2> QED BY <2>1, <2>2, FS_Subset
<1>5. \A q \in Consecutive(listed) : Onward(D, at(q[1]), at(q[2]), 0) /\ Onward(D, at(q[2]), at(q[1]), 0)
  <2> SUFFICES ASSUME NEW q \in Consecutive(listed)
               PROVE  Onward(D, at(q[1]), at(q[2]), 0) /\ Onward(D, at(q[2]), at(q[1]), 0)
    OBVIOUS
  <2> DEFINE e == << at(q[1]), at(q[2]), 0 >>
  <2>1. e \in ViaEdges(net)
    BY ViaEdgesAre
  <2>2. e[1] = at(q[1]) /\ e[2] = at(q[2]) /\ e[3] = 0
    OBVIOUS
  <2> HIDE DEF e, at
  <2> QED BY <2>1, <2>2 DEF ClosedUnder
<1> DEFINE Joined(a, b) == Onward(D, at(a), at(b), 0) /\ Onward(D, at(b), at(a), 0)
<1>6. ASSUME NEW a \in listed, NEW b \in listed, a <= b PROVE Joined(a, b)
  <2> DEFINE Bad == {k \in listed : a <= k /\ ~Joined(a, k)}
  <2> SUFFICES ASSUME Bad # {} PROVE FALSE
    BY <1>6
  <2>1. PICK k \in Bad : \A o \in Bad : k <= o
    <3>1. Bad \in SUBSET (0 .. n)
      BY <1>1, <1>4
    <3> HIDE DEF Bad, n
    <3> QED BY <1>1, <3>1, LeastIndex
  <2>2. k \in listed /\ a <= k /\ ~Joined(a, k)
    <3> HIDE DEF listed, Joined
    <3> QED OBVIOUS
  <2>3. a \in Nat /\ k \in Nat /\ listed \subseteq Int
    BY <1>1, <1>4, <2>2
  <2>4. Joined(a, a)
    <3>1. Onward(D, at(a), at(a), 0)
      <4> HIDE DEF at
      <4> QED BY DEF Onward
    <3> QED BY <3>1
  <2>5. a # k
    <3> HIDE DEF Joined
    <3> QED BY <2>2, <2>4
  <2>6. PICK y \in listed : a <= y /\ y < k /\ << y, k >> \in Consecutive(listed)
    <3>1. a < k
      BY <2>2, <2>3, <2>5
    <3> HIDE DEF listed
    <3> QED BY <1>4, <2>2, <2>3, <3>1, Neighbours
  <2>7. Joined(a, y)
    <3>1. y \in Nat /\ ~(k <= y)
      BY <2>3, <2>6
    <3> HIDE DEF listed, Joined
    <3> QED BY <2>1, <2>6, <3>1
  <2>8. Joined(y, k)
    <3> DEFINE q == << y, k >>
    <3>1. q \in Consecutive(listed) /\ q[1] = y /\ q[2] = k
      BY <2>6
    <3> HIDE DEF q, listed, at
    <3> QED BY <1>5, <3>1
  <2>9. Onward(D, at(a), at(k), 0 + 0) /\ Onward(D, at(k), at(a), 0 + 0)
    <3> HIDE DEF at
    <3> QED BY <2>7, <2>8, OnwardTwice
  <2> QED BY <2>2, <2>9
<1>7. i \in Nat /\ j \in Nat
  BY <1>1
<1>8. Joined(i, j) \/ Joined(j, i)
  <2> HIDE DEF Joined, listed
  <2> QED BY <1>4, <1>6, <1>7
<1> QED BY <1>3, <1>8

\* On a plain net of tracks and vias, a pad that lies on copper has a node there.
LEMMA PadsAreNodes ==
  ASSUME NEW net, Drawn(net), Plain(net), NEW p \in net.pads, NEW n \in Anchors(CopperEdges(net), p)
  PROVE  /\ n[1] \in LayerNames /\ n[2] = p.x /\ p.x \in Places /\ n[1] \in PadLayers(p)
         /\ n = << n[1], p.x >> /\ n \in Nodes(net)
<1>1. ~p.through /\ PadLayers(p) # {} /\ p.x \in Places
  BY DEF Plain, Drawn
<1>2. PadLayers(p) = p.layers \cap LayerNames
  BY <1>1 DEF PadLayers
<1>3. n[1] \in PadLayers(p) /\ n[2] = p.x /\ n \in Points(net)
  BY <1>1, EdgesAreOfTheBoard DEF Anchors, Ends, Over
<1>4. n = << n[1], p.x >>
  BY <1>3 DEF Points
<1> QED BY <1>1, <1>2, <1>3, <1>4, NodesAre

LEMMA PlainEnds ==
  ASSUME NEW net, Drawn(net), Plain(net), net.pours = {}, NEW p \in net.pads
  PROVE  Anchors(CopperEdges(net), p) \subseteq Anchors(Edges(net), p)
<1> SUFFICES ASSUME NEW n \in Anchors(CopperEdges(net), p) PROVE n \in Ends(Edges(net))
  BY DEF Anchors
<1>1. /\ n[1] \in LayerNames /\ n[2] = p.x /\ p.x \in Places /\ n = << n[1], p.x >> /\ n \in Nodes(net)
  BY PadsAreNodes
<1>2. \A e \in Edges(net) : e[1] \in Ends(Edges(net)) /\ e[2] \in Ends(Edges(net))
  BY DEF Ends
<1>3. TrackEdges(net) \subseteq Edges(net) /\ ViaEdges(net) \subseteq Edges(net)
  BY DEF Edges
<1>4. PICK e \in CopperEdges(net) : n = e[1] \/ n = e[2]
  BY DEF Anchors, Ends
<1>5. CASE e \in CopperSteps(net)
  <2>1. PICK t \in net.tracks : \E x \in t.a .. t.b - 1 : e = << << t.layer, x >>, << t.layer, x + 1 >>, 1 >>
    BY <1>5, CopperEdgesAre
  <2>2. PICK x \in t.a .. t.b - 1 : e = << << t.layer, x >>, << t.layer, x + 1 >>, 1 >>
    BY <2>1
  <2>3. t.a \in Places /\ t.b \in Places /\ t.a \in Nat /\ t.b \in Nat /\ p.x \in Nat
    BY <1>1, Stretch DEF Drawn
  <2>4. n[1] = t.layer /\ t.a <= p.x /\ p.x <= t.b /\ t.a < t.b
    <3>1. e[1] = << t.layer, x >> /\ e[2] = << t.layer, x + 1 >>
      BY <2>2
    <3>2. n[1] = t.layer /\ (p.x = x \/ p.x = x + 1)
      BY <1>1, <1>4, <3>1
    <3> QED BY <2>2, <2>3, <3>2
  <2> DEFINE on == {z \in Places : Along(t, z) /\ << t.layer, z >> \in Nodes(net)}
  <2>5. on \subseteq Int /\ IsFiniteSet(on)
    <3>1. on \in SUBSET Places
      OBVIOUS
    <3> HIDE DEF on
    <3> QED BY <3>1, PointsAreFinite, FS_Subset
  <2>6. t.a \in on /\ t.b \in on /\ p.x \in on
    BY <1>1, <2>3, <2>4, NodesAre DEF Along
  <2>7. \A x1, y1 \in on : << x1, y1 >> \in Consecutive(on) =>
          << t.layer, x1 >> \in Ends(Edges(net)) /\ << t.layer, y1 >> \in Ends(Edges(net))
    <3> SUFFICES ASSUME NEW x1 \in on, NEW y1 \in on, << x1, y1 >> \in Consecutive(on)
                 PROVE  << t.layer, x1 >> \in Ends(Edges(net)) /\ << t.layer, y1 >> \in Ends(Edges(net))
      OBVIOUS
    <3>1. x1 < y1 /\ ~\E z \in on : x1 < z /\ z < y1
      <4> HIDE DEF on
      <4> QED BY DEF Consecutive
    <3>2. x1 \in Nat /\ y1 \in Nat /\ t.a <= x1 /\ y1 <= t.b
      BY Stretch DEF Along
    <3>3. \A z \in Places : x1 < z /\ z < y1 => << t.layer, z >> \notin Nodes(net)
      <4> SUFFICES ASSUME NEW z \in Places, x1 < z, z < y1 PROVE ~(<< t.layer, z >> \in Nodes(net))
        OBVIOUS
      <4>1. z \in Nat
        BY Stretch
      <4>2. Along(t, z)
        BY <2>3, <3>2, <4>1 DEF Along
      <4> QED BY <3>1, <4>2
    <3> DEFINE edge == << << t.layer, x1 >>, << t.layer, y1 >>, y1 - x1 >>
    <3>4. edge \in TrackEdges(net)
      BY <3>1, <3>2, <3>3, TrackEdgesAre
    <3>5. edge[1] = << t.layer, x1 >> /\ edge[2] = << t.layer, y1 >>
      OBVIOUS
    <3> HIDE DEF edge
    <3> QED BY <1>2, <1>3, <3>4, <3>5
  <2> HIDE DEF on
  <2>8. CASE p.x < t.b
    <3>1. PICK y \in on : << p.x, y >> \in Consecutive(on)
      BY <2>5, <2>6, <2>8, Neighbours
    <3> QED BY <1>1, <2>4, <2>6, <2>7, <3>1
  <2>9. CASE t.a < p.x
    <3>1. PICK y \in on : << y, p.x >> \in Consecutive(on)
      BY <2>5, <2>6, <2>9, Neighbours
    <3> QED BY <1>1, <2>4, <2>6, <2>7, <3>1
  <2> QED BY <2>3, <2>4, <2>8, <2>9
<1>6. CASE e \in CopperBarrels(net)
  <2>1. PICK v \in net.vias : \E l, m \in v.spans : e = << << l, v.x >>, << m, v.x >>, 0 >>
    BY <1>6, CopperEdgesAre
  <2>2. v.spans = v.layers /\ v.layers \subseteq LayerNames
    BY DEF Plain, Drawn
  <2>3. n[1] \in v.layers /\ p.x = v.x
    <3>1. PICK l \in v.spans, m \in v.spans : e = << << l, v.x >>, << m, v.x >>, 0 >>
      BY <2>1
    <3>2. e[1] = << l, v.x >> /\ e[2] = << m, v.x >>
      BY <3>1
    <3> QED BY <1>1, <1>4, <2>2, <3>2
  <2>4. PICK o \in v.layers : o # n[1]
    BY DEF Drawn
  <2> DEFINE listed == {i \in DOMAIN CopperLayers : CopperLayers[i] \in v.layers}
             last == Len(CopperLayers)
  <2>5. last \in Nat /\ DOMAIN CopperLayers = 1 .. last
    BY TopologyAssumption, LenProperties DEF TopologyAssumption
  <2>6. PICK i \in DOMAIN CopperLayers, j \in DOMAIN CopperLayers : CopperLayers[i] = n[1] /\ CopperLayers[j] = o
    BY <2>2, <2>3 DEF LayerNames
  <2>7. i \in listed /\ j \in listed /\ i # j /\ i \in Int /\ j \in Int /\ listed \subseteq Int /\ IsFiniteSet(listed)
    <3>1. IsFiniteSet(1 .. last)
      BY <2>5, FS_Interval
    <3> HIDE DEF last
    <3>2. listed \in SUBSET (1 .. last) /\ i \in listed /\ j \in listed
      BY <2>3, <2>5, <2>6
    <3> HIDE DEF listed
    <3>3. i # j
      BY <2>4, <2>6
    <3>4. IsFiniteSet(listed)
      BY <3>1, <3>2, FS_Subset
    <3>5. \A k \in 1 .. last : k \in Int
      OBVIOUS
    <3>6. listed \subseteq Int /\ i \in Int /\ j \in Int
      BY <3>2, <3>5
    <3> QED BY <3>2, <3>3, <3>4, <3>6
  <2>8. \A q \in Consecutive(listed) : << CopperLayers[q[1]], v.x >> \in Ends(Edges(net))
                                       /\ << CopperLayers[q[2]], v.x >> \in Ends(Edges(net))
    <3> SUFFICES ASSUME NEW q \in Consecutive(listed)
                 PROVE  << CopperLayers[q[1]], v.x >> \in Ends(Edges(net))
                        /\ << CopperLayers[q[2]], v.x >> \in Ends(Edges(net))
      OBVIOUS
    <3> DEFINE edge == << << CopperLayers[q[1]], v.x >>, << CopperLayers[q[2]], v.x >>, 0 >>
    <3>1. edge \in ViaEdges(net)
      BY ViaEdgesAre
    <3>2. edge[1] = << CopperLayers[q[1]], v.x >> /\ edge[2] = << CopperLayers[q[2]], v.x >>
      OBVIOUS
    <3> HIDE DEF edge
    <3> QED BY <1>2, <1>3, <3>1, <3>2
  <2> HIDE DEF listed
  <2>9. CASE i < j
    <3>1. PICK y \in listed : << i, y >> \in Consecutive(listed)
      BY <2>7, <2>9, Neighbours
    <3> DEFINE q == << i, y >>
    <3>2. q \in Consecutive(listed) /\ q[1] = i
      BY <3>1
    <3> HIDE DEF q
    <3> QED BY <1>1, <2>3, <2>6, <2>8, <3>2
  <2>10. CASE j < i
    <3>1. PICK y \in listed : << y, i >> \in Consecutive(listed)
      BY <2>7, <2>10, Neighbours
    <3> DEFINE q == << y, i >>
    <3>2. q \in Consecutive(listed) /\ q[2] = i
      BY <3>1
    <3> HIDE DEF q
    <3> QED BY <1>1, <2>3, <2>6, <2>8, <3>2
  <2> QED BY <2>7, <2>9, <2>10
<1>7. e \notin CopperPins(net) /\ e \notin CopperFills(net)
  BY CopperEdgesAre DEF Plain
<1> QED BY <1>5, <1>6, <1>7, CopperEdgesAre

\* On a plain net of tracks and vias the search comes as near as the copper does.
LEMMA TracksAndViasAreFound ==
  ASSUME NEW net, Drawn(net), Plain(net), net.pours = {}, NEW p \in net.pads, NEW q \in net.pads
  PROVE  path(net, p)[q] <= CopperPath(net, p)[q]
<1> DEFINE D == _dijkstra(Edges(net), Anchors(Edges(net), p))
           C == {r \in (LayerNames \X Places) \X (0 .. Longest) : HeldWithin(net, D, r[1][1], r[1][2], r[2])}
           K == _dijkstra(CopperEdges(net), Anchors(CopperEdges(net), p))
<1>1. IsFiniteSet(Points(net)) /\ Over(Edges(net), Points(net)) /\ Over(CopperEdges(net), Points(net))
  BY PointsAreFinite, EdgesAreOfTheBoard
<1>2. \A o \in net.pads : /\ Anchors(CopperEdges(net), o) \subseteq Points(net)
                          /\ Anchors(Edges(net), o) \subseteq Points(net)
  BY <1>1 DEF Anchors, Ends, Over
<1>3. /\ Anchors(Edges(net), p) \X {0} \subseteq D /\ D \subseteq Points(net) \X (0 .. Longest)
      /\ ClosedUnder(D, TrackEdges(net)) /\ ClosedUnder(D, ViaEdges(net))
  <2>1. Anchors(Edges(net), p) \X {0} \subseteq D /\ ClosedUnder(D, Edges(net))
        /\ D \subseteq Points(net) \X (0 .. Longest)
    BY <1>1, <1>2, Searching
  <2> HIDE DEF D
  <2> QED BY <2>1 DEF ClosedUnder, Edges
<1> HIDE DEF D
<1>4. Longest \in Nat /\ 0 \in 0 .. Longest
  BY LongestIsANumber
<1>5. \A l \in LayerNames, x \in Places, d \in 0 .. Longest :
        << << l, x >>, d >> \in C <=> HeldWithin(net, D, l, x, d)
  OBVIOUS
<1>6. Anchors(CopperEdges(net), p) \X {0} \subseteq C
  <2> SUFFICES ASSUME NEW n \in Anchors(CopperEdges(net), p) PROVE << n, 0 >> \in C
    OBVIOUS
  <2>1. n[1] \in LayerNames /\ p.x \in Places /\ n = << n[1], p.x >> /\ n \in Nodes(net)
    BY PadsAreNodes
  <2>2. << n, 0 >> \in D
    BY <1>3, PlainEnds
  <2> DEFINE l == n[1]
  <2>3. l \in LayerNames /\ n = << l, p.x >>
    BY <2>1
  <2> HIDE DEF l, C
  <2>4. HeldWithin(net, D, l, p.x, 0)
    <3>1. \E e \in 0 .. Longest : e <= 0 /\ << << l, p.x >>, e >> \in D
      BY <1>4, <2>2, <2>3
    <3> QED BY <1>4, <2>1, <2>3, <3>1, NodeIsNear
  <2> QED BY <1>4, <1>5, <2>1, <2>3, <2>4
<1> HIDE DEF C
<1>7. ClosedUnder(C, CopperEdges(net))
  <2> SUFFICES ASSUME NEW e \in CopperEdges(net)
               PROVE  Onward(C, e[1], e[2], e[3]) /\ Onward(C, e[2], e[1], e[3])
    BY DEF ClosedUnder
  <2>1. CASE e \in CopperSteps(net)
    <3>1. PICK t \in net.tracks : \E x \in t.a .. t.b - 1 : e = << << t.layer, x >>, << t.layer, x + 1 >>, 1 >>
      BY <2>1, CopperEdgesAre
    <3>2. PICK x \in t.a .. t.b - 1 : e = << << t.layer, x >>, << t.layer, x + 1 >>, 1 >>
      BY <3>1
    <3>3. /\ t.layer \in LayerNames /\ t.a \in Nat /\ t.b \in Nat /\ t.a .. t.b \subseteq Places
          /\ e[1] = << t.layer, x >> /\ e[2] = << t.layer, x + 1 >> /\ e[3] = 1
      BY <3>2, Stretch DEF Drawn
    <3> DEFINE w == x + 1
    <3>4. x \in Places /\ w \in Places /\ Along(t, x) /\ Along(t, w) /\ w = x + 1
      BY <3>3 DEF Along
    <3> HIDE DEF w
    <3>5. ASSUME NEW d \in 0 .. Longest, d + 1 <= Longest
          PROVE  /\ << << t.layer, x >>, d >> \in C => << << t.layer, w >>, d + 1 >> \in C
                 /\ << << t.layer, w >>, d >> \in C => << << t.layer, x >>, d + 1 >> \in C
      <4>1. d + 1 \in 0 .. Longest
        BY <1>4, <3>5
      <4>2. HeldWithin(net, D, t.layer, x, d) => HeldWithin(net, D, t.layer, w, d + 1)
        BY <1>3, <3>4, <3>5, TracksAreFollowed
      <4>3. HeldWithin(net, D, t.layer, w, d) => HeldWithin(net, D, t.layer, x, d + 1)
        BY <1>3, <3>4, <3>5, TracksAreFollowed
      <4> QED BY <1>5, <3>3, <3>4, <4>1, <4>2, <4>3
    <3>6. Onward(C, << t.layer, x >>, << t.layer, w >>, 1) /\ Onward(C, << t.layer, w >>, << t.layer, x >>, 1)
      BY <3>5 DEF Onward
    <3> QED BY <3>3, <3>4, <3>6
  <2>2. CASE e \in CopperBarrels(net)
    <3>1. PICK v \in net.vias : \E l, m \in v.spans : e = << << l, v.x >>, << m, v.x >>, 0 >>
      BY <2>2, CopperEdgesAre
    <3>2. v.spans = v.layers /\ v.layers \subseteq LayerNames /\ v.x \in Places
      BY DEF Plain, Drawn
    <3>3. ASSUME NEW l \in v.layers, NEW m \in v.layers PROVE Onward(C, << l, v.x >>, << m, v.x >>, 0)
      <4>1. << l, v.x >> \in Nodes(net) /\ << m, v.x >> \in Nodes(net) /\ l \in LayerNames /\ m \in LayerNames
        BY <3>2, NodesAre
      <4>2. ASSUME NEW d \in 0 .. Longest, << << l, v.x >>, d >> \in C PROVE << << m, v.x >>, d + 0 >> \in C
        <5>1. HeldWithin(net, D, l, v.x, d)
          BY <1>5, <3>2, <4>1, <4>2
        <5>2. PICK k \in 0 .. Longest : k <= d /\ << << l, v.x >>, k >> \in D
          BY <3>2, <4>1, <5>1, NodeIsNear
        <5>3. Onward(D, << l, v.x >>, << m, v.x >>, 0)
          BY <1>3, ViasAreFollowed
        <5>4. k + 0 = k /\ k + 0 <= Longest /\ d + 0 = d
          BY <1>4
        <5>5. << << m, v.x >>, k >> \in D
          BY <5>2, <5>3, <5>4 DEF Onward
        <5>6. HeldWithin(net, D, m, v.x, d)
          BY <3>2, <4>1, <5>2, <5>5, NodeIsNear
        <5> QED BY <1>5, <3>2, <4>1, <5>4, <5>6
      <4> QED BY <4>2 DEF Onward
    <3>4. PICK l \in v.layers, m \in v.layers : e = << << l, v.x >>, << m, v.x >>, 0 >>
      BY <3>1, <3>2
    <3>5. e[1] = << l, v.x >> /\ e[2] = << m, v.x >> /\ e[3] = 0
      BY <3>4
    <3> QED BY <3>3, <3>5
  <2>3. e \notin CopperPins(net) /\ e \notin CopperFills(net)
    BY CopperEdgesAre DEF Plain
  <2> QED BY <2>1, <2>2, <2>3, CopperEdgesAre
<1>8. K \subseteq C
  BY <1>1, <1>2, <1>6, <1>7, Searching
<1>9. K \subseteq Points(net) \X (0 .. Longest)
  BY <1>1, <1>2, Searching
<1> HIDE DEF K
<1>10. \A r \in K : r[1] \in Anchors(CopperEdges(net), q) =>
         \E s \in D : s[1] \in Anchors(Edges(net), q) /\ s[2] <= r[2]
  <2> SUFFICES ASSUME NEW r \in K, r[1] \in Anchors(CopperEdges(net), q)
               PROVE  \E s \in D : s[1] \in Anchors(Edges(net), q) /\ s[2] <= r[2]
    OBVIOUS
  <2> DEFINE n == r[1]
             l == n[1]
             d == r[2]
  <2>1. r = << n, d >> /\ d \in 0 .. Longest /\ r \in C
    BY <1>8, <1>9
  <2>2. n \in Anchors(CopperEdges(net), q)
    OBVIOUS
  <2> HIDE DEF n, d
  <2>3. l \in LayerNames /\ q.x \in Places /\ n = << l, q.x >> /\ n \in Nodes(net)
    BY <2>2, PadsAreNodes
  <2> HIDE DEF l
  <2>4. HeldWithin(net, D, l, q.x, d)
    BY <1>5, <2>1, <2>3
  <2>5. PICK k \in 0 .. Longest : k <= d /\ << << l, q.x >>, k >> \in D
    BY <2>1, <2>3, <2>4, NodeIsNear
  <2>6. n \in Anchors(Edges(net), q)
    BY <2>2, PlainEnds
  <2> DEFINE s == << n, k >>
  <2>7. s \in D /\ s[1] = n /\ s[2] = k
    BY <2>3, <2>5
  <2> HIDE DEF s
  <2> QED BY <2>5, <2>6, <2>7 DEF d
<1>11. \A r \in _dijkstra(CopperEdges(net), Anchors(CopperEdges(net), p)) : r[1] \in Anchors(CopperEdges(net), q) =>
         \E s \in _dijkstra(Edges(net), Anchors(Edges(net), p)) : s[1] \in Anchors(Edges(net), q) /\ s[2] <= r[2]
  BY <1>10 DEF K, D
<1> QED BY <1>1, <1>11, RoutesCompare DEF path, CopperPath

\* On a plain net of pours the search goes from pour to pour by the pads they share.
LEMMA PoursAreFound ==
  ASSUME NEW net, Drawn(net), Plain(net), net.tracks \cup net.vias = {},
         \A y, z \in net.pours :
           (y # z /\ y.layer = z.layer /\ \E x \in Places : Along(y, x) /\ Along(z, x))
             => \E o \in net.pads : z.layer \in PadLayers(o) /\ Along(y, o.x) /\ Along(z, o.x),
         NEW p \in net.pads, NEW q \in net.pads
  PROVE  path(net, p)[q] <= CopperPath(net, p)[q]
<1> DEFINE D == _dijkstra(Edges(net), Anchors(Edges(net), p))
           K == _dijkstra(CopperEdges(net), Anchors(CopperEdges(net), p))
           node(z) == << "zone", z >>
           found(z) == << node(z), 0 >> \in D
           In(n, z) == n = node(z) \/ (n[1] = z.layer /\ n[2] \in z.a .. z.b)
           C == {r \in Points(net) \X (0 .. Longest) : \A z \in net.pours : In(r[1], z) => found(z)}
<1>1. IsFiniteSet(Points(net)) /\ Over(Edges(net), Points(net)) /\ Over(CopperEdges(net), Points(net))
  BY PointsAreFinite, EdgesAreOfTheBoard
<1>2. \A o \in net.pads : /\ Anchors(CopperEdges(net), o) \subseteq Points(net)
                          /\ Anchors(Edges(net), o) \subseteq Points(net)
  BY <1>1 DEF Anchors, Ends, Over
<1>3. Anchors(Edges(net), p) \X {0} \subseteq D /\ ClosedUnder(D, Edges(net)) /\ D \subseteq Points(net) \X (0 .. Longest)
  BY <1>1, <1>2, Searching
<1> HIDE DEF D
<1>4. Longest \in Nat /\ 0 \in 0 .. Longest /\ 0 + 0 = 0 /\ 0 + 0 <= Longest
  BY LongestIsANumber
<1>5. \A z \in net.pours : z.layer \in LayerNames /\ z.layer # "zone" /\ z.a .. z.b \subseteq Places
  BY TopologyAssumption, Stretch DEF TopologyAssumption, Drawn
<1>6. \A z \in net.pours, x \in Places : Along(z, x) <=> x \in z.a .. z.b
  <2>1. \A z \in net.pours : z.a \in Nat /\ z.b \in Nat
    BY Stretch DEF Drawn
  <2>2. \A x \in Places : x \in Nat
    BY Stretch
  <2> QED BY <2>1, <2>2 DEF Along
\* By way of a pad, into a pour and out of it.
<1>7. ASSUME NEW z \in net.pours, NEW o \in net.pads, z.layer \in PadLayers(o), Along(z, o.x)
      PROVE  /\ Onward(D, << z.layer, o.x >>, node(z), 0) /\ Onward(D, node(z), << z.layer, o.x >>, 0)
             /\ << z.layer, o.x >> \in Anchors(Edges(net), o)
  <2> DEFINE e == << << z.layer, o.x >>, node(z), 0 >>
  <2>1. e \in Edges(net)
    BY <1>7, PourEdgesAre DEF Edges
  <2>2. e[1] = << z.layer, o.x >> /\ e[2] = node(z) /\ e[3] = 0
    OBVIOUS
  <2> HIDE DEF e, node
  <2>3. << z.layer, o.x >> \in Ends(Edges(net))
    BY <2>1, <2>2 DEF Ends
  <2>4. << z.layer, o.x >> \in Anchors(Edges(net), o)
    BY <1>7, <2>3 DEF Anchors
  <2> QED BY <1>3, <2>1, <2>2, <2>4 DEF ClosedUnder
<1>8. \A n, m : Onward(D, n, m, 0) /\ << n, 0 >> \in D => << m, 0 >> \in D
  BY <1>4 DEF Onward
<1>9. \A o \in net.pads : \A n \in Anchors(CopperEdges(net), o) : \A z \in net.pours :
        In(n, z) => n = << z.layer, o.x >> /\ z.layer \in PadLayers(o) /\ Along(z, o.x)
  <2> SUFFICES ASSUME NEW o \in net.pads, NEW n \in Anchors(CopperEdges(net), o), NEW z \in net.pours, In(n, z)
               PROVE  n = << z.layer, o.x >> /\ z.layer \in PadLayers(o) /\ Along(z, o.x)
    OBVIOUS
  <2>1. n[1] \in LayerNames /\ n[2] = o.x /\ o.x \in Places /\ n[1] \in PadLayers(o) /\ n = << n[1], o.x >>
    BY PadsAreNodes
  <2>2. n # node(z)
    BY <2>1, TopologyAssumption DEF TopologyAssumption
  <2>3. n[1] = z.layer /\ n[2] \in z.a .. z.b
    BY <2>2
  <2> QED BY <1>6, <2>1, <2>3
<1>10. Anchors(CopperEdges(net), p) \X {0} \subseteq C
  <2> SUFFICES ASSUME NEW n \in Anchors(CopperEdges(net), p), NEW z \in net.pours, In(n, z) PROVE found(z)
    BY <1>2, <1>4
  <2>1. n = << z.layer, p.x >> /\ z.layer \in PadLayers(p) /\ Along(z, p.x)
    BY <1>9
  <2>2. << n, 0 >> \in D /\ Onward(D, n, node(z), 0)
    BY <1>3, <1>7, <2>1
  <2> QED BY <1>8, <2>2
<1>11. \A e \in CopperEdges(net) : e \in CopperFills(net)
  <2> SUFFICES ASSUME NEW e \in CopperEdges(net)
               PROVE  e \notin CopperSteps(net) /\ e \notin CopperBarrels(net) /\ e \notin CopperPins(net)
    BY CopperEdgesAre
  <2> QED BY CopperEdgesAre DEF Plain
<1>12. ClosedUnder(C, CopperEdges(net))
  <2> SUFFICES ASSUME NEW e \in CopperEdges(net)
               PROVE  Onward(C, e[1], e[2], e[3]) /\ Onward(C, e[2], e[1], e[3])
    BY DEF ClosedUnder
  <2>1. PICK z \in net.pours : \E x \in z.a .. z.b : e = << << z.layer, x >>, << "zone", z >>, 0 >>
    BY <1>11, CopperEdgesAre
  <2>2. PICK x \in z.a .. z.b : e = << << z.layer, x >>, node(z), 0 >>
    BY <2>1
  <2> DEFINE n == << z.layer, x >>
             m == node(z)
  <2>3. e[1] = n /\ e[2] = m /\ e[3] = 0 /\ n[1] = z.layer /\ n[2] = x
    BY <2>2
  <2>4. n \in Points(net) /\ m \in Points(net) /\ x \in Places
    BY <1>5 DEF Points
  <2>5. In(n, z) /\ In(m, z)
    OBVIOUS
  <2>6. \A y \in net.pours : In(m, y) => y = z
    BY <1>5
  <2>7. \A y \in net.pours : In(n, y) => y.layer = z.layer /\ Along(y, x)
    BY <1>5, <1>6, <2>4
  <2>8. ASSUME NEW y \in net.pours, In(n, y), found(z) PROVE found(y)
    <3>1. CASE y = z
      BY <2>8, <3>1
    <3>2. CASE y # z
      <4>1. y.layer = z.layer /\ Along(y, x) /\ Along(z, x)
        BY <1>6, <2>4, <2>7, <2>8
      <4>2. PICK o \in net.pads : z.layer \in PadLayers(o) /\ Along(y, o.x) /\ Along(z, o.x)
        BY <2>4, <3>2, <4>1
      <4>3. Onward(D, node(z), << z.layer, o.x >>, 0) /\ Onward(D, << z.layer, o.x >>, node(y), 0)
        BY <1>7, <4>1, <4>2
      <4> HIDE DEF node
      <4> QED BY <1>8, <2>8, <4>3
    <3> QED BY <3>1, <3>2
  <2>9. ASSUME NEW d \in 0 .. Longest
        PROVE  /\ << n, d >> \in C => << m, d + 0 >> \in C
               /\ << m, d >> \in C => << n, d + 0 >> \in C
    <3>1. d + 0 = d
      OBVIOUS
    <3>2. << n, d >> \in C <=> \A y \in net.pours : In(n, y) => found(y)
      <4> HIDE DEF n, In, found
      <4> QED BY <2>4
    <3>3. << m, d >> \in C <=> \A y \in net.pours : In(m, y) => found(y)
      <4> HIDE DEF m, In, found
      <4> QED BY <2>4
    <3> HIDE DEF n, m, C, In, found
    <3> QED BY <2>5, <2>6, <2>8, <3>1, <3>2, <3>3
  <2>10. Onward(C, n, m, 0) /\ Onward(C, m, n, 0)
    <3> HIDE DEF n, m, C
    <3> QED BY <2>9 DEF Onward
  <2> QED BY <2>3, <2>10
<1>13. K \subseteq C
  <2> HIDE DEF C
  <2> QED BY <1>1, <1>2, <1>10, <1>12, Searching
<1>14. \A r \in K : r[1] \in Anchors(CopperEdges(net), q) =>
         \E s \in D : s[1] \in Anchors(Edges(net), q) /\ s[2] <= r[2]
  <2> SUFFICES ASSUME NEW r \in K, r[1] \in Anchors(CopperEdges(net), q)
               PROVE  \E s \in D : s[1] \in Anchors(Edges(net), q) /\ s[2] <= r[2]
    OBVIOUS
  <2>1. r \in C
    BY <1>13
  <2> HIDE DEF K
  <2> DEFINE n == r[1]
  <2>2. n \in Anchors(CopperEdges(net), q) /\ n[1] \in LayerNames /\ n[2] = q.x /\ q.x \in Places
        /\ n = << n[1], q.x >>
    BY PadsAreNodes
  <2>3. PICK z \in net.pours : In(n, z)
    <3>1. PICK e \in CopperEdges(net) : n = e[1] \/ n = e[2]
      BY <2>2 DEF Anchors, Ends
    <3>2. PICK z \in net.pours : \E x \in z.a .. z.b : e = << << z.layer, x >>, << "zone", z >>, 0 >>
      BY <1>11, <3>1, CopperEdgesAre
    <3>3. PICK x \in z.a .. z.b : e[1] = << z.layer, x >> /\ e[2] = node(z)
      BY <3>2
    <3>4. In(n, z)
      BY <3>1, <3>3
    <3> QED BY <3>4
  <2>4. found(z)
    BY <2>1, <2>3
  <2>5. n = << z.layer, q.x >> /\ z.layer \in PadLayers(q) /\ Along(z, q.x)
    BY <1>9, <2>2, <2>3
  <2>6. << n, 0 >> \in D /\ n \in Anchors(Edges(net), q)
    <3> HIDE DEF node, In, n
    <3> QED BY <1>7, <1>8, <2>4, <2>5
  <2>7. r[2] \in Nat
    BY <2>1
  <2> DEFINE s == << n, 0 >>
  <2>8. s \in D /\ s[1] = n /\ s[2] = 0
    BY <2>6
  <2> HIDE DEF s, n
  <2> QED BY <2>6, <2>7, <2>8
<1>15. \A r \in _dijkstra(CopperEdges(net), Anchors(CopperEdges(net), p)) : r[1] \in Anchors(CopperEdges(net), q) =>
         \E s \in _dijkstra(Edges(net), Anchors(Edges(net), p)) : s[1] \in Anchors(Edges(net), q) /\ s[2] <= r[2]
  BY <1>14 DEF D
<1> QED BY <1>1, <1>15, RoutesCompare DEF path, CopperPath

\* A path that is reported is of the net's copper and none is shorter; on a plain
\* net every route is found (topology.py).
THEOREM PathsFollowTheNet ==
  ASSUME NEW net, Drawn(net)
  PROVE  PathsFollowTheCopper(net)
<1> SUFFICES ASSUME NEW p \in net.pads, NEW q \in net.pads \ {p}
             PROVE  /\ path(net, p)[q] >= CopperPath(net, p)[q]
                    /\ Plain(net) => path(net, p)[q] = CopperPath(net, p)[q]
  BY DEF PathsFollowTheCopper
<1>1. /\ CopperPath(net, p)[q] <= path(net, p)[q]
      /\ CopperPath(net, p)[q] \in Int /\ path(net, p)[q] \in Int
  BY PathsAreReal
<1>2. ASSUME Plain(net) PROVE path(net, p)[q] <= CopperPath(net, p)[q]
  <2>1. CASE net.pours = {}
    BY <1>2, <2>1, TracksAndViasAreFound
  <2>2. CASE net.pours # {}
    <3>1. /\ net.tracks \cup net.vias = {}
          /\ \A y, z \in net.pours :
               (y # z /\ y.layer = z.layer /\ \E x \in Places : Along(y, x) /\ Along(z, x))
                 => \E o \in net.pads : z.layer \in PadLayers(o) /\ Along(y, o.x) /\ Along(z, o.x)
      BY <1>2, <2>2 DEF Plain
    <3> QED BY <1>2, <3>1, PoursAreFound
  <2> QED BY <2>1, <2>2
<1> QED BY <1>1, <1>2

-------------------------------------------------------------------------------
(* The islands of a raster.                                                    *)

\* Of some numbers one is the least.
LEMMA LeastNumber ==
  ASSUME NEW S \in SUBSET Nat, S # {}
  PROVE  \E i \in S : \A j \in S : i <= j
<1>1. PICK i \in S : \A j \in S : ~ (<<j, i>> \in OpToRel(<, Nat))
  BY WFMin, NatLessThanWellFounded
<1>2. \A j \in S : ~ (j < i)
  BY <1>1 DEF OpToRel
<1> QED BY <1>2

\* A forest: every label has a parent, itself or a smaller one.
Forest(p) == p \in Seq(Nat) /\ \A i \in 1 .. Len(p) : 1 <= p[i] /\ p[i] <= i

Rooted(f, p, m) == f = [i \in 1 .. m |-> IF p[i] = i THEN i ELSE f[p[i]]]

\* The search for a root ends: parents are smaller.
LEMMA RootsExist ==
  ASSUME NEW p, Forest(p), NEW m \in 0 .. Len(p)
  PROVE  \E f : Rooted(f, p, m)
<1> DEFINE Bad == {n \in 0 .. Len(p) : ~\E f : Rooted(f, p, n)}
<1>1. SUFFICES ASSUME Bad # {} PROVE FALSE
  OBVIOUS
<1>0. Len(p) \in Nat /\ \A i \in 1 .. Len(p) : p[i] \in Nat
  BY LenProperties DEF Forest
<1>2. PICK n \in Bad : \A k \in Bad : n <= k
  <2>1. Bad \in SUBSET Nat
    BY <1>0
  <2> HIDE DEF Bad
  <2> QED BY <1>1, <2>1, LeastNumber
<1>3. n # 0
  <2>1. SUFFICES ASSUME n = 0 PROVE \E f : Rooted(f, p, 0)
    OBVIOUS
  <2> DEFINE f == [i \in {} |-> 0]
  <2>2. Rooted(f, p, 0)
    <3>1. 1 .. 0 = {}
      OBVIOUS
    <3> QED BY <3>1 DEF Rooted
  <2> QED BY <2>2
<1>4. PICK g : Rooted(g, p, n - 1)
  <2>1. n - 1 \in 0 .. Len(p) /\ ~(n <= n - 1)
    BY <1>0, <1>3
  <2> QED BY <1>2, <2>1
<1> DEFINE f == [i \in 1 .. n |-> IF i = n THEN (IF p[n] = n THEN n ELSE g[p[n]]) ELSE g[i]]
<1>5. \A i \in 1 .. n - 1 : g[i] = IF p[i] = i THEN i ELSE g[p[i]]
  BY <1>4 DEF Rooted
<1>6. \A i \in 1 .. n : f[i] = IF p[i] = i THEN i ELSE f[p[i]]
  <2> SUFFICES ASSUME NEW i \in 1 .. n PROVE f[i] = IF p[i] = i THEN i ELSE f[p[i]]
    OBVIOUS
  <2>1. i \in 1 .. Len(p) /\ p[i] \in Nat /\ 1 <= p[i] /\ p[i] <= i
    BY <1>0 DEF Forest
  <2>2. CASE p[i] = i
    BY <1>5, <2>1, <2>2
  <2>3. CASE p[i] # i
    <3>1. p[i] \in 1 .. n - 1 /\ p[i] # n /\ p[i] \in 1 .. n
      BY <2>1, <2>3
    <3>2. f[p[i]] = g[p[i]]
      BY <3>1
    <3>3. CASE i = n
      BY <2>3, <3>2, <3>3
    <3>4. CASE i # n
      <4>1. i \in 1 .. n - 1
        BY <3>4
      <4> QED BY <1>5, <2>3, <3>2, <3>4, <4>1
    <3> QED BY <3>3, <3>4
  <2> QED BY <2>2, <2>3
<1>7. Rooted(f, p, n)
  <2>1. f = [i \in 1 .. n |-> f[i]]
    OBVIOUS
  <2> HIDE DEF f
  <2> QED BY <1>6, <2>1 DEF Rooted
<1> QED BY <1>2, <1>7

\* What find returns: a root, not above the label.
LEMMA Finding ==
  ASSUME NEW p, Forest(p), NEW i \in 1 .. Len(p)
  PROVE  /\ find_root(p, i) = IF p[i] = i THEN i ELSE find_root(p, p[i])
         /\ find_root(p, i) \in 1 .. i /\ p[find_root(p, i)] = find_root(p, i)
         /\ p[i] \in 1 .. i
<1> DEFINE root == CHOOSE f : f = [j \in DOMAIN p |-> IF p[j] = j THEN j ELSE f[p[j]]]
<1>0. Len(p) \in Nat /\ DOMAIN p = 1 .. Len(p) /\ \A j \in 1 .. Len(p) : p[j] \in Nat /\ p[j] \in 1 .. j
  BY LenProperties DEF Forest
<1>1. Rooted(root, p, Len(p))
  <2>1. \E f : f = [j \in DOMAIN p |-> IF p[j] = j THEN j ELSE f[p[j]]]
    <3>1. PICK f : Rooted(f, p, Len(p))
      BY <1>0, RootsExist
    <3> QED BY <1>0, <3>1 DEF Rooted
  <2> QED BY <1>0, <2>1 DEF Rooted
<1>2. \A j : find_root(p, j) = root[j]
  BY DEF find_root
<1> HIDE DEF root
<1>3. \A j \in 1 .. Len(p) : root[j] = IF p[j] = j THEN j ELSE root[p[j]]
  BY <1>1 DEF Rooted
<1> DEFINE Bad == {j \in 1 .. Len(p) : ~(root[j] \in 1 .. j /\ p[root[j]] = root[j])}
<1>4. Bad = {}
  <2> SUFFICES ASSUME Bad # {} PROVE FALSE
    OBVIOUS
  <2>1. PICK j \in Bad : \A k \in Bad : j <= k
    <3>1. Bad \in SUBSET Nat
      BY <1>0
    <3> HIDE DEF Bad
    <3> QED BY <3>1, LeastNumber
  <2>2. CASE p[j] = j
    BY <1>3, <2>1, <2>2
  <2>3. CASE p[j] # j
    <3>1. p[j] \in 1 .. Len(p) /\ p[j] < j
      BY <1>0, <2>1, <2>3
    <3>4. j \in Nat /\ p[j] \in Nat /\ ~(j <= p[j])
      BY <1>0, <2>1, <3>1
    <3>2. p[j] \notin Bad
      <4> HIDE DEF Bad
      <4> QED BY <2>1, <3>4
    <3>3. root[p[j]] \in 1 .. p[j] /\ p[root[p[j]]] = root[p[j]] /\ root[j] = root[p[j]]
      BY <1>3, <2>1, <2>3, <3>1, <3>2
    <3> QED BY <1>0, <2>1, <3>1, <3>3
  <2> QED BY <2>2, <2>3
<1> QED BY <1>0, <1>2, <1>3, <1>4

\* One root hung below another: the labels below it find the other.
LEMMA Hanging ==
  ASSUME NEW p, Forest(p), NEW lo \in 1 .. Len(p), NEW hi \in 1 .. Len(p),
         lo <= hi, p[lo] = lo, p[hi] = hi
  PROVE  /\ Forest([p EXCEPT ![hi] = lo]) /\ Len([p EXCEPT ![hi] = lo]) = Len(p)
         /\ \A i \in 1 .. Len(p) : find_root([p EXCEPT ![hi] = lo], i) =
              IF find_root(p, i) = hi THEN lo ELSE find_root(p, i)
<1> DEFINE q == [p EXCEPT ![hi] = lo]
<1>0. Len(p) \in Nat /\ \A j \in 1 .. Len(p) : p[j] \in Nat /\ p[j] \in 1 .. j
  BY LenProperties DEF Forest
<1>1. q \in Seq(Nat) /\ Len(q) = Len(p) /\ \A i \in 1 .. Len(p) : q[i] = IF i = hi THEN lo ELSE p[i]
  <2>1. p \in Seq(Nat) /\ lo \in Nat
    BY <1>0 DEF Forest
  <2> QED BY <2>1, ExceptSeq
<1> HIDE DEF q
<1>2. Forest(q)
  BY <1>0, <1>1 DEF Forest
<1> DEFINE Bad == {i \in 1 .. Len(p) : find_root(q, i) # IF find_root(p, i) = hi THEN lo ELSE find_root(p, i)}
<1>3. Bad = {}
  <2> SUFFICES ASSUME Bad # {} PROVE FALSE
    OBVIOUS
  <2>1. PICK j \in Bad : \A k \in Bad : j <= k
    <3>1. Bad \in SUBSET Nat
      BY <1>0
    <3> HIDE DEF Bad
    <3> QED BY <3>1, LeastNumber
  <2>2. /\ find_root(p, j) = IF p[j] = j THEN j ELSE find_root(p, p[j])
        /\ find_root(q, j) = IF q[j] = j THEN j ELSE find_root(q, q[j])
    BY <1>1, <1>2, <2>1, Finding
  <2>3. find_root(q, lo) = lo
    <3>1. q[lo] = lo
      BY <1>1
    <3> QED BY <1>1, <1>2, <3>1, Finding
  <2>4. CASE j = hi
    BY <1>1, <2>1, <2>2, <2>3, <2>4
  <2>5. CASE j # hi /\ p[j] = j
    BY <1>1, <2>1, <2>2, <2>5
  <2>6. CASE j # hi /\ p[j] # j
    <3>1. p[j] \in 1 .. Len(p) /\ p[j] < j /\ q[j] = p[j]
      BY <1>0, <1>1, <2>1, <2>6
    <3>4. j \in Nat /\ p[j] \in Nat /\ ~(j <= p[j])
      BY <1>0, <2>1, <3>1
    <3>2. p[j] \notin Bad
      <4> HIDE DEF Bad
      <4> QED BY <2>1, <3>4
    <3> QED BY <2>1, <2>2, <2>6, <3>1, <3>2
  <2> QED BY <2>4, <2>5, <2>6
<1>4. \A i \in 1 .. Len(p) : find_root(q, i) = IF find_root(p, i) = hi THEN lo ELSE find_root(p, i)
  BY <1>3
<1> QED BY <1>1, <1>2, <1>4 DEF q

\* Two labels have one root.
Joined(p, i, j) == find_root(p, i) = find_root(p, j)

\* A union makes one of two trees, and leaves the others.
LEMMA UnionIs ==
  ASSUME NEW p, Forest(p), NEW a \in 1 .. Len(p), NEW b \in 1 .. Len(p)
  PROVE  /\ Forest(union(p, a, b)) /\ Len(union(p, a, b)) = Len(p)
         /\ \A i, j \in 1 .. Len(p) : Joined(union(p, a, b), i, j) <=>
              \/ Joined(p, i, j)
              \/ (Joined(p, i, a) \/ Joined(p, i, b)) /\ (Joined(p, j, a) \/ Joined(p, j, b))
<1> DEFINE ra == find_root(p, a)
           rb == find_root(p, b)
           lo == Min({ra, rb})
           hi == Max({ra, rb})
           q == [p EXCEPT ![hi] = lo]
<1>0. Len(p) \in Nat
  BY LenProperties DEF Forest
<1>1. ra \in 1 .. Len(p) /\ rb \in 1 .. Len(p) /\ p[ra] = ra /\ p[rb] = rb
  BY <1>0, Finding
<1>2. union(p, a, b) = q
  BY DEF union
<1>3. lo <= hi /\ ((lo = ra /\ hi = rb) \/ (lo = rb /\ hi = ra))
  <2> HIDE DEF ra, rb
  <2>1. ra \in Int /\ rb \in Int
    BY <1>1
  <2> QED BY <2>1 DEF Min, Max
<1>4. lo \in 1 .. Len(p) /\ hi \in 1 .. Len(p) /\ p[lo] = lo /\ p[hi] = hi
  <2> HIDE DEF lo, hi, ra, rb
  <2> QED BY <1>1, <1>3
<1>5. /\ Forest(q) /\ Len(q) = Len(p)
      /\ \A i \in 1 .. Len(p) : find_root(q, i) = IF find_root(p, i) = hi THEN lo ELSE find_root(p, i)
  <2> HIDE DEF lo, hi
  <2> QED BY <1>3, <1>4, Hanging
<1>6. ASSUME NEW i \in 1 .. Len(p), NEW j \in 1 .. Len(p)
      PROVE  Joined(q, i, j) <=>
              \/ Joined(p, i, j)
              \/ (Joined(p, i, a) \/ Joined(p, i, b)) /\ (Joined(p, j, a) \/ Joined(p, j, b))
  <2>1. /\ find_root(q, i) = IF find_root(p, i) = hi THEN lo ELSE find_root(p, i)
        /\ find_root(q, j) = IF find_root(p, j) = hi THEN lo ELSE find_root(p, j)
    BY <1>5
  <2> HIDE DEF q, lo, hi
  <2> QED BY <1>3, <2>1 DEF Joined
<1> QED BY <1>2, <1>5, <1>6

\* Some labels are joined with the least of them, up to the k-th label.
JoinedUpTo(f, p, labels, m) ==
  f = [l \in 0 .. m |-> IF l = 0 THEN p
                        ELSE IF l \in labels THEN union(f[l - 1], l, Min(labels)) ELSE f[l - 1]]

LEMMA JoiningExists ==
  ASSUME NEW p, NEW labels, NEW m \in Nat
  PROVE  \E f : JoinedUpTo(f, p, labels, m)
<1> DEFINE Bad == {n \in Nat : ~\E f : JoinedUpTo(f, p, labels, n)}
<1>1. SUFFICES ASSUME Bad # {} PROVE FALSE
  OBVIOUS
<1>2. PICK n \in Bad : \A k \in Bad : n <= k
  <2>1. Bad \in SUBSET Nat
    OBVIOUS
  <2> HIDE DEF Bad
  <2> QED BY <1>1, <2>1, LeastNumber
<1>3. n # 0
  <2>1. SUFFICES ASSUME n = 0 PROVE \E f : JoinedUpTo(f, p, labels, 0)
    OBVIOUS
  <2> DEFINE f == [l \in 0 .. 0 |-> p]
  <2>2. f = [l \in 0 .. 0 |-> IF l = 0 THEN p
                              ELSE IF l \in labels THEN union(f[l - 1], l, Min(labels)) ELSE f[l - 1]]
    <3>1. \A l \in 0 .. 0 : l = 0
      OBVIOUS
    <3> QED BY <3>1
  <2> QED BY <2>2 DEF JoinedUpTo
<1>4. PICK g : JoinedUpTo(g, p, labels, n - 1)
  <2>1. n - 1 \in Nat /\ ~(n <= n - 1)
    BY <1>3
  <2> QED BY <1>2, <2>1
<1> DEFINE next == IF n \in labels THEN union(g[n - 1], n, Min(labels)) ELSE g[n - 1]
           f == [l \in 0 .. n |-> IF l = n THEN next ELSE g[l]]
<1>5. \A l \in 0 .. n - 1 : g[l] = IF l = 0 THEN p
                                  ELSE IF l \in labels THEN union(g[l - 1], l, Min(labels)) ELSE g[l - 1]
  BY <1>4 DEF JoinedUpTo
<1>6. \A l \in 0 .. n : f[l] = IF l = 0 THEN p
                               ELSE IF l \in labels THEN union(f[l - 1], l, Min(labels)) ELSE f[l - 1]
  <2> SUFFICES ASSUME NEW l \in 0 .. n
               PROVE  f[l] = IF l = 0 THEN p
                             ELSE IF l \in labels THEN union(f[l - 1], l, Min(labels)) ELSE f[l - 1]
    OBVIOUS
  <2>1. l # 0 => f[l - 1] = g[l - 1]
    OBVIOUS
  <2>2. CASE l = n
    <3>1. f[l] = next
      BY <2>2
    <3> HIDE DEF f
    <3> QED BY <1>3, <2>1, <2>2, <3>1
  <2>3. CASE l # n
    <3>1. f[l] = g[l] /\ l \in 0 .. n - 1
      BY <2>3
    <3> HIDE DEF f
    <3> QED BY <1>5, <2>1, <3>1
  <2> QED BY <2>2, <2>3
<1>7. JoinedUpTo(f, p, labels, n)
  <2>1. f = [l \in 0 .. n |-> f[l]]
    OBVIOUS
  <2> HIDE DEF f
  <2> QED BY <1>6, <2>1 DEF JoinedUpTo
<1> QED BY <1>2, <1>7

\* A label is one of those that are joined, or has the root of one.
OneOf(p, labels, i) == \E l \in labels : Joined(p, i, l)

\* Joining some labels makes one tree of theirs, and leaves the others.
LEMMA JoinAllIs ==
  ASSUME NEW p, Forest(p), NEW labels \in SUBSET (1 .. Len(p)), labels # {}
  PROVE  /\ Forest(JoinAll(p, labels)) /\ Len(JoinAll(p, labels)) = Len(p)
         /\ \A i, j \in 1 .. Len(p) : Joined(JoinAll(p, labels), i, j) <=>
              Joined(p, i, j) \/ (OneOf(p, labels, i) /\ OneOf(p, labels, j))
<1> DEFINE f == CHOOSE g : JoinedUpTo(g, p, labels, Len(p))
           m == Min(labels)
           upto(k) == {l \in labels : l <= k \/ l = m}
           Good(q, k) == /\ Forest(q) /\ Len(q) = Len(p)
                         /\ \A i, j \in 1 .. Len(p) : Joined(q, i, j) <=>
                              Joined(p, i, j) \/ (OneOf(p, upto(k), i) /\ OneOf(p, upto(k), j))
<1>0. Len(p) \in Nat
  BY LenProperties DEF Forest
<1>1. m \in labels
  <2>1. labels \in SUBSET Nat
    BY <1>0
  <2>2. \E i \in labels : \A j \in labels : i <= j
    BY <2>1, LeastNumber
  <2> QED BY <2>2 DEF Min
<1>2. JoinAll(p, labels) = f[Len(p)]
  BY DEF JoinAll, JoinedUpTo
<1>3. JoinedUpTo(f, p, labels, Len(p))
  BY <1>0, JoiningExists
<1> HIDE DEF f, m
<1>8. \A l \in labels : l \in Int /\ 1 <= l /\ l <= Len(p)
  BY <1>0
<1>4. \A l \in 0 .. Len(p) : f[l] = IF l = 0 THEN p
                                    ELSE IF l \in labels THEN union(f[l - 1], l, m) ELSE f[l - 1]
  BY <1>3 DEF JoinedUpTo, m
<1> DEFINE Bad == {k \in 0 .. Len(p) : ~Good(f[k], k)}
<1>5. Bad = {}
  <2> SUFFICES ASSUME Bad # {} PROVE FALSE
    OBVIOUS
  <2>1. PICK k \in Bad : \A j \in Bad : k <= j
    <3>1. Bad \in SUBSET Nat
      BY <1>0
    <3> HIDE DEF Bad
    <3> QED BY <3>1, LeastNumber
  <2>2. k \in 0 .. Len(p) /\ ~Good(f[k], k)
    BY <2>1
  <2>3. CASE k = 0
    <3>1. f[0] = p
      BY <1>0, <1>4
    <3>2. upto(0) = {m}
      <4>1. \A l \in upto(0) : l = m
        BY <1>8
      <4> QED BY <1>1, <4>1
    <3>3. Good(p, 0)
      BY <3>2 DEF Joined, OneOf
    <3> QED BY <2>2, <2>3, <3>1, <3>3
  <2>4. CASE k # 0
    <3> DEFINE q == f[k - 1]
    <3>1. k - 1 \in 0 .. Len(p) /\ ~(k <= k - 1) /\ k \in 1 .. Len(p)
      BY <1>0, <2>2, <2>4
    <3>2. Good(q, k - 1)
      <4> HIDE DEF Good
      <4> QED BY <2>1, <3>1
    <3>3. f[k] = IF k \in labels THEN union(q, k, m) ELSE q
      BY <1>4, <2>2, <2>4
    <3>4. upto(k) = IF k \in labels THEN upto(k - 1) \cup {k} ELSE upto(k - 1)
      <4>1. k \in Int /\ \A l \in labels : l <= k <=> l <= k - 1 \/ l = k
        BY <1>0, <1>8, <3>1
      <4> QED BY <4>1, Zenon
    <3> HIDE DEF q
    <3>5. CASE k \notin labels
      BY <2>2, <3>2, <3>3, <3>4, <3>5
    <3>6. CASE k \in labels
      <4> DEFINE S == upto(k - 1)
      <4>1. Good(union(q, k, m), k)
        <5>1. /\ Forest(union(q, k, m)) /\ Len(union(q, k, m)) = Len(p)
              /\ \A i, j \in 1 .. Len(p) : Joined(union(q, k, m), i, j) <=>
                   \/ Joined(q, i, j)
                   \/ (Joined(q, i, k) \/ Joined(q, i, m)) /\ (Joined(q, j, k) \/ Joined(q, j, m))
          <6>1. k \in 1 .. Len(q) /\ m \in 1 .. Len(q)
            BY <1>1, <3>1, <3>2
          <6> QED BY <3>2, <6>1, UnionIs
        <5>2. m \in S /\ m \in 1 .. Len(p)
          BY <1>1
        <5>3. \A i \in 1 .. Len(p) : OneOf(p, upto(k), i) <=> OneOf(p, S, i) \/ Joined(p, i, k)
          BY <3>4, <3>6 DEF OneOf
        <5>4. \A i, j \in 1 .. Len(p) : Joined(q, i, j) <=>
                              Joined(p, i, j) \/ (OneOf(p, S, i) /\ OneOf(p, S, j))
          BY <3>2
        <5>5. \A i \in 1 .. Len(p) : Joined(q, i, k) \/ Joined(q, i, m) <=> OneOf(p, upto(k), i)
          <6> SUFFICES ASSUME NEW i \in 1 .. Len(p)
                       PROVE  Joined(q, i, k) \/ Joined(q, i, m) <=> OneOf(p, upto(k), i)
            OBVIOUS
          <6>1. OneOf(p, S, m) /\ (Joined(p, i, m) => OneOf(p, S, i))
            BY <5>2 DEF OneOf, Joined
          <6> HIDE DEF S
          <6> QED BY <3>1, <5>2, <5>3, <5>4, <6>1
        <5>6. \A i, j \in 1 .. Len(p) : Joined(q, i, j) => 
                              Joined(p, i, j) \/ (OneOf(p, upto(k), i) /\ OneOf(p, upto(k), j))
          <6> HIDE DEF S
          <6> QED BY <5>3, <5>4
        <5> HIDE DEF S
        <5>7. \A i, j \in 1 .. Len(p) : Joined(p, i, j) => Joined(q, i, j)
          BY <5>4
        <5> HIDE DEF upto
        <5> QED BY <5>1, <5>5, <5>6, <5>7
      <4> HIDE DEF Good
      <4> QED BY <2>2, <3>3, <3>6, <4>1
    <3> QED BY <3>5, <3>6
  <2> QED BY <2>3, <2>4
<1>6. Good(f[Len(p)], Len(p))
  <2>1. Len(p) \in 0 .. Len(p)
    BY <1>0
  <2> HIDE DEF Good
  <2> QED BY <1>5, <2>1
<1>7. upto(Len(p)) = labels
  BY <1>8
<1> QED BY <1>2, <1>6, <1>7

\* A new label is a tree of its own.
LEMMA Appended ==
  ASSUME NEW p, Forest(p)
  PROVE  LET q == Append(p, Len(p) + 1)
         IN  /\ Forest(q) /\ Len(q) = Len(p) + 1
             /\ \A i, j \in 1 .. Len(p) : Joined(q, i, j) <=> Joined(p, i, j)
             /\ \A i \in 1 .. Len(p) : ~Joined(q, i, Len(q)) /\ ~Joined(q, Len(q), i)
<1> DEFINE q == Append(p, Len(p) + 1)
<1>0. Len(p) \in Nat /\ \A j \in 1 .. Len(p) : p[j] \in Nat /\ p[j] \in 1 .. j
  BY LenProperties DEF Forest
<1>1. q \in Seq(Nat) /\ Len(q) = Len(p) + 1 /\ (\A i \in 1 .. Len(p) : q[i] = p[i]) /\ q[Len(p) + 1] = Len(p) + 1
  <2>1. p \in Seq(Nat) /\ Len(p) + 1 \in Nat
    BY <1>0 DEF Forest
  <2> QED BY <2>1, AppendProperties
<1> HIDE DEF q
<1>2. Forest(q)
  <2> SUFFICES ASSUME NEW i \in 1 .. Len(q) PROVE 1 <= q[i] /\ q[i] <= i
    BY <1>1 DEF Forest
  <2>1. CASE i = Len(p) + 1
    BY <1>0, <1>1, <2>1
  <2>2. CASE i # Len(p) + 1
    <3>1. i \in 1 .. Len(p)
      BY <1>0, <1>1, <2>2
    <3> QED BY <1>0, <1>1, <3>1
  <2> QED BY <2>1, <2>2
<1> DEFINE Bad == {i \in 1 .. Len(p) : find_root(q, i) # find_root(p, i)}
<1>3. Bad = {}
  <2> SUFFICES ASSUME Bad # {} PROVE FALSE
    OBVIOUS
  <2>1. PICK j \in Bad : \A k \in Bad : j <= k
    <3>1. Bad \in SUBSET Nat
      BY <1>0
    <3> HIDE DEF Bad
    <3> QED BY <3>1, LeastNumber
  <2>2. /\ find_root(p, j) = IF p[j] = j THEN j ELSE find_root(p, p[j])
        /\ find_root(q, j) = IF q[j] = j THEN j ELSE find_root(q, q[j])
    <3>1. j \in 1 .. Len(q)
      BY <1>0, <1>1, <2>1
    <3> QED BY <1>2, <2>1, <3>1, Finding
  <2>3. CASE p[j] = j
    BY <1>1, <2>1, <2>2, <2>3
  <2>4. CASE p[j] # j
    <3>1. p[j] \in 1 .. Len(p) /\ p[j] < j /\ q[j] = p[j]
      BY <1>0, <1>1, <2>1, <2>4
    <3>2. j \in Nat /\ p[j] \in Nat /\ ~(j <= p[j])
      BY <1>0, <2>1, <3>1
    <3>3. p[j] \notin Bad
      <4> HIDE DEF Bad
      <4> QED BY <2>1, <3>2
    <3> QED BY <2>1, <2>2, <2>4, <3>1, <3>3
  <2> QED BY <2>3, <2>4
<1>4. find_root(q, Len(q)) = Len(q)
  <2>1. Len(q) \in 1 .. Len(q) /\ q[Len(q)] = Len(q)
    BY <1>0, <1>1
  <2> QED BY <1>2, <2>1, Finding
<1>5. \A i \in 1 .. Len(p) : find_root(q, i) = find_root(p, i) /\ find_root(p, i) \in Int /\ find_root(p, i) # Len(q)
  <2> SUFFICES ASSUME NEW i \in 1 .. Len(p)
               PROVE  find_root(q, i) = find_root(p, i) /\ find_root(p, i) \in Int /\ find_root(p, i) # Len(q)
    OBVIOUS
  <2>1. find_root(p, i) \in 1 .. i
    BY Finding
  <2>2. find_root(q, i) = find_root(p, i)
    BY <1>3
  <2> QED BY <1>0, <1>1, <2>1, <2>2
<1>6. /\ \A i, j \in 1 .. Len(p) : Joined(q, i, j) <=> Joined(p, i, j)
      /\ \A i \in 1 .. Len(p) : ~Joined(q, i, Len(q)) /\ ~Joined(q, Len(q), i)
  BY <1>4, <1>5 DEF Joined
<1> QED BY <1>1, <1>2, <1>6 DEF q

\* What lies on a raster; and what holds all that is beside what it holds.
OnRaster == (0 .. Cols - 1) \X (0 .. Rows - 1)

Shut(mask, S) == \A d \in S : \A e \in mask : Apart2(d, e) = 1 => e \in S

LEMMA RasterIsFinite ==
  /\ IsFiniteSet(OnRaster) /\ Rows \in Nat /\ Cols \in Nat
  /\ \A d \in OnRaster : /\ d = << d[1], d[2] >>
                         /\ d[1] \in Int /\ 0 <= d[1] /\ d[1] < Cols
                         /\ d[2] \in Int /\ 0 <= d[2] /\ d[2] < Rows
<1>1. Rows \in Nat /\ Cols \in Nat
  BY NetsAssumption
<1>2. IsFiniteSet(OnRaster)
  <2>1. IsFiniteSet(0 .. Cols - 1) /\ IsFiniteSet(0 .. Rows - 1)
    BY <1>1, FS_Interval
  <2> QED BY <2>1, FS_Product DEF OnRaster
<1> QED BY <1>1, <1>2 DEF OnRaster

Grown(mask, s) == s \cup UNION {{e \in mask : Apart2(d, e) = 1} : d \in s}

LEMMA GrownHolds ==
  ASSUME NEW mask, NEW s \in SUBSET mask
  PROVE  /\ s \subseteq Grown(mask, s) /\ Grown(mask, s) \in SUBSET mask
         /\ Grown(mask, s) = s <=> Shut(mask, s)
         /\ \A S : s \subseteq S /\ Shut(mask, S) => Grown(mask, s) \subseteq S
  BY DEF Grown, Shut

Spreading(f, mask) == f = [s \in SUBSET mask |-> IF Grown(mask, s) = s THEN s ELSE f[Grown(mask, s)]]

LEMMA SpreadingExists ==
  ASSUME NEW mask
  PROVE  \E f : Spreading(f, mask)
<1> DEFINE closed(r) == {c \in SUBSET mask : r \subseteq c /\ Grown(mask, c) = c}
           f == [r \in SUBSET mask |-> {g \in mask : \A c \in closed(r) : g \in c}]
<1>1. \A r \in SUBSET mask : f[r] = IF Grown(mask, r) = r THEN r ELSE f[Grown(mask, r)]
  <2> SUFFICES ASSUME NEW r \in SUBSET mask
               PROVE  f[r] = IF Grown(mask, r) = r THEN r ELSE f[Grown(mask, r)]
    OBVIOUS
  <2>1. r \subseteq Grown(mask, r) /\ Grown(mask, r) \in SUBSET mask
    BY GrownHolds
  <2>2. CASE Grown(mask, r) = r
    <3>1. r \in closed(r)
      BY <2>2
    <3> QED BY <2>2, <3>1
  <2>3. closed(Grown(mask, r)) = closed(r)
    <3> SUFFICES ASSUME NEW c \in SUBSET mask, r \subseteq c, Grown(mask, c) = c
                 PROVE  Grown(mask, r) \subseteq c
      BY <2>1
    <3>1. Shut(mask, c)
      BY GrownHolds
    <3> QED BY <3>1, GrownHolds
  <2> HIDE DEF closed
  <2> QED BY <2>1, <2>2, <2>3
<1>2. f = [r \in SUBSET mask |-> f[r]]
  OBVIOUS
<1> HIDE DEF f
<1> QED BY <1>1, <1>2 DEF Spreading

\* Spreading ends with the least set that holds what it began with and is shut.
LEMMA Reaching ==
  ASSUME NEW mask \in SUBSET OnRaster, NEW c \in mask
  PROVE  /\ Reach(mask, c) \subseteq mask /\ c \in Reach(mask, c) /\ Shut(mask, Reach(mask, c))
         /\ \A S : c \in S /\ Shut(mask, S) => Reach(mask, c) \subseteq S
<1> DEFINE f == CHOOSE g : Spreading(g, mask)
           Least(q) == /\ f[q] \in SUBSET mask /\ q \subseteq f[q] /\ Shut(mask, f[q])
                       /\ \A S : q \subseteq S /\ Shut(mask, S) => f[q] \subseteq S
           Bad == {T \in FiniteSubsetsOf(mask) : ~Least(mask \ T)}
<1>1. Reach(mask, c) = f[{c}]
  BY DEF Reach, Spreading, Grown
<1>2. Spreading(f, mask)
  BY SpreadingExists
<1> HIDE DEF f
<1>3. IsFiniteSet(mask)
  BY RasterIsFinite, FS_Subset
<1>4. \A q \in SUBSET mask : mask \ q \in FiniteSubsetsOf(mask) /\ mask \ (mask \ q) = q
  BY <1>3, FS_Subset DEF FiniteSubsetsOf
<1>5. SUFFICES ASSUME Bad # {} PROVE FALSE
  <2> HIDE DEF Least
  <2>1. {c} \in SUBSET mask /\ (Bad = {} => Least({c}))
    <3>1. mask \ {c} \in FiniteSubsetsOf(mask) /\ mask \ (mask \ {c}) = {c}
      BY <1>4
    <3> QED BY <3>1
  <2>2. Bad = {}
    BY <1>5
  <2>3. Least({c})
    BY <2>1, <2>2
  <2> QED BY <1>1, <2>3 DEF Least
<1>6. PICK T \in Bad : \A U \in Bad : ~ (<<U, T>> \in StrictSubsetOrdering(mask))
  <2>1. Bad \subseteq FiniteSubsetsOf(mask)
    OBVIOUS
  <2> HIDE DEF Bad
  <2> QED BY <1>5, <2>1, FS_StrictSubsetOrderingWellFounded, WFMin
<1> DEFINE q == mask \ T
           more == Grown(mask, q)
<1>7. q \in SUBSET mask /\ T \in FiniteSubsetsOf(mask) /\ ~Least(q) /\ T = mask \ q
  <2> HIDE DEF Least
  <2> QED BY <1>6 DEF FiniteSubsetsOf
<1>8. q \subseteq more /\ more \in SUBSET mask /\ (more = q <=> Shut(mask, q))
      /\ \A S : q \subseteq S /\ Shut(mask, S) => more \subseteq S
  <2> HIDE DEF q
  <2> QED BY <1>7, GrownHolds
<1>9. f[q] = IF more = q THEN q ELSE f[more]
  <2>1. f = [s \in SUBSET mask |-> IF Grown(mask, s) = s THEN s ELSE f[Grown(mask, s)]]
    BY <1>2 DEF Spreading
  <2> HIDE DEF q, Bad, Least
  <2> QED BY <1>7, <2>1
<1> HIDE DEF q, more, Bad
<1>10. more # q
  BY <1>7, <1>8, <1>9
<1>11. Least(more)
  <2>1. mask \ more \in FiniteSubsetsOf(mask) /\ mask \ (mask \ more) = more
    BY <1>4, <1>8
  <2>2. << mask \ more, T >> \in StrictSubsetOrdering(mask)
    BY <1>7, <1>8, <1>10, <2>1 DEF StrictSubsetOrdering, FiniteSubsetsOf
  <2>3. mask \ more \notin Bad
    BY <1>6, <2>2
  <2> HIDE DEF Least
  <2> QED BY <2>1, <2>3 DEF Bad
<1>12. Least(q)
  BY <1>8, <1>9, <1>10, <1>11
<1> QED BY <1>7, <1>12

\* Pixels are beside each other if they follow one another in a row or a column.
LEMMA BesideIs ==
  ASSUME NEW d \in OnRaster, NEW e \in OnRaster
  PROVE  Apart2(d, e) = 1 <=> \/ d[2] = e[2] /\ (e[1] = d[1] + 1 \/ d[1] = e[1] + 1)
                              \/ d[1] = e[1] /\ (e[2] = d[2] + 1 \/ d[2] = e[2] + 1)
<1>1. \A x, y \in Int : x * x + y * y = 1 <=> (x = 0 /\ (y = 1 \/ y = -1)) \/ (y = 0 /\ (x = 1 \/ x = -1))
  <2>1. \A x \in Int : x = 0 \/ x = 1 \/ x = -1 \/ x * x >= 4
    <3> SUFFICES ASSUME NEW x \in Int, x >= 2 \/ x <= -2 PROVE x * x >= 4
      OBVIOUS
    <3> QED OBVIOUS
  <2>2. \A x \in Int : x * x \in Int /\ x * x >= 0
    OBVIOUS
  <2> SUFFICES ASSUME NEW x \in Int, NEW y \in Int
               PROVE  x * x + y * y = 1 <=> (x = 0 /\ (y = 1 \/ y = -1)) \/ (y = 0 /\ (x = 1 \/ x = -1))
    OBVIOUS
  <2>3. (x = 0 \/ x = 1 \/ x = -1 \/ x * x >= 4) /\ (y = 0 \/ y = 1 \/ y = -1 \/ y * y >= 4)
        /\ x * x \in Int /\ x * x >= 0 /\ y * y \in Int /\ y * y >= 0
    BY <2>1, <2>2
  <2> QED BY <2>3
<1>2. d[1] - e[1] \in Int /\ d[2] - e[2] \in Int
      /\ d[1] \in Int /\ d[2] \in Int /\ e[1] \in Int /\ e[2] \in Int
  BY RasterIsFinite
<1>3. Apart2(d, e) = 1 <=> \/ d[1] - e[1] = 0 /\ (d[2] - e[2] = 1 \/ d[2] - e[2] = -1)
                           \/ d[2] - e[2] = 0 /\ (d[1] - e[1] = 1 \/ d[1] - e[1] = -1)
  BY <1>1, <1>2 DEF Apart2
<1> QED BY <1>2, <1>3

\* What is beside each other reaches the same, and so does all that is reached.
LEMMA BesideReachesTheSame ==
  ASSUME NEW mask \in SUBSET OnRaster, NEW d \in mask, NEW e \in mask, Apart2(d, e) = 1
  PROVE  Reach(mask, d) = Reach(mask, e)
<1>1. Apart2(e, d) = 1
  <2>1. d \in OnRaster /\ e \in OnRaster
    OBVIOUS
  <2> QED BY <2>1, BesideIs
<1>2. e \in Reach(mask, d) /\ d \in Reach(mask, e)
  BY <1>1, Reaching DEF Shut
<1> QED BY <1>2, Reaching

LEMMA ReachedReachesTheSame ==
  ASSUME NEW mask \in SUBSET OnRaster, NEW c \in mask, NEW d \in Reach(mask, c)
  PROVE  Reach(mask, d) = Reach(mask, c)
<1> DEFINE S == {e \in mask : Reach(mask, e) = Reach(mask, c)}
<1>1. Shut(mask, S)
  BY BesideReachesTheSame DEF Shut
<1>2. c \in S
  OBVIOUS
<1> HIDE DEF S
<1>3. Reach(mask, c) \subseteq S
  BY <1>1, <1>2, Reaching
<1> QED BY <1>3 DEF S

\* A run is all copper, and there is none before it and none after.
LEMMA RunsAre ==
  ASSUME NEW mask \in SUBSET OnRaster, NEW row \in 0 .. Rows - 1, NEW run \in _runs(mask, row)
  PROVE  /\ run = << run[1], run[2] >> /\ run[1] \in 0 .. Cols - 1 /\ run[2] \in run[1] .. Cols - 1
         /\ \A c \in run[1] .. run[2] : << c, row >> \in mask
         /\ << run[1] - 1, row >> \notin mask /\ << run[2] + 1, row >> \notin mask
<1> DEFINE copper(c) == << c, row >> \in mask
           ends(a) == {b \in a .. Cols - 1 : ~copper(b + 1)}
<1>0. Cols \in Nat /\ Rows \in Nat /\ \A c : copper(c) => c \in 0 .. Cols - 1
  <2>1. Cols \in Nat /\ Rows \in Nat
    BY RasterIsFinite
  <2> QED BY <2>1 DEF OnRaster
<1>1. PICK a \in 0 .. Cols - 1 : copper(a) /\ ~copper(a - 1) /\ run = << a, Min(ends(a)) >>
  BY DEF _runs
<1>2. a \in Nat /\ a <= Cols - 1
  BY <1>0, <1>1
<1>3. Min(ends(a)) \in ends(a) /\ \A b \in ends(a) : Min(ends(a)) <= b
  <2>1. Cols - 1 \in ends(a)
    <3>1. Cols - 1 \in a .. Cols - 1 /\ Cols - 1 + 1 \notin 0 .. Cols - 1
      BY <1>0, <1>2
    <3> QED BY <1>0, <3>1
  <2>2. ends(a) \in SUBSET Nat
    BY <1>0, <1>2
  <2> HIDE DEF ends
  <2>3. \E b \in ends(a) : \A e \in ends(a) : b <= e
    BY <2>1, <2>2, LeastNumber
  <2> QED BY <2>3 DEF Min
<1> DEFINE b == Min(ends(a))
<1>4. b \in a .. Cols - 1 /\ ~copper(b + 1)
  BY <1>3
<1>5. \A e \in a .. Cols - 1 : ~copper(e + 1) => b <= e
  BY <1>3
<1> HIDE DEF b
<1>6. \A c \in a .. b : copper(c)
  <2> DEFINE Bad == {c \in a .. b : ~copper(c)}
  <2> SUFFICES ASSUME Bad # {} PROVE FALSE
    OBVIOUS
  <2>1. Bad \in SUBSET Nat
    BY <1>2, <1>4
  <2>2. PICK c \in Bad : \A k \in Bad : c <= k
    <3> HIDE DEF Bad
    <3> QED BY <2>1, LeastNumber
  <2>3. c \in a .. b /\ ~copper(c) /\ c # a
    BY <1>1, <2>2
  <2>4. c - 1 \in a .. Cols - 1 /\ c - 1 + 1 = c /\ ~(b <= c - 1)
    BY <1>0, <1>2, <1>4, <2>3
  <2> QED BY <1>5, <2>3, <2>4
<1>7. run[1] = a /\ run[2] = b /\ run = << run[1], run[2] >>
  BY <1>1 DEF b
<1> QED BY <1>1, <1>4, <1>6, <1>7

\* Runs of a row that have a pixel in common, or begin at one, are the same.
LEMMA RunsAreApart ==
  ASSUME NEW mask \in SUBSET OnRaster, NEW row \in 0 .. Rows - 1,
         NEW run \in _runs(mask, row), NEW other \in _runs(mask, row),
         NEW c \in Int, run[1] <= c, c <= run[2], other[1] <= c, c <= other[2]
  PROVE  run = other
<1>0. /\ run = << run[1], run[2] >> /\ run[1] \in Int /\ run[2] \in Int /\ run[1] <= run[2]
      /\ other = << other[1], other[2] >> /\ other[1] \in Int /\ other[2] \in Int /\ other[1] <= other[2]
  <2>1. Cols \in Nat
    BY RasterIsFinite
  <2>2. \A x \in 0 .. Cols - 1 : x \in Int /\ \A y \in x .. Cols - 1 : y \in Int /\ x <= y
    BY <2>1
  <2>3. ASSUME NEW r \in _runs(mask, row)
        PROVE  r = << r[1], r[2] >> /\ r[1] \in Int /\ r[2] \in Int /\ r[1] <= r[2]
    <3>1. r = << r[1], r[2] >> /\ r[1] \in 0 .. Cols - 1 /\ r[2] \in r[1] .. Cols - 1
      BY RunsAre, Zenon
    <3> QED BY <2>2, <3>1, Zenon
  <2> QED BY <2>3, Zenon
<1> DEFINE a == run[1]
           b == run[2]
           g == other[1]
           h == other[2]
<1>1. /\ \A k \in a .. b : << k, row >> \in mask
      /\ \A k \in g .. h : << k, row >> \in mask
      /\ << a - 1, row >> \notin mask /\ << b + 1, row >> \notin mask
      /\ << g - 1, row >> \notin mask /\ << h + 1, row >> \notin mask
  BY RunsAre
<1>2. a \in Int /\ b \in Int /\ g \in Int /\ h \in Int /\ a <= c /\ c <= b /\ g <= c /\ c <= h
  BY <1>0
<1> HIDE DEF a, b, g, h
<1>3. ~(a < g)
  <2>1. a < g => g - 1 \in a .. b
    BY <1>2
  <2> QED BY <1>1, <2>1
<1>4. ~(g < a)
  <2>1. g < a => a - 1 \in g .. h
    BY <1>2
  <2> QED BY <1>1, <2>1
<1>5. ~(b < h)
  <2>1. b < h => b + 1 \in g .. h
    BY <1>2
  <2> QED BY <1>1, <2>1
<1>6. ~(h < b)
  <2>1. h < b => h + 1 \in a .. b
    BY <1>2
  <2> QED BY <1>1, <2>1
<1>7. a = g /\ b = h
  BY <1>2, <1>3, <1>4, <1>5, <1>6
<1> QED BY <1>0, <1>7 DEF a, b, g, h

\* Every pixel of copper is in a run.
LEMMA RunOfPixel ==
  ASSUME NEW mask \in SUBSET OnRaster, NEW d \in mask
  PROVE  \E run \in _runs(mask, d[2]) : run[1] <= d[1] /\ d[1] <= run[2]
<1> DEFINE row == d[2]
           c == d[1]
           copper(k) == << k, row >> \in mask
           starts == {a \in 0 .. c : \A k \in a .. c : copper(k)}
<1>0. /\ Cols \in Nat /\ c \in Nat /\ c < Cols /\ row \in 0 .. Rows - 1 /\ copper(c)
      /\ \A k : copper(k) => k \in 0 .. Cols - 1
  <2>1. Cols \in Nat /\ Rows \in Nat /\ d = << d[1], d[2] >> /\ d \in OnRaster
    BY RasterIsFinite
  <2> QED BY <2>1 DEF OnRaster
<1> HIDE DEF row, c
<1>1. PICK a \in starts : \A e \in starts : a <= e
  <2>1. starts \in SUBSET Nat /\ c \in starts
    <3>1. \A k \in c .. c : k = c
      BY <1>0
    <3> QED BY <1>0, <3>1
  <2> HIDE DEF starts
  <2> QED BY <2>1, LeastNumber
<1>2. a \in 0 .. c /\ (\A k \in a .. c : copper(k)) /\ a \in 0 .. Cols - 1 /\ copper(a)
  <2>1. a \in 0 .. c /\ \A k \in a .. c : copper(k)
    BY <1>1
  <2>2. a \in a .. c /\ a \in 0 .. Cols - 1
    BY <1>0, <2>1
  <2> QED BY <2>1, <2>2
<1>3. ~copper(a - 1)
  <2> SUFFICES ASSUME copper(a - 1) PROVE FALSE
    OBVIOUS
  <2>1. a - 1 \in 0 .. Cols - 1 /\ ~(a <= a - 1)
    BY <1>0, <1>2
  <2>2. a - 1 \in 0 .. c /\ \A k \in a - 1 .. c : k = a - 1 \/ k \in a .. c
    BY <1>0, <1>2, <2>1
  <2>3. a - 1 \in starts
    BY <1>2, <2>2
  <2> HIDE DEF starts
  <2> QED BY <1>1, <2>1, <2>3
<1> DEFINE run == << a, Min({b \in a .. Cols - 1 : ~copper(b + 1)}) >>
<1>4. run \in _runs(mask, row)
  BY <1>2, <1>3 DEF _runs
<1>5. run[1] = a
  OBVIOUS
<1> HIDE DEF run
<1>6. run[2] \in Int /\ << run[2] + 1, row >> \notin mask /\ a <= run[2]
  <2>1. run[2] \in run[1] .. Cols - 1 /\ << run[2] + 1, row >> \notin mask
    BY <1>0, <1>4, RunsAre
  <2> QED BY <1>0, <1>2, <1>5, <2>1
<1>7. c <= run[2]
  <2> SUFFICES ASSUME run[2] < c PROVE FALSE
    BY <1>0, <1>6
  <2>1. run[2] + 1 \in a .. c
    BY <1>0, <1>2, <1>6
  <2> QED BY <1>2, <1>6, <2>1
<1>8. run[1] <= c
  BY <1>0, <1>2, <1>5
<1> QED BY <1>4, <1>7, <1>8 DEF row, c

\* All of a run reaches the same.
LEMMA RunReachesTheSame ==
  ASSUME NEW mask \in SUBSET OnRaster, NEW row \in 0 .. Rows - 1, NEW run \in _runs(mask, row),
         NEW c \in run[1] .. run[2]
  PROVE  Reach(mask, << c, row >>) = Reach(mask, << run[1], row >>)
<1> DEFINE a == run[1]
           b == run[2]
           Bad == {k \in a .. b : Reach(mask, << k, row >>) # Reach(mask, << a, row >>)}
<1>0. a \in Nat /\ b \in Int /\ c \in a .. b /\ \A k \in a .. b : << k, row >> \in mask
  <2>1. Cols \in Nat
    BY RasterIsFinite
  <2>2. a \in 0 .. Cols - 1 /\ b \in a .. Cols - 1 /\ \A k \in a .. b : << k, row >> \in mask
    BY RunsAre
  <2> QED BY <2>1, <2>2
<1> HIDE DEF a, b
<1>1. Bad = {}
  <2> SUFFICES ASSUME Bad # {} PROVE FALSE
    OBVIOUS
  <2>1. Bad \in SUBSET Nat
    BY <1>0
  <2>2. PICK k \in Bad : \A j \in Bad : k <= j
    <3> HIDE DEF Bad
    <3> QED BY <2>1, LeastNumber
  <2>3. k \in a .. b /\ k # a /\ Reach(mask, << k, row >>) # Reach(mask, << a, row >>)
    BY <2>2
  <2>4. k - 1 \in a .. b /\ ~(k <= k - 1) /\ k - 1 + 1 = k
    BY <1>0, <2>3
  <2>5. Reach(mask, << k - 1, row >>) = Reach(mask, << a, row >>)
    <3>1. k - 1 \notin Bad
      <4> HIDE DEF Bad
      <4> QED BY <2>2, <2>4
    <3> QED BY <2>4, <3>1
  <2>6. Reach(mask, << k - 1, row >>) = Reach(mask, << k, row >>)
    <3> DEFINE d == << k - 1, row >>
               e == << k, row >>
    <3>1. d \in mask /\ e \in mask /\ d \in OnRaster /\ e \in OnRaster
          /\ d[1] = k - 1 /\ e[1] = k /\ d[2] = row /\ e[2] = row
      BY <1>0, <2>3, <2>4
    <3> HIDE DEF d, e
    <3>2. Apart2(d, e) = 1
      BY <2>4, <3>1, BesideIs
    <3> QED BY <3>1, <3>2, BesideReachesTheSame DEF d, e
  <2> QED BY <2>3, <2>5, <2>6
<1>2. Reach(mask, << c, row >>) = Reach(mask, << a, row >>)
  BY <1>0, <1>1
<1> QED BY <1>2 DEF a

\* Runs that touch reach the same.
LEMMA TouchingReachesTheSame ==
  ASSUME NEW mask \in SUBSET OnRaster, NEW row \in 0 .. Rows - 1, NEW run \in _runs(mask, row),
         row - 1 \in 0 .. Rows - 1, NEW other \in _runs(mask, row - 1),
         other[1] <= run[2], other[2] >= run[1]
  PROVE  Reach(mask, << other[1], row - 1 >>) = Reach(mask, << run[1], row >>)
<1> DEFINE a == run[1]
           b == run[2]
           g == other[1]
           h == other[2]
           k == IF a < g THEN g ELSE a
<1>1. Rows \in Nat /\ Cols \in Nat
  BY RasterIsFinite
<1>2. a \in Int /\ b \in Int /\ g \in Int /\ h \in Int /\ a <= b /\ g <= h
  <2>1. a \in 0 .. Cols - 1 /\ b \in a .. Cols - 1 /\ g \in 0 .. Cols - 1 /\ h \in g .. Cols - 1
    BY RunsAre
  <2> HIDE DEF a, b, g, h
  <2> QED BY <1>1, <2>1
<1>3. /\ \A c \in a .. b : << c, row >> \in mask
      /\ \A c \in g .. h : << c, row - 1 >> \in mask
  BY RunsAre
<1>4. g <= b /\ h >= a
  OBVIOUS
<1>5. /\ \A c \in a .. b : Reach(mask, << c, row >>) = Reach(mask, << a, row >>)
      /\ \A c \in g .. h : Reach(mask, << c, row - 1 >>) = Reach(mask, << g, row - 1 >>)
  BY RunReachesTheSame
<1> HIDE DEF a, b, g, h
<1>6. k \in Int /\ k \in a .. b /\ k \in g .. h
  BY <1>2, <1>4
<1> HIDE DEF k
<1> DEFINE d == << k, row - 1 >>
           e == << k, row >>
<1>7. d \in mask /\ e \in mask /\ d \in OnRaster /\ e \in OnRaster
      /\ d[1] = k /\ e[1] = k /\ d[2] = row - 1 /\ e[2] = row /\ row - 1 + 1 = row
  <2>1. d \in mask /\ e \in mask
    BY <1>3, <1>6
  <2> QED BY <1>1, <2>1
<1>8. Reach(mask, d) = Reach(mask, e)
  <2> HIDE DEF d, e
  <2>1. Apart2(d, e) = 1
    BY <1>7, BesideIs
  <2> QED BY <1>7, <2>1, BesideReachesTheSame
<1>9. Reach(mask, << k, row >>) = Reach(mask, << a, row >>) /\ Reach(mask, << k, row - 1 >>) = Reach(mask, << g, row - 1 >>)
  BY <1>5, <1>6
<1> QED BY <1>8, <1>9 DEF a, g

\* The runs so far are those of the rows before y, and of y before its column x.
\* Each has a label; two that touch have one root, and two that have one root
\* reach the same.
Earlier(row, start, y, x) == row < y \/ (row = y /\ start < x)

OfTheRuns(mask, s, y, x) ==
  /\ \A r \in s.runs : /\ r.row \in 0 .. Rows - 1 /\ << r.start, r.end >> \in _runs(mask, r.row)
                       /\ r.label \in 1 .. Len(s.parent) /\ Earlier(r.row, r.start, y, x)
  /\ \A row \in 0 .. Rows - 1 : \A run \in _runs(mask, row) :
       Earlier(row, run[1], y, x) => \E r \in s.runs : r.row = row /\ r.start = run[1]
  /\ \A r, q \in s.runs : r.row = q.row /\ r.start = q.start => r = q

Touching(q, r) == q.row = r.row - 1 /\ q.start <= r.end /\ q.end >= r.start

ReachTheSame(mask, r, q) == Reach(mask, << r.start, r.row >>) = Reach(mask, << q.start, q.row >>)

Sound(mask, s, y, x) ==
  /\ Forest(s.parent) /\ OfTheRuns(mask, s, y, x)
  /\ \A r, q \in s.runs : Touching(q, r) => Joined(s.parent, r.label, q.label)
  /\ \A r, q \in s.runs : Joined(s.parent, r.label, q.label) => ReachTheSame(mask, r, q)

\* The next run is added, with a label that is joined to those that it touches,
\* and to none that reaches another place.
LEMMA RunIsAdded ==
  ASSUME NEW mask \in SUBSET OnRaster, NEW y \in 0 .. Rows - 1, NEW run \in _runs(mask, y),
         NEW s, Sound(mask, s, y, run[1]), NEW p, Forest(p), Len(s.parent) <= Len(p), NEW n \in 1 .. Len(p),
         \A i, j \in 1 .. Len(s.parent) : Joined(s.parent, i, j) => Joined(p, i, j),
         \A r \in s.runs : r.label \in Touched(s, y, run) => Joined(p, n, r.label),
         \A r, q \in s.runs : Joined(p, r.label, q.label) => ReachTheSame(mask, r, q),
         \A r \in s.runs : Joined(p, n, r.label) => Reach(mask, << r.start, r.row >>) = Reach(mask, << run[1], y >>)
  PROVE  Sound(mask, AddRun(p, s.runs, y, run, n), y, run[1] + 1)
<1> DEFINE new == [row |-> y, start |-> run[1], end |-> run[2], label |-> n]
           t == [parent |-> p, runs |-> s.runs \cup {new}]
<1>1. AddRun(p, s.runs, y, run, n) = t
  BY Zenon DEF AddRun
<1>0. Rows \in Nat /\ Cols \in Nat /\ y \in Nat /\ run[1] \in Int /\ Len(s.parent) \in Nat /\ Len(p) \in Nat
  <2>1. Rows \in Nat /\ Cols \in Nat
    BY RasterIsFinite
  <2>2. run[1] \in 0 .. Cols - 1
    BY RunsAre
  <2> QED BY <2>1, <2>2, LenProperties DEF Sound, Forest
<1>2. new.row = y /\ new.start = run[1] /\ new.end = run[2] /\ new.label = n
  OBVIOUS
<1>3. /\ OfTheRuns(mask, s, y, run[1])
      /\ \A r, q \in s.runs : Touching(q, r) => Joined(s.parent, r.label, q.label)
  BY DEF Sound
<1>4. \A r \in s.runs : /\ r.row \in Int /\ r.row <= y /\ r.start \in Int
                        /\ r.label \in 1 .. Len(s.parent) /\ Earlier(r.row, r.start, y, run[1])
  <2> SUFFICES ASSUME NEW r \in s.runs
               PROVE  /\ r.row \in Int /\ r.row <= y /\ r.start \in Int
                      /\ r.label \in 1 .. Len(s.parent) /\ Earlier(r.row, r.start, y, run[1])
    OBVIOUS
  <2>1. /\ r.row \in 0 .. Rows - 1 /\ << r.start, r.end >> \in _runs(mask, r.row)
        /\ r.label \in 1 .. Len(s.parent) /\ Earlier(r.row, r.start, y, run[1])
    BY <1>3 DEF OfTheRuns
  <2>2. r.start \in 0 .. Cols - 1
    <3> DEFINE old == << r.start, r.end >>
    <3>1. old[1] = r.start
      OBVIOUS
    <3> HIDE DEF old
    <3>2. old \in _runs(mask, r.row)
      BY <2>1 DEF old
    <3>3. r.row \in 0 .. Rows - 1
      BY <2>1
    <3>4. old[1] \in 0 .. Cols - 1
      BY <3>2, <3>3, RunsAre
    <3> QED BY <3>1, <3>4
  <2> QED BY <1>0, <2>1, <2>2 DEF Earlier
<1> HIDE DEF new
<1>5. OfTheRuns(mask, t, y, run[1] + 1)
  <2>1. ASSUME NEW r \in t.runs
        PROVE  /\ r.row \in 0 .. Rows - 1 /\ << r.start, r.end >> \in _runs(mask, r.row)
               /\ r.label \in 1 .. Len(p) /\ Earlier(r.row, r.start, y, run[1] + 1)
    <3>1. CASE r \in s.runs
      <4>1. r.row \in 0 .. Rows - 1 /\ << r.start, r.end >> \in _runs(mask, r.row)
        BY <1>3, <3>1 DEF OfTheRuns
      <4>2. r.label \in 1 .. Len(p)
        BY <1>0, <1>4, <3>1
      <4>3. Earlier(r.row, r.start, y, run[1] + 1)
        BY <1>0, <1>4, <3>1 DEF Earlier
      <4> QED BY <4>1, <4>2, <4>3
    <3>2. CASE r = new
      <4>1. run = << run[1], run[2] >>
        BY RunsAre
      <4>2. << r.start, r.end >> \in _runs(mask, r.row)
        BY <1>2, <3>2, <4>1
      <4> QED BY <1>0, <1>2, <3>2, <4>2 DEF Earlier
    <3> QED BY <2>1, <3>1, <3>2
  <2>2. ASSUME NEW row \in 0 .. Rows - 1, NEW other \in _runs(mask, row), Earlier(row, other[1], y, run[1] + 1)
        PROVE  \E r \in t.runs : r.row = row /\ r.start = other[1]
    <3>1. CASE Earlier(row, other[1], y, run[1])
      BY <1>3, <3>1 DEF OfTheRuns
    <3>2. CASE ~Earlier(row, other[1], y, run[1])
      <4>1. other[1] \in 0 .. Cols - 1
        BY RunsAre
      <4>2. row = y /\ other[1] = run[1]
        BY <1>0, <2>2, <3>2, <4>1 DEF Earlier
      <4> QED BY <1>2, <4>2
    <3> QED BY <3>1, <3>2
  <2>3. ASSUME NEW r \in t.runs, NEW q \in t.runs, r.row = q.row, r.start = q.start
        PROVE  r = q
    <3>1. \A o \in s.runs : ~(o.row = y /\ o.start = run[1])
      BY <1>0, <1>4 DEF Earlier
    <3>2. \A o, k \in s.runs : o.row = k.row /\ o.start = k.start => o = k
      BY <1>3 DEF OfTheRuns
    <3> QED BY <1>2, <2>3, <3>1, <3>2
  <2> HIDE DEF t
  <2>4. t.parent = p
    BY DEF t
  <2> QED BY <2>1, <2>2, <2>3, <2>4 DEF OfTheRuns
<1>6. ASSUME NEW r \in t.runs, NEW q \in t.runs, Touching(q, r)
      PROVE  Joined(p, r.label, q.label)
  <2>1. CASE r \in s.runs /\ q \in s.runs
    BY <1>3, <1>4, <1>6, <2>1
  <2>2. CASE r = new /\ q \in s.runs
    <3>1. q.label \in Touched(s, y, run)
      BY <1>2, <1>6, <2>2 DEF Touching, Touched
    <3> QED BY <1>2, <2>2, <3>1
  <2>3. CASE q = new
    <3>1. q.row = r.row - 1
      BY <1>6 DEF Touching
    <3> QED BY <1>0, <1>2, <1>4, <2>3, <3>1
  <2> QED BY <2>1, <2>2, <2>3
<1>7. ASSUME NEW r \in t.runs, NEW q \in t.runs, Joined(p, r.label, q.label)
      PROVE  ReachTheSame(mask, r, q)
  <2>1. CASE r \in s.runs /\ q \in s.runs
    BY <1>7, <2>1
  <2>2. CASE r = new /\ q \in s.runs
    <3>1. Joined(p, n, q.label)
      BY <1>2, <1>7, <2>2
    <3> QED BY <1>2, <2>2, <3>1 DEF ReachTheSame
  <2>3. CASE q = new /\ r \in s.runs
    <3>1. Joined(p, n, r.label)
      BY <1>2, <1>7, <2>3 DEF Joined
    <3> QED BY <1>2, <2>3, <3>1 DEF ReachTheSame
  <2>4. CASE r = new /\ q = new
    BY <2>4 DEF ReachTheSame
  <2> QED BY <2>1, <2>2, <2>3, <2>4
<1>8. t.parent = p
  OBVIOUS
<1> HIDE DEF t
<1> QED BY <1>1, <1>5, <1>6, <1>7, <1>8 DEF Sound

LEMMA RunIsLabelled ==
  ASSUME NEW mask \in SUBSET OnRaster, NEW y \in 0 .. Rows - 1, NEW run \in _runs(mask, y),
         NEW s, Sound(mask, s, y, run[1])
  PROVE  Sound(mask, LabelRun(s, y, run), y, run[1] + 1)
<1> DEFINE p == s.parent
           T == Touched(s, y, run)
           here == Reach(mask, << run[1], y >>)
<1>0. /\ Forest(p) /\ Len(p) \in Nat
      /\ \A r \in s.runs : /\ r.row \in 0 .. Rows - 1 /\ << r.start, r.end >> \in _runs(mask, r.row)
                           /\ r.label \in 1 .. Len(p)
      /\ \A r, q \in s.runs : Joined(p, r.label, q.label) => ReachTheSame(mask, r, q)
  BY LenProperties DEF Sound, Forest, OfTheRuns
<1>1. ASSUME NEW l \in T
      PROVE  \E r \in s.runs : r.label = l /\ Reach(mask, << r.start, r.row >>) = here
  <2>1. PICK r \in s.runs : r.label = l /\ r.row = y - 1 /\ r.start <= run[2] /\ r.end >= run[1]
    BY <1>1 DEF Touched
  <2> DEFINE other == << r.start, r.end >>
  <2>2. other[1] = r.start /\ other[2] = r.end
    OBVIOUS
  <2> HIDE DEF other
  <2>3. y - 1 \in 0 .. Rows - 1 /\ other \in _runs(mask, y - 1) /\ other[1] <= run[2] /\ other[2] >= run[1]
    BY <1>0, <2>1, <2>2 DEF other
  <2>4. Reach(mask, << other[1], y - 1 >>) = here
    BY <2>3, TouchingReachesTheSame
  <2> QED BY <2>1, <2>2, <2>4
<1>2. T \in SUBSET (1 .. Len(p))
  BY <1>0, <1>1
<1>3. \A r \in s.runs : OneOf(p, T, r.label) => Reach(mask, << r.start, r.row >>) = here
  <2> SUFFICES ASSUME NEW r \in s.runs, NEW l \in T, Joined(p, r.label, l)
               PROVE  Reach(mask, << r.start, r.row >>) = here
    BY DEF OneOf
  <2>1. PICK q \in s.runs : q.label = l /\ Reach(mask, << q.start, q.row >>) = here
    BY <1>1
  <2>2. ReachTheSame(mask, r, q)
    BY <1>0, <2>1
  <2> QED BY <2>1, <2>2 DEF ReachTheSame
<1> HIDE DEF T, here, p
<1>4. CASE T = {}
  <2> DEFINE new == Len(p) + 1
             q == Append(p, new)
  <2>1. LabelRun(s, y, run) = AddRun(q, s.runs, y, run, new)
    BY <1>4 DEF LabelRun, T, p
  <2>2. /\ Forest(q) /\ Len(q) = Len(p) + 1
        /\ \A i, j \in 1 .. Len(p) : Joined(q, i, j) <=> Joined(p, i, j)
        /\ \A i \in 1 .. Len(p) : ~Joined(q, Len(q), i)
    BY <1>0, Appended
  <2> HIDE DEF q
  <2>3. new \in 1 .. Len(q) /\ new = Len(q) /\ Len(p) <= Len(q)
    BY <1>0, <2>2
  <2> HIDE DEF new
  <2>4. \A r \in s.runs : ~Joined(q, new, r.label)
    BY <1>0, <2>2, <2>3
  <2>5. \A r, k \in s.runs : Joined(q, r.label, k.label) => ReachTheSame(mask, r, k)
    BY <1>0, <2>2
  <2>6. \A r \in s.runs : r.label \in T => Joined(q, new, r.label)
    BY <1>4
  <2>7. \A i, j \in 1 .. Len(p) : Joined(p, i, j) => Joined(q, i, j)
    BY <2>2
  <2>8. Sound(mask, AddRun(q, s.runs, y, run, new), y, run[1] + 1)
    BY <2>2, <2>3, <2>4, <2>5, <2>6, <2>7, RunIsAdded DEF p, T, here
  <2> QED BY <2>1, <2>8
<1>5. CASE T # {}
  <2> DEFINE new == Min(T)
             q == JoinAll(p, T)
  <2>1. LabelRun(s, y, run) = AddRun(q, s.runs, y, run, new)
    BY <1>5 DEF LabelRun, T, p
  <2>2. /\ Forest(q) /\ Len(q) = Len(p)
        /\ \A i, j \in 1 .. Len(p) : Joined(q, i, j) <=> Joined(p, i, j) \/ (OneOf(p, T, i) /\ OneOf(p, T, j))
    BY <1>0, <1>2, <1>5, JoinAllIs
  <2>3. new \in T
    <3>1. T \in SUBSET Nat
      BY <1>0, <1>2
    <3>2. \E i \in T : \A j \in T : i <= j
      BY <1>5, <3>1, LeastNumber
    <3> QED BY <3>2 DEF Min
  <2> HIDE DEF q, new
  <2>4. new \in 1 .. Len(q) /\ new \in 1 .. Len(p) /\ Len(p) <= Len(q)
    BY <1>0, <1>2, <2>2, <2>3
  <2>5. \A l \in T : OneOf(p, T, l)
    BY DEF OneOf, Joined
  <2>6. \A r \in s.runs : Joined(q, new, r.label) => Reach(mask, << r.start, r.row >>) = here
    <3> SUFFICES ASSUME NEW r \in s.runs, Joined(q, new, r.label)
                 PROVE  OneOf(p, T, r.label)
      BY <1>3
    <3>1. Joined(p, new, r.label) \/ OneOf(p, T, r.label)
      BY <1>0, <2>2, <2>4
    <3> QED BY <2>3, <3>1 DEF OneOf, Joined
  <2>7. \A r, k \in s.runs : Joined(q, r.label, k.label) => ReachTheSame(mask, r, k)
    BY <1>0, <1>3, <2>2 DEF ReachTheSame
  <2>8. \A r \in s.runs : r.label \in T => Joined(q, new, r.label)
    BY <1>0, <2>2, <2>3, <2>4, <2>5
  <2>9. \A i, j \in 1 .. Len(p) : Joined(p, i, j) => Joined(q, i, j)
    BY <2>2
  <2>10. Sound(mask, AddRun(q, s.runs, y, run, new), y, run[1] + 1)
    BY <2>2, <2>4, <2>6, <2>7, <2>8, <2>9, RunIsAdded DEF p, T, here
  <2> QED BY <2>1, <2>10
<1> QED BY <1>4, <1>5

\* The function of the columns of a row, and that of the rows.
Columns(f, mask, s, row, m) ==
  f = [c \in 0 .. m |->
         IF c = 0 THEN s
         ELSE IF {r \in _runs(mask, row) : r[1] = c - 1} = {} THEN f[c - 1]
         ELSE LabelRun(f[c - 1], row, CHOOSE r \in {r \in _runs(mask, row) : r[1] = c - 1} : TRUE)]

RowsOf(f, mask, m) ==
  f = [y \in 0 .. m |-> IF y = 0 THEN [parent |-> << >>, runs |-> {}] ELSE LabelRow(mask, f[y - 1], y - 1)]

LEMMA ColumnsExist ==
  ASSUME NEW mask, NEW s, NEW row, NEW m \in Nat
  PROVE  \E f : Columns(f, mask, s, row, m)
<1> DEFINE next(t, c) == IF {r \in _runs(mask, row) : r[1] = c - 1} = {} THEN t
                         ELSE LabelRun(t, row, CHOOSE r \in {r \in _runs(mask, row) : r[1] = c - 1} : TRUE)
           Bad == {n \in Nat : ~\E f : Columns(f, mask, s, row, n)}
<1>0. \A f, n : Columns(f, mask, s, row, n) <=> f = [c \in 0 .. n |-> IF c = 0 THEN s ELSE next(f[c - 1], c)]
  BY DEF Columns
<1> HIDE DEF next
<1>1. SUFFICES ASSUME Bad # {} PROVE FALSE
  OBVIOUS
<1>2. PICK n \in Bad : \A k \in Bad : n <= k
  <2>1. Bad \in SUBSET Nat
    OBVIOUS
  <2> HIDE DEF Bad
  <2> QED BY <1>1, <2>1, LeastNumber
<1>3. n # 0
  <2>1. SUFFICES ASSUME n = 0 PROVE \E f : Columns(f, mask, s, row, 0)
    OBVIOUS
  <2> DEFINE f == [c \in 0 .. 0 |-> s]
  <2>2. f = [c \in 0 .. 0 |-> IF c = 0 THEN s ELSE next(f[c - 1], c)]
    <3>1. \A c \in 0 .. 0 : c = 0
      OBVIOUS
    <3> QED BY <3>1
  <2> QED BY <1>0, <2>2
<1>4. PICK g : Columns(g, mask, s, row, n - 1)
  <2>1. n - 1 \in Nat /\ ~(n <= n - 1)
    BY <1>3
  <2> QED BY <1>2, <2>1
<1> DEFINE f == [c \in 0 .. n |-> IF c = n THEN next(g[n - 1], n) ELSE g[c]]
<1>5. \A c \in 0 .. n - 1 : g[c] = IF c = 0 THEN s ELSE next(g[c - 1], c)
  <2>1. g = [c \in 0 .. n - 1 |-> IF c = 0 THEN s ELSE next(g[c - 1], c)]
    BY <1>0, <1>4
  <2> QED BY <2>1
<1>6. \A c \in 0 .. n : f[c] = IF c = 0 THEN s ELSE next(f[c - 1], c)
  <2> SUFFICES ASSUME NEW c \in 0 .. n PROVE f[c] = IF c = 0 THEN s ELSE next(f[c - 1], c)
    OBVIOUS
  <2>1. c # 0 => f[c - 1] = g[c - 1]
    OBVIOUS
  <2>2. CASE c = n
    <3>1. f[c] = next(g[n - 1], n)
      BY <2>2
    <3> HIDE DEF f
    <3> QED BY <1>3, <2>1, <2>2, <3>1
  <2>3. CASE c # n
    <3>1. f[c] = g[c] /\ c \in 0 .. n - 1
      BY <2>3
    <3> HIDE DEF f
    <3> QED BY <1>5, <2>1, <3>1
  <2> QED BY <2>2, <2>3
<1>7. Columns(f, mask, s, row, n)
  <2>1. f = [c \in 0 .. n |-> f[c]]
    OBVIOUS
  <2> HIDE DEF f
  <2>2. f = [c \in 0 .. n |-> IF c = 0 THEN s ELSE next(f[c - 1], c)]
    BY <1>6, <2>1
  <2> QED BY <1>0, <2>2
<1> QED BY <1>2, <1>7

LEMMA RowsExist ==
  ASSUME NEW mask, NEW m \in Nat
  PROVE  \E f : RowsOf(f, mask, m)
<1> DEFINE none == [parent |-> << >>, runs |-> {}]
           Bad == {n \in Nat : ~\E f : RowsOf(f, mask, n)}
<1>0. \A f, n : RowsOf(f, mask, n) <=> f = [y \in 0 .. n |-> IF y = 0 THEN none ELSE LabelRow(mask, f[y - 1], y - 1)]
  BY DEF RowsOf
<1> HIDE DEF none
<1>1. SUFFICES ASSUME Bad # {} PROVE FALSE
  OBVIOUS
<1>2. PICK n \in Bad : \A k \in Bad : n <= k
  <2>1. Bad \in SUBSET Nat
    OBVIOUS
  <2> HIDE DEF Bad
  <2> QED BY <1>1, <2>1, LeastNumber
<1>3. n # 0
  <2>1. SUFFICES ASSUME n = 0 PROVE \E f : RowsOf(f, mask, 0)
    OBVIOUS
  <2> DEFINE f == [y \in 0 .. 0 |-> none]
  <2>2. f = [y \in 0 .. 0 |-> IF y = 0 THEN none ELSE LabelRow(mask, f[y - 1], y - 1)]
    <3>1. \A y \in 0 .. 0 : y = 0
      OBVIOUS
    <3> QED BY <3>1
  <2> QED BY <1>0, <2>2
<1>4. PICK g : RowsOf(g, mask, n - 1)
  <2>1. n - 1 \in Nat /\ ~(n <= n - 1)
    BY <1>3
  <2> QED BY <1>2, <2>1
<1> DEFINE f == [y \in 0 .. n |-> IF y = n THEN LabelRow(mask, g[n - 1], n - 1) ELSE g[y]]
<1>5. \A y \in 0 .. n - 1 : g[y] = IF y = 0 THEN none ELSE LabelRow(mask, g[y - 1], y - 1)
  <2>1. g = [y \in 0 .. n - 1 |-> IF y = 0 THEN none ELSE LabelRow(mask, g[y - 1], y - 1)]
    BY <1>0, <1>4
  <2> QED BY <2>1
<1>6. \A y \in 0 .. n : f[y] = IF y = 0 THEN none ELSE LabelRow(mask, f[y - 1], y - 1)
  <2> SUFFICES ASSUME NEW y \in 0 .. n PROVE f[y] = IF y = 0 THEN none ELSE LabelRow(mask, f[y - 1], y - 1)
    OBVIOUS
  <2>1. y # 0 => f[y - 1] = g[y - 1]
    OBVIOUS
  <2>2. CASE y = n
    <3>1. f[y] = LabelRow(mask, g[n - 1], n - 1)
      BY <2>2
    <3> HIDE DEF f
    <3> QED BY <1>3, <2>1, <2>2, <3>1
  <2>3. CASE y # n
    <3>1. f[y] = g[y] /\ y \in 0 .. n - 1
      BY <2>3
    <3> HIDE DEF f
    <3> QED BY <1>5, <2>1, <3>1
  <2> QED BY <2>2, <2>3
<1>7. RowsOf(f, mask, n)
  <2>1. f = [y \in 0 .. n |-> f[y]]
    OBVIOUS
  <2> HIDE DEF f
  <2>2. f = [y \in 0 .. n |-> IF y = 0 THEN none ELSE LabelRow(mask, f[y - 1], y - 1)]
    BY <1>6, <2>1
  <2> QED BY <1>0, <2>2
<1> QED BY <1>2, <1>7

LEMMA RowIsLabelled ==
  ASSUME NEW mask \in SUBSET OnRaster, NEW y \in 0 .. Rows - 1, NEW s, Sound(mask, s, y, 0)
  PROVE  Sound(mask, LabelRow(mask, s, y), y + 1, 0)
<1> DEFINE f == CHOOSE g : Columns(g, mask, s, y, Cols)
           begun(c) == {r \in _runs(mask, y) : r[1] = c - 1}
           Bad == {c \in 0 .. Cols : ~Sound(mask, f[c], y, c)}
<1>0. Cols \in Nat /\ Rows \in Nat
  BY RasterIsFinite
<1>1. LabelRow(mask, s, y) = f[Cols]
  BY DEF LabelRow, Columns
<1>2. Columns(f, mask, s, y, Cols)
  BY <1>0, ColumnsExist
<1> HIDE DEF f
<1>3. \A c \in 0 .. Cols : f[c] = IF c = 0 THEN s
                                 ELSE IF begun(c) = {} THEN f[c - 1]
                                 ELSE LabelRun(f[c - 1], y, CHOOSE r \in begun(c) : TRUE)
  BY <1>2 DEF Columns
<1>4. Bad = {}
  <2> SUFFICES ASSUME Bad # {} PROVE FALSE
    OBVIOUS
  <2>1. PICK c \in Bad : \A k \in Bad : c <= k
    <3>1. Bad \in SUBSET Nat
      BY <1>0
    <3> HIDE DEF Bad
    <3> QED BY <3>1, LeastNumber
  <2>2. c \in 0 .. Cols /\ ~Sound(mask, f[c], y, c)
    BY <2>1
  <2>3. c # 0
    BY <1>0, <1>3, <2>2
  <2>4. c - 1 \in 0 .. Cols /\ ~(c <= c - 1) /\ c - 1 + 1 = c
    BY <1>0, <2>2, <2>3
  <2>5. Sound(mask, f[c - 1], y, c - 1)
    <3>1. c - 1 \notin Bad
      <4> HIDE DEF Bad
      <4> QED BY <2>1, <2>4
    <3> QED BY <2>4, <3>1
  <2>6. CASE begun(c) = {}
    <3>1. f[c] = f[c - 1]
      BY <1>3, <2>2, <2>3, <2>6
    <3>2. \A run \in _runs(mask, y) : run[1] # c - 1
      BY <2>6
    <3> DEFINE t == f[c - 1]
    <3>3. \A r \in t.runs : Earlier(r.row, r.start, y, c - 1) => Earlier(r.row, r.start, y, c)
      <4> SUFFICES ASSUME NEW r \in t.runs, Earlier(r.row, r.start, y, c - 1)
                   PROVE  Earlier(r.row, r.start, y, c)
        OBVIOUS
      <4>1. r.row \in 0 .. Rows - 1 /\ << r.start, r.end >> \in _runs(mask, r.row)
        BY <2>5 DEF Sound, OfTheRuns
      <4> DEFINE old == << r.start, r.end >>
      <4>2. old[1] = r.start
        OBVIOUS
      <4> HIDE DEF old
      <4>3. old \in _runs(mask, r.row)
        BY <4>1 DEF old
      <4>4. old[1] \in 0 .. Cols - 1
        BY <4>1, <4>3, RunsAre
      <4> QED BY <1>0, <2>2, <4>2, <4>4 DEF Earlier
    <3>4. \A row \in 0 .. Rows - 1 : \A run \in _runs(mask, row) :
            Earlier(row, run[1], y, c) => Earlier(row, run[1], y, c - 1)
      <4> SUFFICES ASSUME NEW row \in 0 .. Rows - 1, NEW run \in _runs(mask, row), Earlier(row, run[1], y, c)
                   PROVE  Earlier(row, run[1], y, c - 1)
        OBVIOUS
      <4>1. run[1] \in 0 .. Cols - 1
        BY RunsAre
      <4>2. row = y => run[1] # c - 1
        BY <3>2
      <4> QED BY <1>0, <2>2, <4>1, <4>2 DEF Earlier
    <3> HIDE DEF t
    <3>5. Sound(mask, t, y, c)
      <4>1. Sound(mask, t, y, c - 1)
        BY <2>5 DEF t
      <4>2. OfTheRuns(mask, t, y, c)
        <5>1. OfTheRuns(mask, t, y, c - 1)
          BY <4>1 DEF Sound
        <5> QED BY <3>3, <3>4, <5>1 DEF OfTheRuns
      <4> QED BY <4>1, <4>2 DEF Sound
    <3> QED BY <2>2, <3>1, <3>5 DEF t
  <2>7. CASE begun(c) # {}
    <3> DEFINE run == CHOOSE r \in begun(c) : TRUE
    <3>1. run \in _runs(mask, y) /\ run[1] = c - 1
      <4>1. run \in begun(c)
        <5> HIDE DEF begun
        <5> QED BY <2>7
      <4> QED BY <4>1
    <3>2. f[c] = LabelRun(f[c - 1], y, run)
      <4> HIDE DEF begun
      <4> QED BY <1>3, <2>2, <2>3, <2>7
    <3> HIDE DEF run
    <3>3. Sound(mask, LabelRun(f[c - 1], y, run), y, run[1] + 1)
      BY <2>5, <3>1, RunIsLabelled
    <3> QED BY <2>2, <2>4, <3>1, <3>2, <3>3
  <2> QED BY <2>6, <2>7
<1> DEFINE t == f[Cols]
<1>5. Sound(mask, t, y, Cols)
  BY <1>0, <1>4
<1> HIDE DEF t
<1>6. OfTheRuns(mask, t, y + 1, 0)
  <2>1. OfTheRuns(mask, t, y, Cols)
    BY <1>5 DEF Sound
  <2>2. \A r \in t.runs : Earlier(r.row, r.start, y + 1, 0)
    <3> SUFFICES ASSUME NEW r \in t.runs PROVE Earlier(r.row, r.start, y + 1, 0)
      OBVIOUS
    <3>1. r.row \in 0 .. Rows - 1 /\ Earlier(r.row, r.start, y, Cols)
      BY <2>1 DEF OfTheRuns
    <3> QED BY <1>0, <3>1 DEF Earlier
  <2>3. \A row \in 0 .. Rows - 1 : \A run \in _runs(mask, row) :
          Earlier(row, run[1], y + 1, 0) => Earlier(row, run[1], y, Cols)
    <3> SUFFICES ASSUME NEW row \in 0 .. Rows - 1, NEW run \in _runs(mask, row), Earlier(row, run[1], y + 1, 0)
                 PROVE  Earlier(row, run[1], y, Cols)
      OBVIOUS
    <3>1. run[1] \in 0 .. Cols - 1
      BY RunsAre
    <3> QED BY <1>0, <3>1 DEF Earlier
  <2> QED BY <2>1, <2>2, <2>3 DEF OfTheRuns
<1>7. Sound(mask, t, y + 1, 0)
  BY <1>5, <1>6 DEF Sound
<1> QED BY <1>1, <1>7 DEF t

\* After the last row the runs are all those of the raster.
LEMMA RasterIsLabelled ==
  ASSUME NEW mask \in SUBSET OnRaster
  PROVE  \E s : Sound(mask, s, Rows, 0) /\ label_components(mask) = Labelled(mask, s)
<1> DEFINE f == CHOOSE g : RowsOf(g, mask, Rows)
           Bad == {y \in 0 .. Rows : ~Sound(mask, f[y], y, 0)}
<1>0. Cols \in Nat /\ Rows \in Nat
  BY RasterIsFinite
<1>1. label_components(mask) = Labelled(mask, f[Rows])
  BY DEF label_components, RowsOf
<1>2. RowsOf(f, mask, Rows)
  BY <1>0, RowsExist
<1> HIDE DEF f
<1>3. \A y \in 0 .. Rows : f[y] = IF y = 0 THEN [parent |-> << >>, runs |-> {}]
                                 ELSE LabelRow(mask, f[y - 1], y - 1)
  BY <1>2 DEF RowsOf
<1>4. Bad = {}
  <2> SUFFICES ASSUME Bad # {} PROVE FALSE
    OBVIOUS
  <2>1. PICK y \in Bad : \A k \in Bad : y <= k
    <3>1. Bad \in SUBSET Nat
      BY <1>0
    <3> HIDE DEF Bad
    <3> QED BY <3>1, LeastNumber
  <2>2. y \in 0 .. Rows /\ ~Sound(mask, f[y], y, 0)
    BY <2>1
  <2>3. CASE y = 0
    <3> DEFINE none == [parent |-> << >>, runs |-> {}]
    <3>1. f[0] = none
      BY <1>0, <1>3
    <3>2. none.parent = << >> /\ none.runs = {}
      OBVIOUS
    <3> HIDE DEF none
    <3>3. \A row \in 0 .. Rows - 1 : \A run \in _runs(mask, row) : ~Earlier(row, run[1], 0, 0)
      <4> SUFFICES ASSUME NEW row \in 0 .. Rows - 1, NEW run \in _runs(mask, row) PROVE ~Earlier(row, run[1], 0, 0)
        OBVIOUS
      <4>1. run[1] \in 0 .. Cols - 1
        BY RunsAre
      <4> QED BY <1>0, <4>1 DEF Earlier
    <3>4. Forest(<< >>)
      <4>1. << >> \in Seq(Nat) /\ Len(<< >>) = 0
        OBVIOUS
      <4> QED BY <4>1 DEF Forest
    <3>5. OfTheRuns(mask, none, 0, 0)
      BY <3>2, <3>3 DEF OfTheRuns
    <3>6. Sound(mask, none, 0, 0)
      BY <3>2, <3>4, <3>5 DEF Sound
    <3> QED BY <2>2, <2>3, <3>1, <3>6
  <2>4. CASE y # 0
    <3>1. y - 1 \in 0 .. Rows - 1 /\ y - 1 \in 0 .. Rows /\ ~(y <= y - 1) /\ y - 1 + 1 = y
      BY <1>0, <2>2, <2>4
    <3>2. Sound(mask, f[y - 1], y - 1, 0)
      <4>1. y - 1 \notin Bad
        <5> HIDE DEF Bad
        <5> QED BY <2>1, <3>1
      <4> QED BY <3>1, <4>1
    <3>3. Sound(mask, LabelRow(mask, f[y - 1], y - 1), y - 1 + 1, 0)
      BY <3>1, <3>2, RowIsLabelled
    <3> QED BY <1>3, <2>2, <2>4, <3>1, <3>3
  <2> QED BY <2>3, <2>4
<1>5. Sound(mask, f[Rows], Rows, 0)
  BY <1>0, <1>4
<1> QED BY <1>1, <1>5

\* Whatever copper a layer has, two pixels of it get one label exactly if copper
\* joins them (raster.label_components).
THEOREM IslandsAreJoined ==
  ASSUME NEW mask \in SUBSET OnRaster
  PROVE  IslandsAreConnected(mask)
<1>1. PICK s : Sound(mask, s, Rows, 0) /\ label_components(mask) = Labelled(mask, s)
  BY RasterIsLabelled
<1> DEFINE over(c) == {r \in s.runs : r.row = c[2] /\ r.start <= c[1] /\ c[1] <= r.end}
           on(c) == CHOOSE r \in over(c) : TRUE
           label == Labelled(mask, s)
<1>0. Cols \in Nat /\ Rows \in Nat
  BY RasterIsFinite
<1>2. \A c \in mask : label[c] = find_root(s.parent, on(c).label)
  BY Zenon DEF Labelled
<1>3. \A r \in s.runs : /\ r.row \in 0 .. Rows - 1 /\ << r.start, r.end >> \in _runs(mask, r.row)
                        /\ r.label \in 1 .. Len(s.parent)
  BY <1>1 DEF Sound, OfTheRuns
<1>4. \A c \in mask : c = << c[1], c[2] >> /\ c[1] \in Int /\ c[2] \in 0 .. Rows - 1
  <2> SUFFICES ASSUME NEW c \in mask PROVE c = << c[1], c[2] >> /\ c[1] \in Int /\ c[2] \in 0 .. Rows - 1
    OBVIOUS
  <2>1. c \in OnRaster
    OBVIOUS
  <2> QED BY <1>0, <2>1, RasterIsFinite
<1>5. ASSUME NEW r \in s.runs
      PROVE  LET run == << r.start, r.end >>
             IN  run \in _runs(mask, r.row) /\ run[1] = r.start /\ run[2] = r.end
  BY <1>3
<1>6. ASSUME NEW c \in mask
      PROVE  \E r \in over(c) : TRUE
  <2>1. PICK run \in _runs(mask, c[2]) : run[1] <= c[1] /\ c[1] <= run[2]
    BY RunOfPixel
  <2>2. c[2] \in 0 .. Rows - 1 /\ Earlier(c[2], run[1], Rows, 0)
    BY <1>0, <1>4 DEF Earlier
  <2>3. PICK r \in s.runs : r.row = c[2] /\ r.start = run[1]
    BY <1>1, <2>2 DEF Sound, OfTheRuns
  <2> DEFINE other == << r.start, r.end >>
  <2>4. other \in _runs(mask, c[2]) /\ other[1] = r.start /\ other[2] = r.end
    BY <1>5, <2>3
  <2> HIDE DEF other
  <2>5. run[1] \in 0 .. Cols - 1 /\ run[2] \in run[1] .. Cols - 1 /\ other[2] \in other[1] .. Cols - 1
    BY <2>2, <2>4, RunsAre
  <2>6. run = other
    <3> DEFINE k == run[1]
    <3>1. k \in Int /\ run[1] <= k /\ k <= run[2] /\ other[1] <= k /\ k <= other[2]
      BY <1>0, <2>3, <2>4, <2>5
    <3> HIDE DEF k
    <3> QED BY <2>2, <2>4, <3>1, RunsAreApart
  <2>7. r.row = c[2] /\ r.start <= c[1] /\ c[1] <= r.end
    BY <2>1, <2>3, <2>4, <2>6
  <2> QED BY <2>7
<1>7. \A c \in mask : on(c) \in s.runs /\ on(c).row = c[2] /\ on(c).start <= c[1] /\ c[1] <= on(c).end
  <2> SUFFICES ASSUME NEW c \in mask
               PROVE  on(c) \in s.runs /\ on(c).row = c[2] /\ on(c).start <= c[1] /\ c[1] <= on(c).end
    OBVIOUS
  <2>1. on(c) \in over(c)
    <3> HIDE DEF over
    <3> QED BY <1>6
  <2> HIDE DEF on
  <2> QED BY <2>1
<1> HIDE DEF on, over, label
<1>8. \A c \in mask : Reach(mask, c) = Reach(mask, << on(c).start, on(c).row >>)
  <2> SUFFICES ASSUME NEW c \in mask PROVE Reach(mask, c) = Reach(mask, << on(c).start, on(c).row >>)
    OBVIOUS
  <2> DEFINE r == on(c)
             run == << r.start, r.end >>
  <2>1. r \in s.runs /\ r.row = c[2] /\ r.start <= c[1] /\ c[1] <= r.end
    BY <1>7
  <2> HIDE DEF r
  <2>2. run \in _runs(mask, c[2]) /\ run[1] = r.start /\ run[2] = r.end
    BY <1>5, <2>1
  <2> HIDE DEF run
  <2>3. c[2] \in 0 .. Rows - 1 /\ c[1] \in run[1] .. run[2]
    <3>1. c[2] \in 0 .. Rows - 1
      BY <1>4
    <3>2. run[1] \in 0 .. Cols - 1 /\ run[2] \in run[1] .. Cols - 1
      BY <2>2, <3>1, RunsAre
    <3> QED BY <1>0, <1>4, <2>1, <2>2, <3>1, <3>2
  <2>4. Reach(mask, << c[1], c[2] >>) = Reach(mask, << run[1], c[2] >>)
    BY <2>2, <2>3, RunReachesTheSame
  <2>5. c = << c[1], c[2] >>
    BY <1>4
  <2> QED BY <2>1, <2>2, <2>4, <2>5 DEF r
<1>9. ASSUME NEW c \in mask, NEW d \in mask, label[d] = label[c]
      PROVE  d \in Reach(mask, c)
  <2>1. Joined(s.parent, on(d).label, on(c).label)
    BY <1>2, <1>9 DEF Joined
  <2>2. ReachTheSame(mask, on(d), on(c))
    BY <1>1, <1>7, <2>1 DEF Sound
  <2>3. Reach(mask, d) = Reach(mask, c)
    BY <1>8, <2>2 DEF ReachTheSame
  <2> QED BY <2>3, Reaching
<1>10. ASSUME NEW d \in mask, NEW e \in mask, Apart2(d, e) = 1
       PROVE  label[d] = label[e]
  <2>1. \/ d[2] = e[2] /\ (e[1] = d[1] + 1 \/ d[1] = e[1] + 1)
        \/ d[1] = e[1] /\ (e[2] = d[2] + 1 \/ d[2] = e[2] + 1)
    <3>1. d \in OnRaster /\ e \in OnRaster
      OBVIOUS
    <3> QED BY <1>10, <3>1, BesideIs
  <2> DEFINE r == on(d)
             q == on(e)
  <2>2. /\ r \in s.runs /\ r.row = d[2] /\ r.start <= d[1] /\ d[1] <= r.end
        /\ q \in s.runs /\ q.row = e[2] /\ q.start <= e[1] /\ e[1] <= q.end
        /\ label[d] = find_root(s.parent, r.label) /\ label[e] = find_root(s.parent, q.label)
    BY <1>2, <1>7
  <2> HIDE DEF r, q
  <2> DEFINE run == << r.start, r.end >>
             other == << q.start, q.end >>
  <2>3. /\ run \in _runs(mask, d[2]) /\ run[1] = r.start /\ run[2] = r.end
        /\ other \in _runs(mask, e[2]) /\ other[1] = q.start /\ other[2] = q.end
    BY <1>5, <2>2
  <2> HIDE DEF run, other
  <2>4. /\ d[1] \in Int /\ d[2] \in 0 .. Rows - 1 /\ e[1] \in Int /\ e[2] \in 0 .. Rows - 1
        /\ d = << d[1], d[2] >> /\ e = << e[1], e[2] >>
    BY <1>4
  <2>5. run[1] \in Int /\ run[2] \in Int /\ other[1] \in Int /\ other[2] \in Int
    <3>1. run[1] \in 0 .. Cols - 1 /\ run[2] \in run[1] .. Cols - 1
          /\ other[1] \in 0 .. Cols - 1 /\ other[2] \in other[1] .. Cols - 1
      BY <2>3, <2>4, RunsAre
    <3> QED BY <1>0, <3>1
  <2>6. CASE d[2] = e[2]
    <3>1. << run[2] + 1, d[2] >> \notin mask /\ << other[2] + 1, e[2] >> \notin mask
      BY <2>3, <2>4, RunsAre
    <3>2. e[1] = d[1] + 1 => run[2] # d[1]
      BY <2>4, <2>6, <3>1
    <3>3. d[1] = e[1] + 1 => other[2] # e[1]
      BY <2>4, <2>6, <3>1
    <3>4. run = other
      <4>1. CASE e[1] = d[1] + 1
        <5>1. run[1] <= e[1] /\ e[1] <= run[2] /\ other[1] <= e[1] /\ e[1] <= other[2]
          BY <2>2, <2>3, <2>4, <2>5, <3>2, <4>1
        <5> QED BY <2>3, <2>4, <2>6, <5>1, RunsAreApart
      <4>2. CASE d[1] = e[1] + 1
        <5>1. run[1] <= d[1] /\ d[1] <= run[2] /\ other[1] <= d[1] /\ d[1] <= other[2]
          BY <2>2, <2>3, <2>4, <2>5, <3>3, <4>2
        <5> QED BY <2>3, <2>4, <2>6, <5>1, RunsAreApart
      <4>3. e[1] = d[1] + 1 \/ d[1] = e[1] + 1
        BY <2>1, <2>4, <2>6
      <4> QED BY <4>1, <4>2, <4>3
    <3>5. r.row = q.row /\ r.start = q.start
      BY <2>2, <2>3, <2>6, <3>4
    <3>6. r = q
      BY <1>1, <2>2, <3>5 DEF Sound, OfTheRuns
    <3> QED BY <2>2, <3>6
  <2>7. CASE d[1] = e[1] /\ e[2] = d[2] + 1
    <3>1. Touching(r, q)
      BY <2>2, <2>3, <2>4, <2>5, <2>7 DEF Touching
    <3>2. Joined(s.parent, q.label, r.label)
      BY <1>1, <2>2, <3>1 DEF Sound
    <3> QED BY <2>2, <3>2 DEF Joined
  <2>8. CASE d[1] = e[1] /\ d[2] = e[2] + 1
    <3>1. Touching(q, r)
      BY <2>2, <2>3, <2>4, <2>5, <2>8 DEF Touching
    <3>2. Joined(s.parent, r.label, q.label)
      BY <1>1, <2>2, <3>1 DEF Sound
    <3> QED BY <2>2, <3>2 DEF Joined
  <2> QED BY <2>1, <2>6, <2>7, <2>8
<1>11. ASSUME NEW c \in mask
       PROVE  {d \in mask : label[d] = label[c]} = Reach(mask, c)
  <2> DEFINE S == {d \in mask : label[d] = label[c]}
  <2>1. S \subseteq Reach(mask, c)
    BY <1>9
  <2>2. Shut(mask, S)
    BY <1>10 DEF Shut
  <2>3. c \in S
    OBVIOUS
  <2> HIDE DEF S
  <2>4. Reach(mask, c) \subseteq S
    BY <2>2, <2>3, Reaching
  <2>5. S = Reach(mask, c)
    BY <2>1, <2>4
  <2> QED BY <2>5 DEF S
<1> QED BY <1>1, <1>11 DEF IslandsAreConnected, Islands, label

-------------------------------------------------------------------------------
(* What has to arrive together: pairs of nets, traces and test points.     *)

\* What is true of the pairs once i suffixes have been tried.
Fits(p, here) ==
  /\ p.positive \in here /\ p.negative \in here
  /\ CouldBe(p.positive, p.negative)
ShareNone(p, q) == {p.positive, p.negative} \cap {q.positive, q.negative} = {}
PairedUpTo(pairs, here, i) ==
  /\ \A p \in pairs : Fits(p, here)
  /\ \A p, q \in pairs : p # q => ShareNone(p, q)
  /\ \A n, m \in here \ HalvesOf(pairs) : \A e \in PairEnds[n] :
       e.positive /\ e.partner = m => \A j \in 1 .. i : e.by # PAIR_TRIED[j]

LEMMA PairsByAre ==
  ASSUME NEW suffix, NEW free
  PROVE  \A p : p \in PairsBy(suffix, free) <=>
           \E n \in free : \E e \in PairEnds[n] :
             /\ e.positive /\ e.by = suffix /\ e.partner \in free
             /\ p = [base |-> e.base, positive |-> n, negative |-> e.partner]
BY DEF PairsBy

LEMMA HalvesAre ==
  ASSUME NEW pairs
  PROVE  \A h : h \in HalvesOf(pairs) <=> \E p \in pairs : h \in {p.positive, p.negative}
BY DEF HalvesOf

\* A suffix pairs what it can, and each of those once.
LEMMA SuffixPairs ==
  ASSUME NEW pairs, NEW here \in SUBSET DOMAIN PairEnds, NEW i \in 1 .. Len(PAIR_TRIED), PairedUpTo(pairs, here, i - 1)
  PROVE  PairedUpTo(pairs \cup PairsBy(PAIR_TRIED[i], here \ HalvesOf(pairs)), here, i)
<1> DEFINE suffix == PAIR_TRIED[i]
           free == here \ HalvesOf(pairs)
           new == PairsBy(suffix, free)
           all == pairs \cup new
           Made(p, n, e) == /\ n \in free /\ e \in PairEnds[n] /\ e.positive /\ e.by = suffix /\ e.partner \in free
                            /\ p = [base |-> e.base, positive |-> n, negative |-> e.partner]
<1>1. \A p : p \in new <=> \E n, e : Made(p, n, e)
  <2>1. \A p : p \in new <=>
          \E n \in free : \E e \in PairEnds[n] :
            /\ e.positive /\ e.by = suffix /\ e.partner \in free
            /\ p = [base |-> e.base, positive |-> n, negative |-> e.partner]
    <3> HIDE DEF free, suffix
    <3> QED BY PairsByAre
  <2> HIDE DEF new, free, suffix
  <2> QED BY <2>1
<1>2. \A p \in new : Fits(p, here) /\ p.positive \in free /\ p.negative \in free
  <2> SUFFICES ASSUME NEW p \in new PROVE Fits(p, here) /\ p.positive \in free /\ p.negative \in free
    OBVIOUS
  <2>1. PICK n, e : Made(p, n, e)
    BY <1>1
  <2>2. p.positive = n /\ p.negative = e.partner
    BY <2>1
  <2> QED BY <2>1, <2>2, Zenon DEF Fits, CouldBe
<1>3. \A p, q \in new : p # q => ShareNone(p, q)
  <2> SUFFICES ASSUME NEW p \in new, NEW q \in new, ~ShareNone(p, q) PROVE p = q
    OBVIOUS
  <2>1. PICK n, e : Made(p, n, e)
    BY <1>1
  <2>2. PICK m, f : Made(q, m, f)
    BY <1>1
  <2>3. n \in DOMAIN PairEnds /\ m \in DOMAIN PairEnds /\ e \in PairEnds[n] /\ f \in PairEnds[m] /\ e.positive /\ f.positive /\ e.by = f.by
    BY <2>1, <2>2
  <2>4. p.positive = n /\ p.negative = e.partner /\ q.positive = m /\ q.negative = f.partner
    BY <2>1, <2>2
  <2>5. n = m \/ n = f.partner \/ e.partner = m \/ e.partner = f.partner
    BY <2>4 DEF ShareNone
  <2>6. n = m
    BY <2>3, <2>5, PairEndsAssumption, Zenon DEF PairEndsAssumption
  <2>7. e = f
    BY <2>3, <2>6, PairEndsAssumption, Zenon DEF PairEndsAssumption
  <2> QED BY <2>1, <2>2, <2>6, <2>7
<1>4. \A p \in pairs, q \in new : ShareNone(p, q) /\ ShareNone(q, p)
  <2> SUFFICES ASSUME NEW p \in pairs, NEW q \in new PROVE ShareNone(p, q) /\ ShareNone(q, p)
    OBVIOUS
  <2>1. p.positive \in HalvesOf(pairs) /\ p.negative \in HalvesOf(pairs)
    BY HalvesAre
  <2>2. q.positive \notin HalvesOf(pairs) /\ q.negative \notin HalvesOf(pairs)
    BY <1>2
  <2> QED BY <2>1, <2>2 DEF ShareNone
<1>5. HalvesOf(all) = HalvesOf(pairs) \cup HalvesOf(new)
  BY DEF HalvesOf
<1>6. ASSUME NEW n \in here \ HalvesOf(all), NEW m \in here \ HalvesOf(all),
             NEW e \in PairEnds[n], e.positive, e.partner = m, NEW j \in 1 .. i
      PROVE  e.by # PAIR_TRIED[j]
  <2>1. CASE j # i
    <3>1. n \in here \ HalvesOf(pairs) /\ m \in here \ HalvesOf(pairs)
      BY <1>5
    <3>2. j \in 1 .. i - 1
      <4>1. i \in Int /\ j \in 1 .. i
        BY <1>6 DEF PAIR_TRIED
      <4> QED BY <2>1, <4>1
    <3> QED BY <1>6, <3>1, <3>2 DEF PairedUpTo
  <2>2. CASE j = i
    <3> SUFFICES ASSUME e.by = suffix PROVE FALSE
      BY <2>2
    <3> DEFINE p == [base |-> e.base, positive |-> n, negative |-> e.partner]
    <3>1. n \in free /\ e.partner \in free
      BY <1>5, <1>6
    <3>2. p \in new
      <4>1. Made(p, n, e)
        BY <1>6, <3>1
      <4> QED BY <1>1, <4>1
    <3>3. n \in HalvesOf(new)
      <4>1. p.positive = n
        OBVIOUS
      <4> HIDE DEF p, new
      <4> QED BY <3>2, <4>1, HalvesAre
    <3> QED BY <1>5, <3>3
  <2> QED BY <2>1, <2>2
<1> HIDE DEF new
<1>7. /\ \A p \in all : Fits(p, here)
      /\ \A p, q \in all : p # q => ShareNone(p, q)
  BY <1>2, <1>3, <1>4 DEF PairedUpTo
<1> QED BY <1>6, <1>7, Zenon DEF PairedUpTo, new

\* No net is in two pairs and none is left over, in any list of nets (netclass.py:
\* find_pairs).
THEOREM NetsArePaired ==
  ASSUME NEW nets, Range(nets) \subseteq DOMAIN PairEnds
  PROVE  PairsAreWhole(nets)
<1> DEFINE here == Range(nets)
           Adding(S, i) == S \cup PairsBy(PAIR_TRIED[i], here \ HalvesOf(S))
           s1 == Adding({}, 1)
           s2 == Adding(s1, 2)
           s3 == Adding(s2, 3)
           s4 == Adding(s3, 4)
           s5 == Adding(s4, 5)
           Is(f) == f = [i \in 0 .. Len(PAIR_TRIED) |-> IF i = 0 THEN {} ELSE Adding(f[i - 1], i)]
           found == CHOOSE f : Is(f)
           list == << s1, s2, s3, s4, s5 >>
<1>1. Len(PAIR_TRIED) = 5 /\ \A i \in 0 .. 5 : i = 0 \/ i = 1 \/ i = 2 \/ i = 3 \/ i = 4 \/ i = 5
  BY DEF PAIR_TRIED
<1>2. find_pairs(nets) = found[5]
  BY <1>1 DEF find_pairs
<1> HIDE DEF here, Adding
<1>3. Is([i \in 0 .. 5 |-> IF i = 0 THEN {} ELSE list[i]])
  <2> DEFINE g == [i \in 0 .. 5 |-> IF i = 0 THEN {} ELSE list[i]]
  <2>1. g[0] = {} /\ g[1] = s1 /\ g[2] = s2 /\ g[3] = s3 /\ g[4] = s4 /\ g[5] = s5
    OBVIOUS
  <2>2. g = [i \in 0 .. 5 |-> g[i]]
    OBVIOUS
  <2> HIDE DEF g
  <2>3. \A i \in 0 .. 5 : g[i] = IF i = 0 THEN {} ELSE Adding(g[i - 1], i)
    BY <1>1, <2>1
  <2> QED BY <1>1, <2>2, <2>3 DEF g
<1>4. Is(found)
  BY <1>3, Zenon
<1> HIDE DEF found
<1>5. found[0] = {} /\ \A i \in 1 .. 5 : found[i] = Adding(found[i - 1], i)
  BY <1>1, <1>4
<1>6. PairedUpTo(found[0], here, 0)
  BY <1>5 DEF PairedUpTo
<1>7. \A i \in 1 .. 5 : PairedUpTo(found[i - 1], here, i - 1) => PairedUpTo(found[i], here, i)
  <2> SUFFICES ASSUME NEW i \in 1 .. 5, PairedUpTo(found[i - 1], here, i - 1) PROVE PairedUpTo(found[i], here, i)
    OBVIOUS
  <2>1. here \in SUBSET DOMAIN PairEnds /\ i \in 1 .. Len(PAIR_TRIED)
    BY <1>1 DEF here
  <2>2. PairedUpTo(Adding(found[i - 1], i), here, i)
    BY <2>1, SuffixPairs, Zenon DEF Adding
  <2> QED BY <1>5, <2>2
<1>8. PairedUpTo(found[5], here, 5)
  <2>1. PairedUpTo(found[1], here, 1)
    BY <1>6, <1>7
  <2>2. PairedUpTo(found[2], here, 2)
    BY <1>7, <2>1
  <2>3. PairedUpTo(found[3], here, 3)
    BY <1>7, <2>2
  <2>4. PairedUpTo(found[4], here, 4)
    BY <1>7, <2>3
  <2> QED BY <1>7, <2>4
<1>9. \A n, m \in here \ HalvesOf(found[5]) : ~CouldBe(n, m)
  <2> SUFFICES ASSUME NEW n \in here \ HalvesOf(found[5]), NEW m \in here \ HalvesOf(found[5]), CouldBe(n, m)
               PROVE  FALSE
    OBVIOUS
  <2>1. PICK e \in PairEnds[n] : e.positive /\ e.partner = m
    BY DEF CouldBe
  <2>2. n \in DOMAIN PairEnds
    BY DEF here
  <2>3. e.by \in Range(PAIR_TRIED)
    BY <2>1, <2>2, PairEndsAssumption DEF PairEndsAssumption
  <2>4. PICK j \in 1 .. 5 : e.by = PAIR_TRIED[j]
    BY <2>3 DEF Range, PAIR_TRIED
  <2> QED BY <1>8, <2>1, <2>4 DEF PairedUpTo
<1> DEFINE pairs == find_pairs(nets)
<1>10. /\ \A p, q \in pairs : p # q => ShareNone(p, q)
       /\ \A p \in pairs : Fits(p, here)
       /\ \A n, m \in here \ HalvesOf(pairs) : ~CouldBe(n, m)
  BY <1>2, <1>8, <1>9, Zenon DEF PairedUpTo
<1> HIDE DEF pairs
<1>11. /\ \A p, q \in pairs : p # q => {p.positive, p.negative} \cap {q.positive, q.negative} = {}
       /\ \A p \in pairs : {p.positive, p.negative} \subseteq here /\ CouldBe(p.positive, p.negative)
  BY <1>10 DEF ShareNone, Fits
<1> QED BY <1>10, <1>11, Zenon DEF PairsAreWhole, pairs, here

\* A trace that is off its target, as check_impedance has it (impedance.py).
MeasuredWidth(t, geometry) == IF geometry.gap > 0 /\ geometry.width > 0 THEN geometry.width ELSE t.width
IsOff(t, geometry, target, tol, e, Ohms) ==
  LET width == MeasuredWidth(t, geometry)
  IN  /\ t.width > 0 /\ t.layer \in DOMAIN e /\ e[t.layer].ref # "" /\ Ohms[t.layer, width] > 0
      /\ target > 0
      /\ ~within([ohm |-> Ohms[t.layer, width], unc |-> UncertaintyOf(e[t.layer], width, geometry.gap)], target, tol)

OffLayers(traces, geometry, target, tol, e, Ohms) == {t.layer : t \in {t \in traces : IsOff(t, geometry, target, tol, e, Ohms)}}

\* The layers accused are those of the traces that are off.
LEMMA OffTargetIs ==
  ASSUME NEW traces, NEW geometry, NEW target, NEW tol, NEW jump, NEW e, NEW Ohms
  PROVE  Accused(check_impedance(traces, geometry, target, tol, jump, e, Ohms))
           = OffLayers(traces, geometry, target, tol, e, Ohms)
<1> DEFINE width(t) == IF geometry.gap > 0 /\ geometry.width > 0 THEN geometry.width ELSE t.width
           seen == {t \in traces : t.width > 0 /\ t.layer \in DOMAIN e /\ e[t.layer].ref # "" /\ Ohms[t.layer, width(t)] > 0}
           z(t) == [ohm |-> Ohms[t.layer, width(t)], unc |-> UncertaintyOf(e[t.layer], width(t), geometry.gap)]
           off == {t \in seen : target > 0 /\ ~within(z(t), target, tol)}
           isOff == [is |-> "off target", on |-> {t.layer : t \in off}]
           ohms == {z(t).ohm : t \in seen}
           lo == CHOOSE o \in ohms : \A p \in ohms : o <= p
           hi == CHOOSE o \in ohms : \A p \in ohms : p <= o
           jumps == Cardinality(seen) > 1 /\ 100 * (hi - lo) >= jump * lo
           changes == [is |-> "changes", on |-> {t.layer : t \in seen}]
           found == check_impedance(traces, geometry, target, tol, jump, e, Ohms)
<1>1. found = (IF off # {} THEN {isOff} ELSE {}) \cup (IF jumps THEN {changes} ELSE {})
  BY Zenon DEF check_impedance
<1>2. off = {t \in traces : IsOff(t, geometry, target, tol, e, Ohms)}
  BY Zenon DEF IsOff, MeasuredWidth
<1>3. isOff.is = "off target" /\ isOff.on = {t.layer : t \in off} /\ changes.is # "off target"
  OBVIOUS
<1> HIDE DEF off, isOff, changes, jumps, found
<1>4. {f \in found : f.is = "off target"} = IF off # {} THEN {isOff} ELSE {}
  BY <1>1, <1>3
<1>5. Accused(found) = {t.layer : t \in off}
  <2>1. CASE off = {}
    BY <1>4, <2>1 DEF Accused
  <2>2. CASE off # {}
    BY <1>3, <1>4, <2>2 DEF Accused
  <2> QED BY <2>1, <2>2
<1> QED BY <1>2, <1>5 DEF found, OffLayers

LEMMA ScalesUp ==
  ASSUME NEW a \in Nat, NEW x \in Int, NEW y \in Int, x <= y
  PROVE  a * x <= a * y
<1>1. PICK k \in Nat : y = x + k
  <2>1. y - x \in Nat /\ y = x + (y - x)
    OBVIOUS
  <2> QED BY <2>1
<1>2. a * y = a * x + a * k
  BY <1>1
<1>3. a * k \in Nat
  OBVIOUS
<1> QED BY <1>2, <1>3

\* A value that fits is not thrown out by more doubt or by a wider tolerance.
LEMMA DoubtFits ==
  ASSUME NEW ohm \in Nat, NEW u \in Int, NEW v \in Int, NEW target \in Nat, NEW tol \in Int, NEW wide \in Int,
         u <= v, tol <= wide, within([ohm |-> ohm, unc |-> u], target, tol)
  PROVE  within([ohm |-> ohm, unc |-> v], target, wide)
<1>1. /\ ohm * (100 + u) >= target * (100 - tol)
      /\ ohm * (100 - u) <= target * (100 + tol)
  BY DEF within
<1>2. ohm * (100 + u) <= ohm * (100 + v) /\ ohm * (100 - v) <= ohm * (100 - u)
  <2>1. 100 + u <= 100 + v /\ 100 - v <= 100 - u /\ 100 + u \in Int /\ 100 + v \in Int /\ 100 - u \in Int /\ 100 - v \in Int
    OBVIOUS
  <2> QED BY <2>1, ScalesUp
<1>3. target * (100 - wide) <= target * (100 - tol) /\ target * (100 + tol) <= target * (100 + wide)
  <2>1. 100 - wide <= 100 - tol /\ 100 + tol <= 100 + wide /\ 100 + tol \in Int /\ 100 + wide \in Int /\ 100 - tol \in Int /\ 100 - wide \in Int
    OBVIOUS
  <2> QED BY <2>1, ScalesUp
<1> DEFINE a == ohm * (100 + u)
           b == ohm * (100 - u)
           c == ohm * (100 + v)
           d == ohm * (100 - v)
           p == target * (100 - tol)
           q == target * (100 + tol)
           r == target * (100 - wide)
           s == target * (100 + wide)
<1>4. a \in Int /\ b \in Int /\ c \in Int /\ d \in Int /\ p \in Int /\ q \in Int /\ r \in Int /\ s \in Int
  OBVIOUS
<1>5. a >= p /\ b <= q /\ a <= c /\ d <= b /\ r <= p /\ q <= s
  BY <1>1, <1>2, <1>3
<1> HIDE DEF a, b, c, d, p, q, r, s
<1>6. c >= r /\ d <= s
  BY <1>4, <1>5
<1> QED BY <1>6 DEF within, c, d, r, s

LayerRecord == [ref : STRING, kind : STRING, height : Int, above : Int, assumed : BOOLEAN]

\* A board that is known less well, or a wider tolerance, is accused of no more,
\* for any traces, layers and formula (impedance.py: check_impedance).
THEOREM DoubtAccusesOfNoMore ==
  ASSUME NEW Layers, NEW Widths \in SUBSET Int, NEW known \in SUBSET Layers,
         NEW traces \in SUBSET [layer : Layers, width : Widths],
         NEW geometry \in [gap : Int, width : Int],
         geometry.gap > 0 /\ geometry.width > 0 => geometry.width \in Widths,
         NEW target \in Int, NEW tol \in Int, NEW jump,
         NEW e \in [known -> LayerRecord], NEW Ohms \in [Layers \X Widths -> Int]
  PROVE  UncertaintyAccusesLess(traces, geometry, target, tol, jump, e, Ohms)
<1> DEFINE unsure == [l \in DOMAIN e |-> [e[l] EXCEPT !.assumed = TRUE]]
<1>1. DOMAIN unsure = DOMAIN e /\ DOMAIN e = known
  OBVIOUS
<1>2. \A l \in known : /\ unsure[l].ref = e[l].ref /\ unsure[l].kind = e[l].kind /\ unsure[l].height = e[l].height
                       /\ unsure[l].above = e[l].above /\ unsure[l].assumed = TRUE /\ e[l].assumed \in BOOLEAN
                       /\ e[l] \in LayerRecord
  BY DEF LayerRecord
<1> HIDE DEF unsure
<1>3. \A t \in traces : IsOff(t, geometry, target, tol, unsure, Ohms) => IsOff(t, geometry, target, tol, e, Ohms)
  <2> SUFFICES ASSUME NEW t \in traces, IsOff(t, geometry, target, tol, unsure, Ohms)
               PROVE  IsOff(t, geometry, target, tol, e, Ohms)
    OBVIOUS
  <2> DEFINE width == MeasuredWidth(t, geometry)
             ohm == Ohms[t.layer, width]
             u == UncertaintyOf(e[t.layer], width, geometry.gap)
             v == UncertaintyOf(unsure[t.layer], width, geometry.gap)
  <2>1. t.layer \in known /\ width \in Widths /\ width \in Int /\ t.layer \in Layers
    BY <1>1 DEF IsOff, MeasuredWidth
  <2>2. ohm \in Int /\ ohm > 0 /\ target > 0
    BY <2>1 DEF IsOff
  <2>3. ~within([ohm |-> ohm, unc |-> v], target, tol)
    BY DEF IsOff
  <2>4. u \in Int /\ v \in Int /\ u <= v
    BY <1>2, <2>1 DEF UncertaintyOf, LayerRecord
  <2> HIDE DEF u, v, ohm
  <2>5. ~within([ohm |-> ohm, unc |-> u], target, tol)
    <3>1. ohm \in Nat /\ target \in Nat
      BY <2>2
    <3> QED BY <2>3, <2>4, <3>1, DoubtFits
  <2>6. e[t.layer].ref # "" /\ t.width > 0
    BY <1>2, <2>1 DEF IsOff
  <2> QED BY <1>1, <2>1, <2>2, <2>5, <2>6 DEF IsOff, u, ohm
<1>4. \A t \in traces : IsOff(t, geometry, target, tol + 10, e, Ohms) => IsOff(t, geometry, target, tol, e, Ohms)
  <2> SUFFICES ASSUME NEW t \in traces, IsOff(t, geometry, target, tol + 10, e, Ohms)
               PROVE  IsOff(t, geometry, target, tol, e, Ohms)
    OBVIOUS
  <2> DEFINE width == MeasuredWidth(t, geometry)
             ohm == Ohms[t.layer, width]
             u == UncertaintyOf(e[t.layer], width, geometry.gap)
             wide == tol + 10
  <2>1. t.layer \in known /\ width \in Widths /\ width \in Int /\ t.layer \in Layers
    BY <1>1 DEF IsOff, MeasuredWidth
  <2>2. ohm \in Int /\ ohm > 0 /\ target > 0
    BY <2>1 DEF IsOff
  <2>3. ~within([ohm |-> ohm, unc |-> u], target, wide)
    BY DEF IsOff
  <2>4. u \in Int /\ wide \in Int /\ tol <= wide
    BY <1>2, <2>1 DEF UncertaintyOf, LayerRecord
  <2> HIDE DEF u, ohm, wide
  <2>5. ~within([ohm |-> ohm, unc |-> u], target, tol)
    <3>1. ohm \in Nat /\ target \in Nat /\ u <= u
      BY <2>2, <2>4
    <3> QED BY <2>3, <2>4, <3>1, DoubtFits
  <2> QED BY <2>2, <2>5 DEF IsOff, u, ohm
<1>5. /\ OffLayers(traces, geometry, target, tol, unsure, Ohms) \subseteq OffLayers(traces, geometry, target, tol, e, Ohms)
      /\ OffLayers(traces, geometry, target, tol + 10, e, Ohms) \subseteq OffLayers(traces, geometry, target, tol, e, Ohms)
  BY <1>3, <1>4, Zenon DEF OffLayers
<1>6. \A a, b : Accused(check_impedance(traces, geometry, target, a, jump, b, Ohms))
                  = OffLayers(traces, geometry, target, a, b, Ohms)
  BY OffTargetIs, Zenon
<1> QED BY <1>5, <1>6, Zenon DEF UncertaintyAccusesLess, unsure

\* What StubIsTheBranch compares: the places between other pads, and how far the
\* nearest of them is.
OnRoutes(d, all, others) == {v \in all : \E a, b \in others : a # b /\ d[a, v] + d[v, b] = d[a, b]}
BranchTo(d, all, others, t) ==
  CHOOSE x \in {d[v, t] : v \in OnRoutes(d, all, others)} : \A v \in OnRoutes(d, all, others) : x <= d[v, t]
Excess(d, a, b, t) == LET x == d[a, t] + d[b, t] - d[a, b] IN IF x < 0 THEN 0 ELSE x

\* Twice the branch is what check_test_point_stubs measures (stubs.py).
LEMMA StubIsTwiceTheBranch ==
  ASSUME NEW all, NEW d, WithoutLoops(d, all), NEW others \in SUBSET all, NEW t \in all,
         NEW one \in others, NEW another \in others, one # another
  PROVE  /\ BranchTo(d, all, others, t) \in Nat
         /\ StubOfPoint(d, others, t) = 2 * BranchTo(d, all, others, t)
<1> DEFINE route == OnRoutes(d, all, others)
           measured == {Excess(d, p[1], p[2], t) : p \in {p \in others \X others : p[1] # p[2]}}
           far == {d[v, t] : v \in route}
           stub == CHOOSE x \in measured : \A y \in measured : x <= y
           branch == CHOOSE x \in far : \A v \in route : x <= d[v, t]
<1>1. \A a, b \in all : d[a, b] \in Nat /\ d[a, b] = d[b, a]
  BY DEF WithoutLoops
<1>2. \A a, b, c \in all : d[a, b] <= d[a, c] + d[c, b]
  BY Zenon DEF WithoutLoops
<1> DEFINE Central(v, a, b, c) == /\ d[a, v] + d[v, b] = d[a, b]
                                 /\ d[a, v] + d[v, c] = d[a, c]
                                 /\ d[b, v] + d[v, c] = d[b, c]
<1>3. \A a, b, c \in all : \E v \in all : Central(v, a, b, c)
  BY Zenon DEF WithoutLoops
<1> HIDE DEF Central
<1>4. \A a, b \in all : Excess(d, a, b, t) = d[a, t] + d[b, t] - d[a, b] /\ Excess(d, a, b, t) \in Nat
  <2> SUFFICES ASSUME NEW a \in all, NEW b \in all
               PROVE  Excess(d, a, b, t) = d[a, t] + d[b, t] - d[a, b] /\ Excess(d, a, b, t) \in Nat
    OBVIOUS
  <2> DEFINE p == d[a, t]
             q == d[b, t]
             r == d[a, b]
  <2>1. p \in Nat /\ q \in Nat /\ r \in Nat /\ r <= p + q
    <3>1. r <= p + d[t, b] /\ d[t, b] = q
      BY <1>1, <1>2
    <3> QED BY <1>1, <3>1
  <2>2. Excess(d, a, b, t) = IF p + q - r < 0 THEN 0 ELSE p + q - r
    BY DEF Excess
  <2> HIDE DEF p, q, r
  <2>3. Excess(d, a, b, t) = p + q - r /\ p + q - r \in Nat
    BY <2>1, <2>2
  <2> QED BY <2>3 DEF p, q, r
<1>5. measured \subseteq Nat /\ measured # {}
  <2>1. Excess(d, one, another, t) \in measured
    <3>1. << one, another >> \in others \X others /\ << one, another >>[1] = one /\ << one, another >>[2] = another
      OBVIOUS
    <3> QED BY <3>1
  <2>2. measured \subseteq Nat
    BY <1>4
  <2> QED BY <2>1, <2>2
<1>6. \A a, b \in others : a # b => Excess(d, a, b, t) \in measured
  <2> SUFFICES ASSUME NEW a \in others, NEW b \in others, a # b PROVE Excess(d, a, b, t) \in measured
    OBVIOUS
  <2>1. << a, b >> \in others \X others /\ << a, b >>[1] = a /\ << a, b >>[2] = b
    OBVIOUS
  <2> QED BY <2>1
<1>7. \A x \in measured : \E v \in route : x = 2 * d[v, t]
  <2> SUFFICES ASSUME NEW x \in measured PROVE \E v \in route : x = 2 * d[v, t]
    OBVIOUS
  <2>1. PICK p \in others \X others : p[1] # p[2] /\ x = Excess(d, p[1], p[2], t)
    OBVIOUS
  <2> DEFINE a == p[1]
             b == p[2]
  <2>2. a \in others /\ b \in others /\ a \in all /\ b \in all /\ a # b /\ x = Excess(d, a, b, t)
    BY <2>1
  <2> HIDE DEF a, b
  <2>3. PICK v \in all : Central(v, a, b, t)
    BY <1>3, <2>2, Zenon
  <2>4. v \in route
    BY <2>2, <2>3, Zenon DEF OnRoutes, Central
  <2> DEFINE av == d[a, v]
             bv == d[b, v]
             vt == d[v, t]
             at == d[a, t]
             bt == d[b, t]
             ab == d[a, b]
  <2>5. av + bv = ab /\ av + vt = at /\ bv + vt = bt /\ x = at + bt - ab
    <3>1. d[v, b] = d[b, v]
      BY <1>1, <2>2
    <3> QED BY <1>4, <2>2, <2>3, <3>1 DEF Central
  <2>6. av \in Nat /\ bv \in Nat /\ vt \in Nat /\ at \in Nat /\ bt \in Nat /\ ab \in Nat
    BY <1>1, <2>2
  <2> HIDE DEF av, bv, vt, at, bt, ab, measured, route
  <2>7. x = 2 * vt
    BY <2>5, <2>6
  <2> QED BY <2>4, <2>7 DEF vt
<1>8. \A v \in route : \E x \in measured : x <= 2 * d[v, t]
  <2> SUFFICES ASSUME NEW v \in route PROVE \E x \in measured : x <= 2 * d[v, t]
    OBVIOUS
  <2>1. v \in all
    BY DEF OnRoutes
  <2>2. PICK a \in others, b \in others : a # b /\ d[a, v] + d[v, b] = d[a, b]
    BY DEF OnRoutes
  <2> DEFINE av == d[a, v]
             bv == d[b, v]
             vt == d[v, t]
             at == d[a, t]
             bt == d[b, t]
             ab == d[a, b]
             x == Excess(d, a, b, t)
  <2>3. at <= av + vt /\ bt <= bv + vt /\ av + bv = ab /\ x = at + bt - ab
    <3>1. d[v, b] = d[b, v] /\ a \in all /\ b \in all
      BY <1>1, <2>1
    <3> QED BY <1>2, <1>4, <2>1, <2>2, <3>1
  <2>4. av \in Nat /\ bv \in Nat /\ vt \in Nat /\ at \in Nat /\ bt \in Nat /\ ab \in Nat
    BY <1>1, <2>1
  <2>5. x \in measured
    BY <1>6, <2>2
  <2> HIDE DEF av, bv, vt, at, bt, ab, x, measured, route
  <2>6. x <= 2 * vt
    BY <2>3, <2>4
  <2> QED BY <2>5, <2>6 DEF vt
<1>9. far \subseteq Nat /\ far # {}
  <2>1. \A v \in route : v \in all
    BY DEF OnRoutes
  <2> HIDE DEF route
  <2>2. \A v \in route : d[v, t] \in Nat
    BY <1>1, <2>1
  <2>3. route # {}
    <3> HIDE DEF measured
    <3> QED BY <1>5, <1>7
  <2>4. far \subseteq Nat
    BY <2>2
  <2>5. far # {}
    BY <2>3
  <2> QED BY <2>4, <2>5
<1>10. StubOfPoint(d, others, t) = stub /\ BranchTo(d, all, others, t) = branch
  <2>1. measured # {} => StubOfPoint(d, others, t) = stub
    BY Zenon DEF StubOfPoint, Excess
  <2>2. BranchTo(d, all, others, t) = branch
    BY Zenon DEF BranchTo
  <2> QED BY <1>5, <2>1, <2>2
<1> HIDE DEF measured, route
<1>11. stub \in measured /\ \A y \in measured : stub <= y
  <2>1. \E x \in measured : \A y \in measured : x <= y
    BY <1>5, LeastNumber
  <2> QED BY <2>1
<1>12. branch \in far /\ \A v \in route : branch <= d[v, t]
  <2>1. PICK x \in far : \A y \in far : x <= y
    <3> HIDE DEF far
    <3> QED BY <1>9, LeastNumber
  <2>2. x \in far /\ \A v \in route : x <= d[v, t]
    BY <2>1
  <2> QED BY <2>2
<1> HIDE DEF stub, branch
<1>13. branch \in Nat /\ stub \in Nat
  <2> HIDE DEF far
  <2> QED BY <1>5, <1>9, <1>11, <1>12
<1>14. stub >= 2 * branch
  <2>1. PICK v \in route : stub = 2 * d[v, t]
    BY <1>7, <1>11, Zenon
  <2> DEFINE vt == d[v, t]
  <2>2. stub = 2 * vt /\ branch <= vt /\ vt \in Nat
    BY <1>9, <1>12, <2>1
  <2> HIDE DEF vt, far
  <2> QED BY <1>13, <2>2
<1>15. stub <= 2 * branch
  <2>1. PICK v \in route : branch = d[v, t]
    BY <1>12
  <2>2. PICK x \in measured : x <= 2 * branch
    BY <1>8, <2>1
  <2>3. stub <= x /\ x \in Nat
    BY <1>5, <1>11
  <2> HIDE DEF far
  <2> QED BY <1>13, <2>2, <2>3
<1>16. stub = 2 * branch
  BY <1>13, <1>14, <1>15
<1> QED BY <1>10, <1>13, <1>16

\* A set has two members exactly if its size says so.
LEMMA TwoOrMore ==
  ASSUME NEW S, IsFiniteSet(S)
  PROVE  Cardinality(S) >= 2 <=> \E a, b \in S : a # b
<1>1. Cardinality(S) \in Nat
  BY FS_CardinalityType
<1>2. ASSUME NEW a \in S, NEW b \in S, a # b PROVE Cardinality(S) >= 2
  <2>1. IsFiniteSet({a, b}) /\ Cardinality({a, b}) = 2
    <3>1. IsFiniteSet({a}) /\ Cardinality({a}) = 1
      BY FS_Singleton
    <3>2. b \notin {a} /\ {a} \cup {b} = {a, b}
      BY <1>2
    <3> QED BY <3>1, <3>2, FS_AddElement
  <2>2. {a, b} \subseteq S
    OBVIOUS
  <2>3. Cardinality({a, b}) <= Cardinality(S)
    BY <2>2, FS_Subset
  <2> QED BY <1>1, <2>1, <2>3
<1>3. ASSUME Cardinality(S) >= 2 PROVE \E a, b \in S : a # b
  <2>1. S # {}
    BY <1>3, FS_EmptySet
  <2>2. PICK a \in S : TRUE
    BY <2>1
  <2>3. S # {a}
    BY <1>3, FS_Singleton
  <2> QED BY <2>2, <2>3
<1> QED BY <1>2, <1>3

\* The test points reported are those whose branch is too long, on any net without
\* loops that has no budget of its own (stubs.py: check_test_point_stubs).
THEOREM StubsAreBranches ==
  ASSUME DefaultStub \in Nat, NEW all, NEW d, NEW pads \in SUBSET all, IsFiniteSet(pads),
         NEW points, NEW s, NEW net \in FastNets,
         param(s, "test-point-stub", "max_stub", net) \in Int,
         param(s, "test-point-stub", "max_stub", net) <= 0
  PROVE  StubIsTheBranch(net, d, all, pads, points, s)
<1> SUFFICES ASSUME WithoutLoops(d, all) PROVE StubIsTheBranch(net, d, all, pads, points, s)
  BY Zenon DEF StubIsTheBranch
<1> DEFINE others == pads \ points
           Stub(t) == StubOfPoint(d, others, t)
           Branch(t) == BranchTo(d, all, others, t)
           tooLong(t) == Cardinality(others) >= 2 /\ Branch(t) > DefaultStub
           limit == IF param(s, "test-point-stub", "max_stub", net) > 0 THEN param(s, "test-point-stub", "max_stub", net) ELSE DefaultStub
           fast == net \in {} \cup FastNets \/ group_sets(s, "max_stub", net)
           found == {[at |-> t, stub |-> Stub(t)] : t \in {t \in pads \cap points : fast /\ Stub(t) > 2 * limit}}
           right == {[at |-> t, stub |-> 2 * Branch(t)] : t \in {t \in pads \cap points : tooLong(t)}}
<1>1. limit = DefaultStub /\ fast
  OBVIOUS
<1>2. check_test_point_stubs(net, {}, d, pads, points, s) = found
  BY Zenon DEF check_test_point_stubs
<1>3. IsFiniteSet(others)
  BY FS_Difference
<1>4. Cardinality(others) >= 2 <=> \E a, b \in others : a # b
  BY <1>3, TwoOrMore
<1>5. ASSUME NEW t \in pads \cap points
      PROVE  (fast /\ Stub(t) > 2 * limit <=> tooLong(t)) /\ (tooLong(t) => Stub(t) = 2 * Branch(t))
  <2>1. CASE \E a, b \in others : a # b
    <3>1. PICK a \in others, b \in others : a # b
      BY <2>1
    <3>2. t \in all /\ others \in SUBSET all
      OBVIOUS
    <3>3. Branch(t) \in Nat /\ Stub(t) = 2 * Branch(t)
      BY <3>1, <3>2, StubIsTwiceTheBranch
    <3>4. Cardinality(others) >= 2
      BY <1>4, <2>1
    <3> HIDE DEF Stub, Branch, others, limit, fast
    <3> QED BY <1>1, <3>3, <3>4
  <2>2. CASE ~\E a, b \in others : a # b
    <3>1. {p \in others \X others : p[1] # p[2]} = {}
      BY <2>2
    <3>2. Stub(t) = 0
      BY <3>1 DEF StubOfPoint
    <3>3. ~tooLong(t)
      BY <1>4, <2>2
    <3>4. ~(Stub(t) > 2 * limit)
      <4> HIDE DEF Stub, limit
      <4> QED BY <1>1, <3>2
    <3> QED BY <3>3, <3>4
  <2> QED BY <2>1, <2>2
<1> HIDE DEF Stub, Branch, tooLong, limit, fast
<1>6. found = right
  BY <1>5
<1>7. right = {[at |-> t, stub |-> 2 * Branch(t)] : t \in {t \in pads \cap points : Cardinality(others) >= 2 /\ Branch(t) > DefaultStub}}
  BY DEF tooLong
<1> HIDE DEF found, right
<1>8. check_test_point_stubs(net, {}, d, pads, points, s) = right
  BY <1>2, <1>6
<1> QED BY <1>7, <1>8, Zenon DEF StubIsTheBranch, Branch, BranchTo, OnRoutes

-------------------------------------------------------------------------------
(* The system of questions: whatever may be asked, the answer is right.    *)

\* The question that has been put is one of those that may be.
OneOfThem == question.x \subseteq Questions(question.of)

LEMMA Asking == Spec => []OneOfThem
<1>1. Init => OneOfThem
  BY DEF Init, OneOfThem
<1>2. OneOfThem /\ [Next]_question => OneOfThem'
  <2>1. ASSUME Next PROVE OneOfThem'
    <3>1. PICK x \in Questions(question.of) : question' = [question EXCEPT !.x = {x}]
      BY <2>1 DEF Next, Ask
    <3> QED BY <3>1 DEF OneOfThem
  <2>2. ASSUME OneOfThem, UNCHANGED question PROVE OneOfThem'
    BY <2>2 DEF OneOfThem
  <2> QED BY <2>1, <2>2
<1> QED BY <1>1, <1>2, PTL DEF Spec

\* No margin that is published is better than the whole product's (assemble.py,
\* completeness.py, predict.py).
THEOREM MarginsAreWhole == Spec => []MarginIsWhole
<1>1. OneOfThem => MarginIsWhole
  <2> SUFFICES ASSUME OneOfThem, question.of = "margin", NEW x \in question.x
               PROVE  MarginIsOfTheWholeProduct(x)
    BY DEF MarginIsWhole, Asked, AskedOneOf
  <2>1. Estimable(x)
    BY QuestionsAssumption DEF QuestionsAssumption, OneOfThem
  <2> QED BY <2>1, AMarginIsOfTheWholeProduct
<1> QED BY <1>1, Asking, PTL

\* A path is one of the copper, and on a plain net every route is found
\* (topology.py).
THEOREM PathsAreRoutedRight == Spec => []PathsAreRouted
<1>1. OneOfThem => PathsAreRouted
  <2> SUFFICES ASSUME OneOfThem, question.of = "paths", NEW net \in question.x
               PROVE  PathsFollowTheCopper(net)
    BY DEF PathsAreRouted, Asked, AskedOneOf
  <2>1. Drawn(net)
    BY QuestionsAssumption DEF QuestionsAssumption, OneOfThem
  <2> QED BY <2>1, PathsFollowTheNet
<1> QED BY <1>1, Asking, PTL

\* A capacitor is modelled as what names or describes it, by the first that
\* does, and its element joins its two pads (resolve.py, place.py).
THEOREM PartsAreKnownRight == Spec => []PartsAreKnown
<1>1. OneOfThem => PartsAreKnown
  <2> SUFFICES ASSUME OneOfThem, question.of = "parts", NEW q \in question.x
               PROVE  PartsAreModelled(q) /\ ElementsJoinTheirPads(q)
    BY DEF PartsAreKnown, Asked, AskedOneOf
  <2>1. Fittable(q)
    BY QuestionsAssumption DEF QuestionsAssumption, OneOfThem
  <2>2. q.pads \in Seq(PadShapes)
    BY <2>1 DEF Fittable
  <2> QED BY <2>1, <2>2, PartsAreModelledRight, PlacedElementsJoinTheirPads
<1> QED BY <1>1, Asking, PTL

\* A driver is read as what was described, in all that is asked of it
\* (spectrum.py, document.py, resolve.py, apply.py).
THEOREM DriversAreReadRight == Spec => []DriversAreRead
<1>1. OneOfThem => DriversAreRead
  <2> SUFFICES ASSUME OneOfThem PROVE DriversAreRead
    OBVIOUS
  <2>1. Asked("pulses", PulseIsAsDescribed)
    BY QuestionsAssumption, PulsesAreAsDescribed DEF QuestionsAssumption, OneOfThem, Asked, AskedOneOf
  <2>2. Asked("doubts", DoubtfulNumbersDoNothing)
    BY DoubtfulNumbersAreWithoutEffect DEF Asked, AskedOneOf
  <2>3. Asked("drivers", OnePeriodIsTaken)
    BY QuestionsAssumption, PeriodsAreTakenOnce DEF QuestionsAssumption, OneOfThem, Asked, AskedOneOf
  <2>4. Asked("joins", JoinHasNoStep)
    BY QuestionsAssumption, CapturesGoOnAtTheirHeight DEF QuestionsAssumption, OneOfThem, Asked, AskedOneOf
  <2>5. Asked("offsets", EachFrequencyByItself)
    BY QuestionsAssumption, FrequenciesAreIndependent DEF QuestionsAssumption, OneOfThem, Asked, AskedOneOf
  <2> QED BY <2>1, <2>2, <2>3, <2>4, <2>5 DEF DriversAreRead
<1> QED BY <1>1, Asking, PTL

=============================================================================
