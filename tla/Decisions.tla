------------------------------- MODULE Decisions -------------------------------
(***************************************************************************)
(* The worker's decisions as a system of one step: a question is put to    *)
(* one of its modules, and the invariants say what the answer has to be.   *)
(* What may be asked is a constant, and so is what makes a question one    *)
(* the program can be asked.                                               *)
(***************************************************************************)
EXTENDS Compliance, Topology, Components, Drivers

CONSTANTS
  Topics,         \* what may be asked about, in turn
  Questions(_)    \* what may be asked about a topic

VARIABLE question   \* what was asked, and of whom

\* A pulse as it is described; a capture with whole numbers; one whose odd lines
\* have a height and its even ones another; and what is asked of two drivers.
Pulse == [amplitude : Int, period : Int, width : Int, rise : Int, fall : Int]

Capture(d) ==
  d.kind = "waveform" => d.interval \in Nat /\ ("period_s" \in DOMAIN d.values => ValueOf(d, "period_s") \in Nat)

Harmonic(q) ==
  LET d == q.driver
      period == ValueOf(d, "period_s")
      height(n) == piecewise_linear_series(Wave(d), period, envelope_trap(d), n)
  IN  /\ d.kind = "waveform" /\ d.bandwidth \in Nat /\ period \in Nat /\ q.freqs \subseteq Nat
      /\ \A n \in 1 .. LastHarmonic(d.bandwidth, period) :
           height(n) \in Nat /\ height(n) = height(IF n % 2 = 0 THEN 2 ELSE 1)

ASSUME QuestionsAssumption ==
  /\ \A x \in Questions("margin") : Estimable(x)
  /\ \A net \in Questions("paths") : Drawn(net)
  /\ \A q \in Questions("parts") : Fittable(q)
  /\ Questions("pulses") \subseteq Pulse
  /\ \A d \in Questions("drivers") : Capture(d)
  /\ \A q \in Questions("joins") : Harmonic(q)
  /\ \A q \in Questions("offsets") : q.freqs # {}

\* First a topic, then a question of it.
Init == \E i \in DOMAIN Topics : question = [of |-> Topics[i], x |-> {}]

Ask == \E x \in Questions(question.of) : question' = [question EXCEPT !.x = {x}]

Next == question.x = {} /\ Ask

Spec == Init /\ [][Next]_question

AskedOneOf(topics, Answer(_)) == question.of \in topics => \A x \in question.x : Answer(x)
Asked(topic, Answer(_)) == AskedOneOf({topic}, Answer)

\* Compliance: a margin that is published for a periodic driver is not better
\* than the whole product's, whatever the solve holds and the user declares.
MarginIsWhole == Asked("margin", MarginIsOfTheWholeProduct)

\* Topology: a path that is reported is real and none is shorter; on a plain
\* net every route is found.
PathsAreRouted == Asked("paths", PathsFollowTheCopper)

\* Components: a capacitor is modelled as what names or describes it, by the
\* first that does, and its element joins the two pads of the part.
PartsAreKnown == Asked("parts", PartsAreModelled) /\ Asked("parts", ElementsJoinTheirPads)

\* Drivers: a driver that is accepted is the source that was described, is no
\* surer than any number that shapes it, has no step at the capture's bandwidth, and
\* gives each frequency an offset or a reason that others do not change.
DriversAreRead ==
  /\ Asked("pulses", PulseIsAsDescribed)
  /\ Asked("drivers", OnePeriodIsTaken) /\ Asked("doubts", DoubtfulNumbersDoNothing)
  /\ Asked("joins", JoinHasNoStep)
  /\ Asked("offsets", EachFrequencyByItself)

=============================================================================
