------------------------------- MODULE Components -------------------------------
(***************************************************************************)
(* Capacitor models (worker/emi_worker/components/, and the plan made of   *)
(* them in openems/model.py): which component documents are taken, which   *)
(* of them answers for a part, and where its element goes.                 *)
(*                                                                         *)
(* A value is a whole number of farads; a part's is 0 if it cannot be read *)
(* and a document's 0 if it says none.  Part numbers are compared after    *)
(* normalise_part_number, so they are values.                              *)
(* A footprint is [form, imperial, metric].                                *)
(***************************************************************************)
EXTENDS Integers, Sequences, FiniteSets, FiniteSetsExt, SequencesExt

CONSTANTS
  Metric,     \* IMPERIAL_TO_METRIC
  Library,    \* built_in's documents by file and place
  MIN_GAP, OFF_AXIS   \* of place.py

ASSUME ComponentsAssumption == {MIN_GAP, OFF_AXIS} \subseteq Nat /\ MIN_GAP > 0

NoPackage == ""
Unreadable == -1   \* the value of a document that cannot be read as farads

-----------------------------------------------------------------------------
\* match.py.  Two codes check each other; a bare one is read as imperial; a
\* custom name is not guessed at.
parse_package(fp) ==
  CASE fp.form = "standard" ->
         IF fp.imperial \in DOMAIN Metric /\ Metric[fp.imperial] # fp.metric THEN NoPackage ELSE fp.imperial
    [] fp.form = "bare" /\ fp.imperial \in DOMAIN Metric -> fp.imperial
    [] OTHER -> NoPackage

match_part(p) == [farads |-> p.value, package |-> parse_package(p.footprint), numbers |-> p.numbers]
modellable(m) == m.farads # 0 /\ m.package # NoPackage

-----------------------------------------------------------------------------
\* document.py.  A document is [id, shape, prov, type, value, package, numbers,
\* c, esl, esr, esl_of, sources, bias]; esl and esr say whether the number is
\* given, esl_of is the packages a family has one for, and a source is what it
\* is for, "" for everything.
cites(d, what) == d.sources \cap {"", what} # {}

parse(d) ==
  /\ d.shape = "ok"
  /\ d.type = "series_rlc" => (d.esl => cites(d, "ESL")) /\ (d.esr => cites(d, "ESR"))
  /\ d.type = "mlcc_family" => d.esl_of # {} /\ cites(d, "ESL")
  /\ d.bias => cites(d, "DC bias")
  /\ d.prov = "vendor" => d.sources # {}

is_generic(d) == d.prov = "generic"

\* A series R-L-C is itself, a family one of the board's value; the ESR of a
\* family is clamped at the ends of its table, so one with a table has one.
resolve_for(d, farads, package) ==
  IF d.type = "series_rlc" THEN {[c |-> d.c, esl |-> d.esl, esr |-> d.esr]}
  ELSE {[c |-> farads, esl |-> TRUE, esr |-> d.esr] : x \in {package} \cap d.esl_of}

-----------------------------------------------------------------------------
\* resolve.py.  Vendor parts before generic ones before families.
Vendor == {d \in Range(Library) : ~is_generic(d)}
Families == {d \in Range(Library) : is_generic(d) /\ d.type = "mlcc_family"}

\* The library's documents that are kept, in its order.
InOrder(keep) ==
  LET of[n \in 0 .. Len(Library)] ==
        IF n = 0 THEN << >> ELSE IF Library[n] \in keep THEN Append(of[n - 1], Library[n]) ELSE of[n - 1]
  IN  of[Len(Library)]

built_in == InOrder(Vendor) \o InOrder(Range(Library) \ (Vendor \cup Families)) \o InOrder(Families)

\* components.go: what the browser sent inline, the caller's, the shared.
attachComponents(wanted, inline, mine, shared) == IF wanted THEN inline \o mine \o shared ELSE << >>

BuiltIn(d) == d \in Range(Library)

\* Mutant: a part of the library answers for every part of its value.
MatchesAnyNumber(d, m) ==
  IF d.type = "mlcc_family" THEN m.package \in d.esl_of
  ELSE d.package \in {NoPackage, m.package} /\ d.value \in {0, m.farads}

_matches(d, m) ==
  /\ ~(BuiltIn(d) /\ d.numbers # {})
  /\ IF d.type = "mlcc_family" THEN m.package \in d.esl_of
     ELSE d.package \in {NoPackage, m.package} /\ d.value \in {0, m.farads}

_rlc_for(d, m) ==
  IF d.type = "series_rlc" \/ modellable(m) THEN resolve_for(d, m.farads, m.package) ELSE {}

_disagreements(d, m) ==
  (IF d.value \notin {0, Unreadable} /\ m.farads \notin {0, d.value} THEN {"value"} ELSE {})
  \cup (IF d.package # NoPackage /\ m.package \notin {NoPackage, d.package} THEN {"package"} ELSE {})

_resolved(d, rlc, by, notes) ==
  [by |-> by, id |-> d.id, generic |-> is_generic(d), rlc |-> rlc, notes |-> notes,
   gaps |-> (IF rlc.esl THEN {} ELSE {"ESL"}) \cup (IF rlc.esr THEN {} ELSE {"ESR"})]

Bare == [by |-> "none"]

Only(rlcs) == CHOOSE r \in rlcs : TRUE
Numbered(d, m) == d.numbers \cap m.numbers # {} /\ _rlc_for(d, m) # {}
Valued(d, m) == modellable(m) /\ _matches(d, m) /\ resolve_for(d, m.farads, m.package) # {}
ByNumber(d, m) == _resolved(d, Only(_rlc_for(d, m)), "part number", _disagreements(d, m))
ByValue(d, m) == _resolved(d, Only(resolve_for(d, m.farads, m.package)), "value", {})

\* The first that goes by a part number of the part's, else by its value.
resolve_part(m, candidates) ==
  LET list == candidates \o built_in
      numbered == {i \in DOMAIN list : Numbered(list[i], m)}
      valued == {i \in DOMAIN list : Valued(list[i], m)}
  IN  IF numbered # {} THEN ByNumber(list[Min(numbered)], m)
      ELSE IF valued # {} THEN ByValue(list[Min(valued)], m) ELSE Bare

-----------------------------------------------------------------------------
\* place.py.  A pad is [layers, x, y] with << low, high >> for x and y, and a
\* region the same without layers.
Middle2(range) == range[1] + range[2]
Gap(a, b) == IF Middle2(a) < Middle2(b) THEN << a[2], b[1] >> ELSE << b[2], a[1] >>
Overlap(a, b) == << Max({a[1], b[1]}), Min({a[2], b[2]}) >>
Off2(a, b) == Max({Middle2(a) - Middle2(b), Middle2(b) - Middle2(a)})
Holds(range, r) == range[1] <= r[1] /\ r[2] <= range[2]

Placeable(axis, layer, along, across, region) ==
  IF along[2] - along[1] < MIN_GAP \/ across[2] <= across[1]
     \/ ~Holds(region.x, IF axis = "x" THEN along ELSE across)
     \/ ~Holds(region.y, IF axis = "x" THEN across ELSE along)
    THEN {}
  ELSE {[axis |-> axis, layer |-> layer, along |-> along, across |-> across]}

\* The plan of one part: none, or its element.
plan_placement(pads, region) ==
  IF Len(pads) # 2 \/ \E i \in DOMAIN pads : pads[i].layers = << >> THEN {}
  ELSE LET a == pads[1]
           b == pads[2]
           dx == Off2(a.x, b.x)
           dy == Off2(a.y, b.y)
       IN  IF a.layers[1] # b.layers[1] \/ Min({dx, dy}) > 2 * OFF_AXIS THEN {}
           ELSE IF dx >= dy
             THEN Placeable("x", a.layers[1], Gap(a.x, b.x), Overlap(a.y, b.y), region)
             ELSE Placeable("y", a.layers[1], Gap(a.y, b.y), Overlap(a.x, b.x), region)

\* model._plan_components and plan_all for one capacitor: no placement without
\* the option and a solver that can do it, nor of a model with gaps.
_plan_components(q) ==
  LET resolved == resolve_part(match_part(q.part), q.candidates)
  IN  IF ~q.wanted \/ ~q.solver \/ Len(q.pads) # 2 \/ resolved = Bare THEN {}
      ELSE IF resolved.gaps # {} THEN {} ELSE plan_placement(q.pads, q.region)

-----------------------------------------------------------------------------
\* What is asked about a part: documents that are told apart by their ids, and
\* pads on a grid.
ComponentDocuments ==
  [id : STRING, shape : STRING, prov : STRING, type : {"series_rlc", "mlcc_family"},
   value : Nat \cup {Unreadable}, package : STRING, numbers : SUBSET STRING, c : Nat, esl : BOOLEAN, esr : BOOLEAN,
   esl_of : SUBSET STRING, sources : SUBSET STRING, bias : BOOLEAN]

ASSUME LibraryAssumption == Library \in Seq(ComponentDocuments) /\ \A d \in Range(Library) : parse(d)

Apart(list) == \A i, j \in DOMAIN list : list[i].id = list[j].id => i = j
Spans2 == {r \in Seq(Int) : Len(r) = 2}
PadShapes == [layers : Seq(STRING), x : Spans2, y : Spans2]
Fittable(q) ==
  /\ q.candidates \in Seq(ComponentDocuments) /\ Apart(q.candidates \o built_in)
  /\ q.pads \in Seq(PadShapes)

\* What the answer has to be.  A document describes a part if it says nothing
\* else of it.
Describes(d, m) ==
  /\ modellable(m)
  /\ IF d.type = "mlcc_family" THEN m.package \in d.esl_of
     ELSE d.package \in {NoPackage, m.package} /\ d.value \in {0, m.farads}
Names(d, m) == d.numbers \cap m.numbers # {} /\ (d.type = "series_rlc" \/ Describes(d, m))
Contradicts(d, m) ==
  \/ d.value \notin {0, Unreadable, m.farads} /\ m.farads # 0
  \/ d.package \notin {NoPackage, m.package} /\ m.package # NoPackage
Anonymous(d) == ~(BuiltIn(d) /\ d.numbers # {})

\* A part is bare only if nothing names or describes it, and what answers for
\* it names it or, when nothing does, describes it and is not another part of
\* the library; a board that contradicts its part number is told; a number that
\* is used has a source.  A document that does not answer for a part has no
\* influence on who does, and one that does has no better before it.
PartsAreModelled(q) ==
  LET fits(c, m) == Describes(c, m) /\ Anonymous(c)
      better(c, m, got) == IF got.by = "value" THEN fits(c, m) ELSE Names(c, m)
      answered(m, got, d, list) ==
        /\ IF got.by = "part number" THEN Names(d, m) ELSE fits(d, m) /\ \A c \in Range(list) : ~Names(c, m)
        /\ got.by = "part number" /\ Contradicts(d, m) => got.notes # {}
        /\ (got.rlc.esl => cites(d, "ESL")) /\ (got.rlc.esr /\ d.type = "series_rlc" => cites(d, "ESR"))
        /\ \A i \in DOMAIN q.candidates :
             IF q.candidates[i] = d THEN \A j \in 1 .. i - 1 : ~better(q.candidates[j], m, got)
             ELSE resolve_part(m, RemoveAt(q.candidates, i)) = got
      right(m, got, list) ==
        IF got = Bare THEN \A c \in Range(list) : ~Names(c, m) /\ ~fits(c, m)
        ELSE answered(m, got, CHOOSE d \in Range(list) : d.id = got.id, list)
      of(m) == right(m, resolve_part(m, q.candidates), q.candidates \o built_in)
  IN  (\A i \in DOMAIN q.candidates : parse(q.candidates[i])) => of(match_part(q.part))

\* An element that is placed joins its part's two pads: it begins on one and
\* ends on the other, over copper of both along its whole edge and over none in
\* between, on the layer of both and inside the region.
ElementsJoinTheirPads(q) ==
  \A e \in _plan_components(q) :
    LET a == q.pads[1]
        b == q.pads[2]
        near(p) == IF e.axis = "x" THEN p.x ELSE p.y
        beside(p) == IF e.axis = "x" THEN p.y ELSE p.x
    IN  /\ {near(a)[2], near(b)[2]} \cap {e.along[1]} # {} /\ {near(a)[1], near(b)[1]} \cap {e.along[2]} # {}
        /\ e.along[1] < e.along[2] /\ e.across[1] < e.across[2]
        /\ \A p \in {a, b} : /\ Holds(beside(p), e.across) /\ e.layer = p.layers[1]
                             /\ near(p)[2] <= e.along[1] \/ e.along[2] <= near(p)[1]
        /\ Holds(q.region.x, IF e.axis = "x" THEN e.along ELSE e.across)
        /\ Holds(q.region.y, IF e.axis = "x" THEN e.across ELSE e.along)

=============================================================================
