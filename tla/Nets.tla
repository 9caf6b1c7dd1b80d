--------------------------------- MODULE Nets ---------------------------------
(***************************************************************************)
(* Net names for a board of Gerbers (worker/emi_worker/raster.py and       *)
(* gerber/connectivity.py): the islands of copper on each layer, the       *)
(* transform that puts the netlist's points onto them, the names they take *)
(* from these, and the pins the pads are.                                  *)
(*                                                                         *)
(* Copper is drawn in pixels << column, row >>, and a shape is the pixels  *)
(* it covers.  Positions are << x, y >> in quarters of a pixel, from the   *)
(* raster's corner.  A point [net, at, ref, pin, access] is in the         *)
(* netlist's own coordinates.                                              *)
(***************************************************************************)
EXTENDS Integers, Sequences, SequencesExt, FiniteSets, FiniteSetsExt, Functions

CONSTANTS
  Rows, Cols,    \* of the raster, from 0
  BoardLayers,   \* the copper layers, top to bottom
  TOLERANCE,     \* POINT_TOLERANCE_MM, in pixels
  REF_TOLERANCE  \* REF_TOLERANCE_MM, in quarters of a pixel

ASSUME NetsAssumption ==
  /\ {Rows, Cols, TOLERANCE, REF_TOLERANCE} \subseteq Nat
  /\ BoardLayers \in Seq(STRING)

\* int(): towards zero.
Pixel(p) == LET int(v) == IF v < 0 THEN -((-v) \div 4) ELSE v \div 4 IN << int(p[1]), int(p[2]) >>
Apart2(p, q) == (p[1] - q[1]) * (p[1] - q[1]) + (p[2] - q[2]) * (p[2] - q[2])

-----------------------------------------------------------------------------
\* label_components: the runs of copper in a row; each is joined to those it
\* touches in the row above, which makes them one.  Of the union-find, the
\* parents: a root is its own.
_runs(mask, row) ==
  LET copper(c) == << c, row >> \in mask
  IN  {<< a, Min({b \in a .. Cols - 1 : ~copper(b + 1)}) >> :
         a \in {a \in 0 .. Cols - 1 : copper(a) /\ ~copper(a - 1)}}

find_root(parent, l) ==
  LET root[i \in DOMAIN parent] == IF parent[i] = i THEN i ELSE root[parent[i]] IN root[l]

union(parent, a, b) ==
  LET ra == find_root(parent, a)
      rb == find_root(parent, b)
  IN  [parent EXCEPT ![Max({ra, rb})] = Min({ra, rb})]

Touched(s, row, run) ==
  {p.label : p \in {p \in s.runs : p.row = row - 1 /\ p.start <= run[2] /\ p.end >= run[1]}}

JoinAll(parent, labels) ==
  LET joined[l \in 0 .. Len(parent)] ==
        IF l = 0 THEN parent
        ELSE IF l \in labels THEN union(joined[l - 1], l, Min(labels)) ELSE joined[l - 1]
  IN  joined[Len(parent)]

AddRun(parent, runs, row, run, label) ==
  [parent |-> parent, runs |-> runs \cup {[row |-> row, start |-> run[1], end |-> run[2], label |-> label]}]

LabelRun(s, row, run) ==
  LET new == Len(s.parent) + 1
      join(touched) == IF touched = {} THEN AddRun(Append(s.parent, new), s.runs, row, run, new)
                       ELSE AddRun(JoinAll(s.parent, touched), s.runs, row, run, Min(touched))
  IN  join(Touched(s, row, run))

Labelled(mask, s) ==
  [c \in mask |-> find_root(s.parent, (CHOOSE r \in s.runs : r.row = c[2] /\ r.start <= c[1] /\ c[1] <= r.end).label)]

\* A row's runs from left to right; the rows from the first to the last.
LabelRow(mask, s, row) ==
  LET runs == _runs(mask, row)
      begun(c) == {r \in runs : r[1] = c}
      upto[c \in 0 .. Cols] ==
        IF c = 0 THEN s
        ELSE IF begun(c - 1) = {} THEN upto[c - 1]
        ELSE LabelRun(upto[c - 1], row, CHOOSE r \in begun(c - 1) : TRUE)
  IN  upto[Cols]

label_components(mask) ==
  LET rows[y \in 0 .. Rows] ==
        IF y = 0 THEN [parent |-> << >>, runs |-> {}] ELSE LabelRow(mask, rows[y - 1], y - 1)
  IN  Labelled(mask, rows[Rows])

\* Two pixels of copper carry one label exactly if copper joins them.
Reach(mask, c) ==
  LET beside(d) == {e \in mask : Apart2(d, e) = 1}
      spread[s \in SUBSET mask] ==
        LET more == s \cup UNION {beside(d) : d \in s} IN IF more = s THEN s ELSE spread[more]
  IN  spread[{c}]

Islands(label, mask) == \A c \in mask : {d \in mask : label[d] = label[c]} = Reach(mask, c)

IslandsAreConnected(mask) == Islands(label_components(mask), mask)

-----------------------------------------------------------------------------
\* A raster: for every layer the labels of its copper.
Raster(x) ==
  [l \in Range(BoardLayers) |->
     label_components(UNION {s.cells : s \in {s \in x.tracks \cup x.pads \cup x.zones : s.layer = l}})]

\* label_at: 0 off copper, unless some is near: the nearest in the window.
label_at(labels, p, search) ==
  LET here == Pixel(p)
      near(r) == {c \in DOMAIN labels : \A i \in {1, 2} : c[i] - here[i] \in -r .. r}
      before(c, d) == \/ Apart2(c, here) < Apart2(d, here)
                      \/ Apart2(c, here) = Apart2(d, here) /\ (c[2] < d[2] \/ (c[2] = d[2] /\ c[1] < d[1]))
      rings == {r \in 1 .. search : near(r) # {}}
  IN  IF here \in DOMAIN labels THEN labels[here]
      ELSE IF rings = {} THEN 0
      ELSE labels[CHOOSE c \in near(Min(rings)) : \A d \in near(Min(rings)) : c = d \/ before(c, d)]

\* A point touches every layer or its own; the islands it lands in.
Targets(point) == IF point.access = 0 THEN Range(BoardLayers) ELSE {BoardLayers[point.access]}

Shift(t, p) == << p[1] + t.dx, t.s * p[2] + t.dy >>

Lands(raster, t, point) ==
  {k \in {<< l, label_at(raster[l], Shift(t, point.at), TOLERANCE) >> : l \in Targets(point)} : k[2] # 0}

\* align: as it is, by the drill's centroid, by the bounding boxes, these with
\* the netlist turned over; the first that lands most points, and the shift of
\* it, in two rounds, that lands more.  Less than half is refused.
Sum1(ps, i) == FoldSet(LAMBDA p, s : s + p[i], 0, ps)

Candidates(x) ==
  LET at == {p.at : p \in Range(x.points)}
      through == {p.at : p \in {p \in Range(x.points) : p.access = 0}}
      left == Min({p[1] : p \in at})
      n == Cardinality(through)
      drill == << [s |-> -1, dx |-> Sum1(x.vias, 1) \div Cardinality(x.vias) - Sum1(through, 1) \div n,
                   dy |-> Sum1(x.vias, 2) \div Cardinality(x.vias) + Sum1(through, 2) \div n] >>
  IN  << [s |-> 1, dx |-> 0, dy |-> 0] >>
      \o (IF x.vias # {} /\ n # 0 /\ Cardinality(x.vias) - n \in -4 .. 4 THEN drill ELSE << >>)
      \o << [s |-> 1, dx |-> -left, dy |-> -Min({p[2] : p \in at})],
            [s |-> -1, dx |-> -left, dy |-> Max({p[2] : p \in at})] >>

score(x, raster, t) ==
  Cardinality({i \in DOMAIN x.points :
                 \E l \in Range(BoardLayers) : label_at(raster[l], Shift(t, x.points[i].at), TOLERANCE) # 0})

Moves(t, step) ==
  LET steps == << -2, -1, 0, 1, 2 >>
  IN  [i \in 1 .. 25 |-> [t EXCEPT !.dx = @ + step * steps[((i - 1) \div 5) + 1],
                                  !.dy = @ + step * steps[((i - 1) % 5) + 1]]]

align(x, raster) ==
  LET better(best, new) == IF new.hits > best.hits THEN new ELSE best
      try(best, t) == better(best, [t |-> t, hits |-> score(x, raster, t)])
      refine(best, step) == FoldLeft(try, best, Moves(best.t, step))
      again(best, refined) == IF refined = best THEN best ELSE refine(refined, 2)
      twice(best) == again(best, refine(best, 4))
      accept(best) == IF 2 * best.hits < Len(x.points) THEN {} ELSE {best.t}
  IN  accept(twice(FoldLeft(try, [t |-> Candidates(x)[1], hits |-> -1], Candidates(x))))

-----------------------------------------------------------------------------
\* assign: an island takes the net of the first point that lands in it.  A
\* through point names the islands of every layer; so no island that it ties
\* to a named one is left for the propagation to name.
NetOf(x, raster, t, island) ==
  LET of(points) == IF points = {} THEN "" ELSE x.points[Min(points)].net
  IN  of({i \in DOMAIN x.points : island \in Lands(raster, t, x.points[i])})

\* Two nets in one island: a warning.
Disputed(x, raster, t) ==
  \E p, q \in Range(x.points) : p.net # q.net /\ Lands(raster, t, p) \cap Lands(raster, t, q) # {}

\* Mutant: the search reaches a pixel further.
net_atFurther(x, raster, t, l, p) == NetOf(x, raster, t, << l, label_at(raster[l], p, 2) >>)

net_at(x, raster, t, l, p) == NetOf(x, raster, t, << l, label_at(raster[l], p, 1) >>)

\* apply_nets: at a track's middle, at a pad's; at a zone's centroid, else
\* between that and a corner of it; at a via on the first layer that names it.
FirstNamed(nets) ==
  LET named(in) == IF in = {} THEN "" ELSE nets[Min(in)]
  IN  named({i \in DOMAIN nets : nets[i] # ""})

Named(x, raster, t, s) ==
  LET asked == IF s \in x.zones THEN << s.at, s.inward >> ELSE << s.at >>
  IN  FirstNamed([i \in DOMAIN asked |-> net_at(x, raster, t, s.layer, asked[i])])

NamedVia(x, raster, t, v) ==
  FirstNamed([i \in DOMAIN BoardLayers |-> net_at(x, raster, t, BoardLayers[i], v)])

-----------------------------------------------------------------------------
\* attach_parts: each pin in turn takes, on each of its layers, the nearest pad
\* that is free.  A through-hole's pads are one on every layer, and its hole no
\* via; a pad that is nobody's on top of a via is the via's ring.
Close(p, q) == Apart2(p, q) <= REF_TOLERANCE * REF_TOLERANCE

Claims(s, point, at) ==
  LET nearest(free) == {p \in free : \A q \in free : Apart2(p.at, at) <= Apart2(q.at, at)}
      choose(free) == IF free = {} THEN {} ELSE {CHOOSE p \in nearest(free) : TRUE}
  IN  UNION {choose({p \in s.pads : p.layer = l /\ p.ref = "" /\ (Close(p.at, at) \/ Pixel(at) \in p.cells)}) :
               l \in Targets(point)}

TakePads(s, point, hits) ==
  LET top == CHOOSE p \in hits : \A i, j \in DOMAIN BoardLayers :
               BoardLayers[i] = p.layer /\ BoardLayers[j] \in {q.layer : q \in hits} => i <= j
      pin == [top EXCEPT !.ref = point.ref, !.pin = point.pin, !.layers = Targets(point),
                         !.net = IF @ = "" THEN point.net ELSE @]
  IN  [pads |-> (s.pads \ hits) \cup {pin},
       holes |-> s.holes \cup (IF point.access = 0 THEN {top.at} ELSE {})]

AttachPin(s, point, at) ==
  LET take(hits) == IF hits = {} THEN s ELSE TakePads(s, point, hits)
  IN  IF point.ref = "VIA" THEN s ELSE take(Claims(s, point, at))

Unattached(x, raster, t) ==
  [pads |-> {p @@ [ref |-> "", pin |-> "", layers |-> {p.layer}, net |-> Named(x, raster, t, p)] : p \in x.pads},
   holes |-> {}]

attach_parts(x, raster, t) ==
  LET pin(s, point) == AttachPin(s, point, Shift(t, point.at))
      left(s, vias) == [vias |-> vias, pads |-> {p \in s.pads : p.ref # "" \/ ~\E v \in vias : Close(v, p.at)}]
      done(s) == left(s, {v \in x.vias : ~\E h \in s.holes : Close(v, h)})
  IN  done(FoldLeft(pin, Unattached(x, raster, t), x.points))

-----------------------------------------------------------------------------
\* x.net and x.via_net give the net a shape and a hole are really on, x.exact
\* the transform the netlist was written with.  If that is the one that is
\* found, copper is given its own net or none, and none only where no point of
\* the net lands; a zone's centroid must not lie on other copper.  Each pin has
\* one pad, at its place and on its layers, and what is left as a via is no pin.
Sampled(x, s) ==
  s \notin x.zones \/ \A o \in (x.tracks \cup x.pads \cup x.zones) \ {s} :
                        o.layer = s.layer /\ x.net[o] # x.net[s] => {Pixel(s.at), Pixel(s.inward)} \cap o.cells = {}

CopperIsNamed(x, raster, t) ==
  /\ ~Disputed(x, raster, t)
  /\ \A s \in {s \in x.tracks \cup x.pads \cup x.zones : Sampled(x, s)} :
       Named(x, raster, t, s) # x.net[s] =>
         /\ Named(x, raster, t, s) = ""
         /\ \A p \in Range(x.points) : \A k \in Lands(raster, t, p) :
              k[1] # s.layer \/ \A c \in s.cells : raster[s.layer][c] # k[2]
  /\ \A v \in x.vias : NamedVia(x, raster, t, v) \in {"", x.via_net[v]}

PinsAreAttached(x, t, parts) ==
  \A p \in Range(x.points) :
    /\ p.ref # "VIA" => \E pad \in parts.pads :
         /\ {q \in parts.pads : q.ref = p.ref /\ q.pin = p.pin} = {pad}
         /\ pad.at = Shift(t, p.at) /\ pad.layers = Targets(p) /\ pad.net = p.net
    /\ p.access = 0 => (Shift(t, p.at) \in parts.vias <=> (p.ref = "VIA" /\ Shift(t, p.at) \in x.vias))

NetsOn(x, raster) ==
  align(x, raster) = {x.exact} =>
    CopperIsNamed(x, raster, x.exact) /\ PinsAreAttached(x, x.exact, attach_parts(x, raster, x.exact))

NetsAreRight(x) == NetsOn(x, Raster(x))

=============================================================================
