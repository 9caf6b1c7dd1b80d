--------------------------------- MODULE Mesh ---------------------------------
(***************************************************************************)
(* One in-plane axis of the solver's grid (worker/emi_worker/openems/      *)
(* mesh.py, with the lines model.py asks of it): which lines the copper    *)
(* needs, which of them are one line, and the lines that fill the rest.    *)
(*                                                                         *)
(* Positions are whole units, small against a cell; a series that is       *)
(* scaled to fit its gap is rounded down to them.  An axis is a sequence.  *)
(***************************************************************************)
EXTENDS Integers, Sequences, SequencesExt, FiniteSetsExt

CONSTANTS
  RATIO,     \* MAX_CELL_RATIO, in tenths
  PML_LINES, \* lines of padding at each end
  MAX_ROUNDS, MAX_PASSES  \* of _fill_all and _smooth_ratio

ASSUME MeshAssumption == RATIO \in Nat /\ RATIO > 10 /\ {PML_LINES, MAX_ROUNDS, MAX_PASSES} \subseteq Nat

Ascending(set) ==
  LET from[s \in SUBSET Int] == IF s = {} THEN << >> ELSE << Min(s) >> \o from[s \ {Min(s)}]
  IN  from[set]
Cells(lines) == [i \in 1 .. Len(lines) - 1 |-> lines[i + 1] - lines[i]]
Smallest(lines) == Min(Range(Cells(lines)))
Least(a, b) == IF a < b THEN a ELSE b
Grown(cell, limit) == Least((cell * RATIO) \div 10, limit)
TooLarge(a, b) == a * 10 > b * RATIO   \* beside b, a breaks the grading
Near(lines, v, res) == \E g \in Range(lines) : 4 * (IF g > v THEN g - v ELSE v - g) < res
Total(cells) == LET sum[k \in 0 .. Len(cells)] == IF k = 0 THEN 0 ELSE sum[k - 1] + cells[k] IN sum[Len(cells)]

-----------------------------------------------------------------------------
\* model.py: the lines the copper needs.  A track [at, width, long] runs across
\* the axis, and is ruled if it is longer than it is wide; a pad is its edges.
_rule_cell(width, cell) == Least(cell, width \div 2)

_rule_lines(edge, inward, cell) == {edge + inward * (cell \div 3), edge - inward * (2 * (cell \div 3))}

\* Of two tracks on one edge, the narrower sets its rule.
_ruled_edges(tracks) ==
  LET all == UNION {{[edge |-> t.at - t.width \div 2, inward |-> 1, width |-> t.width],
                     [edge |-> t.at + t.width \div 2, inward |-> -1, width |-> t.width]} :
                    t \in {t \in tracks : t.long}}
  IN  {r \in all : \A s \in all : s.edge = r.edge => r.width <= s.width}

\* A ruled edge's own line is dropped, whatever else asks for it.
_copper_features(tracks, pads, cell) ==
  LET ruled == _ruled_edges(tracks)
      exact == UNION {{t.at - t.width \div 2, t.at, t.at + t.width \div 2} : t \in tracks} \cup pads
  IN  (exact \ {r.edge : r \in ruled})
      \cup UNION {_rule_lines(r.edge, r.inward, _rule_cell(r.width, cell)) : r \in ruled}

\* The lines no merge may remove: those of traces under two cells wide.  Two
\* that are closer than half a rule cell are one, at their middle.
narrow_trace_lines(tracks, cell) ==
  LET narrow == {r \in _ruled_edges(tracks) : r.width <= 2 * cell}
      rule(r) == _rule_cell(r.width, cell)
      lines == UNION {_rule_lines(r.edge, r.inward, rule(r)) : r \in narrow}
      at(v) == Min({rule(r) : r \in {r \in narrow : v \in _rule_lines(r.edge, r.inward, rule(r))}})
      join(out, v) ==
        LET last == out[Len(out)]
        IN  IF out # << >> /\ 2 * (v - last.v) < Least(at(v), last.c)
              THEN Append(Front(out), [v |-> (last.v + v) \div 2, c |-> Least(at(v), last.c)])
              ELSE Append(out, [v |-> v, c |-> at(v)])
  IN  {p.v : p \in Range(FoldLeft(join, << >>, Ascending(lines)))}

-----------------------------------------------------------------------------
\* merge_close: of lines closer than a quarter of res the first is kept, unless
\* the other is pinned; two pinned lines are both kept.
\* Mutant: pinned lines are merged like any other.
MergeAll(set, res, pinned) ==
  FoldLeft(LAMBDA kept, v : IF kept = << >> \/ 4 * (v - kept[Len(kept)]) >= res THEN Append(kept, v) ELSE kept,
           << >>, Ascending(set))

merge_close(set, res, pinned) ==
  LET keep(kept, v) ==
        IF kept = << >> THEN << v >>
        ELSE LET last == kept[Len(kept)]
             IN  IF 4 * (v - last) >= res \/ {v, last} \subseteq pinned THEN Append(kept, v)
                 ELSE IF v \in pinned THEN Append(Front(kept), v) ELSE kept
  IN  FoldLeft(keep, << >>, Ascending(set))

_merge_tolerance(lines, min_res) == Least(min_res, Smallest(lines))

\* _subdivide: a gap over the limit in equal parts.
_subdivide(lines, max_res) ==
  Range(lines)
  \cup UNION {LET gap == lines[i + 1] - lines[i]
                  n == (gap + max_res - 1) \div max_res
              IN  {lines[i] + (gap * k) \div n : k \in 1 .. n - 1} : i \in 1 .. Len(lines) - 1}

\* _fill_gap: cells that grow from both ends, the smaller side first, until one
\* more does not fit.  The series with that one is shrunk to the gap if no cell
\* gets smaller than the neighbours, else the one without it is stretched.
Series(length, left, right, max_res) ==
  LET next(cells, edge) == Grown(IF cells = << >> THEN edge ELSE cells[Len(cells)], max_res)
      added(s, l, r) == IF l <= r THEN << Append(s[1], l), s[2] >> ELSE << s[1], Append(s[2], r) >>
      whole(s) == s[1] \o Reverse(s[2])
      \* s and what it becomes
      grow[p \in (Seq(Nat) \X Seq(Nat)) \X (Seq(Nat) \X Seq(Nat))] ==
        IF Total(whole(p[2])) > length THEN [under |-> whole(p[1]), over |-> whole(p[2])]
        ELSE grow[<< p[2], added(p[2], next(p[2][1], left), next(p[2][2], right)) >>]
      none == << << >>, << >> >>
  IN  grow[<< none, added(none, next(<< >>, left), next(<< >>, right)) >>]

FitsShrunk(over, length, smallest) ==
  Len(over) >= 2 /\ Min(Range(over)) * length >= smallest * Total(over)

Offsets(cells, length) ==
  {(Total(SubSeq(cells, 1, k)) * length) \div Total(cells) : k \in 1 .. Len(cells) - 1}

_fill_gap(length, s_left, s_right, max_res) ==
  LET smallest == Min({s_left, s_right, max_res})
      fit(s) == Offsets(IF FitsShrunk(s.over, length, smallest) THEN s.over ELSE s.under, length)
  IN  IF length <= max_res /\ ~TooLarge(length, smallest) THEN {}
      ELSE fit(Series(length, Least(s_left, max_res), Least(s_right, max_res), max_res))

\* _fill_all: every gap from the cells it touches, until these do not change.
_fill_all(lines, max_res) ==
  LET gap == Cells(lines)
      n == Len(lines) - 1
      start == [i \in 1 .. n |-> [left |-> gap[IF i > 1 THEN i - 1 ELSE i],
                                  right |-> gap[IF i < n THEN i + 1 ELSE i]]]
      fills(s) == [i \in 1 .. n |-> _fill_gap(gap[i], s[i].left, s[i].right, max_res)]
      touching(s, f) ==
        LET first(i) == IF f[i] = {} THEN gap[i] ELSE Min(f[i])
            last(i) == IF f[i] = {} THEN gap[i] ELSE gap[i] - Max(f[i])
        IN  [i \in 1 .. n |->
               [left |-> IF i > 1 THEN Least(s[i].left, last(i - 1)) ELSE s[i].left,
                right |-> IF i < n THEN Least(s[i].right, first(i + 1)) ELSE s[i].right]]
      round[k \in 0 .. MAX_ROUNDS, s \in [1 .. n -> [left : Nat, right : Nat]], f \in [1 .. n -> SUBSET Nat]] ==
        IF k = 0 \/ touching(s, f) = s THEN f
        ELSE LET t == touching(s, f) IN round[k - 1, t, fills(t)]
  IN  Range(lines) \cup UNION {{lines[i] + o : o \in round[MAX_ROUNDS - 1, start, fills(start)][i]} : i \in 1 .. n}

\* _smooth_ratio: each jump that is left, from its smaller side.  Both sides of
\* a cell may fill it, each for itself.
Jumps(lines) ==
  LET from(at, large, small) == {at + o : o \in _fill_gap(large, small, small, large)}
      jump(i, left, right) == CASE TooLarge(right, left) -> from(lines[i + 1], right, left)
                                [] TooLarge(left, right) -> from(lines[i], left, right)
                                [] OTHER -> {}
      all(c) == UNION {jump(i, c[i], c[i + 1]) : i \in 1 .. Len(c) - 1}
  IN  all(Cells(lines))

Smoother(lines, min_res) ==
  merge_close(Range(lines) \cup Jumps(lines), _merge_tolerance(lines, min_res), {})

_smooth_ratio(lines, min_res) ==
  LET pass[k \in 0 .. MAX_PASSES, l \in Seq(Int), smoother \in Seq(Int)] ==
        IF k = 0 THEN l
        ELSE IF Len(smoother) <= Len(l) THEN smoother
        ELSE pass[k - 1, smoother, Smoother(smoother, min_res)]
  IN  pass[MAX_PASSES, lines, Smoother(lines, min_res)]

\* _pad_pml: lines that go on from the outermost cells, each a fifth larger.
Steps(first, limit) ==
  LET step[k \in 1 .. PML_LINES] ==
        IF k = 1 THEN first
        ELSE IF limit = 0 THEN (step[k - 1] * 6) \div 5 ELSE Least((step[k - 1] * 6) \div 5, limit)
  IN  step

_pad_pml(lines, limit) ==
  LET c == Cells(lines)
      out(cell) == {Total(SubSeq(Steps(cell, limit), 1, k)) : k \in 1 .. PML_LINES}
  IN  Ascending({lines[1] - o : o \in out(c[1])} \cup Range(lines)
                   \cup {lines[Len(lines)] + o : o \in out(c[Len(c)])})

\* build_axis; merge is merge_fraction in quarters.
Required(required, min_res, merge, keep) == merge_close(required, merge * min_res, keep)

Filled(lines, min_res, max_res, merge, keep) ==
  _subdivide(merge_close(_fill_all(lines, max_res), merge * min_res, keep), max_res)

Thinned(lines, min_res, keep) == merge_close(Range(lines), _merge_tolerance(lines, min_res), keep)

build_axis(required, min_res, max_res, merge, bounded, keep) ==
  LET parts == Ascending(Filled(Required(required, min_res, merge, keep), min_res, max_res, merge, keep))
      padded == _pad_pml(_smooth_ratio(parts, min_res), IF bounded THEN max_res ELSE 0)
  IN  Thinned(_smooth_ratio(padded, min_res), min_res, keep)

\* build_mesh along one axis: what is asked, the copper in the region and its
\* bounds, and the grid.  x = [tracks, pads, lo, hi, cell, max_res, merge,
\* bounded].
Inside(lines, x) == {v \in lines : x.lo <= v /\ v <= x.hi}

Kept(x) == Inside(narrow_trace_lines(x.tracks, x.cell), x)

Asks(x) == {x.lo, x.hi} \cup Kept(x) \cup Inside(_copper_features(x.tracks, x.pads, x.cell), x)

build_mesh(x) ==
  build_axis(Asks(x), x.cell, x.max_res, x.merge, x.bounded, narrow_trace_lines(x.tracks, x.cell))

\* build_mesh along the board's height, x = [layers, air, dz, max_res,
\* bounded]: every copper layer, the air beyond them, and what lies between
\* two layers sliced at dz.
Heights(x) ==
  LET layers == Ascending(x.layers)
      slices(gap) == Least((gap + x.dz - 1) \div x.dz, 200)
  IN  {Min(x.layers) - x.air, Max(x.layers) + x.air} \cup x.layers
      \cup UNION {{layers[i] + (k * (layers[i + 1] - layers[i])) \div slices(layers[i + 1] - layers[i]) :
                      k \in 1 .. slices(layers[i + 1] - layers[i]) - 1} : i \in 1 .. Len(layers) - 1}

build_mesh_z(x) == build_axis(Heights(x), x.dz, x.max_res, 1, x.bounded, {})

-----------------------------------------------------------------------------
\* The grid has every line that must not be merged away, and within the merge
\* spacing of it every other that the copper asks for.  No cell is over the
\* wavelength's limit, the padding's only where it may be; the smallest is at
\* least half of the smallest the copper asks for, or of the largest a series
\* is split to; and no cell is three times its neighbour.
Resolves(lines, x) == \A i \in 1 .. Len(lines) - 1 :
  (x.bounded \/ (lines[i] >= x.lo /\ lines[i + 1] <= x.hi)) => lines[i + 1] - lines[i] <= x.max_res + 1

Fits(grid, x) ==
  /\ Kept(x) \subseteq Range(grid)
  /\ \A v \in Asks(x) : Near(grid, v, x.merge * x.cell)
  /\ Resolves(grid, x)
  /\ 2 * Smallest(grid) >= Least(Smallest(Required(Asks(x), x.cell, x.merge, Kept(x))), x.max_res \div 2)
  /\ \A i \in 2 .. Len(grid) - 1 :
       /\ grid[i] - grid[i - 1] < 3 * (grid[i + 1] - grid[i])
       /\ grid[i + 1] - grid[i] < 3 * (grid[i] - grid[i - 1])

GridFitsTheCopper(x) == Fits(build_mesh(x), x)

\* Every copper layer is on the grid or within a quarter of dz of a line, and
\* what lies between two layers is resolved at dz, give or take a merged line.
Resolved(grid, x) ==
  /\ \A v \in x.layers : Near(grid, v, x.dz)
  /\ \A i \in 1 .. Len(grid) - 1 :
       (grid[i] >= Min(x.layers) /\ grid[i + 1] <= Max(x.layers)) => 4 * (grid[i + 1] - grid[i]) <= 5 * x.dz + 4

LayersAreResolved(x) == Resolved(build_mesh_z(x), x)

=============================================================================
