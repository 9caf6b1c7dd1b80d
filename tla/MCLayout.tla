-------------------------------- MODULE MCLayout --------------------------------
(***************************************************************************)
(* Small layouts: axes of copper for the grid, bitmaps and boards of       *)
(* Gerbers for the nets.                                                   *)
(***************************************************************************)
EXTENDS Mesh, Nets

\* Mesh: one or two tracks over or under two cells wide, whose edges meet, lie
\* within a merge of each other or apart, and a pad; and pads alone, from 100
\* to 3100 apart.
Crossing == {[at |-> a, width |-> w, long |-> l] : a \in {1000, 1030, 1060, 1300}, w \in {120, 360}, l \in BOOLEAN}
Axes ==
  {[tracks |-> {s, t}, pads |-> p, lo |-> 0, hi |-> 3000, cell |-> m[1], max_res |-> 1200,
    merge |-> m[2], bounded |-> m[3]] :
     s \in Crossing, t \in Crossing, p \in {{}, {1080}, {700, 1120}},
     m \in {<< 120, 1, FALSE >>, << 240, 2, TRUE >>}}
  \cup {[tracks |-> {}, pads |-> p, lo |-> 100, hi |-> 5500, cell |-> 200, max_res |-> m, merge |-> f,
         bounded |-> TRUE] : p \in SUBSET {300, 600, 1600, 1700, 3300, 4800}, m \in {800, 2400}, f \in {1, 2}}

\* Layers from a fifth of a slice to eight of them apart.
Stackups ==
  {[layers |-> l, air |-> a, dz |-> 100, max_res |-> 1200, bounded |-> FALSE] :
     l \in SUBSET {0, 20, 180, 360, 1000, 1600} \ {{}}, a \in {1000, 3000}}

\* Nets: every bitmap of four columns and three rows.
Bitmaps == SUBSET ((0 .. 3) \X (0 .. 2))

\* Three plated holes in a row, each a signal's or ground's: a pin, a via, and
\* either.  A ground pour on B and perhaps one on F, two pixels clear of what
\* is not its own, a track between signals that are neighbours, and a surface
\* pad of ground beside the last hole.  The netlist is in the board's own
\* coordinates or turned over and moved, and may lack up to two points.
Stackup2 == << "F", "B" >>
Place(c) == << 4 * c + 2, 4 * 3 + 2 >>
Square(c, k) == ((c - k) .. (c + k)) \X ((3 - k) .. (3 + k))
Column == << 3, 8, 13 >>
Holes == {1, 2, 3}
Flash(l, c) == [layer |-> l, cells |-> Square(c, 0), at |-> Place(c)]
Ground(l, carry, clear) ==
  [layer |-> l, at |-> Place(8), inward |-> << 18, 6 >>,
   cells |-> ((0 .. Cols - 1) \X (0 .. Rows - 1)) \ UNION {Square(Column[h], clear) : h \in {h \in Holes : carry[h] = "S"}}]
Trace(h) == [layer |-> "F", at |-> Place(Column[h] + 2), cells |-> (Column[h] .. Column[h + 1]) \X {3}]

GerberBoard(carry, third, ringed, poured, missing, t) ==
  LET pads == {Flash("F", Column[h]) : h \in Holes} \cup {Flash("F", 15)}
              \cup (IF ringed THEN {Flash("B", Column[h]) : h \in Holes} ELSE {})
      tracks == IF poured THEN {} ELSE {Trace(h) : h \in {h \in {1, 2} : carry[h] = "S" /\ carry[h + 1] = "S"}}
      zones == {Ground("B", carry, IF ringed THEN 2 ELSE 1)} \cup (IF poured THEN {Ground("F", carry, 2)} ELSE {})
      over(p) == IF \E h \in Holes : p = Place(Column[h]) THEN carry[CHOOSE h \in Holes : p = Place(Column[h])] ELSE "G"
      entry(c, ref, access) ==
        [net |-> over(Place(c)), at |-> << Place(c)[1] - t.dx, t.s * (Place(c)[2] - t.dy) >>,
         ref |-> ref, pin |-> "1", access |-> access]
      all == << entry(3, "J1", 0), entry(8, "VIA", 0), entry(13, third, 0), entry(15, "U2", 1) >>
  IN  [tracks |-> tracks, pads |-> pads, zones |-> zones, vias |-> {Place(Column[h]) : h \in Holes},
       points |-> SelectSeq(all, LAMBDA p : ~\E i \in missing : p = all[i]),
       net |-> [s \in tracks \cup pads \cup zones |-> IF s \in zones THEN "G" ELSE IF s \in tracks THEN "S" ELSE over(s.at)],
       via_net |-> [v \in {Place(Column[h]) : h \in Holes} |-> over(v)],
       exact |-> t]

AsWritten == [s |-> 1, dx |-> 0, dy |-> 0]
Turned == [s |-> -1, dx |-> -40, dy |-> 40]
GerberBoards ==
  {GerberBoard(carry, third, ringed, poured, {}, AsWritten) :
     carry \in [Holes -> {"S", "G"}], third \in {"VIA", "J2"}, ringed \in BOOLEAN, poured \in BOOLEAN}
  \cup {GerberBoard(carry, "J2", ringed, ~ringed, missing, Turned) :
          carry \in [Holes -> {"S", "G"}], ringed \in BOOLEAN, missing \in {m \in SUBSET (1 .. 4) : Cardinality(m) <= 2}}

=============================================================================
