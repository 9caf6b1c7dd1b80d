-------------------------------- MODULE MCSignals --------------------------------
(***************************************************************************)
(* Small layouts for what has to match: a memory with two lanes of two     *)
(* lines, USB pairs with names that say too much, traces and trees.        *)
(***************************************************************************)
EXTENDS Matching

HalfOf(by, base, positive, partner) == [by |-> by, base |-> base, positive |-> positive, partner |-> partner]
Strobe(base, p, n) == [x \in {p, n} |-> {HalfOf(1, base, x = p, IF x = p THEN n ELSE p), HalfOf(5, base, x = p, IF x = p THEN n ELSE p)}]
SignalOrder == << "A0", "CK_N", "CK_P", "D0", "D1", "D2", "D3", "DM0", "DQS", "DQS0_N", "DQS0_P", "DQS1_N", "DQS1_P",
                  "UDM", "UDP", "USB_DM", "USB_DN", "USB_DP", "VCCP" >>
SignalNames == Range(SignalOrder)
MCNetRank == [n \in SignalNames |-> CHOOSE i \in DOMAIN SignalOrder : SignalOrder[i] = n]
MCEnds ==
  Strobe("CK", "CK_P", "CK_N") @@ Strobe("DQS0", "DQS0_P", "DQS0_N") @@ Strobe("DQS1", "DQS1_P", "DQS1_N")
  @@ [n \in SignalNames |->
        CASE n = "USB_DP" -> {HalfOf(4, "USB", TRUE, "USB_DM"), HalfOf(5, "USB_D", TRUE, "USB_DN")}
          [] n = "USB_DM" -> {HalfOf(4, "USB", FALSE, "USB_DP")}
          [] n = "USB_DN" -> {HalfOf(5, "USB_D", FALSE, "USB_DP")}
          [] n = "UDP" -> {HalfOf(4, "U", TRUE, "UDM"), HalfOf(5, "UD", TRUE, "UDN")}
          [] n = "UDM" -> {HalfOf(4, "U", FALSE, "UDP")}
          [] n = "VCCP" -> {HalfOf(5, "VCC", TRUE, "VCCN")}
          [] OTHER -> {}]
RoleOf(is, index, indexed) == [is |-> is, index |-> index, indexed |-> indexed]
MCRole ==
  [n \in SignalNames |->
     CASE n \in {"D0", "D1", "D2", "D3"} -> RoleOf("dq", CHOOSE i \in 0 .. 3 : n = << "D0", "D1", "D2", "D3" >>[i + 1], TRUE)
       [] n = "DM0" -> RoleOf("dm", 0, TRUE)
       [] n = "UDM" -> RoleOf("dm", 0, FALSE)
       [] n \in {"DQS0_N", "DQS0_P"} -> RoleOf("dqs", 0, TRUE)
       [] n \in {"DQS1_N", "DQS1_P"} -> RoleOf("dqs", 1, TRUE)
       [] n = "DQS" -> RoleOf("dqs", 0, FALSE)
       [] n = "A0" -> RoleOf("address", 0, TRUE)
       [] n \in {"CK_N", "CK_P"} -> RoleOf("ck", 0, FALSE)
       [] OTHER -> RoleOf("other", 0, FALSE)]
MCDelay == [l \in {"F", "G"} |-> IF l = "F" THEN 4 ELSE 5]

\* Lists of nets, in whose order pairs are looked for.
NetLists == UNION {[1 .. k -> {"USB_DP", "USB_DM", "USB_DN", "UDM", "UDP", "VCCP", "DQS0_P", "DQS0_N"}] : k \in 1 .. 4}
PairLists == {l \in NetLists : \A i, j \in DOMAIN l : i # j => l[i] # l[j]}

\* The controller is part 1.  One memory device has both lanes; of two, 2 and 3,
\* the lines are swapped.
PathOf(f, g, v) == [runs |-> [l \in {"F", "G"} |-> IF l = "F" THEN f ELSE g], vias |-> v]
Routes == {<< PathOf(4, 0, 0) >>, << PathOf(2, 3, 1), PathOf(4, 0, 0) >>, << PathOf(7, 0, 0) >>, << >>}
OneDevice == [n \in SignalNames |-> {1, 2}]
TwoDevices == [n \in SignalNames |-> CASE n \in {"D0", "D3", "DQS1_P", "DQS1_N"} -> {1, 2} [] n \in {"D1", "D2", "DM0", "DQS0_P", "DQS0_N", "DQS"} -> {1, 3} [] OTHER -> {1, 2, 3}]
ByIndex == [n \in SignalNames |-> IF n \in {"D0", "D1", "DM0", "DQS0_P", "DQS0_N", "DQS"} THEN 1 ELSE 2]
ByDevice == [n \in SignalNames |-> IF n \in {"D1", "D2", "DM0", "DQS0_P", "DQS0_N", "DQS"} THEN 2 ELSE 1]
InClasses == [classes |-> ("Lane0" :> [gap |-> 0, width |-> 0]), assigned |-> [n \in {"D0", "D1"} |-> "Lane0"],
              patterns |-> << [match |-> {"DQS0_P", "DQS0_N", "DM0"}, class |-> "Lane0"] >>, available |-> TRUE]
Wired(nets, refs, classes, changed) ==
  [nets |-> nets, refs |-> refs, classes |-> classes, wires |-> changed @@ [n \in SignalNames |-> << PathOf(4, 0, 0) >>]]
LaneNets == << "DQS1_N", "D3", "D0", "DQS0_N", "CK_N", "D2", "A0", "DQS0_P", "D1", "DM0", "DQS1_P", "CK_P" >>
Without(nets) == SelectSeq(LaneNets, LAMBDA n : n \notin nets)
MemoryNets == {LaneNets, Without({"DM0"}), Without({"DQS1_N", "DQS1_P"}), Without({"DQS0_N", "DQS0_P", "DM0"}),
               Append(Without({"DQS0_N", "DQS0_P", "DQS1_N", "DQS1_P"}), "DQS"), Without({"D1", "DM0"})}
Memories ==
  {[w |-> Wired(nets, k[1], k[2], [D1 |-> a, D2 |-> b, A0 |-> b] @@ [DQS0_P |-> p, DQS1_P |-> q, DQS |-> q]), lane |-> k[3]] :
     nets \in MemoryNets, a \in Routes, b \in Routes, p \in Routes, q \in Routes,
     k \in {<< OneDevice, NoClasses, ByIndex >>, << TwoDevices, NoClasses, ByDevice >>, << OneDevice, InClasses, ByIndex >>}}
MemoriesToCheck == {m \in Memories : m.w.classes = NoClasses \/ {"D1", "DQS0_P"} \subseteq Range(m.w.nets)}

\* Traces on two layers, of which one may be between two planes.
OhmsOf == [layer \in {"F", "G"}, width \in 1 .. 4 |-> (IF layer = "F" THEN 78 ELSE 66) - 9 * width]
Electrics == {[l \in {"F", "G"} |-> IF l = "F" THEN [ref |-> "G", kind |-> "microstrip", height |-> h, above |-> 0, assumed |-> a]
                                    ELSE [ref |-> r, kind |-> "stripline", height |-> h, above |-> 2, assumed |-> FALSE]] :
                h \in {1, 3}, a \in BOOLEAN, r \in {"", "P"}}
TracesToMeasure ==
  {[traces |-> t, geometry |-> g, target |-> o, e |-> e] :
     t \in SUBSET {[layer |-> l, width |-> w] : l \in {"F", "G"}, w \in {1, 4}}, g \in {[gap |-> 0, width |-> 0], [gap |-> 1, width |-> 2], [gap |-> 1, width |-> 0]},
     o \in {0, 40, 50, 75}, e \in Electrics}

\* Trees of five places, and the distance between two of them.
Ancestors(parent) ==
  LET up[i \in 1 .. 5] == IF i = 1 THEN {} ELSE {i} \cup up[parent[i]] IN up
DistanceIn(parent, length) ==
  LET up == Ancestors(parent)
  IN  [p \in (1 .. 5) \X (1 .. 5) |->
         SumOver((up[p[1]] \ up[p[2]]) \cup (up[p[2]] \ up[p[1]]), length)]
Parents == {p \in [2 .. 5 -> 1 .. 4] : \A i \in 2 .. 5 : p[i] < i}
Trees ==
  {[d |-> DistanceIn(p, l), pads |-> q, points |-> t] :
     p \in Parents, l \in [2 .. 5 -> {1, 3}], q \in {1 .. 5, {1, 3, 4, 5}, {2, 4, 5}}, t \in {{5}, {4}, {4, 5}}}

=============================================================================
