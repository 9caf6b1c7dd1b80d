------------------------------- MODULE Conducted -------------------------------
(***************************************************************************)
(* The conducted scan's discovery (worker/emi_worker/conducted/rail.py and *)
(* regulators.py, with the switch nodes of rules/emc.py): which supply     *)
(* enters the board, what rail lies behind it, and which switching         *)
(* regulators that rail feeds, of what kind and through which net.         *)
(*                                                                         *)
(* A board is a set of parts [ref, type, pads, pn, small, edge]: pads are  *)
(* the nets it touches, pn the topologies its part number is known for,    *)
(* small an IC with few pads, edge a connector at the board edge.  Where   *)
(* the code takes the nearest of several pads the model keeps all nets.    *)
(***************************************************************************)
EXTENDS Integers, FiniteSets, FiniteSetsExt

CONSTANTS
  Volts,       \* function: the voltage a net's name gives, 0 for none
  SignalNets,  \* classify_net: signal; the others but GND are power
  SwitchNames, \* SW_NET: nets named like a switch node
  MAX_DEPTH    \* series parts the rail is followed through

ASSUME ConductedAssumption ==
  /\ MAX_DEPTH \in Nat /\ "GND" \in DOMAIN Volts /\ \A n \in DOMAIN Volts : Volts[n] \in Nat
  /\ SwitchNames \subseteq SignalNets /\ SignalNets \subseteq DOMAIN Volts \ {"GND"}

Is(p, types) == p.type \in types
On(b, n) == {p \in b : n \in p.pads}
Other(p, n) == CHOOSE m \in p.pads : m # n     \* of a two-pad part
Inductor(p) == Is(p, {"inductor", "u-inductor"})
IC(p) == Is(p, {"ic"})
LooksLikeIC(p) == Is(p, {"ic", "u-inductor"})  \* IC_RE reads the reference only

\* _power_entry: a supply's name, of at least three volts if it gives any.
PowerEntry(n) == n \notin SignalNets /\ n # "GND" /\ Volts[n] \notin {1, 2}

ground_caps(b) == UNION {p.pads \ {"GND"} : p \in {p \in b : Is(p, {"capacitor"}) /\ "GND" \in p.pads}}

\* entries: every supply that crosses a connector and goes on from it.
entries(b) ==
  {[connector |-> p.ref, net |-> n, at_edge |-> p.edge] :
     << p, n >> \in {q \in b \X DOMAIN Volts :
                       /\ Is(q[1], {"connector"}) /\ q[2] \in q[1].pads
                       /\ PowerEntry(q[2]) /\ On(b, q[2]) # {q[1]}}}

-----------------------------------------------------------------------------
\* emc.switch_nodes: by name, or the bare IC side of an inductor whose other
\* side is a supply or filtered.
NamedNode(b, n) == n \in SwitchNames /\ \E p \in On(b, n) : LooksLikeIC(p)

switch_nodes(b) ==
  {n \in SwitchNames : NamedNode(b, n)}
  \cup {n \in SignalNets :
          \E l \in On(b, n) :
            /\ Is(l, {"inductor"}) /\ n \notin ground_caps(b)
            /\ \E p \in On(b, n) : LooksLikeIC(p)
            /\ LET far == Other(l, n)
               IN  (far # "GND" /\ far \notin SignalNets) \/ far \in ground_caps(b)}

\* With the inverting stages, whose inductor runs to ground.
SwitchSides(b) ==
  switch_nodes(b)
  \cup {n \in SignalNets : /\ n \notin ground_caps(b)
                           /\ \E l \in On(b, n) : Inductor(l) /\ "GND" \in l.pads
                           /\ \E p \in On(b, n) : IC(p)}

\* The lowest reference of some parts.
First(parts) == {u \in parts : \A v \in parts : u.ref <= v.ref}

\* The regulator at a switch node, or at the two that one inductor joins: the
\* part that owns it (an IC on it, the IC that drives its external switches,
\* or a switch), the far side of its inductor, the switches' other nets and
\* the part's own.
Candidate(b, nodes) ==
  LET n == CHOOSE n \in nodes : TRUE
      far == Other(CHOOSE l \in On(b, n) : Inductor(l), n)
      here == UNION {On(b, m) : m \in nodes}
      fets == {p \in here : Is(p, {"fet"})}
      drains == {m \in UNION {p.pads : p \in fets} : m \notin nodes /\ m # "GND"}
      drivers == {p \in UNION {On(b, m) : m \in drains} : IC(p)}
      owner == CASE \E p \in here : IC(p) -> First({p \in here : IC(p)})
                 [] drivers # {} -> First(drivers)
                 [] OTHER -> First({p \in fets : drains # {}})
  IN  {[ref |-> u.ref, kind |-> IF fets # {} THEN "controller" ELSE "switch node",
        sw |-> nodes, far |-> far, fets |-> drains, ic |-> u.pads \ (nodes \cup {"GND"}),
        pn |-> u.pn, named |-> NamedNode(b, n),
        hint |-> CASE far = "GND" -> "inverting" [] Cardinality(nodes) = 2 -> "buck-boost"
                   [] OTHER -> ""] : u \in owner}

\* A part that is only named or numbered like a regulator.
Unmatched(u, nodes) ==
  [ref |-> u.ref, kind |-> "unmatched", sw |-> nodes, far |-> "", fets |-> {},
   ic |-> u.pads \ (nodes \cup {"GND"}), pn |-> u.pn, named |-> FALSE, hint |-> ""]

find(b) ==
  LET wound == {n \in SwitchSides(b) : \E l \in On(b, n) : Inductor(l)}
      ends(n) == {n} \cup {m \in SwitchSides(b) : \E l \in b : Inductor(l) /\ l.pads = {n, m}}
      seen == UNION {Candidate(b, nodes) : nodes \in {ends(n) : n \in wound}}
              \cup UNION {{Unmatched(u, {n}) : u \in {u \in On(b, n) : IC(u)}} : n \in SwitchSides(b) \ wound}
      rest == {u \in b : IC(u) /\ u.pn # {} /\ \A c \in seen : c.ref # u.ref}
  IN  seen \cup {IF "module" \in u.pn THEN [Unmatched(u, {}) EXCEPT !.kind = "module"]
                 ELSE Unmatched(u, {}) : u \in rest}

-----------------------------------------------------------------------------
\* rail.py: the parts a supply passes through.

\* A buck's own output, which it senses, is not what it draws from.
\* Mutant: it is.
wanted_netsOwn(b, cands) ==
  UNION {(c.fets \cup c.ic) \cap ground_caps(b) : c \in {c \in cands : c.kind \notin {"unmatched", "module"}}}

wanted_nets(b, cands) ==
  LET drawing == {c \in cands : c.kind \notin {"unmatched", "module"}}
  IN  UNION {((c.fets \cup c.ic) \ {c.far}) \cap ground_caps(b) : c \in drawing}
      \cup {c.far : c \in {c \in drawing : c.far # "GND" /\ "boost" \in c.pn}}

SameSupply(m, n) == Volts[m] # 0 /\ Volts[m] = Volts[n]
Higher(m, n) == Volts[m] # 0 /\ Volts[n] # 0 /\ Volts[m] > Volts[n]

\* Where the supply on n goes on to through p: a two-pad part, an IC between
\* two supplies of one voltage, or a small IC toward a net a regulator wants.
_series_parts(b, n, switch, wanted, regulators) ==
  LET through(p) ==
        IF IC(p) /\ p.pads \cap switch = {}
          THEN LET same == {m \in p.pads \ {n} : PowerEntry(m) /\ SameSupply(m, n)}
               IN  IF same # {} THEN same
                   ELSE {m \in (p.pads \cap wanted) \ {n} :
                           p.ref \notin regulators /\ p.small /\ ~Higher(m, n)}
        ELSE IF Is(p, {"inductor", "bead", "resistor", "fuse", "diode"})
          THEN p.pads \ ({n, "GND"} \cup switch)
        ELSE {}
  IN  UNION {through(p) : p \in On(b, n)}

\* Breadth first from the entry, MAX_DEPTH parts deep.
Rail(b, entry, cands) ==
  LET switch == UNION {c.sw : c \in cands}
      wanted == wanted_nets(b, cands)
      regulators == {c.ref : c \in {c \in cands : c.kind # "unmatched"}}
      next(nets) == nets \cup UNION {_series_parts(b, n, switch, wanted, regulators) : n \in nets}
  IN  FoldSet(LAMBDA i, nets : next(nets), {entry}, 1 .. MAX_DEPTH)

\* makes: a buck whose output this is draws from another, higher power input.
makes(c, inputs) ==
  /\ c.hint = "" /\ "boost" \notin c.pn /\ c.far # ""
  /\ \E n \in c.ic : n \in inputs /\ n # c.far /\ Volts[n] > Volts[c.far]

\* What is measured unless the user chooses: the highest voltage that is not a
\* regulator's output, at the edge before inside.
default(b) ==
  LET above(e, f) == Volts[e.net] > Volts[f.net]
                     \/ (Volts[e.net] = Volts[f.net] /\ e.at_edge /\ ~f.at_edge)
      highest(usable) == {e.net : e \in {e \in usable : ~\E f \in usable : above(f, e)}}
      of(from, bought) == highest(IF bought = {} THEN from ELSE bought)
      made(nets) == {c.far : c \in {c \in find(b) : c.far \in nets /\ makes(c, nets)}}
      all(from, outputs) == of(from, {e \in from : e.net \notin outputs})
  IN  all(entries(b), made({e.net : e \in entries(b)}))

-----------------------------------------------------------------------------
\* attach: each candidate's topology, the nets it may draw from and how sure
\* that is; a candidate that is not found is skipped, or "ignored" when it is
\* unmatched and off the rail.
Confidence(c, topology, from) ==
  LET cues == CASE c.pn = {} \/ from # "layout" -> IF c.named THEN 2 ELSE 1
                [] topology \in c.pn -> IF c.named THEN 3 ELSE 2
                [] topology = "buck-boost" -> IF c.named THEN 2 ELSE 1
                [] OTHER -> 0
  IN  CASE cues = 0 -> "low" [] topology = "buck-boost" \/ cues = 1 -> "medium" [] OTHER -> "high"

Attached(c, topology, from, pool) ==
  IF pool = {} THEN [ref |-> c.ref, as |-> "skipped", inputs |-> {}, confidence |-> ""]
  ELSE [ref |-> c.ref, as |-> topology, inputs |-> pool, confidence |-> Confidence(c, topology, from)]

attach(c, rail, others) ==
  LET own == (c.ic \cap rail) \ {c.far}
      pool == IF c.fets \cap rail # {} THEN c.fets \cap rail ELSE own
  IN  CASE c.kind = "unmatched" ->
             [ref |-> c.ref, as |-> IF own = {} THEN "ignored" ELSE "skipped", inputs |-> {}, confidence |-> ""]
        [] c.hint # "" -> Attached(c, c.hint, "layout", pool)
        [] c.far \in rail /\ makes(c, others) -> Attached(c, "", "", {})
        [] c.far \in rail -> Attached(c, "boost", "layout", {c.far})
        [] c.kind = "module" -> Attached(c, "buck", "part number", pool)
        [] OTHER -> Attached(c, "buck", "layout", pool)

\* discover: the regulators behind an entry, without the ladders between them.
discover(b, entry) ==
  LET others == {e.net : e \in entries(b)} \ {entry}
      on(rail, cands) == {attach(c, rail, others) : c \in cands}
      of(cands) == on(Rail(b, entry, cands), cands)
  IN  of(find(b))

-----------------------------------------------------------------------------
\* What is really there: x = [board, input, rail, regulators], the net that
\* power enters by, the nets behind it and, of each regulator, its topology
\* and the net it draws from.  Unless a higher supply leaves by a connector
\* the scan measures at the input; there it finds every regulator on the rail
\* as what it is, drawing from where it does, and no other.
DiscoveryIsRight(x) ==
  LET found == {r \in discover(x.board, x.input) : r.as \notin {"skipped", "ignored"}}
  IN  /\ (\A e \in entries(x.board) : Volts[e.net] <= Volts[x.input]) => default(x.board) = {x.input}
      /\ {[ref |-> r.ref, topology |-> r.as, inputs |-> r.inputs] : r \in found}
         = {r \in x.regulators : r.inputs \subseteq x.rail}

=============================================================================
