--------------------------- MODULE ComplianceProofs ---------------------------
(***************************************************************************)
(* A margin that is published is of the whole product, for every standard, *)
(* scan, board, solve, periodic driver and declaration.  Two parts carry   *)
(* the argument.  Sums: a sum over a finite set does not depend on the     *)
(* order its terms are taken in, and is no smaller than another sum each   *)
(* of whose terms has one of its own in it that is no smaller.  Gates: a   *)
(* gate that has nothing to say has seen every radiator's transfer         *)
(* function reach over the whole scan, so that every radiator has a path,  *)
(* and every line of the driver a point on it.                             *)
(***************************************************************************)
EXTENDS Compliance, FiniteSetTheorems, WellFoundedInduction, TLAPS

-------------------------------------------------------------------------------
(* Sums over finite sets.                                                    *)

Sums(g, v, S) ==
  g = [T \in SUBSET S |-> IF T = {} THEN 0 ELSE v[CHOOSE x \in T : TRUE] + g[T \ {CHOOSE x \in T : TRUE}]]

\* Of the finite sets that something is said of, one is the smallest.
LEMMA SmallestSet ==
  ASSUME NEW S, NEW Bad, Bad \subseteq FiniteSubsetsOf(S), Bad # {}
  PROVE  \E T \in Bad : T \subseteq S /\ IsFiniteSet(T) /\ \A x \in T : T \ {x} \notin Bad
<1>1. PICK T \in Bad : \A U \in Bad : ~ (<<U, T>> \in StrictSubsetOrdering(S))
  BY FS_StrictSubsetOrderingWellFounded, WFMin
<1>2. T \subseteq S /\ IsFiniteSet(T)
  BY <1>1 DEF FiniteSubsetsOf
<1>3. \A x \in T : <<T \ {x}, T>> \in StrictSubsetOrdering(S)
  BY <1>2, FS_RemoveElement DEF StrictSubsetOrdering
<1> QED BY <1>1, <1>2, <1>3

\* A sum over a smaller set is the same whichever function it is read off.
LEMMA SumsAgree ==
  ASSUME NEW v, NEW S, NEW U, NEW g, NEW h, Sums(g, v, S), Sums(h, v, U), IsFiniteSet(S)
  PROVE  \A T \in SUBSET (S \cap U) : g[T] = h[T]
<1> DEFINE Bad == {T \in SUBSET (S \cap U) : g[T] # h[T]}
<1>1. SUFFICES ASSUME Bad # {} PROVE FALSE
  OBVIOUS
<1>2. Bad \subseteq FiniteSubsetsOf(S)
  BY FS_Subset DEF FiniteSubsetsOf
<1>3. PICK T \in Bad : \A x \in T : T \ {x} \notin Bad
  <2> HIDE DEF Bad
  <2> QED BY <1>1, <1>2, SmallestSet, Zenon
<1> DEFINE x == CHOOSE x \in T : TRUE
<1>4. CASE T = {}
  BY <1>3, <1>4 DEF Sums
<1>5. CASE T # {}
  <2>1. x \in T
    BY <1>5
  <2>2. T \in SUBSET S /\ T \in SUBSET U /\ T \ {x} \in SUBSET (S \cap U)
    BY <1>3
  <2>3. g[T \ {x}] = h[T \ {x}]
    BY <1>3, <2>1, <2>2
  <2>4. g[T] = v[x] + g[T \ {x}]
    BY <1>5, <2>2 DEF Sums
  <2>5. h[T] = v[x] + h[T \ {x}]
    BY <1>5, <2>2 DEF Sums
  <2> QED BY <1>3, <2>3, <2>4, <2>5
<1> QED BY <1>4, <1>5

\* There is such a function: of what the recursion says.
LEMMA SumsExist ==
  ASSUME NEW v, NEW S, IsFiniteSet(S)
  PROVE  \E g : Sums(g, v, S)
<1> DEFINE Bad == {T \in FiniteSubsetsOf(S) : ~\E g : Sums(g, v, T)}
<1>1. SUFFICES ASSUME Bad # {} PROVE FALSE
  BY DEF FiniteSubsetsOf
<1>2. PICK T \in Bad : T \subseteq S /\ IsFiniteSet(T) /\ \A x \in T : T \ {x} \notin Bad
  BY <1>1, SmallestSet
<1>3. T # {}
  <2> DEFINE g == [U \in SUBSET {} |-> 0]
  <2>1. Sums(g, v, {})
    BY DEF Sums
  <2> QED BY <1>2, <2>1
<1> DEFINE x == CHOOSE x \in T : TRUE
<1>4. x \in T
  BY <1>3
<1>5. \A y \in T : \E g : Sums(g, v, T \ {y})
  BY <1>2, FS_RemoveElement DEF FiniteSubsetsOf
<1> DEFINE k(y) == CHOOSE g : Sums(g, v, T \ {y})
<1>6. \A y \in T : Sums(k(y), v, T \ {y}) /\ IsFiniteSet(T \ {y})
  BY <1>2, <1>5, FS_RemoveElement
<1> DEFINE part(U) == k(CHOOSE y \in T : y \notin U)[U]
           g == [U \in SUBSET T |-> IF U = T THEN v[x] + part(T \ {x}) ELSE part(U)]
<1> HIDE DEF k
<1>7. \A U \in SUBSET T, y \in T : y \notin U => part(U) = k(y)[U]
  <2> SUFFICES ASSUME NEW U \in SUBSET T, NEW y \in T, y \notin U PROVE part(U) = k(y)[U]
    OBVIOUS
  <2> DEFINE z == CHOOSE z \in T : z \notin U
  <2>1. z \in T /\ z \notin U
    OBVIOUS
  <2>2. Sums(k(y), v, T \ {y}) /\ Sums(k(z), v, T \ {z}) /\ IsFiniteSet(T \ {z})
    BY <1>6, <2>1
  <2>3. U \in SUBSET ((T \ {z}) \cap (T \ {y}))
    BY <2>1
  <2> HIDE DEF z
  <2>4. k(z)[U] = k(y)[U]
    BY <2>2, <2>3, SumsAgree
  <2> QED BY <2>4 DEF z
<1>8. \A U \in SUBSET T : g[U] = IF U = {} THEN 0 ELSE v[CHOOSE y \in U : TRUE] + g[U \ {CHOOSE y \in U : TRUE}]
  <2> SUFFICES ASSUME NEW U \in SUBSET T
               PROVE  g[U] = IF U = {} THEN 0 ELSE v[CHOOSE y \in U : TRUE] + g[U \ {CHOOSE y \in U : TRUE}]
    OBVIOUS
  <2> DEFINE y == CHOOSE y \in U : TRUE
  <2> HIDE DEF part
  <2>1. CASE U = T
    <3>1. U # {} /\ y = x /\ U \ {y} # T
      BY <1>3, <1>4, <2>1
    <3> QED BY <2>1, <3>1
  <2>2. CASE U # T
    <3>1. PICK z \in T : z \notin U
      BY <2>2
    <3>2. part(U) = k(z)[U] /\ part(U \ {y}) = k(z)[U \ {y}]
      BY <1>7, <3>1
    <3>3. U \in SUBSET (T \ {z})
      BY <3>1
    <3>4. k(z)[U] = IF U = {} THEN 0 ELSE v[y] + k(z)[U \ {y}]
      BY <1>6, <3>1, <3>3 DEF Sums
    <3>5. U \ {y} # T /\ U \ {y} \in SUBSET T
      BY <2>2
    <3> QED BY <2>2, <3>2, <3>4, <3>5
  <2> QED BY <2>1, <2>2
<1>9. Sums(g, v, T)
  <2>1. g = [U \in SUBSET T |-> g[U]]
    OBVIOUS
  <2> HIDE DEF g
  <2> QED BY <1>8, <2>1 DEF Sums
<1> QED BY <1>2, <1>9

\* A sum of numbers is a number, and any term can be taken out of it.
LEMMA SumsAreNumbers ==
  ASSUME NEW v, NEW S, IsFiniteSet(S), NEW g, Sums(g, v, S), \A x \in S : v[x] \in Nat
  PROVE  \A T \in SUBSET S : g[T] \in Nat
<1> DEFINE Bad == {T \in SUBSET S : g[T] \notin Nat}
<1>1. SUFFICES ASSUME Bad # {} PROVE FALSE
  OBVIOUS
<1>2. Bad \subseteq FiniteSubsetsOf(S)
  BY FS_Subset DEF FiniteSubsetsOf
<1>3. PICK T \in Bad : \A x \in T : T \ {x} \notin Bad
  <2> HIDE DEF Bad
  <2> QED BY <1>1, <1>2, SmallestSet
<1> DEFINE x == CHOOSE x \in T : TRUE
<1>4. CASE T = {}
  BY <1>3, <1>4 DEF Sums
<1>5. CASE T # {}
  <2>1. x \in T
    BY <1>5
  <2>2. T \in SUBSET S /\ T \ {x} \in SUBSET S
    BY <1>3
  <2>3. g[T \ {x}] \in Nat /\ v[x] \in Nat
    BY <1>3, <2>1, <2>2
  <2>4. g[T] = v[x] + g[T \ {x}]
    BY <1>5, <2>2 DEF Sums
  <2> QED BY <1>3, <2>3, <2>4
<1> QED BY <1>4, <1>5

LEMMA SumsLose ==
  ASSUME NEW v, NEW S, IsFiniteSet(S), NEW g, Sums(g, v, S), \A x \in S : v[x] \in Nat
  PROVE  \A T \in SUBSET S : \A y \in T : g[T] = v[y] + g[T \ {y}]
<1> DEFINE Bad == {T \in SUBSET S : ~\A y \in T : g[T] = v[y] + g[T \ {y}]}
<1>1. SUFFICES ASSUME Bad # {} PROVE FALSE
  OBVIOUS
<1>2. Bad \subseteq FiniteSubsetsOf(S)
  BY FS_Subset DEF FiniteSubsetsOf
<1>3. PICK T \in Bad : \A x \in T : T \ {x} \notin Bad
  <2> HIDE DEF Bad
  <2> QED BY <1>1, <1>2, SmallestSet
<1>4. PICK y \in T : g[T] # v[y] + g[T \ {y}]
  BY <1>3
<1> DEFINE x == CHOOSE x \in T : TRUE
<1>5. x \in T /\ T \in SUBSET S
  BY <1>3, <1>4
<1>6. g[T] = v[x] + g[T \ {x}]
  BY <1>5 DEF Sums
<1>7. x # y
  BY <1>4, <1>6
<1> HIDE DEF x
<1>8. g[T \ {x}] = v[y] + g[(T \ {x}) \ {y}] /\ g[T \ {y}] = v[x] + g[(T \ {y}) \ {x}]
  BY <1>3, <1>4, <1>5, <1>7
<1>9. (T \ {x}) \ {y} = (T \ {y}) \ {x}
  OBVIOUS
<1>10. v[x] \in Nat /\ v[y] \in Nat /\ g[(T \ {x}) \ {y}] \in Nat
  BY <1>4, <1>5, SumsAreNumbers
<1> DEFINE n == g[(T \ {x}) \ {y}]
<1>11. g[T \ {x}] = v[y] + n /\ g[T \ {y}] = v[x] + n
  BY <1>8, <1>9
<1> HIDE DEF n
<1> QED BY <1>4, <1>6, <1>10, <1>11 DEF n

\* If every term has one of its own in another sum that is no smaller, the
\* other sum is no smaller.
Dominates(v, B, u, A, to) ==
  /\ \A x \in A : u[x] \in Nat
  /\ \A x \in B : v[x] \in Nat
  /\ \A x \in A : to[x] \in B /\ u[x] <= v[to[x]]
  /\ \A x, y \in A : to[x] = to[y] => x = y

LEMMA SumsCompare ==
  ASSUME NEW u, NEW v, NEW A, NEW B, IsFiniteSet(A), IsFiniteSet(B), NEW g, NEW h,
         Sums(g, u, A), Sums(h, v, B), NEW to, Dominates(v, B, u, A, to)
  PROVE  g[A] <= h[B]
<1> USE DEF Dominates
<1> DEFINE Below(T) == \A V \in SUBSET B : (\A x \in T : to[x] \in V) => g[T] <= h[V]
           Bad == {T \in SUBSET A : ~Below(T)}
<1>1. SUFFICES ASSUME Bad # {} PROVE FALSE
  OBVIOUS
<1>2. Bad \subseteq FiniteSubsetsOf(A)
  BY FS_Subset DEF FiniteSubsetsOf
<1>3. PICK T \in Bad : \A x \in T : T \ {x} \notin Bad
  <2> HIDE DEF Bad
  <2> QED BY <1>1, <1>2, SmallestSet, Zenon
<1>4. PICK V \in SUBSET B : (\A x \in T : to[x] \in V) /\ ~(g[T] <= h[V])
  BY <1>3
<1>5. T \in SUBSET A /\ h[V] \in Nat
  BY <1>3, SumsAreNumbers
<1>6. CASE T = {}
  BY <1>4, <1>5, <1>6 DEF Sums
<1>7. CASE T # {}
  <2>1. PICK x \in T : TRUE
    BY <1>7
  <2>2. g[T] = u[x] + g[T \ {x}] /\ h[V] = v[to[x]] + h[V \ {to[x]}]
    BY <1>4, <1>5, <2>1, SumsLose
  <2>3. \A y \in T \ {x} : to[y] \in V \ {to[x]}
    BY <1>4, <1>5, <2>1
  <2>4. g[T \ {x}] <= h[V \ {to[x]}]
    BY <1>3, <2>1, <2>3
  <2>5. g[T \ {x}] \in Nat /\ h[V \ {to[x]}] \in Nat /\ u[x] \in Nat /\ v[to[x]] \in Nat /\ u[x] <= v[to[x]]
    BY <1>5, <2>1, SumsAreNumbers
  <2> QED BY <1>4, <2>2, <2>4, <2>5
<1> QED BY <1>6, <1>7

LEMMA CombinedIsSum ==
  ASSUME NEW paths, IsFiniteSet(paths), NEW f
  PROVE  \E g : Sums(g, [p \in paths |-> IF path_at(p, f) = Silent THEN 0 ELSE path_at(p, f)], paths) /\ combine(paths, f) = g[paths]
<1> DEFINE v == [p \in paths |-> IF path_at(p, f) = Silent THEN 0 ELSE path_at(p, f)]
           Folds(g) == g = [T \in SUBSET paths |-> IF T = {} THEN 0 ELSE
                               LET x == CHOOSE x \in T : TRUE
                               IN (IF path_at(x, f) = Silent THEN 0 ELSE path_at(x, f)) + g[T \ {x}]]
           h == CHOOSE g : Folds(g)
<1>1. combine(paths, f) = h[paths]
  BY DEF combine, MapThenSumSet, MapThenFoldSet
<1>2. \A T \in SUBSET paths : T # {} => v[CHOOSE x \in T : TRUE] = LET x == CHOOSE x \in T : TRUE IN IF path_at(x, f) = Silent THEN 0 ELSE path_at(x, f)
  OBVIOUS
<1> HIDE DEF v
<1>3. \A g : Folds(g) <=> Sums(g, v, paths)
  BY <1>2 DEF Sums
<1>4. PICK g : Folds(g)
  <2> HIDE DEF Folds
  <2> QED BY <1>3, SumsExist, Zenon
<1>5. Folds(h)
  BY <1>4
<1> HIDE DEF h, Folds
<1> QED BY <1>1, <1>3, <1>5 DEF v

-------------------------------------------------------------------------------
(* Extremes of finite sets, and the standard.                                *)

\* A finite set of terms has a least one.
LEMMA LeastOf ==
  ASSUME NEW S, IsFiniteSet(S), S # {}, NEW v, \A x \in S : v[x] \in Int
  PROVE  \E x \in S : \A y \in S : v[x] <= v[y]
<1> DEFINE HasLeast(T) == \E x \in T : \A y \in T : v[x] <= v[y]
           Bad == {T \in FiniteSubsetsOf(S) : T # {} /\ ~HasLeast(T)}
<1>1. SUFFICES ASSUME Bad # {} PROVE FALSE
  BY DEF FiniteSubsetsOf
<1>2. PICK T \in Bad : T \subseteq S /\ IsFiniteSet(T) /\ \A x \in T : T \ {x} \notin Bad
  <2>1. Bad \subseteq FiniteSubsetsOf(S)
    OBVIOUS
  <2> HIDE DEF Bad
  <2> QED BY <1>1, <2>1, SmallestSet, Zenon
<1>3. T # {} /\ ~HasLeast(T)
  BY <1>2
<1>4. PICK x \in T : TRUE
  BY <1>3
<1>5. T \ {x} = {} \/ HasLeast(T \ {x})
  BY <1>2, <1>4, FS_RemoveElement DEF FiniteSubsetsOf
<1>6. CASE T \ {x} = {}
  <2>1. \A y \in T : y = x
    BY <1>6
  <2> QED BY <1>2, <1>3, <1>4, <2>1
<1>7. CASE HasLeast(T \ {x})
  <2>1. PICK z \in T \ {x} : \A y \in T \ {x} : v[z] <= v[y]
    BY <1>7
  <2>2. \A y \in T : v[y] \in Int
    BY <1>2
  <2> QED BY <1>3, <1>4, <2>1, <2>2
<1> QED BY <1>5, <1>6, <1>7

LEMMA Extremes ==
  ASSUME NEW S, IsFiniteSet(S), S # {}, NEW v, \A x \in S : v[x] \in Int
  PROVE  /\ \E x \in S : Min({v[y] : y \in S}) = v[x] /\ \A y \in S : v[x] <= v[y]
         /\ \E x \in S : Max({v[y] : y \in S}) = v[x] /\ \A y \in S : v[y] <= v[x]
<1> DEFINE T == {v[y] : y \in S}
<1>1. PICK x \in S : \A y \in S : v[x] <= v[y]
  BY LeastOf
<1>2. PICK z \in S : \A y \in S : v[y] <= v[z]
  <2> DEFINE w == [s \in S |-> -v[s]]
  <2>1. \A y \in S : w[y] \in Int
    OBVIOUS
  <2>2. \E s \in S : \A y \in S : w[s] <= w[y]
    <3> HIDE DEF w
    <3> QED BY <2>1, LeastOf
  <2> QED BY <2>2
<1>3. Min(T) = v[x]
  <2>1. v[x] \in T /\ \A y \in T : v[x] <= y
    BY <1>1
  <2>2. T \subseteq Int
    OBVIOUS
  <2> HIDE DEF T
  <2>3. Min(T) \in T /\ \A y \in T : Min(T) <= y
    BY <2>1 DEF Min
  <2> DEFINE n == Min(T)
  <2>4. n \in T /\ v[x] \in T /\ n \in Int /\ v[x] \in Int
    BY <2>1, <2>2, <2>3
  <2>5. n <= v[x] /\ v[x] <= n
    BY <2>1, <2>3, <2>4
  <2> HIDE DEF n
  <2>6. n = v[x]
    BY <2>4, <2>5
  <2> QED BY <2>6 DEF n
<1>4. Max(T) = v[z]
  <2>1. v[z] \in T /\ \A y \in T : v[z] >= y
    BY <1>2
  <2>2. T \subseteq Int
    OBVIOUS
  <2> HIDE DEF T
  <2>3. Max(T) \in T /\ \A y \in T : Max(T) >= y
    BY <2>1 DEF Max
  <2> DEFINE n == Max(T)
  <2>4. n \in T /\ v[z] \in T /\ n \in Int /\ v[z] \in Int
    BY <2>1, <2>2, <2>3
  <2>5. n <= v[z] /\ v[z] <= n
    BY <2>1, <2>3, <2>4
  <2> HIDE DEF n
  <2>6. n = v[z]
    BY <2>4, <2>5
  <2> QED BY <2>6 DEF n
<1> QED BY <1>1, <1>2, <1>3, <1>4

\* The edges of a finite set of frequencies.
LEMMA SpanHolds ==
  ASSUME NEW S, IsFiniteSet(S), S # {}, S \subseteq Int
  PROVE  Min(S) \in S /\ Max(S) \in S /\ \A x \in S : Min(S) <= x /\ x <= Max(S)
<1> DEFINE v == [x \in S |-> x]
<1>1. S = {v[x] : x \in S} /\ \A x \in S : v[x] = x
  OBVIOUS
<1>2. \A x \in S : v[x] \in Int
  OBVIOUS
<1> HIDE DEF v
<1>3. /\ \E x \in S : Min(S) = v[x] /\ \A y \in S : v[x] <= v[y]
      /\ \E x \in S : Max(S) = v[x] /\ \A y \in S : v[y] <= v[x]
  BY <1>1, <1>2, Extremes
<1> QED BY <1>1, <1>3

LEMMA TwoNumbers ==
  ASSUME NEW a \in Int, NEW b \in Int
  PROVE  /\ Max({a, b}) \in Int /\ a <= Max({a, b}) /\ b <= Max({a, b}) /\ (Max({a, b}) = a \/ Max({a, b}) = b)
         /\ Min({a, b}) \in Int /\ Min({a, b}) <= a /\ Min({a, b}) <= b /\ (Min({a, b}) = a \/ Min({a, b}) = b)
  BY DEF Max, Min

\* The standard has an edge on either side and a limit everywhere between.
LEMMA RangeHolds ==
  /\ range_hz.lo \in Nat /\ range_hz.hi \in Nat
  /\ \A f \in Int : in_range(f) => limit_at(f) \in Int
<1>1. \E s \in Segments : range_hz.lo = s.lo
  <2> DEFINE v == [s \in Segments |-> s.lo]
  <2>1. range_hz.lo = Min({v[s] : s \in Segments})
    BY DEF range_hz
  <2>2. \A s \in Segments : v[s] \in Int
    BY ComplianceAssumption DEF ComplianceAssumption
  <2>3. \E s \in Segments : Min({v[y] : y \in Segments}) = v[s]
    <3>1. IsFiniteSet(Segments) /\ Segments # {}
      BY ComplianceAssumption DEF ComplianceAssumption
    <3> HIDE DEF v
    <3> QED BY <2>2, <3>1, Extremes
  <2> QED BY <2>1, <2>3
<1>2. \E s \in Segments : range_hz.hi = s.hi
  <2> DEFINE v == [s \in Segments |-> s.hi]
  <2>1. range_hz.hi = Max({v[s] : s \in Segments})
    BY DEF range_hz
  <2>2. \A s \in Segments : v[s] \in Int
    BY ComplianceAssumption DEF ComplianceAssumption
  <2>3. \E s \in Segments : Max({v[y] : y \in Segments}) = v[s]
    <3>1. IsFiniteSet(Segments) /\ Segments # {}
      BY ComplianceAssumption DEF ComplianceAssumption
    <3> HIDE DEF v
    <3> QED BY <2>2, <3>1, Extremes
  <2> QED BY <2>1, <2>3
<1>3. ASSUME NEW f \in Int, in_range(f) PROVE limit_at(f) \in Int
  <2>1. PICK s \in Segments, t \in Segments : range_hz.lo = s.lo /\ range_hz.hi = t.hi
    BY <1>1, <1>2
  <2>2. f \in s.lo .. t.hi
    BY <1>3, <2>1, ComplianceAssumption DEF ComplianceAssumption, in_range
  <2>3. PICK q \in Segments : q.lo <= f /\ f <= q.hi
    BY <2>2, ComplianceAssumption DEF ComplianceAssumption
  <2> DEFINE C == {r \in Segments : r.lo <= f /\ f <= r.hi}
             v == [r \in C |-> r.level]
  <2>4. IsFiniteSet(C) /\ C # {} /\ \A r \in C : v[r] \in Int
    BY <2>3, ComplianceAssumption, FS_Subset DEF ComplianceAssumption
  <2>5. limit_at(f) = Min({v[r] : r \in C})
    BY DEF limit_at
  <2>6. \E r \in C : Min({v[y] : y \in C}) = v[r]
    <3> HIDE DEF v, C
    <3> QED BY <2>4, Extremes
  <2> QED BY <2>4, <2>5, <2>6
<1> QED BY <1>1, <1>2, <1>3, ComplianceAssumption DEF ComplianceAssumption

-------------------------------------------------------------------------------
(* The path of a radiator, and the worst of the margins.                     *)

LEMMA LinesResolve ==
  ASSUME NEW d, Periodic(d), NEW f
  PROVE  resolve(d, f) = Silent \/ resolve(d, f) = 0 \/ resolve(d, f) = 1
<1>1. d.kind = "trapezoid" \/ d.kind = "waveform"
  BY DEF Periodic
<1>2. _resolve_lines(d, f) = Silent \/ _resolve_lines(d, f) = 0 \/ _resolve_lines(d, f) = 1
  BY DEF _resolve_lines
<1> QED BY <1>1, <1>2 DEF resolve, _resolve_waveform

\* A path of a line spectrum: its points are numbers at frequencies in range,
\* and it says nothing or zero elsewhere.
Lined(p) ==
  /\ p.line
  /\ DOMAIN p.points \subseteq Int
  /\ \A f \in DOMAIN p.points : in_range(f) /\ p.points[f] \in Nat

LEMMA LinedPaths ==
  ASSUME NEW p, Lined(p), NEW f
  PROVE  /\ path_at(p, f) = Silent \/ path_at(p, f) \in Nat
         /\ f \in DOMAIN p.points => path_at(p, f) = p.points[f]
<1>1. CASE f \in DOMAIN p.points
  BY <1>1 DEF Lined, path_at
<1>2. CASE f \notin DOMAIN p.points
  <2>1. path_at(p, f) = Silent \/ path_at(p, f) = 0
    BY <1>2, Zenon DEF Lined, path_at
  <2> QED BY <1>2, <2>1
<1> QED BY <1>1, <1>2

\* The usable points reach over a band within the standard's.
Reaches(usable, q) ==
  /\ q.lo = range_hz.lo /\ q.hi \in Int /\ q.hi <= range_hz.hi
  /\ Span(usable).lo <= q.lo /\ q.hi <= Span(usable).hi

\* What a radiator that is composed has to show for itself.
LEMMA Composed ==
  ASSUME NEW who, NEW d, NEW grid, NEW usable, Periodic(d), d.period \in Nat \ {0},
         IsFiniteSet(usable), usable # {}, usable \subseteq Int, Strength[who] \in Nat,
         NEW c, c = Compose(who, d, grid, usable)
  PROVE  /\ c.covered = {Span(usable)}
         /\ \A p \in c.path : p.who = who /\ Lined(p)
         /\ \A p, q \in c.path : p = q
         /\ \A q : Reaches(usable, q) => \A f \in q.lo .. q.hi :
              \/ f % d.period # 0 \/ f \in c.undriven
              \/ /\ resolve(d, f) # Silent
                 /\ \E p \in c.path : f \in DOMAIN p.points /\ p.points[f] = Strength[who] * resolve(d, f)
<1> DEFINE holes == {f \in grid \ usable : \E a, b \in usable : a < f /\ f < b}
           band == Meet(Span(usable), range_hz)
           asked == IF d.kind = "none" \/ band.lo > band.hi THEN {} ELSE _evaluation_frequencies(d, band, usable)
           driven == {f \in asked : resolve(d, f) # Silent}
           path == [who |-> who, line |-> Periodic(d), band |-> band,
                    points |-> [f \in driven |-> Strength[who] * resolve(d, f)]]
           silent == d.kind = "none" \/ band.lo > band.hi
<1>1. /\ c.covered = {Span(usable)}
      /\ c.path = IF silent THEN {} ELSE {path}
      /\ c.undriven = holes \cup (asked \ driven)
  BY DEF Compose, _usable_series
<1>2. d.kind # "none" /\ asked \subseteq Int /\ (\A f \in asked : in_range(f)) /\ band.lo \in Int /\ band.hi \in Int
      /\ (~(band.lo > band.hi) => asked = {f \in band.lo .. band.hi : f % d.period = 0 /\ in_range(f)})
      /\ Span(usable).lo \in Int /\ Span(usable).hi \in Int
      /\ (band.lo = Span(usable).lo \/ band.lo = range_hz.lo) /\ (band.hi = Span(usable).hi \/ band.hi = range_hz.hi)
      /\ range_hz.lo <= band.lo /\ Span(usable).lo <= band.lo
  <2>1. d.kind # "none"
    BY DEF Periodic
  <2>2. Span(usable).lo \in Int /\ Span(usable).hi \in Int
    BY SpanHolds DEF Span
  <2>3. range_hz.lo \in Int /\ range_hz.hi \in Int
    BY RangeHolds
  <2>4. band.lo = Max({Span(usable).lo, range_hz.lo}) /\ band.hi = Min({Span(usable).hi, range_hz.hi})
    BY DEF Meet
  <2> HIDE DEF band
  <2>5. /\ band.lo \in Int /\ band.hi \in Int
        /\ (band.lo = Span(usable).lo \/ band.lo = range_hz.lo) /\ (band.hi = Span(usable).hi \/ band.hi = range_hz.hi)
        /\ range_hz.lo <= band.lo /\ Span(usable).lo <= band.lo
    <3> DEFINE a == Span(usable).lo
               b == range_hz.lo
               p == Span(usable).hi
               q == range_hz.hi
    <3>1. a \in Int /\ b \in Int /\ p \in Int /\ q \in Int /\ band.lo = Max({a, b}) /\ band.hi = Min({p, q})
      BY <2>2, <2>3, <2>4
    <3> HIDE DEF a, b, p, q
    <3>4. Max({a, b}) \in Int /\ a <= Max({a, b}) /\ b <= Max({a, b}) /\ (Max({a, b}) = a \/ Max({a, b}) = b)
      <4>1. a \in Int /\ b \in Int
        BY <3>1
      <4> QED BY <4>1, TwoNumbers
    <3>2. band.lo \in Int /\ (band.lo = a \/ band.lo = b) /\ b <= band.lo /\ a <= band.lo
      BY <3>1, <3>4
    <3>3. band.hi \in Int /\ (band.hi = p \/ band.hi = q)
      BY <3>1, TwoNumbers
    <3> QED BY <3>2, <3>3 DEF a, b, p, q
  <2>6. ~(band.lo > band.hi) => asked = {f \in band.lo .. band.hi : f % d.period = 0 /\ in_range(f)}
    BY <2>1 DEF _evaluation_frequencies
  <2> QED BY <2>1, <2>2, <2>5, <2>6
<1> HIDE DEF band, holes, asked
<1>3. \A p \in c.path : p.who = who /\ Lined(p)
  <2>1. \A f \in driven : Strength[who] * resolve(d, f) \in Nat
    <3> SUFFICES ASSUME NEW f \in driven PROVE Strength[who] * resolve(d, f) \in Nat
      OBVIOUS
    <3>1. resolve(d, f) = 0 \/ resolve(d, f) = 1
      BY LinesResolve
    <3> QED BY <3>1
  <2>2. path.who = who /\ Lined(path)
    BY <1>2, <2>1 DEF Lined
  <2> QED BY <1>1, <2>2
<1>4. ASSUME NEW q, Reaches(usable, q), NEW f \in q.lo .. q.hi, f % d.period = 0, f \notin c.undriven
      PROVE  /\ resolve(d, f) # Silent
             /\ \E p \in c.path : f \in DOMAIN p.points /\ p.points[f] = Strength[who] * resolve(d, f)
  <2>1. range_hz.lo \in Int /\ range_hz.hi \in Int
    BY RangeHolds
  <2>2. f \in Int /\ band.lo <= f /\ f <= band.hi /\ in_range(f)
    BY <1>2, <1>4, <2>1 DEF in_range, Reaches
  <2>3. ~(band.lo > band.hi)
    BY <1>2, <2>2
  <2>4. f \in asked
    BY <1>2, <1>4, <2>2, <2>3
  <2>5. f \in driven
    BY <1>1, <1>4, <2>4
  <2>6. c.path = {path}
    BY <1>1, <1>2, <2>3
  <2>7. f \in DOMAIN path.points /\ path.points[f] = Strength[who] * resolve(d, f)
    BY <2>5
  <2> QED BY <2>5, <2>6, <2>7
<1>5. \A p, q \in c.path : p = q
  BY <1>1
<1> QED BY <1>1, <1>3, <1>4, <1>5

\* What the radiators that are known give is no better than any of its points.
LEMMA OutlookIsWorst ==
  ASSUME NEW paths, IsFiniteSet(paths), \A p \in paths : Lined(p),
         NEW m \in outlook(paths), NEW f \in common_grid(paths), combine(paths, f) > 0
  PROVE  m <= limit_at(f) - combine(paths, f) /\ m \in Int
<1> DEFINE scored == {g \in common_grid(paths) : combine(paths, g) > 0}
           v == [g \in scored |-> limit_at(g) - combine(paths, g)]
<1>1. common_grid(paths) \subseteq range_hz.lo .. range_hz.hi
  BY DEF common_grid, in_range, Lined
<1>2. IsFiniteSet(scored)
  <2>1. IsFiniteSet(range_hz.lo .. range_hz.hi)
    BY RangeHolds, FS_Interval
  <2>2. scored \subseteq range_hz.lo .. range_hz.hi
    BY <1>1
  <2> HIDE DEF scored
  <2> QED BY <2>1, <2>2, FS_Subset
<1>3. \A g \in scored : v[g] \in Int
  <2> SUFFICES ASSUME NEW g \in scored PROVE v[g] \in Int
    OBVIOUS
  <2>1. limit_at(g) \in Int
    BY <1>1, RangeHolds DEF common_grid
  <2>2. combine(paths, g) \in Nat
    <3> DEFINE w == [p \in paths |-> IF path_at(p, g) = Silent THEN 0 ELSE path_at(p, g)]
    <3>1. PICK h : Sums(h, w, paths) /\ combine(paths, g) = h[paths]
      BY CombinedIsSum
    <3>2. \A p \in paths : w[p] \in Nat
      BY LinedPaths
    <3> HIDE DEF w
    <3> QED BY <3>1, <3>2, SumsAreNumbers
  <2> QED BY <2>1, <2>2
<1>4. f \in scored /\ outlook(paths) = {Min({v[g] : g \in scored})}
  BY DEF outlook
<1> HIDE DEF scored
<1>5. \E g \in scored : Min({v[y] : y \in scored}) = v[g] /\ \A y \in scored : v[g] <= v[y]
  <2> HIDE DEF v
  <2> QED BY <1>2, <1>3, <1>4, Extremes
<1> QED BY <1>3, <1>4, <1>5

-------------------------------------------------------------------------------
(* What the gate asks for.                                                   *)

\* A finite set of levels that is added up is a sum.
LEMMA LevelIsSum ==
  ASSUME NEW x, NEW f, IsFiniteSet(Radiators(x))
  PROVE  \E g : /\ Sums(g, [r \in Radiators(x) |-> Strength[r] * resolve(x.driver, f)], Radiators(x))
                /\ TrueLevel(x, f) = g[Radiators(x)]
<1> DEFINE R == Radiators(x)
           v == [r \in R |-> Strength[r] * resolve(x.driver, f)]
           Folds(g) == g = [T \in SUBSET R |-> IF T = {} THEN 0 ELSE
                               LET r == CHOOSE r \in T : TRUE
                               IN Strength[r] * resolve(x.driver, f) + g[T \ {r}]]
           h == CHOOSE g : Folds(g)
<1>1. TrueLevel(x, f) = h[R]
  BY DEF TrueLevel, MapThenSumSet, MapThenFoldSet
<1>2. \A T \in SUBSET R : T # {} => v[CHOOSE r \in T : TRUE] = LET r == CHOOSE r \in T : TRUE IN Strength[r] * resolve(x.driver, f)
  OBVIOUS
<1> HIDE DEF v
<1>3. \A g : Folds(g) <=> Sums(g, v, R)
  BY <1>2 DEF Sums
<1>4. PICK g : Folds(g)
  <2> HIDE DEF Folds
  <2> QED BY <1>3, SumsExist, Zenon
<1>5. Folds(h)
  BY <1>4
<1> HIDE DEF h, Folds
<1> QED BY <1>1, <1>3, <1>5 DEF v

\* The rules of the scan say a number for every frequency.
LEMMA ScansToNumber ==
  ASSUME NEW h \in Nat
  PROVE  scan_to_hz(h) \in Nat
<1> DEFINE met == {r \in ScanRules : h < r.below}
           At == {r.below : r \in met}
<1>1. CASE met = {}
  BY <1>1 DEF scan_to_hz
<1>2. CASE met # {}
  <2>1. At \subseteq Nat /\ At # {}
    BY <1>2, ComplianceAssumption DEF ComplianceAssumption
  <2>2. PICK k \in At : TRUE
    BY <2>1
  <2> DEFINE low == At \cap 0 .. k
  <2>3. low # {} /\ low \subseteq Int /\ IsFiniteSet(low)
    <3>1. k \in Nat /\ k \in low /\ low \subseteq 0 .. k
      BY <2>1, <2>2
    <3>2. IsFiniteSet(0 .. k)
      BY <3>1, FS_Interval
    <3>3. IsFiniteSet(low)
      <4> HIDE DEF low
      <4> QED BY <3>1, <3>2, FS_Subset
    <3> QED BY <2>1, <3>1, <3>3
  <2>4. Min(low) \in low /\ \A n \in low : Min(low) <= n
    <3> HIDE DEF low
    <3> QED BY <2>3, SpanHolds
  <2>5. \A n \in At : Min(low) <= n
    BY <2>1, <2>2, <2>4
  <2>6. \E r \in met : \A q \in met : r.below <= q.below
    BY <2>4, <2>5
  <2>7. (CHOOSE r \in met : \A q \in met : r.below <= q.below) \in met
    BY <2>6
  <2> QED BY <1>2, <2>7, ComplianceAssumption DEF ComplianceAssumption, scan_to_hz
<1> QED BY <1>1, <1>2

\* A gate with nothing to say has everything it asked for.
LEMMA NothingMissing ==
  ASSUME NEW found, NEW asm, NEW d, NEW decl, NEW required, NEW entry,
         completeness_check(found, asm, d, decl, required, entry) = {}
  PROVE  /\ found /\ asm.problems = {}
         /\ \A r \in Connectors : CableGap(r, decl.cables[r], asm.modelled) = {}
         /\ asm.excited \subseteq asm.far_field_ports
         /\ required # {}
         /\ \A c \in asm.covered, q \in required : ~(c.lo > q.lo) /\ ~(c.hi < q.hi)
         /\ \A f \in asm.undriven : \E q \in required : ~Within(f, q)
<1> DEFINE solve == IF ~found THEN {"solve"} ELSE {}
           cables == UNION {CableGap(r, decl.cables[r], asm.modelled) : r \in Connectors}
           far == IF asm.excited \subseteq asm.far_field_ports THEN {} ELSE {"far-field"}
           band == IF required = {} THEN IF found THEN {"highest-frequency"} ELSE {}
                   ELSE {"band" : c \in {c \in asm.covered : \E q \in required : c.lo > q.lo \/ c.hi < q.hi}}
           harmonic == {"harmonic" : f \in {f \in asm.undriven : \A q \in required : Within(f, q)}}
           drivers == IF d.kind = "none" THEN {"no-driver"} ELSE {}
           nets == IF d.kind # "none" /\ decl.undriven_source THEN {"driver-net"} ELSE {}
           sources == IF found /\ Cardinality(asm.excited) > 1 THEN {"sources"} ELSE {}
           metal == IF decl.metal THEN {"metal-enclosure"} ELSE {}
           power == PowerGap(decl.power, entry)
<1>1. solve \cup asm.problems \cup drivers \cup nets \cup sources \cup cables \cup far \cup band \cup harmonic
        \cup metal \cup power = {}
  BY Zenon DEF completeness_check
<1> HIDE DEF metal, power, sources, nets, drivers
<1>2. solve = {} /\ asm.problems = {} /\ cables = {} /\ far = {} /\ band = {} /\ harmonic = {}
  <2> HIDE DEF solve, cables, far, band, harmonic
  <2> QED BY <1>1
<1>3. found /\ asm.problems = {} /\ asm.excited \subseteq asm.far_field_ports
  BY <1>2
<1>4. \A r \in Connectors : CableGap(r, decl.cables[r], asm.modelled) = {}
  BY <1>2
<1>5. required # {}
  BY <1>2, <1>3
<1>6. \A c \in asm.covered, q \in required : ~(c.lo > q.lo) /\ ~(c.hi < q.hi)
  BY <1>2, <1>5
<1>7. \A f \in asm.undriven : \E q \in required : ~Within(f, q)
  BY <1>2
<1> QED BY <1>3, <1>4, <1>5, <1>6, <1>7

\* What the parts of an assembly are, of a solve whose far field can be used and
\* whose transfer functions have all they need.
BoardPart(x) == _board_path(x.driver, x.art.far)
CablePart(x, r) == compose_cable(x.driver, r, x.art.transfers[r])

Whole(x, asm, fitted) ==
  /\ asm.modelled = fitted
  /\ \A r \in fitted : x.art.transfers[r] # {}
  /\ asm.paths = BoardPart(x).path \cup UNION {CablePart(x, r).path : r \in fitted}
  /\ asm.covered = BoardPart(x).covered \cup UNION {CablePart(x, r).covered : r \in fitted}
  /\ asm.undriven = BoardPart(x).undriven \cup UNION {CablePart(x, r).undriven : r \in fitted}
  /\ asm.highest = IF Periodic(x.driver) THEN x.driver.period ELSE 0

LEMMA WholeAssembly ==
  ASSUME NEW x, NEW asm, asm = assemble(x.art, x.driver), asm.problems = {},
         x.art.excited # {}, asm.excited \subseteq asm.far_field_ports
  PROVE  \E fitted \in SUBSET Connectors : Whole(x, asm, fitted)
<1> DEFINE art == x.art  d == x.driver
           far == art.far
           field == far.found /\ far.current /\ Cardinality(far.excited) <= 1
           board == IF field THEN {BoardPart(x)} ELSE {}
           fitted == {r \in Connectors : art.transfers[r] # {}}
           modelled == fitted \cap art.antennas
           cables == IF art.dense THEN {CablePart(x, r) : r \in modelled} ELSE {}
           problems ==
             (IF far.found /\ ~far.current THEN {"far-field-format"} ELSE {})
             \cup (IF far.found /\ far.current /\ ~field THEN {"far-field-sources"} ELSE {})
             \cup (IF fitted # modelled THEN {"cable-antenna"} ELSE {})
             \cup (IF modelled # {} /\ ~art.dense THEN {"cable-port"} ELSE {})
             \cup (IF field /\ far.near THEN {"distance"} ELSE {})
           all == board \cup cables
<1>1. art.dated /\ art.converged
  <2>1. CASE ~art.dated
    <3>1. asm.problems = {"solve-format"}
      BY <2>1 DEF assemble, NoAssembly
    <3> QED BY <3>1
  <2>2. CASE art.dated /\ ~art.converged
    <3>1. asm.problems = {"solve-unconverged"}
      BY <2>2 DEF assemble, NoAssembly
    <3> QED BY <3>1
  <2> QED BY <2>1, <2>2
<1>2. asm = [paths |-> UNION {c.path : c \in all},
             excited |-> art.excited,
             far_field_ports |-> IF field THEN far.excited ELSE {},
             modelled |-> modelled,
             covered |-> UNION {c.covered : c \in all},
             undriven |-> UNION {c.undriven : c \in all},
             highest |-> IF Periodic(d) THEN d.period ELSE 0,
             problems |-> problems,
             fails |-> \E c \in all : c.fails]
  BY <1>1, Zenon DEF assemble, BoardPart, CablePart
<1> HIDE DEF field, all
<1>3. asm.excited = art.excited /\ asm.paths = UNION {c.path : c \in all} /\ asm.covered = UNION {c.covered : c \in all}
      /\ asm.undriven = UNION {c.undriven : c \in all} /\ asm.modelled = modelled
      /\ asm.far_field_ports = (IF field THEN far.excited ELSE {}) /\ asm.problems = problems
      /\ asm.highest = IF Periodic(d) THEN d.period ELSE 0
  <2> HIDE DEF problems, modelled
  <2> QED BY <1>2
<1>4. field
  BY <1>3
<1>5. fitted = modelled /\ (modelled = {} \/ art.dense)
  <2> HIDE DEF fitted, modelled
  <2> QED BY <1>3
<1>6. all = {BoardPart(x)} \cup {CablePart(x, r) : r \in fitted}
  BY <1>4, <1>5 DEF all
<1>7. asm.paths = BoardPart(x).path \cup UNION {CablePart(x, r).path : r \in fitted}
      /\ asm.covered = BoardPart(x).covered \cup UNION {CablePart(x, r).covered : r \in fitted}
      /\ asm.undriven = BoardPart(x).undriven \cup UNION {CablePart(x, r).undriven : r \in fitted}
  <2> HIDE DEF fitted
  <2> QED BY <1>3, <1>6
<1>8. fitted \in SUBSET Connectors /\ \A r \in fitted : art.transfers[r] # {}
  OBVIOUS
<1>9. asm.modelled = fitted
  <2> HIDE DEF fitted
  <2> QED BY <1>3, <1>5
<1>10. asm.highest = IF Periodic(x.driver) THEN x.driver.period ELSE 0
  BY <1>3
<1> HIDE DEF fitted
<1> QED BY <1>7, <1>8, <1>9, <1>10 DEF Whole

-------------------------------------------------------------------------------
(* The margin.                                                               *)

\* A margin that is published for a periodic driver is no better than what the
\* whole product, cables and other radiators included, leaves at any frequency
\* (assemble.py, completeness.py, predict.py).
THEOREM AMarginIsOfTheWholeProduct ==
  ASSUME NEW x, Estimable(x)
  PROVE  MarginIsOfTheWholeProduct(x)
<1> DEFINE d == x.driver
           top == Min({range_hz.hi, scan_to_hz(Max({d.period, x.decl.highest}))})
<1> SUFFICES ASSUME Periodic(d), x.art.far.usable # {},
                    NEW m \in run_compliance(x).margin, NEW f \in range_hz.lo .. top, f % d.period = 0
             PROVE  /\ resolve(d, f) # Silent
                    /\ TrueLevel(x, f) > 0 => m <= limit_at(f) - TrueLevel(x, f)
  BY Zenon DEF MarginIsOfTheWholeProduct
<1> DEFINE asm == IF x.art.found THEN assemble(x.art, d) ELSE NoAssembly
           required == RequiredBand(asm, x.decl)
<1>1. /\ completeness_check(x.art.found, asm, d, x.decl, required, x.power_entry) = {}
      /\ m \in outlook(asm.paths)
  <2> DEFINE missing == completeness_check(x.art.found, asm, d, x.decl, required, x.power_entry)
  <2>1. run_compliance(x) = Refused \/
        run_compliance(x) = [gaps |-> missing, margin |-> IF missing = {} THEN outlook(asm.paths) ELSE {}]
    BY Zenon DEF run_compliance
  <2> HIDE DEF missing, asm
  <2>2. missing = {} /\ m \in outlook(asm.paths)
    BY <2>1 DEF Refused
  <2> QED BY <2>2 DEF missing
<1>2. /\ x.art.found /\ asm.problems = {}
      /\ \A r \in Connectors : CableGap(r, x.decl.cables[r], asm.modelled) = {}
      /\ asm.excited \subseteq asm.far_field_ports
      /\ required # {}
      /\ \A c \in asm.covered, q \in required : ~(c.lo > q.lo) /\ ~(c.hi < q.hi)
      /\ \A g \in asm.undriven : \E q \in required : ~Within(g, q)
  <2> HIDE DEF asm, required
  <2> QED BY <1>1, NothingMissing
<1>3. asm = assemble(x.art, d)
  BY <1>2
<1> HIDE DEF asm
<1>4. PICK fitted \in SUBSET Connectors : Whole(x, asm, fitted)
  <2>1. x.art.excited # {}
    BY DEF Estimable
  <2>2. asm.problems = {} /\ asm.excited \subseteq asm.far_field_ports
    BY <1>2
  <2>3. asm = assemble(x.art, x.driver)
    BY <1>3
  <2> HIDE DEF required, top
  <2> QED BY <2>1, <2>2, <2>3, WholeAssembly
<1>5. PICK q : /\ required = {q} /\ q.lo = range_hz.lo /\ q.hi = Min({scan_to_hz(Max({d.period, x.decl.highest})), range_hz.hi})
  <2>1. asm.highest = d.period
    BY <1>4 DEF Whole
  <2> DEFINE n == scan_to_hz(Max({asm.highest, x.decl.highest}))
             rec == [lo |-> range_hz.lo, hi |-> Min({n, range_hz.hi})]
  <2>2. required = {} \/ required = {rec}
    BY Zenon DEF RequiredBand
  <2>3. required = {rec}
    <3> HIDE DEF required, rec
    <3> QED BY <1>2, <2>2
  <2>4. rec.lo = range_hz.lo /\ rec.hi = Min({n, range_hz.hi})
    OBVIOUS
  <2>5. n = scan_to_hz(Max({d.period, x.decl.highest}))
    BY <2>1
  <2> HIDE DEF required, rec, n
  <2> QED BY <2>3, <2>4, <2>5
<1>6. /\ q.lo = range_hz.lo /\ q.lo \in Int /\ q.hi \in Int /\ q.hi <= range_hz.hi /\ f \in q.lo .. q.hi
      /\ in_range(f)
  <2>1. d.period \in Int /\ x.decl.highest \in Nat /\ x.decl.highest \in Int /\ range_hz.lo \in Nat /\ range_hz.hi \in Nat
    BY RangeHolds DEF Estimable
  <2>2. Max({d.period, x.decl.highest}) \in Nat
    <3> DEFINE n == Max({d.period, x.decl.highest})
    <3>1. n \in Int /\ x.decl.highest <= n
      BY <2>1, TwoNumbers, Zenon
    <3> HIDE DEF n
    <3>2. n \in Nat
      BY <2>1, <3>1
    <3> QED BY <3>2 DEF n
  <2>3. scan_to_hz(Max({d.period, x.decl.highest})) \in Nat
    BY <2>2, ScansToNumber
  <2> DEFINE n == scan_to_hz(Max({d.period, x.decl.highest}))
  <2>4. Min({n, range_hz.hi}) = top
    <3>1. {n, range_hz.hi} = {range_hz.hi, n}
      OBVIOUS
    <3> QED BY <3>1
  <2>5. q.hi = top
    BY <1>5, <2>4
  <2> HIDE DEF n
  <2>6. n \in Int
    BY <2>3 DEF n
  <2>7. top \in Int /\ top <= range_hz.hi
    <3>1. range_hz.hi \in Int
      BY <2>1
    <3>2. Min({n, range_hz.hi}) \in Int /\ Min({n, range_hz.hi}) <= range_hz.hi
      BY <2>6, <3>1, TwoNumbers, Zenon
    <3> HIDE DEF top
    <3> QED BY <2>4, <3>2
  <2> QED BY <1>5, <2>1, <2>5, <2>7 DEF in_range
<1> HIDE DEF required, top
<1> DEFINE W == {"board"} \cup fitted
           usable == [w \in W |-> IF w = "board" THEN x.art.far.usable ELSE x.art.transfers[w]]
           grid == [w \in W |-> IF w = "board" THEN FarGrid ELSE DenseGrid]
           part == [w \in W |-> Compose(w, d, grid[w], usable[w])]
<1>7. /\ asm.paths = UNION {part[w].path : w \in W}
      /\ asm.covered = UNION {part[w].covered : w \in W}
      /\ asm.undriven = UNION {part[w].undriven : w \in W}
  <2>1. "board" \notin fitted
    BY ComplianceAssumption DEF ComplianceAssumption
  <2>2. part["board"] = BoardPart(x) /\ \A r \in fitted : part[r] = CablePart(x, r)
    BY <2>1 DEF BoardPart, CablePart, _board_path, compose_cable
  <2> HIDE DEF part
  <2> QED BY <1>4, <2>2 DEF Whole
<1>8. ASSUME NEW w \in W
      PROVE /\ usable[w] # {} /\ IsFiniteSet(usable[w]) /\ usable[w] \subseteq Int
            /\ Strength[w] \in Nat
            /\ part[w].covered = {Span(usable[w])}
            /\ \A p \in part[w].path : p.who = w /\ Lined(p)
            /\ \A p, y \in part[w].path : p = y
            /\ \A y : Reaches(usable[w], y) => \A g \in y.lo .. y.hi :
                 \/ g % d.period # 0 \/ g \in part[w].undriven
                 \/ /\ resolve(d, g) # Silent
                    /\ \E p \in part[w].path : g \in DOMAIN p.points /\ p.points[g] = Strength[w] * resolve(d, g)
  <2>1. usable[w] # {} /\ IsFiniteSet(usable[w]) /\ usable[w] \subseteq Nat
    <3>1. IsFiniteSet(FarGrid) /\ FarGrid \subseteq Nat /\ IsFiniteSet(DenseGrid) /\ DenseGrid \subseteq Nat
      BY ComplianceAssumption DEF ComplianceAssumption
    <3>2. usable[w] # {} /\ (usable[w] \subseteq FarGrid \/ usable[w] \subseteq DenseGrid)
      BY <1>4 DEF Estimable, Whole
    <3> DEFINE u == usable[w]
    <3> HIDE DEF usable, W
    <3>3. IsFiniteSet(u)
      BY <3>1, <3>2, FS_Subset
    <3>4. u \subseteq Nat
      BY <3>1, <3>2
    <3> QED BY <3>2, <3>3, <3>4
  <2>2. Strength[w] \in Nat /\ d.period \in Nat \ {0}
    BY ComplianceAssumption DEF ComplianceAssumption, Estimable
  <2>3. part[w] = Compose(w, d, grid[w], usable[w])
    OBVIOUS
  <2> HIDE DEF part, usable, grid, W
  <2> QED BY <2>1, <2>2, <2>3, Composed
<1> HIDE DEF part, usable, grid
<1>9. ASSUME NEW w \in W
      PROVE resolve(d, f) # Silent
            /\ \E p \in part[w].path : p.who = w /\ Lined(p) /\ f \in DOMAIN p.points
                  /\ p.points[f] = Strength[w] * resolve(d, f)
  <2>1. Reaches(usable[w], q)
    <3>1. Span(usable[w]) \in asm.covered
      <4>1. part[w].covered = {Span(usable[w])}
        BY <1>8
      <4> QED BY <1>7, <4>1
    <3>2. ~(Span(usable[w]).lo > q.lo) /\ ~(Span(usable[w]).hi < q.hi)
      BY <1>2, <1>5, <3>1
    <3>3. Span(usable[w]).lo \in Int /\ Span(usable[w]).hi \in Int
      BY <1>8, SpanHolds DEF Span
    <3> QED BY <1>6, <3>2, <3>3 DEF Reaches
  <2>2. f \notin part[w].undriven
    <3>1. Within(f, q)
      BY <1>6 DEF Within
    <3>2. f \notin asm.undriven
      BY <1>2, <1>5, <3>1
    <3> QED BY <1>7, <3>2
  <2> QED BY <1>6, <1>8, <2>1, <2>2
<1> HIDE DEF W
<1>10. Radiators(x) \subseteq W
  <2> SUFFICES ASSUME NEW r \in Connectors, x.decl.cables[r] # "none", r \notin fitted PROVE FALSE
    BY DEF Radiators, W
  <2>1. CableGap(r, x.decl.cables[r], fitted) # {}
    BY DEF CableGap
  <2> QED BY <1>2, <1>4, <2>1 DEF Whole
<1>11. IsFiniteSet(W)
  <2>1. IsFiniteSet(fitted)
    BY ComplianceAssumption, FS_Subset DEF ComplianceAssumption
  <2> QED BY <2>1, FS_AddElement DEF W
<1> DEFINE to == [w \in W |-> CHOOSE p \in part[w].path : TRUE]
<1>12. ASSUME NEW w \in W
       PROVE  /\ part[w].path = {to[w]} /\ to[w] \in asm.paths /\ to[w].who = w /\ Lined(to[w])
              /\ f \in DOMAIN to[w].points /\ to[w].points[f] = Strength[w] * resolve(d, f)
  <2>1. part[w].path = {to[w]}
    BY <1>8, <1>9
  <2> HIDE DEF to
  <2> QED BY <1>7, <1>9, <2>1
<1>13. IsFiniteSet(asm.paths) /\ \A p \in asm.paths : Lined(p)
  <2>1. \A p \in asm.paths : \E w \in W : p = to[w]
    BY <1>7, <1>12
  <2>2. to \in [W -> asm.paths]
    BY <1>12
  <2> HIDE DEF to
  <2>3. to \in Surjection(W, asm.paths)
    BY <2>1, <2>2 DEF Surjection
  <2> QED BY <1>11, <1>12, <2>1, <2>3, FS_Surjection
<1> HIDE DEF to
<1> DEFINE u == [r \in Radiators(x) |-> Strength[r] * resolve(d, f)]
           v == [p \in asm.paths |-> IF path_at(p, f) = Silent THEN 0 ELSE path_at(p, f)]
<1>14. resolve(d, f) = 0 \/ resolve(d, f) = 1
  <2>1. "board" \in W
    BY DEF W
  <2> QED BY <1>9, <2>1, LinesResolve
<1>15. PICK g : Sums(g, u, Radiators(x)) /\ TrueLevel(x, f) = g[Radiators(x)]
  <2>1. IsFiniteSet(Radiators(x))
    BY <1>10, <1>11, FS_Subset
  <2> QED BY <2>1, LevelIsSum
<1>16. PICK h : Sums(h, v, asm.paths) /\ combine(asm.paths, f) = h[asm.paths]
  BY <1>13, CombinedIsSum
<1>17. TrueLevel(x, f) <= combine(asm.paths, f) /\ TrueLevel(x, f) \in Nat /\ combine(asm.paths, f) \in Nat
  <2>1. \A r \in Radiators(x) : u[r] \in Nat
    BY <1>8, <1>10, <1>14
  <2>2. \A p \in asm.paths : v[p] \in Nat
    BY <1>13, LinedPaths
  <2>3. \A r \in Radiators(x) : to[r] \in asm.paths /\ v[to[r]] = u[r]
    <3> SUFFICES ASSUME NEW r \in Radiators(x) PROVE to[r] \in asm.paths /\ v[to[r]] = u[r]
      OBVIOUS
    <3>1. to[r] \in asm.paths /\ path_at(to[r], f) = u[r]
      BY <1>10, <1>12, LinedPaths
    <3>2. u[r] # Silent
      BY <2>1 DEF Silent
    <3> QED BY <3>1, <3>2
  <2>4. \A r, t \in Radiators(x) : to[r] = to[t] => r = t
    BY <1>10, <1>12
  <2>5. IsFiniteSet(Radiators(x))
    BY <1>10, <1>11, FS_Subset
  <2> HIDE DEF u, v
  <2>6. \A r \in Radiators(x) : to[r] \in asm.paths /\ u[r] <= v[to[r]]
    BY <2>1, <2>3
  <2>7. g[Radiators(x)] <= h[asm.paths]
    <3> DEFINE A == Radiators(x)  B == asm.paths
    <3>1. IsFiniteSet(A) /\ IsFiniteSet(B) /\ Sums(g, u, A) /\ Sums(h, v, B)
      BY <1>13, <1>15, <1>16, <2>5
    <3>2. Dominates(v, B, u, A, to)
      BY <2>1, <2>2, <2>4, <2>6 DEF Dominates
    <3> HIDE DEF A, B
    <3>3. g[A] <= h[B]
      BY <3>1, <3>2, SumsCompare
    <3> QED BY <3>3 DEF A, B
  <2>8. g[Radiators(x)] \in Nat /\ h[asm.paths] \in Nat
    BY <1>13, <1>15, <1>16, <2>1, <2>2, <2>5, SumsAreNumbers
  <2> QED BY <1>15, <1>16, <2>7, <2>8
<1>18. f \in common_grid(asm.paths)
  <2>1. "board" \in W
    BY DEF W
  <2> QED BY <1>6, <1>12, <2>1 DEF common_grid
<1>19. ASSUME TrueLevel(x, f) > 0 PROVE m <= limit_at(f) - TrueLevel(x, f)
  <2> DEFINE t == TrueLevel(x, f)  c == combine(asm.paths, f)  l == limit_at(f)
  <2>1. l \in Int /\ t \in Nat /\ c \in Nat /\ t <= c /\ c > 0
    BY <1>6, <1>17, <1>19, RangeHolds
  <2>2. m <= l - c /\ m \in Int
    BY <1>1, <1>13, <1>18, <2>1, OutlookIsWorst
  <2> HIDE DEF t, c, l
  <2>4. m <= l - t
    BY <2>1, <2>2
  <2> QED BY <2>4 DEF t, l
<1> QED BY <1>14, <1>19 DEF Silent

===============================================================================
