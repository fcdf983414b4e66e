--------------------------- MODULE TrafficProofs ---------------------------
(***************************************************************************)
(* What the traffic accounting guarantees for any number of instances and  *)
(* commands, any calendar and retention, and however often instances       *)
(* restart or a command dies half way: the types, that no record claims    *)
(* more than its hours were given and that cleanup leaves what is yet to   *)
(* be aggregated; with one collector, that the hours bill what was         *)
(* carried; with one aggregator, that aggregates only grow.                *)
(***************************************************************************)
EXTENDS Traffic, FiniteSetTheorems, WellFoundedInduction, TLAPS

OneCollector == \A c, d \in Collectors : c = d

OneAggregator == \A a, b \in Aggregators : a = b

-----------------------------------------------------------------------------
(* Sums *)

\* The member a sum takes out first, and the sums of the subsets of S.
Element(s) == CHOOSE x \in s : TRUE

Adds(g, f, S) == g = [s \in SUBSET S |-> IF s = {} THEN 0 ELSE f[Element(s)] + g[s \ {Element(s)}]]

\* The library's sum is a value of the function that adds up the members of
\* every subset, each time taking one out.
LEMMA SumIsFold ==
    ASSUME NEW f, NEW S
    PROVE  SumFunctionOnSet(f, S) = (CHOOSE g : Adds(g, f, S))[S]
BY DEF SumFunctionOnSet, FoldFunctionOnSet, MapThenFoldSet, Adds, Element

\* Induction over the subsets of a finite set: a set G that contains a subset
\* whenever it contains all smaller ones contains them all.
LEMMA SetInduction ==
    ASSUME NEW S, IsFiniteSet(S), NEW G,
           \A s \in SUBSET S : (\A t \in SUBSET s : t # s => t \in G) => s \in G
    PROVE  \A s \in SUBSET S : s \in G
<1>. DEFINE bad == (SUBSET S) \ G
<1>1. SUFFICES ASSUME bad # {} PROVE FALSE
  OBVIOUS
<1>2. IsWellFoundedOn(StrictSubsetOrdering(S), SUBSET S)
  BY FS_StrictSubsetOrderingWellFounded, FS_FiniteSubsetsOfFinite
<1>3. bad \subseteq SUBSET S
  OBVIOUS
<1>. HIDE DEF bad
<1>4. PICK s \in bad : \A t \in bad : ~(<<t, s>> \in StrictSubsetOrdering(S))
  BY <1>1, <1>2, <1>3, WFMin
<1>5. \A t \in SUBSET s : t # s => t \in G
  BY <1>3, <1>4 DEF StrictSubsetOrdering, bad
<1>. QED BY <1>3, <1>4, <1>5 DEF bad

\* Two sums over subsets agree where both are defined.
LEMMA AddsAgree ==
    ASSUME NEW f, NEW A, NEW B, IsFiniteSet(A), NEW g, NEW h, Adds(g, f, A), Adds(h, f, B)
    PROVE  \A s \in SUBSET (A \cap B) : g[s] = h[s]
<1>. DEFINE G == {s \in SUBSET (A \cap B) : g[s] = h[s]}
<1>1. IsFiniteSet(A \cap B)
  BY FS_Intersection
<1>2. ASSUME NEW s \in SUBSET (A \cap B), \A t \in SUBSET s : t # s => t \in G
      PROVE  s \in G
  <2>1. /\ g[s] = IF s = {} THEN 0 ELSE f[Element(s)] + g[s \ {Element(s)}]
        /\ h[s] = IF s = {} THEN 0 ELSE f[Element(s)] + h[s \ {Element(s)}]
    BY DEF Adds
  <2>2. CASE s # {}
    <3>1. Element(s) \in s
      BY <2>2 DEF Element
    <3>2. s \ {Element(s)} \in G
      BY <1>2, <3>1
    <3>. QED BY <2>1, <3>2
  <2>. QED BY <2>1, <2>2
<1>. HIDE DEF G
<1>3. \A s \in SUBSET (A \cap B) : s \in G
  BY <1>1, <1>2, SetInduction
<1>. QED BY <1>3 DEF G

\* There is one for every finite set.
LEMMA AddsExists ==
    ASSUME NEW f, NEW S, IsFiniteSet(S)
    PROVE  \A s \in SUBSET S : \E g : Adds(g, f, s)
<1>. DEFINE G == {s \in SUBSET S : \E g : Adds(g, f, s)}
<1>1. ASSUME NEW s \in SUBSET S, \A t \in SUBSET s : t # s => t \in G
      PROVE  s \in G
  <2>. DEFINE sum(t) == (CHOOSE g : Adds(g, f, t))[t]
             all(t) == IF t = {} THEN 0 ELSE f[Element(t)] + sum(t \ {Element(t)})
             new == [t \in SUBSET s |-> IF t = s THEN all(s) ELSE sum(t)]
  <2>1. ASSUME NEW t \in SUBSET s, t # s PROVE sum(t) = all(t)
    <3>. DEFINE g == CHOOSE g : Adds(g, f, t)
    <3>1. Adds(g, f, t)
      BY <1>1, <2>1
    <3>2. g[t] = IF t = {} THEN 0 ELSE f[Element(t)] + g[t \ {Element(t)}]
      BY <3>1 DEF Adds
    <3>3. CASE t # {}
      <4>. DEFINE u == t \ {Element(t)}
                 h == CHOOSE h : Adds(h, f, u)
      <4>1. u \in SUBSET t /\ u # s
        BY <2>1
      <4>2. Adds(h, f, u)
        <5>1. u \in G
          BY <1>1, <4>1
        <5>. QED BY <5>1
      <4>3. IsFiniteSet(t)
        BY FS_Subset
      <4>. HIDE DEF g, h
      <4>4. g[u] = h[u]
        BY <3>1, <4>1, <4>2, <4>3, AddsAgree
      <4>. QED BY <3>2, <3>3, <4>4 DEF g, h
    <3>. QED BY <3>2, <3>3
  <2>. HIDE DEF sum
  <2>2. ASSUME NEW t \in SUBSET s PROVE new[t] = all(t)
    BY <2>1, <2>2
  <2>3. ASSUME NEW t \in SUBSET s, t # {} PROVE new[t \ {Element(t)}] = sum(t \ {Element(t)})
    <3>1. Element(t) \in t
      BY <2>3 DEF Element
    <3>. QED BY <3>1
  <2>4. Adds(new, f, s)
    <3>1. ASSUME NEW t \in SUBSET s
          PROVE  new[t] = IF t = {} THEN 0 ELSE f[Element(t)] + new[t \ {Element(t)}]
      BY <2>2, <2>3
    <3>2. new = [t \in SUBSET s |-> new[t]]
      OBVIOUS
    <3>. HIDE DEF new
    <3>. QED BY <3>1, <3>2 DEF Adds
  <2>. QED BY <2>4
<1>. HIDE DEF G
<1>2. \A s \in SUBSET S : s \in G
  BY <1>1, SetInduction
<1>. QED BY <1>2 DEF G

\* The sum by its members: whichever the fold takes first.
LEMMA SumElement ==
    ASSUME NEW f, NEW S, IsFiniteSet(S)
    PROVE  SumFunctionOnSet(f, S) =
              IF S = {} THEN 0 ELSE f[Element(S)] + SumFunctionOnSet(f, S \ {Element(S)})
<1>. DEFINE g == CHOOSE g : Adds(g, f, S)
           R == S \ {Element(S)}
           h == CHOOSE h : Adds(h, f, R)
<1>1. IsFiniteSet(R)
  BY FS_RemoveElement
<1>2. Adds(g, f, S) /\ Adds(h, f, R)
  BY <1>1, AddsExists
<1>3. SumFunctionOnSet(f, S) = g[S] /\ SumFunctionOnSet(f, R) = h[R]
  BY SumIsFold
<1>. HIDE DEF g, h
<1>4. g[R] = h[R]
  <2>1. \A s \in SUBSET (S \cap R) : g[s] = h[s]
    BY <1>2, AddsAgree
  <2>. QED BY <2>1
<1>5. g[S] = IF S = {} THEN 0 ELSE f[Element(S)] + g[R]
  BY <1>2 DEF Adds
<1>. QED BY <1>3, <1>4, <1>5

\* The empty sum.
LEMMA SumOfNone == \A f : SumFunctionOnSet(f, {}) = 0
BY SumElement, FS_EmptySet

\* A sum of numbers is a number.
LEMMA SumNat ==
    ASSUME NEW S, IsFiniteSet(S), NEW f, \A x \in S : f[x] \in Nat
    PROVE  \A s \in SUBSET S : SumFunctionOnSet(f, s) \in Nat
<1>. DEFINE G == {s \in SUBSET S : SumFunctionOnSet(f, s) \in Nat}
<1>1. ASSUME NEW s \in SUBSET S, \A t \in SUBSET s : t # s => t \in G
      PROVE  s \in G
  <2>1. IsFiniteSet(s)
    BY FS_Subset
  <2>2. CASE s # {}
    <3>1. Element(s) \in s
      BY <2>2 DEF Element
    <3>2. SumFunctionOnSet(f, s) = f[Element(s)] + SumFunctionOnSet(f, s \ {Element(s)})
      BY <2>1, <2>2, SumElement
    <3>3. SumFunctionOnSet(f, s \ {Element(s)}) \in Nat
      BY <1>1, <3>1
    <3>. QED BY <3>1, <3>2, <3>3
  <2>. QED BY <2>2, SumOfNone
<1>. HIDE DEF G
<1>2. \A s \in SUBSET S : s \in G
  BY <1>1, SetInduction
<1>. QED BY <1>2 DEF G

\* Any member can be taken out of a sum.
LEMMA SumWithout ==
    ASSUME NEW S, IsFiniteSet(S), NEW f, \A x \in S : f[x] \in Nat
    PROVE  \A s \in SUBSET S : \A x \in s :
              SumFunctionOnSet(f, s) = f[x] + SumFunctionOnSet(f, s \ {x})
<1>. DEFINE Sum(s) == SumFunctionOnSet(f, s)
           G == {s \in SUBSET S : \A x \in s : Sum(s) = f[x] + Sum(s \ {x})}
<1>1. ASSUME NEW s \in SUBSET S, \A t \in SUBSET s : t # s => t \in G
      PROVE  s \in G
  <2>1. SUFFICES ASSUME NEW x \in s PROVE Sum(s) = f[x] + Sum(s \ {x})
    OBVIOUS
  <2>. DEFINE y == Element(s)
  <2>2. y \in s
    BY DEF Element
  <2>3. Sum(s) = f[y] + Sum(s \ {y})
    BY FS_Subset, SumElement
  <2>4. CASE x # y
    <3>1. Sum(s \ {y}) = f[x] + Sum((s \ {y}) \ {x})
      <4>1. s \ {y} \in G
        BY <1>1, <2>2
      <4>. QED BY <2>4, <4>1
    <3>2. Sum(s \ {x}) = f[y] + Sum((s \ {x}) \ {y})
      <4>1. s \ {x} \in G
        BY <1>1
      <4>. QED BY <2>2, <2>4, <4>1
    <3>3. (s \ {y}) \ {x} = (s \ {x}) \ {y}
      OBVIOUS
    <3>4. Sum((s \ {x}) \ {y}) \in Nat
      BY SumNat
    <3>. HIDE DEF y, Sum
    <3>. QED BY <2>2, <2>3, <3>1, <3>2, <3>3, <3>4
  <2>. QED BY <2>3, <2>4
<1>. HIDE DEF G
<1>2. \A s \in SUBSET S : s \in G
  BY <1>1, SetInduction
<1>. QED BY <1>2 DEF G

\* Larger members, larger sum.
LEMMA SumMonotone ==
    ASSUME NEW S, IsFiniteSet(S), NEW f, NEW g,
           \A x \in S : f[x] \in Nat /\ g[x] \in Nat /\ f[x] <= g[x]
    PROVE  SumFunctionOnSet(f, S) <= SumFunctionOnSet(g, S)
<1>. DEFINE G == {s \in SUBSET S : SumFunctionOnSet(f, s) <= SumFunctionOnSet(g, s)}
<1>1. ASSUME NEW s \in SUBSET S, \A t \in SUBSET s : t # s => t \in G
      PROVE  s \in G
  <2>1. CASE s # {}
    <3>1. PICK x \in s : TRUE
      BY <2>1
    <3>2. SumFunctionOnSet(f, s) = f[x] + SumFunctionOnSet(f, s \ {x})
      BY <3>1, SumWithout
    <3>3. SumFunctionOnSet(g, s) = g[x] + SumFunctionOnSet(g, s \ {x})
      BY <3>1, SumWithout
    <3>4. SumFunctionOnSet(f, s \ {x}) <= SumFunctionOnSet(g, s \ {x})
      BY <1>1, <3>1
    <3>5. SumFunctionOnSet(f, s \ {x}) \in Nat /\ SumFunctionOnSet(g, s \ {x}) \in Nat
      BY SumNat
    <3>. QED BY <3>1, <3>2, <3>3, <3>4, <3>5
  <2>. QED BY <2>1, SumOfNone
<1>. HIDE DEF G
<1>2. S \in G
  BY <1>1, SetInduction
<1>. QED BY <1>2 DEF G

\* Equal members, equal sum.
LEMMA SumSame ==
    ASSUME NEW S, IsFiniteSet(S), NEW f, NEW g, \A x \in S : f[x] \in Nat /\ f[x] = g[x]
    PROVE  SumFunctionOnSet(f, S) = SumFunctionOnSet(g, S)
<1>1. SumFunctionOnSet(f, S) \in Nat /\ SumFunctionOnSet(g, S) \in Nat
  BY SumNat
<1>2. SumFunctionOnSet(f, S) <= SumFunctionOnSet(g, S)
  BY SumMonotone
<1>3. SumFunctionOnSet(g, S) <= SumFunctionOnSet(f, S)
  BY SumMonotone
<1>. QED BY <1>1, <1>2, <1>3

\* A sum grows by what one member grows.
LEMMA SumAdd ==
    ASSUME NEW S, IsFiniteSet(S), NEW f, NEW g, NEW a \in S, NEW d \in Nat,
           \A x \in S : f[x] \in Nat, g[a] = f[a] + d, \A x \in S : x # a => g[x] = f[x]
    PROVE  SumFunctionOnSet(g, S) = SumFunctionOnSet(f, S) + d
<1>1. \A x \in S : g[x] \in Nat
  OBVIOUS
<1>2. SumFunctionOnSet(f, S) = f[a] + SumFunctionOnSet(f, S \ {a})
  BY SumWithout
<1>3. SumFunctionOnSet(g, S) = g[a] + SumFunctionOnSet(g, S \ {a})
  BY <1>1, SumWithout
<1>4. SumFunctionOnSet(g, S \ {a}) = SumFunctionOnSet(f, S \ {a})
  BY FS_RemoveElement, SumSame
<1>5. SumFunctionOnSet(f, S \ {a}) \in Nat
  BY SumNat
<1>. QED BY <1>2, <1>3, <1>4, <1>5

\* The sum over two sets without a common member.
LEMMA SumUnion ==
    ASSUME NEW S, IsFiniteSet(S), NEW f, \A x \in S : f[x] \in Nat, NEW B \in SUBSET S
    PROVE  \A A \in SUBSET (S \ B) :
              SumFunctionOnSet(f, A \cup B) = SumFunctionOnSet(f, A) + SumFunctionOnSet(f, B)
<1>. DEFINE Sum(s) == SumFunctionOnSet(f, s)
           R == S \ B
           G == {A \in SUBSET R : Sum(A \cup B) = Sum(A) + Sum(B)}
<1>1. ASSUME NEW s \in SUBSET R, \A t \in SUBSET s : t # s => t \in G
      PROVE  s \in G
  <2>. SUFFICES Sum(s \cup B) = Sum(s) + Sum(B)
    OBVIOUS
  <2>0. \A t \in SUBSET S : Sum(t) \in Nat
    BY SumNat
  <2>1. CASE s # {}
    <3>1. PICK x \in s : TRUE
      BY <2>1
    <3>2. Sum(s) = f[x] + Sum(s \ {x})
      BY <3>1, SumWithout
    <3>3. Sum(s \cup B) = f[x] + Sum((s \cup B) \ {x})
      BY <3>1, SumWithout
    <3>4. (s \cup B) \ {x} = (s \ {x}) \cup B
      BY <3>1
    <3>5. Sum((s \ {x}) \cup B) = Sum(s \ {x}) + Sum(B)
      <4>1. s \ {x} \in G
        BY <1>1, <3>1
      <4>. QED BY <4>1
    <3>6. Sum(s \ {x}) \in Nat /\ Sum(B) \in Nat /\ f[x] \in Nat
      BY <2>0
    <3>7. \A a, b, d \in Nat : a + (b + d) = (a + b) + d
      OBVIOUS
    <3>8. Sum(s \cup B) = f[x] + (Sum(s \ {x}) + Sum(B))
      BY <3>3, <3>4, <3>5
    <3>9. f[x] + (Sum(s \ {x}) + Sum(B)) = (f[x] + Sum(s \ {x})) + Sum(B)
      BY <3>6, <3>7
    <3>. QED BY <3>2, <3>8, <3>9
  <2>2. CASE s = {}
    <3>1. s \cup B = B /\ Sum(s) = 0 /\ Sum(B) \in Nat
      BY <2>0, <2>2, SumOfNone
    <3>. HIDE DEF Sum
    <3>. QED BY <3>1
  <2>. QED BY <2>1, <2>2
<1>2. IsFiniteSet(R)
  BY FS_Difference
<1>. HIDE DEF G, R
<1>3. \A s \in SUBSET R : s \in G
  BY <1>1, <1>2, SetInduction
<1>. QED BY <1>3 DEF G, R

\* If every member of P is at most the sum over its own part, and the parts have nothing in
\* common, then the sum over P is at most the sum over all the parts.
LEMMA SumOfParts ==
    ASSUME NEW S, IsFiniteSet(S), NEW f, \A x \in S : f[x] \in Nat,
           NEW P, IsFiniteSet(P), NEW g, NEW part,
           \A v \in P : /\ g[v] \in Nat /\ part[v] \in SUBSET S
                        /\ g[v] <= SumFunctionOnSet(f, part[v])
                        /\ \A w \in P : w # v => part[v] \cap part[w] = {}
    PROVE  SumFunctionOnSet(g, P) <= SumFunctionOnSet(f, UNION {part[v] : v \in P})
<1>. DEFINE All(Q) == UNION {part[v] : v \in Q}
           G == {Q \in SUBSET P : SumFunctionOnSet(g, Q) <= SumFunctionOnSet(f, All(Q))}
<1>1. ASSUME NEW Q \in SUBSET P, \A R \in SUBSET Q : R # Q => R \in G
      PROVE  Q \in G
  <2>1. CASE Q # {}
    <3>1. PICK v \in Q : TRUE
      BY <2>1
    <3>. DEFINE R == Q \ {v}
    <3>2. SumFunctionOnSet(g, Q) = g[v] + SumFunctionOnSet(g, R)
      BY <3>1, SumWithout
    <3>3. SumFunctionOnSet(g, R) <= SumFunctionOnSet(f, All(R))
      <4>1. R \in G
        BY <1>1, <3>1
      <4>. QED BY <4>1
    <3>4. All(Q) = part[v] \cup All(R)
      BY <3>1
    <3>5. All(R) \in SUBSET S /\ part[v] \in SUBSET (S \ All(R))
      BY <3>1
    <3>. HIDE DEF All
    <3>6. SumFunctionOnSet(f, All(Q)) = SumFunctionOnSet(f, part[v]) + SumFunctionOnSet(f, All(R))
      <4>. HIDE DEF R
      <4>1. \A A \in SUBSET (S \ All(R)) :
               SumFunctionOnSet(f, A \cup All(R))
                  = SumFunctionOnSet(f, A) + SumFunctionOnSet(f, All(R))
        BY <3>5, SumUnion
      <4>. QED BY <3>4, <3>5, <4>1
    <3>7. SumFunctionOnSet(f, part[v]) \in Nat /\ SumFunctionOnSet(f, All(R)) \in Nat
          /\ SumFunctionOnSet(g, R) \in Nat /\ g[v] \in Nat /\ g[v] <= SumFunctionOnSet(f, part[v])
      BY <3>1, <3>5, SumNat
    <3>8. SumFunctionOnSet(g, Q) <= SumFunctionOnSet(f, All(Q))
      <4>. HIDE DEF R
      <4>. QED BY <3>2, <3>3, <3>6, <3>7
    <3>. QED BY <3>8
  <2>2. CASE Q = {}
    <3>1. All(Q) = {}
      BY <2>2
    <3>. QED BY <2>2, <3>1, SumOfNone
  <2>. QED BY <2>1, <2>2
<1>. HIDE DEF G
<1>2. P \in G
  BY <1>1, SetInduction
<1>. QED BY <1>2 DEF G

-----------------------------------------------------------------------------
(* Windows and division *)

\* What the division of a number gives: hours in days, days in months.
LEMMA DivBounds ==
    ASSUME NEW k \in Nat \ {0}, NEW a \in Nat
    PROVE  /\ a \div k \in Nat
           /\ (a \div k) * k <= a /\ a < (a \div k) * k + k
BY SMT

\* A quotient is no larger than what is divided.
LEMMA DivLow ==
    ASSUME NEW k \in Nat \ {0}, NEW a \in Nat
    PROVE  a \div k <= a
BY DivBounds

\* The first hour of a day is in that day.
LEMMA DivBack ==
    ASSUME NEW k \in Nat \ {0}, NEW a \in Nat
    PROVE  (a * k) \div k = a
BY SMT

\* A later hour is in no earlier day.
LEMMA DivMono ==
    ASSUME NEW k \in Nat \ {0}, NEW a \in Nat, NEW b \in Nat, a <= b
    PROVE  a \div k <= b \div k
BY DivBounds

-----------------------------------------------------------------------------
(* Arithmetic of the delta *)

\* A delta is never negative, also across a restart.
LEMMA DeltaNat ==
    ASSUME NEW m \in Nat, NEW n \in Nat PROVE Delta(m, n) \in Nat
  BY DEF Delta

\* A byte more at the counter is at most a byte more to bill.
LEMMA DeltaStep ==
    ASSUME NEW m \in Nat, NEW n \in Nat PROVE Delta(m + 1, n) <= Delta(m, n) + 1
  BY DEF Delta

\* Nothing is billed for a counter at zero or at its baseline.
LEMMA DeltaZero ==
    ASSUME NEW n \in Nat PROVE Delta(0, n) = 0 /\ Delta(n, n) = 0
  BY DEF Delta

\* One target has the turn.
LEMMA TurnUnique ==
    ASSUME NEW S \in SUBSET Targets, NEW t \in Turn(S), NEW u \in Turn(S)
    PROVE  t = u
  BY TrafficAssumption DEF Turn

-----------------------------------------------------------------------------
(* Types *)

\* The types, and the bound of the counters: what an instance serves it has
\* carried.
Bounded == TypeOK /\ \A t \in Targets : counter[t] <= carried[t]

\* What the commands hold.
HourlyCommands ==
    [Collectors -> [pc : {"idle", "query", "add"}, left : SUBSET Targets,
                    at : Hours, sample : 0..MaxCarried]]
ViewerCommands ==
    [Viewers -> [pc : {"idle", "query", "read"}, left : SUBSET Targets,
                 sample : 0..MaxCarried, shown : Records]]
Aggregations ==
    [Aggregators -> [pc : {"idle", "list", "replace"},
                     period : {"daily", "monthly"}, window : Hours, all : BOOLEAN,
                     instances : SUBSET Targets, sums : [Targets -> Records]]]

\* The hours are finitely many, so they can be summed.
LEMMA HoursFinite == IsFiniteSet(Hours)
BY TrafficAssumption, FS_Interval DEF Hours

\* The window of an hour has a number no larger than the hour's.
LEMMA WindowIsHour ==
    ASSUME NEW period \in Periods, NEW h \in Hours
    PROVE  WindowOf(period, h) \in Hours /\ WindowOf(period, h) <= h
<1>1. h \in Nat /\ h <= MaxHour
  BY TrafficAssumption DEF Hours
<1>2. DayOf(h) \in Nat /\ DayOf(h) <= h
  BY <1>1, DivBounds, DivLow, TrafficAssumption DEF DayOf
<1>3. MonthOf(DayOf(h)) \in Nat /\ MonthOf(DayOf(h)) <= DayOf(h)
  BY <1>2, DivBounds, DivLow, TrafficAssumption DEF MonthOf
<1>. QED BY <1>1, <1>2, <1>3, TrafficAssumption DEF WindowOf, Periods, Hours

\* An aggregate is a record.
LEMMA AggregateType ==
    ASSUME rec \in [Periods -> [Targets -> [Hours -> Records]]],
           NEW period \in {"daily", "monthly"}, NEW t \in Targets, NEW w \in Hours
    PROVE  Aggregate(period, t, w) \in Records
<1>. DEFINE src == rec[Source(period)][t]
           f == [v \in Hours |-> src[v].bytes]
<1>1. src \in [Hours -> Records]
  BY DEF Source, Periods
<1>2. \A v \in Hours : f[v] \in Nat
  BY <1>1 DEF Records
<1>3. Parts(period, w) \in SUBSET Hours
  BY DEF Parts
<1>. HIDE DEF f
<1>4. SumFunctionOnSet(f, Parts(period, w)) \in Nat
  BY <1>2, <1>3, HoursFinite, SumNat
<1>. QED BY <1>4 DEF Aggregate, f, Records

\* The types hold at the start.
LEMMA InitBounded == Init => Bounded
<1>. SUFFICES ASSUME Init PROVE Bounded
  OBVIOUS
<1>1. NoRecord \in Records /\ 0 \in Hours
  BY TrafficAssumption DEF NoRecord, Records, Hours
<1>2. hc \in HourlyCommands /\ view \in ViewerCommands /\ ag \in Aggregations
  BY <1>1, TrafficAssumption DEF Init, HourlyCommands, ViewerCommands, Aggregations,
     IdleHC, IdleView, IdleAG
<1>3. rec \in [Periods -> [Targets -> [Hours -> Records]]]
  BY <1>1 DEF Init
<1>. QED BY <1>1, <1>2, <1>3, TrafficAssumption DEF Init, Bounded, TypeOK, HourlyCommands,
           ViewerCommands, Aggregations, Hours

\* No step leaves the types.
LEMMA BoundedStep == Bounded /\ [Next]_vars => Bounded'
<1>. SUFFICES ASSUME Bounded, [Next]_vars PROVE Bounded'
  OBVIOUS
<1>old. /\ hour \in Hours /\ counter \in [Targets -> 0..MaxCarried] /\ enabled \subseteq Targets
      /\ baseline \in [Targets -> 0..MaxCarried]
      /\ rec \in [Periods -> [Targets -> [Hours -> Records]]]
      /\ hc \in HourlyCommands /\ view \in ViewerCommands /\ ag \in Aggregations
      /\ restarts \in 0..MaxRestarts /\ toggles \in 0..MaxToggles
      /\ carried \in [Targets -> 0..MaxCarried] /\ billed \in [Targets -> Nat]
      /\ added \in [Targets -> [Hours -> Nat]] /\ restarted \subseteq Targets
      /\ \A t \in Targets : counter[t] <= carried[t]
  BY DEF Bounded, TypeOK, HourlyCommands, ViewerCommands, Aggregations
<1>new. /\ hour' \in Hours /\ counter' \in [Targets -> 0..MaxCarried] /\ enabled' \subseteq Targets
      /\ baseline' \in [Targets -> 0..MaxCarried]
      /\ rec' \in [Periods -> [Targets -> [Hours -> Records]]]
      /\ hc' \in HourlyCommands /\ view' \in ViewerCommands /\ ag' \in Aggregations
      /\ restarts' \in 0..MaxRestarts /\ toggles' \in 0..MaxToggles
      /\ carried' \in [Targets -> 0..MaxCarried] /\ billed' \in [Targets -> Nat]
      /\ added' \in [Targets -> [Hours -> Nat]] /\ restarted' \subseteq Targets
      /\ (\A t \in Targets : counter'[t] <= carried'[t])
      => Bounded'
  BY DEF Bounded, TypeOK, HourlyCommands, ViewerCommands, Aggregations
<1>none. NoRecord \in Records /\ 0 \in 0..MaxCarried /\ 0 \in Hours
  BY TrafficAssumption DEF NoRecord, Records, Hours
<1>sel. ASSUME NEW S \in Selections PROVE S \in SUBSET Targets
  BY <1>old DEF Selections
<1>1. ASSUME NEW t \in Targets, Carry(t) PROVE Bounded'
  <2>1. /\ carried' \in [Targets -> 0..MaxCarried] /\ counter' \in [Targets -> 0..MaxCarried]
        /\ \A u \in Targets : counter'[u] <= carried'[u]
    BY <1>1, <1>old, TrafficAssumption DEF Carry
  <2>. QED BY <1>1, <1>old, <1>new, <2>1 DEF Carry, database
<1>2. ASSUME NEW t \in Targets, Restart(t) PROVE Bounded'
  <2>1. /\ counter' \in [Targets -> 0..MaxCarried]
        /\ \A u \in Targets : counter'[u] <= carried'[u]
        /\ restarts' \in 0..MaxRestarts
    BY <1>2, <1>old, TrafficAssumption DEF Restart
  <2>. QED BY <1>2, <1>old, <1>new, <2>1 DEF Restart, database
<1>3. ASSUME NEW t \in Targets, Toggle(t) PROVE Bounded'
  <2>1. toggles' \in 0..MaxToggles /\ enabled' \subseteq Targets
    BY <1>3, <1>old, TrafficAssumption DEF Toggle
  <2>. QED BY <1>3, <1>old, <1>new, <2>1 DEF Toggle, database
<1>4. CASE Tick
  <2>1. hour' \in Hours
    BY <1>4, <1>old, TrafficAssumption DEF Tick, Hours
  <2>. QED BY <1>4, <1>old, <1>new, <2>1 DEF Tick, database
<1>5. ASSUME NEW c \in Collectors, StartHourly(c) PROVE Bounded'
  <2>1. PICK S \in Selections, at \in 0..hour :
           hc' = [hc EXCEPT ![c] = [pc |-> "query", left |-> S, at |-> at, sample |-> 0]]
    BY <1>5 DEF StartHourly
  <2>2. at \in Hours
    BY <1>old, TrafficAssumption DEF Hours
  <2>3. hc' \in HourlyCommands
    BY <1>old, <1>none, <1>sel, <2>1, <2>2 DEF HourlyCommands
  <2>. QED BY <1>5, <1>old, <1>new, <2>3 DEF StartHourly, world, database
<1>6. ASSUME NEW c \in Collectors, Query(c) PROVE Bounded'
  <2>1. PICK t \in Turn(hc[c].left) :
           hc' = [hc EXCEPT ![c] = [@ EXCEPT !.pc = "add", !.sample = counter[t]]]
    BY <1>6 DEF Query
  <2>2. counter[t] \in 0..MaxCarried
    BY <1>old DEF Turn, HourlyCommands
  <2>3. [hc[c] EXCEPT !.pc = "add", !.sample = counter[t]]
           \in [pc : {"idle", "query", "add"}, left : SUBSET Targets, at : Hours,
                sample : 0..MaxCarried]
    BY <1>old, <2>2 DEF HourlyCommands
  <2>4. hc' \in HourlyCommands
    BY <1>old, <2>1, <2>3 DEF HourlyCommands
  <2>. QED BY <1>6, <1>old, <1>new, <2>4 DEF Query, world, database
<1>7. ASSUME NEW c \in Collectors, AddHourly(c) PROVE Bounded'
  <2>. DEFINE value == hc[c].sample
             at == hc[c].at
  <2>1. PICK t \in Turn(hc[c].left) :
           /\ rec' = IF Delta(value, baseline[t]) = 0 THEN rec
                     ELSE [rec EXCEPT !["hourly"][t][at] =
                       [bytes |-> @.bytes + Delta(value, baseline[t]),
                        reset |-> @.reset \/ value < baseline[t]]]
           /\ baseline' = [baseline EXCEPT ![t] = value]
           /\ billed' = [billed EXCEPT ![t] = @ + Delta(value, baseline[t])]
           /\ added' = [added EXCEPT ![t][at] = @ + Delta(value, baseline[t])]
           /\ hc' = [hc EXCEPT ![c] =
                IF hc[c].left \ {t} = {} THEN IdleHC
                ELSE [pc |-> "query", left |-> hc[c].left \ {t}, at |-> at, sample |-> 0]]
    BY <1>7 DEF AddHourly
  <2>2. t \in Targets /\ at \in Hours /\ value \in 0..MaxCarried /\ value \in Nat
    BY <1>old, TrafficAssumption DEF Turn, HourlyCommands
  <2>3. Delta(value, baseline[t]) \in Nat
    <3>1. baseline[t] \in Nat
      BY <1>old, <2>2, TrafficAssumption
    <3>. QED BY <2>2, <3>1 DEF Delta
  <2>4. hc' \in HourlyCommands
    BY <1>old, <1>none, <2>1, <2>2 DEF HourlyCommands, IdleHC
  <2>5. rec' \in [Periods -> [Targets -> [Hours -> Records]]]
    <3>. DEFINE new == [bytes |-> rec["hourly"][t][at].bytes + Delta(value, baseline[t]),
                       reset |-> rec["hourly"][t][at].reset \/ value < baseline[t]]
    <3>1. new \in Records
      BY <1>old, <2>2, <2>3 DEF Records, Periods
    <3>2. rec' = rec \/ rec' = [rec EXCEPT !["hourly"][t][at] = new]
      BY <2>1
    <3>. HIDE DEF new
    <3>3. [rec EXCEPT !["hourly"][t][at] = new] \in [Periods -> [Targets -> [Hours -> Records]]]
      BY <1>old, <2>2, <3>1 DEF Periods
    <3>. QED BY <1>old, <3>2, <3>3
  <2>6. /\ billed' \in [Targets -> Nat] /\ baseline' \in [Targets -> 0..MaxCarried]
        /\ added' \in [Targets -> [Hours -> Nat]]
    <3>. HIDE DEF value, at
    <3>. QED BY <1>old, <2>1, <2>2, <2>3
  <2>. QED BY <1>7, <1>old, <1>new, <2>4, <2>5, <2>6 DEF AddHourly, world
<1>8. ASSUME NEW c \in Collectors, AbortHourly(c) PROVE Bounded'
  <2>1. hc' \in HourlyCommands
    BY <1>8, <1>old, <1>none DEF AbortHourly, IdleHC, HourlyCommands
  <2>. QED BY <1>8, <1>old, <1>new, <2>1 DEF AbortHourly, world, database
<1>9. ASSUME NEW v \in Viewers, StartView(v) PROVE Bounded'
  <2>1. view' \in ViewerCommands
    BY <1>9, <1>old, <1>none, <1>sel DEF StartView, ViewerCommands
  <2>. QED BY <1>9, <1>old, <1>new, <2>1 DEF StartView, world, database
<1>10. ASSUME NEW v \in Viewers, QueryView(v) PROVE Bounded'
  <2>1. PICK t \in Turn(view[v].left) :
           view' = [view EXCEPT ![v] = [@ EXCEPT !.pc = "read", !.sample = counter[t]]]
    BY <1>10 DEF QueryView
  <2>2. counter[t] \in 0..MaxCarried
    BY <1>old DEF Turn, ViewerCommands
  <2>3. [view[v] EXCEPT !.pc = "read", !.sample = counter[t]]
           \in [pc : {"idle", "query", "read"}, left : SUBSET Targets,
                sample : 0..MaxCarried, shown : Records]
    BY <1>old, <2>2 DEF ViewerCommands
  <2>4. view' \in ViewerCommands
    BY <1>old, <2>1, <2>3 DEF ViewerCommands
  <2>. QED BY <1>10, <1>old, <1>new, <2>4 DEF QueryView, world, database
<1>11. ASSUME NEW v \in Viewers, ReadBaseline(v) PROVE Bounded'
  <2>1. PICK t \in Turn(view[v].left) :
           view' = [view EXCEPT ![v] =
                [pc |-> IF view[v].left \ {t} = {} THEN "idle" ELSE "query",
                 left |-> view[v].left \ {t}, sample |-> 0,
                 shown |-> [bytes |-> Delta(view[v].sample, baseline[t]),
                            reset |-> view[v].sample < baseline[t]]]]
    BY <1>11 DEF ReadBaseline
  <2>2. Delta(view[v].sample, baseline[t]) \in Nat
    <3>1. view[v].sample \in Nat /\ baseline[t] \in Nat
      BY <1>old, TrafficAssumption DEF Turn, ViewerCommands
    <3>. QED BY <3>1 DEF Delta
  <2>3. view' \in ViewerCommands
    BY <1>old, <1>none, <2>1, <2>2 DEF ViewerCommands, Records
  <2>. QED BY <1>11, <1>old, <1>new, <2>3 DEF ReadBaseline, world, database
<1>12. ASSUME NEW a \in Aggregators, StartAggregate(a) PROVE Bounded'
  <2>0. PICK S \in Selections, period \in {"daily", "monthly"} :
        \E w \in 0..WindowOf(period, hour) :
           ag' = [ag EXCEPT ![a] = [IdleAG EXCEPT !.pc = "list", !.period = period,
                                                  !.window = w, !.instances = S,
                                                  !.all = (S = enabled)]]
    BY <1>12 DEF StartAggregate
  <2>1. PICK w \in 0..WindowOf(period, hour) :
           ag' = [ag EXCEPT ![a] = [IdleAG EXCEPT !.pc = "list", !.period = period,
                                                  !.window = w, !.instances = S,
                                                  !.all = (S = enabled)]]
    BY <2>0
  <2>2. w \in Hours
    <3>1. WindowOf(period, hour) \in Hours
      BY <1>old, WindowIsHour DEF Periods
    <3>. QED BY <3>1, TrafficAssumption DEF Hours
  <2>3. ag' \in Aggregations
    BY <1>old, <1>none, <1>sel, <2>1, <2>2 DEF Aggregations, IdleAG
  <2>. QED BY <1>12, <1>old, <1>new, <2>3 DEF StartAggregate, world, database
<1>13. ASSUME NEW a \in Aggregators, ListSources(a) PROVE Bounded'
  <2>. DEFINE sums == [t \in Targets |-> IF t \in ag[a].instances
                        THEN Aggregate(ag[a].period, t, ag[a].window) ELSE NoRecord]
  <2>1. sums \in [Targets -> Records]
    BY <1>old, <1>none, AggregateType DEF Aggregations
  <2>2. ag' = [ag EXCEPT ![a].pc = "replace", ![a].sums = sums]
    BY <1>13 DEF ListSources
  <2>. HIDE DEF sums
  <2>3. ag' \in Aggregations
    <3>1. ag' = [ag EXCEPT ![a] = [ag[a] EXCEPT !.pc = "replace", !.sums = sums]]
      BY <1>old, <2>2 DEF Aggregations
    <3>2. [ag[a] EXCEPT !.pc = "replace", !.sums = sums]
             \in [pc : {"idle", "list", "replace"}, period : {"daily", "monthly"},
                  window : Hours, all : BOOLEAN, instances : SUBSET Targets,
                  sums : [Targets -> Records]]
      BY <1>old, <2>1 DEF Aggregations
    <3>. QED BY <1>old, <3>1, <3>2 DEF Aggregations
  <2>. QED BY <1>13, <1>old, <1>new, <2>3 DEF ListSources, world, database
<1>14. ASSUME NEW a \in Aggregators, ReplaceWindow(a) PROVE Bounded'
  <2>1. rec' \in [Periods -> [Targets -> [Hours -> Records]]]
    BY <1>14, <1>old DEF ReplaceWindow, Aggregations, Periods
  <2>2. ag' \in Aggregations
    BY <1>14, <1>old, <1>none DEF ReplaceWindow, Aggregations, IdleAG
  <2>. QED BY <1>14, <1>old, <1>new, <2>1, <2>2 DEF ReplaceWindow, world
<1>15. ASSUME NEW a \in Aggregators, AbortAggregate(a) PROVE Bounded'
  <2>1. ag' \in Aggregations
    BY <1>15, <1>old, <1>none DEF AbortAggregate, Aggregations, IdleAG
  <2>. QED BY <1>15, <1>old, <1>new, <2>1 DEF AbortAggregate, world, database
<1>16. ASSUME NEW p \in Periods, Cleanup(p) PROVE Bounded'
  <2>1. rec' \in [Periods -> [Targets -> [Hours -> Records]]]
    BY <1>16, <1>old, <1>none DEF Cleanup
  <2>. QED BY <1>16, <1>old, <1>new, <2>1 DEF Cleanup, world
<1>17. CASE UNCHANGED vars
  BY <1>17, <1>old, <1>new DEF vars, world, database
<1>. QED
  BY <1>1, <1>2, <1>3, <1>4, <1>5, <1>6, <1>7, <1>8, <1>9, <1>10, <1>11, <1>12, <1>13, <1>14,
     <1>15, <1>16, <1>17 DEF Next

-----------------------------------------------------------------------------
(* The inductive invariant *)

\* The types of what the accounting depends on.
Counters ==
    /\ counter \in [Targets -> Nat] /\ baseline \in [Targets -> Nat]
    /\ carried \in [Targets -> Nat] /\ billed \in [Targets -> Nat]
    /\ enabled \subseteq Targets /\ restarted \subseteq Targets
    /\ hour \in Hours

Commands ==
    /\ hc \in [Collectors -> [pc : {"idle", "query", "add"}, left : SUBSET Targets,
                              at : Hours, sample : Nat]]
    /\ view \in [Viewers -> [pc : {"idle", "query", "read"}, left : SUBSET Targets,
                             sample : Nat, shown : Records]]
    /\ DOMAIN ag = Aggregators
    /\ \A a \in Aggregators : "period" \in DOMAIN ag[a] /\ ag[a].period \in {"daily", "monthly"}

Hourly ==
    /\ DOMAIN rec = Periods
    /\ rec["hourly"] \in [Targets -> [Hours -> Records]]

\* Collector c holds a sample of t that it has yet to add.
Holds(c, t) == hc[c].pc = "add" /\ t \in Turn(hc[c].left)

\* Viewer v holds a sample of t and is about to read the baseline.
Reads(v, t) == view[v].pc = "read" /\ t \in Turn(view[v].left)

\* What is billed and what is still to be billed do not exceed what was
\* carried, whether the sample in flight is used or lost.
Pending ==
    \A t \in Targets :
        /\ billed[t] + Delta(counter[t], baseline[t]) <= carried[t]
        /\ \A c \in Collectors : Holds(c, t) =>
              billed[t] + Delta(hc[c].sample, baseline[t]) + Delta(counter[t], hc[c].sample)
                  <= carried[t]

\* Without a restart the baseline, the sample and the counter are in order.
Ordered ==
    \A t \in Targets \ restarted :
        /\ baseline[t] <= counter[t]
        /\ \A c \in Collectors : Holds(c, t) =>
              baseline[t] <= hc[c].sample /\ hc[c].sample <= counter[t]
        /\ \A v \in Viewers : Reads(v, t) => view[v].sample <= counter[t]

TypeInv == Counters /\ Commands /\ Hourly

AccountInv == TypeInv /\ Pending /\ Ordered /\ NothingLost /\ ResetIsRestart

-----------------------------------------------------------------------------

\* The accounts balance before any traffic.
LEMMA InitAccount == Init => AccountInv
<1>1. Init => TypeInv
  BY TrafficAssumption DEF Init, TypeInv, Counters, Commands, Hourly, Hours, Periods, Records,
     NoRecord, IdleHC, IdleView, IdleAG
<1>2. Init => Pending /\ Ordered /\ NothingLost /\ ResetIsRestart
  BY DEF Init, Pending, Ordered, NothingLost, ResetIsRestart, Holds, Reads, Delta, IdleHC, IdleView,
     Periods, NoRecord
<1>. QED  BY <1>1, <1>2 DEF AccountInv

\* What is typed by a bound is typed.
LEMMA BoundedTypes == Bounded => TypeInv
<1>. SUFFICES ASSUME Bounded PROVE TypeInv
  OBVIOUS
<1>1. 0..MaxCarried \subseteq Nat
  BY TrafficAssumption
<1>2. Counters
  BY <1>1 DEF Bounded, TypeOK, Counters
<1>3. Commands
  <2>1. hc \in [Collectors -> [pc : {"idle", "query", "add"}, left : SUBSET Targets,
                               at : Hours, sample : Nat]]
    BY <1>1 DEF Bounded, TypeOK
  <2>2. view \in [Viewers -> [pc : {"idle", "query", "read"}, left : SUBSET Targets,
                              sample : Nat, shown : Records]]
    BY <1>1 DEF Bounded, TypeOK
  <2>3. ag \in Aggregations
    BY DEF Bounded, TypeOK, Aggregations
  <2>. QED  BY <2>1, <2>2, <2>3 DEF Commands, Aggregations
<1>4. Hourly
  BY DEF Bounded, TypeOK, Hourly, Periods
<1>. QED  BY <1>2, <1>3, <1>4 DEF TypeInv

-----------------------------------------------------------------------------
(* A step that takes no sample, adds nothing and leaves the instances alone *)

Aside ==
    /\ UNCHANGED <<counter, baseline, carried, billed, restarted>>
    /\ \A t \in Targets, h \in Hours :
          rec'["hourly"][t][h].reset => rec["hourly"][t][h].reset
    /\ \A c \in Collectors, t \in Targets :
          Holds(c, t)' => Holds(c, t) /\ hc'[c].sample = hc[c].sample
    /\ \A v \in Viewers, t \in Targets :
          Reads(v, t)' => Reads(v, t) /\ view'[v].sample = view[v].sample

\* A step that touches neither counters, baselines, hourly records nor samples
\* keeps the accounts.
LEMMA AsideKeeps == AccountInv /\ TypeInv' /\ Aside => AccountInv'
<1>. SUFFICES ASSUME AccountInv, TypeInv', Aside PROVE AccountInv'
  OBVIOUS
<1>. USE DEF AccountInv, Aside
<1>1. Pending'
  BY DEF Pending
<1>2. Ordered'
  BY DEF Ordered
<1>3. NothingLost' /\ ResetIsRestart'
  BY DEF NothingLost, ResetIsRestart
<1>. QED  BY <1>1, <1>2, <1>3

\* The clock and edits of the configuration are such steps.
LEMMA AsideWorld ==
    ASSUME TypeInv, UNCHANGED <<counter, carried, restarted, database, hc, view>> PROVE Aside
  BY DEF Aside, database, Holds, Reads

\* So are the start and the end of a collection.
LEMMA AsideCollector ==
    ASSUME TypeInv, NEW c \in Collectors, StartHourly(c) \/ AbortHourly(c) PROVE Aside
<1>1. hc'[c].pc # "add" /\ \A d \in Collectors : d # c => hc'[d] = hc[d]
  <2>1. CASE StartHourly(c)
    BY <2>1 DEF StartHourly, TypeInv, Commands
  <2>2. CASE AbortHourly(c)
    BY <2>2 DEF AbortHourly, TypeInv, Commands, IdleHC
  <2>. QED  BY <2>1, <2>2
<1>2. UNCHANGED <<world, database, view>>
  BY DEF StartHourly, AbortHourly
<1>. QED  BY <1>1, <1>2 DEF Aside, Holds, Reads, world, database

\* So are those of a viewer that takes no sample.
LEMMA AsideViewer ==
    ASSUME TypeInv, NEW v \in Viewers, StartView(v) \/ ReadBaseline(v) PROVE Aside
<1>1. view'[v].pc # "read" /\ \A u \in Viewers : u # v => view'[u] = view[u]
  <2>1. CASE StartView(v)
    BY <2>1 DEF StartView, TypeInv, Commands
  <2>2. CASE ReadBaseline(v)
    BY <2>2 DEF ReadBaseline, TypeInv, Commands
  <2>. QED  BY <2>1, <2>2
<1>2. UNCHANGED <<world, database, hc>>
  BY DEF StartView, ReadBaseline
<1>. QED  BY <1>1, <1>2 DEF Aside, Holds, Reads, world, database

\* So are aggregation and cleanup, as far as the hours are concerned.
LEMMA AsideRecords ==
    ASSUME TypeInv, (\E a \in Aggregators : ReplaceWindow(a)) \/ (\E p \in Periods : Cleanup(p))
    PROVE  Aside
<1>1. ASSUME NEW a \in Aggregators, ReplaceWindow(a) PROVE Aside
  <2>1. rec'["hourly"] = rec["hourly"]
    BY <1>1 DEF ReplaceWindow, TypeInv, Commands, Hourly, Periods
  <2>. QED  BY <1>1, <2>1 DEF ReplaceWindow, Aside, Holds, Reads, world
<1>2. ASSUME NEW p \in Periods, Cleanup(p) PROVE Aside
  <2>1. ASSUME NEW t \in Targets, NEW h \in Hours, rec'["hourly"][t][h].reset
        PROVE  rec["hourly"][t][h].reset
    <3>1. CASE p = "hourly"
      BY <1>2, <2>1, <3>1 DEF Cleanup, NoRecord, TypeInv, Hourly, Periods
    <3>2. CASE p # "hourly"
      BY <1>2, <2>1, <3>2 DEF Cleanup, TypeInv, Hourly, Periods
    <3>. QED  BY <3>1, <3>2
  <2>. QED  BY <1>2, <2>1 DEF Cleanup, Aside, Holds, Reads, world
<1>. QED  BY <1>1, <1>2

-----------------------------------------------------------------------------
(* The steps that do something to the account *)

\* A byte carried is a byte more to bill at most.
LEMMA CarryKeeps ==
    ASSUME AccountInv, TypeInv', NEW t \in Targets, Carry(t) PROVE AccountInv'
<1>. USE DEF AccountInv, TypeInv, Counters, Holds, Reads
<1>1. /\ counter'[t] = counter[t] + 1 /\ carried'[t] = carried[t] + 1
      /\ \A u \in Targets : u # t => counter'[u] = counter[u] /\ carried'[u] = carried[u]
      /\ UNCHANGED <<baseline, billed, restarted, rec, hc, view>>
  BY DEF Carry, database
<1>2. ASSUME NEW n \in Nat PROVE Delta(counter'[t], n) <= Delta(counter[t], n) + 1
                              /\ Delta(counter'[t], n) \in Nat /\ Delta(counter[t], n) \in Nat
  BY <1>1, DeltaStep, DeltaNat
<1>3. Pending'
  <2>1. ASSUME NEW u \in Targets
        PROVE  billed'[u] + Delta(counter'[u], baseline'[u]) <= carried'[u]
    <3>1. billed[u] + Delta(counter[u], baseline[u]) <= carried[u]
      BY DEF Pending
    <3>. QED  BY <3>1, <1>1, <1>2
  <2>2. ASSUME NEW u \in Targets, NEW c \in Collectors, Holds(c, u)'
        PROVE  billed'[u] + Delta(hc'[c].sample, baseline'[u]) + Delta(counter'[u], hc'[c].sample)
                  <= carried'[u]
    <3>1. billed[u] + Delta(hc[c].sample, baseline[u]) + Delta(counter[u], hc[c].sample)
             <= carried[u]
      BY <1>1, <2>2 DEF Pending
    <3>2. hc[c].sample \in Nat
      BY DEF Commands
    <3>3. Delta(hc[c].sample, baseline[u]) \in Nat
      BY <3>2, DeltaNat
    <3>. QED  BY <3>1, <3>2, <3>3, <1>1, <1>2
  <2>. QED  BY <2>1, <2>2 DEF Pending
<1>4. Ordered'
  <2>1. \A c \in Collectors : hc[c].sample \in Nat
    BY DEF Commands
  <2>2. \A v \in Viewers : view[v].sample \in Nat
    BY DEF Commands
  <2>. QED  BY <1>1, <2>1, <2>2 DEF Ordered
<1>5. NothingLost' /\ ResetIsRestart'
  BY <1>1 DEF NothingLost, ResetIsRestart, Ordered
<1>. QED  BY <1>3, <1>4, <1>5

\* A restart loses bytes and invents none.
LEMMA RestartKeeps ==
    ASSUME AccountInv, TypeInv', NEW t \in Targets, Restart(t) PROVE AccountInv'
<1>. USE DEF AccountInv, TypeInv, Counters, Holds, Reads
<1>1. /\ counter'[t] = 0 /\ restarted' = restarted \cup {t}
      /\ \A u \in Targets : u # t => counter'[u] = counter[u]
      /\ UNCHANGED <<baseline, carried, billed, rec, hc, view>>
  BY DEF Restart, database
<1>2. ASSUME NEW n \in Nat PROVE Delta(counter'[t], n) = 0 /\ Delta(counter[t], n) \in Nat
  BY <1>1, DeltaZero, DeltaNat
<1>3. Pending'
  <2>1. ASSUME NEW u \in Targets
        PROVE  billed'[u] + Delta(counter'[u], baseline'[u]) <= carried'[u]
    <3>1. billed[u] + Delta(counter[u], baseline[u]) <= carried[u]
      BY DEF Pending
    <3>. QED  BY <3>1, <1>1, <1>2
  <2>2. ASSUME NEW u \in Targets, NEW c \in Collectors, Holds(c, u)'
        PROVE  billed'[u] + Delta(hc'[c].sample, baseline'[u]) + Delta(counter'[u], hc'[c].sample)
                  <= carried'[u]
    <3>1. billed[u] + Delta(hc[c].sample, baseline[u]) + Delta(counter[u], hc[c].sample)
             <= carried[u]
      BY <1>1, <2>2 DEF Pending
    <3>2. hc[c].sample \in Nat
      BY DEF Commands
    <3>3. Delta(hc[c].sample, baseline[u]) \in Nat
      BY <3>2, DeltaNat
    <3>. QED  BY <3>1, <3>2, <3>3, <1>1, <1>2
  <2>. QED  BY <2>1, <2>2 DEF Pending
<1>4. Ordered' /\ NothingLost' /\ ResetIsRestart'
  BY <1>1 DEF Ordered, NothingLost, ResetIsRestart
<1>. QED  BY <1>3, <1>4

\* A sample is taken: nothing has been carried since.
LEMMA QueryKeeps ==
    ASSUME AccountInv, TypeInv', NEW c \in Collectors, Query(c) PROVE AccountInv'
<1>. USE DEF AccountInv, TypeInv, Counters
<1>1. PICK t \in Turn(hc[c].left) :
         hc' = [hc EXCEPT ![c] = [@ EXCEPT !.pc = "add", !.sample = counter[t]]]
  BY DEF Query
<1>2. t \in Targets /\ hc[c].left \in SUBSET Targets
  BY DEF Turn, Commands
<1>3. /\ hc'[c].sample = counter[t] /\ hc'[c].left = hc[c].left
      /\ \A d \in Collectors : d # c => hc'[d] = hc[d]
  BY <1>1 DEF Commands
<1>4. ASSUME NEW u \in Targets, Holds(c, u)' PROVE u = t
  BY <1>1, <1>2, <1>3, <1>4, TurnUnique DEF Holds
<1>5. UNCHANGED <<counter, baseline, carried, billed, restarted, rec, view>>
  BY DEF Query, world, database
<1>6. Pending'
  <2>1. ASSUME NEW u \in Targets, NEW d \in Collectors, Holds(d, u)'
        PROVE  billed[u] + Delta(hc'[d].sample, baseline[u]) + Delta(counter[u], hc'[d].sample)
                  <= carried[u]
    <3>1. CASE d = c
      <4>1. u = t
        BY <2>1, <3>1, <1>4
      <4>2. Delta(counter[t], counter[t]) = 0 /\ Delta(counter[t], baseline[t]) \in Nat
        BY <1>2, DeltaZero, DeltaNat
      <4>3. billed[t] + Delta(counter[t], baseline[t]) <= carried[t]
        BY <1>2 DEF Pending
      <4>. QED  BY <1>2, <1>3, <3>1, <4>1, <4>2, <4>3
    <3>2. CASE d # c
      BY <2>1, <3>2, <1>3 DEF Pending, Holds
    <3>. QED  BY <3>1, <3>2
  <2>. QED  BY <2>1, <1>5 DEF Pending
<1>7. Ordered'
  <2>1. ASSUME NEW u \in Targets \ restarted, NEW d \in Collectors, Holds(d, u)'
        PROVE  baseline[u] <= hc'[d].sample /\ hc'[d].sample <= counter[u]
    <3>1. CASE d = c
      BY <2>1, <3>1, <1>2, <1>3, <1>4 DEF Ordered
    <3>2. CASE d # c
      BY <2>1, <3>2, <1>3 DEF Ordered, Holds
    <3>. QED  BY <3>1, <3>2
  <2>. QED  BY <2>1, <1>5 DEF Ordered, Reads
<1>8. NothingLost' /\ ResetIsRestart'
  BY <1>5 DEF NothingLost, ResetIsRestart
<1>. QED  BY <1>6, <1>7, <1>8

\* A sample of a viewer is bounded by the counter it was taken from.
LEMMA QueryViewKeeps ==
    ASSUME AccountInv, TypeInv', NEW v \in Viewers, QueryView(v) PROVE AccountInv'
<1>. USE DEF AccountInv, TypeInv, Counters
<1>1. PICK t \in Turn(view[v].left) :
         view' = [view EXCEPT ![v] = [@ EXCEPT !.pc = "read", !.sample = counter[t]]]
  BY DEF QueryView
<1>2. t \in Targets /\ view[v].left \in SUBSET Targets
  BY DEF Turn, Commands
<1>3. /\ view'[v].sample = counter[t] /\ view'[v].left = view[v].left
      /\ \A u \in Viewers : u # v => view'[u] = view[u]
  BY <1>1 DEF Commands
<1>4. ASSUME NEW u \in Targets, Reads(v, u)' PROVE u = t
  BY <1>1, <1>2, <1>3, <1>4, TurnUnique DEF Reads
<1>5. UNCHANGED <<counter, baseline, carried, billed, restarted, rec, hc>>
  BY DEF QueryView, world, database
<1>6. Ordered'
  <2>1. ASSUME NEW u \in Targets \ restarted, NEW w \in Viewers, Reads(w, u)'
        PROVE  view'[w].sample <= counter[u]
    <3>1. CASE w = v
      BY <2>1, <3>1, <1>2, <1>3, <1>4
    <3>2. CASE w # v
      BY <2>1, <3>2, <1>3 DEF Ordered, Reads
    <3>. QED  BY <3>1, <3>2
  <2>. QED  BY <2>1, <1>5 DEF Ordered, Holds
<1>7. Pending' /\ NothingLost' /\ ResetIsRestart'
  BY <1>5 DEF Pending, Holds, NothingLost, ResetIsRestart
<1>. QED  BY <1>6, <1>7

\* The sample in flight becomes the baseline.  With a second collector its own
\* sample could by now be older than the baseline.
LEMMA AddKeeps ==
    ASSUME OneCollector, AccountInv, TypeInv', NEW c \in Collectors, AddHourly(c)
    PROVE  AccountInv'
<1>. USE DEF AccountInv, TypeInv, Counters
<1>. DEFINE value == hc[c].sample
            at == hc[c].at
<1>1. PICK t \in Turn(hc[c].left) :
         /\ rec' = IF Delta(value, baseline[t]) = 0 THEN rec
                   ELSE [rec EXCEPT !["hourly"][t][at] =
                          [bytes |-> @.bytes + Delta(value, baseline[t]),
                           reset |-> @.reset \/ value < baseline[t]]]
         /\ baseline' = [baseline EXCEPT ![t] = value]
         /\ billed' = [billed EXCEPT ![t] = @ + Delta(value, baseline[t])]
         /\ hc' = [hc EXCEPT ![c] =
              IF hc[c].left \ {t} = {} THEN IdleHC
              ELSE [pc |-> "query", left |-> hc[c].left \ {t}, at |-> at, sample |-> 0]]
  BY DEF AddHourly
<1>2. /\ t \in Targets /\ Holds(c, t) /\ value \in Nat /\ at \in Hours
      /\ Delta(value, baseline[t]) \in Nat
  BY DeltaNat DEF AddHourly, Turn, Holds, Commands
<1>3. /\ baseline'[t] = value /\ billed'[t] = billed[t] + Delta(value, baseline[t])
      /\ \A u \in Targets : u # t => baseline'[u] = baseline[u] /\ billed'[u] = billed[u]
  BY <1>1, <1>2
<1>4. UNCHANGED <<counter, carried, restarted, view>>
  BY DEF AddHourly, world
<1>5. \A d \in Collectors, u \in Targets : ~Holds(d, u)'
  <2>1. hc'[c].pc # "add"
    BY <1>1 DEF Commands, IdleHC
  <2>. QED  BY <2>1 DEF OneCollector, Holds
<1>6. Pending'
  <2>1. billed[t] + Delta(value, baseline[t]) + Delta(counter[t], value) <= carried[t]
    BY <1>2 DEF Pending
  <2>. QED  BY <2>1, <1>2, <1>3, <1>4, <1>5 DEF Pending
<1>7. t \notin restarted => baseline[t] <= value /\ value <= counter[t]
  BY <1>2 DEF Ordered
<1>8. Ordered'
  BY <1>2, <1>3, <1>4, <1>5, <1>7 DEF Ordered, Reads
<1>9. NothingLost'
  <2>1. t \notin restarted => Delta(value, baseline[t]) = value - baseline[t]
    BY <1>2, <1>7 DEF Delta
  <2>. QED  BY <2>1, <1>2, <1>3, <1>4, <1>7 DEF NothingLost
<1>10. ResetIsRestart'
  <2>1. ASSUME NEW u \in Targets, NEW h \in Hours, rec'["hourly"][u][h].reset
        PROVE  u \in restarted
    <3>1. CASE u = t /\ h = at /\ Delta(value, baseline[t]) # 0
      <4>1. rec'["hourly"][t][at].reset = (rec["hourly"][t][at].reset \/ value < baseline[t])
        BY <1>1, <1>2, <3>1 DEF Hourly, Periods
      <4>2. CASE value < baseline[t]
        <5>1. baseline[t] \in Nat
          BY <1>2
        <5>. QED  BY <5>1, <4>2, <3>1, <1>2, <1>7
      <4>3. CASE ~(value < baseline[t])
        <5>1. rec["hourly"][t][at].reset
          BY <4>1, <4>3, <2>1, <3>1, Zenon
        <5>. QED  BY <5>1, <3>1, <1>2 DEF ResetIsRestart
      <4>. QED  BY <4>2, <4>3
    <3>2. CASE ~(u = t /\ h = at /\ Delta(value, baseline[t]) # 0)
      <4>1. rec'["hourly"][u][h] = rec["hourly"][u][h]
        BY <1>1, <1>2, <3>2 DEF Hourly, Periods
      <4>. QED  BY <4>1, <2>1 DEF ResetIsRestart
    <3>. QED  BY <3>1, <3>2
  <2>. QED  BY <2>1, <1>4 DEF ResetIsRestart
<1>. QED  BY <1>6, <1>8, <1>9, <1>10

\* Every step keeps the accounts, one collector running.
LEMMA AccountStep ==
    OneCollector /\ Bounded /\ Bounded' /\ AccountInv /\ [Next]_vars => AccountInv'
<1>. SUFFICES ASSUME OneCollector, Bounded, Bounded', AccountInv, [Next]_vars PROVE AccountInv'
  OBVIOUS
<1>1. TypeInv /\ TypeInv'
  BY BoundedTypes, PTL
<1>2. ASSUME NEW t \in Targets, Carry(t) \/ Restart(t) PROVE AccountInv'
  BY <1>1, <1>2, CarryKeeps, RestartKeeps
<1>3. ASSUME UNCHANGED <<counter, carried, restarted, database, hc, view>> PROVE AccountInv'
  BY <1>1, <1>3, AsideWorld, AsideKeeps
<1>4. ASSUME NEW t \in Targets, Toggle(t) PROVE AccountInv'
  BY <1>3, <1>4 DEF Toggle
<1>5. CASE Tick
  BY <1>3, <1>5 DEF Tick
<1>6. ASSUME NEW c \in Collectors, StartHourly(c) \/ AbortHourly(c) PROVE AccountInv'
  BY <1>1, <1>6, AsideCollector, AsideKeeps
<1>7. ASSUME NEW c \in Collectors, Query(c) \/ AddHourly(c) PROVE AccountInv'
  BY <1>1, <1>7, QueryKeeps, AddKeeps
<1>8. ASSUME NEW v \in Viewers, StartView(v) \/ ReadBaseline(v) PROVE AccountInv'
  BY <1>1, <1>8, AsideViewer, AsideKeeps
<1>9. ASSUME NEW v \in Viewers, QueryView(v) PROVE AccountInv'
  BY <1>1, <1>9, QueryViewKeeps
<1>10. ASSUME NEW a \in Aggregators, StartAggregate(a) \/ ListSources(a) \/ AbortAggregate(a)
       PROVE  AccountInv'
  BY <1>3, <1>10 DEF StartAggregate, ListSources, AbortAggregate, world
<1>11. ASSUME (\E a \in Aggregators : ReplaceWindow(a)) \/ (\E p \in Periods : Cleanup(p))
       PROVE  AccountInv'
  BY <1>1, <1>11, AsideRecords, AsideKeeps
<1>12. CASE UNCHANGED vars
  BY <1>3, <1>12 DEF vars, world
<1>. QED
  BY <1>2, <1>4, <1>5, <1>6, <1>7, <1>8, <1>9, <1>10, <1>11, <1>12 DEF Next

-----------------------------------------------------------------------------
(* What the records claim *)

\* What the hours of a set were ever given.
Given(t, S) == SumFunctionOnSet(added[t], S)

\* The sums an aggregator is about to write claim no more than that either.
SumsNeverInvent ==
    \A a \in Aggregators, t \in Targets : ag[a].pc = "replace" =>
        ag[a].sums[t].bytes <= Given(t, HoursOf(ag[a].period, ag[a].window))

ClaimsInv == RecordsNeverInvent /\ SumsNeverInvent

\* What the steps about the records use of the types.
Recorded ==
    /\ rec \in [Periods -> [Targets -> [Hours -> Records]]]
    /\ ag \in Aggregations
    /\ billed \in [Targets -> Nat]
    /\ added \in [Targets -> [Hours -> Nat]]

\* The types give those of the records and of the aggregators.
LEMMA BoundedRecorded == Bounded => Recorded
BY DEF Bounded, TypeOK, Recorded, Aggregations

\* What a set of hours was given is a number.
LEMMA GivenNat ==
    ASSUME Recorded, NEW t \in Targets PROVE \A S \in SUBSET Hours : Given(t, S) \in Nat
<1>1. \A h \in Hours : added[t][h] \in Nat
  BY DEF Recorded
<1>. QED  BY <1>1, HoursFinite, SumNat DEF Given

\* The hours of a day or a month are those of its parts, and no two parts
\* share one.
LEMMA HoursOfParts ==
    ASSUME NEW period \in {"daily", "monthly"}, NEW w \in Hours
    PROVE  /\ Parts(period, w) \in SUBSET Hours
           /\ \A v \in Hours : HoursOf(Source(period), v) \in SUBSET Hours
           /\ \A v, u \in Hours : v # u =>
                 HoursOf(Source(period), v) \cap HoursOf(Source(period), u) = {}
           /\ UNION {HoursOf(Source(period), v) : v \in Parts(period, w)} = HoursOf(period, w)
<1>1. \A h \in Hours : WindowOf(Source(period), h) \in Hours
  BY WindowIsHour DEF Source, Periods
<1>2. \A h \in Hours : WindowOf(Source(period), h) \in Parts(period, w)
                           <=> WindowOf(period, h) = w
  BY <1>1 DEF Parts, WindowOf, Source, MonthOf, DayOf
<1>3. UNION {HoursOf(Source(period), v) : v \in Parts(period, w)} = HoursOf(period, w)
  BY <1>2 DEF HoursOf
<1>. QED  BY <1>3 DEF Parts, HoursOf

\* A sum over the parts claims no more than the parts do.
LEMMA AggregateClaims ==
    ASSUME Recorded, RecordsNeverInvent, NEW period \in {"daily", "monthly"},
           NEW t \in Targets, NEW w \in Hours
    PROVE  Aggregate(period, t, w).bytes <= Given(t, HoursOf(period, w))
<1>. DEFINE src == rec[Source(period)][t]
            f == [v \in Hours |-> src[v].bytes]
            part == [v \in Hours |-> HoursOf(Source(period), v)]
            P == Parts(period, w)
            given == added[t]
<1>1. src \in [Hours -> Records] /\ Source(period) \in Periods
  BY DEF Source, Periods, Recorded
<1>2. \A v \in P : /\ f[v] \in Nat /\ part[v] \in SUBSET Hours
                   /\ f[v] <= SumFunctionOnSet(given, part[v])
                   /\ \A u \in P : u # v => part[v] \cap part[u] = {}
  BY <1>1, HoursOfParts DEF RecordsNeverInvent, Records
<1>3. \A h \in Hours : given[h] \in Nat
  BY DEF Recorded
<1>4. IsFiniteSet(P)
  BY HoursFinite, HoursOfParts, FS_Subset
<1>5. UNION {part[v] : v \in P} = HoursOf(period, w)
  <2>1. P \in SUBSET Hours
    BY HoursOfParts
  <2>2. {part[v] : v \in P} = {HoursOf(Source(period), v) : v \in P}
    <3>1. \A v \in P : part[v] = HoursOf(Source(period), v)
      BY <2>1
    <3>. HIDE DEF part, P
    <3>. QED  BY <3>1
  <2>. HIDE DEF part
  <2>. QED  BY <2>2, HoursOfParts
<1>6. Aggregate(period, t, w).bytes = SumFunctionOnSet(f, P)
  BY DEF Aggregate
<1>. HIDE DEF f, part, P, given
<1>7. SumFunctionOnSet(f, P) <= SumFunctionOnSet(given, UNION {part[v] : v \in P})
  BY <1>2, <1>3, <1>4, HoursFinite, SumOfParts
<1>. QED  BY <1>5, <1>6, <1>7 DEF Given, given

\* A step that gives the hours nothing, writes no record and takes no sums.
LEMMA ClaimsStay ==
    ASSUME Recorded, Recorded', ClaimsInv, UNCHANGED <<added, billed>>,
           \A p \in Periods, t \in Targets, w \in Hours :
              rec'[p][t][w].bytes <= rec[p][t][w].bytes,
           \A a \in Aggregators : ag'[a].pc = "replace" => ag'[a] = ag[a]
    PROVE  ClaimsInv'
<1>1. ASSUME NEW t \in Targets, NEW S PROVE Given(t, S)' = Given(t, S)
  BY DEF Given
<1>2. ASSUME NEW p \in Periods, NEW w \in Hours PROVE HoursOf(p, w) \in SUBSET Hours
  BY DEF HoursOf
<1>3. RecordsNeverInvent'
  <2>1. ASSUME NEW t \in Targets, NEW p \in Periods, NEW w \in Hours
        PROVE  rec'[p][t][w].bytes <= Given(t, HoursOf(p, w))
    <3>1. /\ rec'[p][t][w].bytes \in Nat /\ rec[p][t][w].bytes \in Nat
          /\ Given(t, HoursOf(p, w)) \in Nat
      BY <1>2, GivenNat DEF Recorded, Records
    <3>2. rec[p][t][w].bytes <= Given(t, HoursOf(p, w))
      BY DEF ClaimsInv, RecordsNeverInvent, Given
    <3>3. rec'[p][t][w].bytes <= rec[p][t][w].bytes
      OBVIOUS
    <3>. QED  BY <3>1, <3>2, <3>3
  <2>2. \A t \in Targets : SumFunctionOnSet(added[t], Hours) = billed[t]
    BY DEF ClaimsInv, RecordsNeverInvent
  <2>. QED  BY <2>1, <2>2 DEF RecordsNeverInvent, Given
<1>4. SumsNeverInvent'
  BY DEF ClaimsInv, SumsNeverInvent, Given
<1>. QED  BY <1>3, <1>4 DEF ClaimsInv

\* A collection gives the hour the delta it bills and records.
LEMMA AddClaims ==
    ASSUME Bounded, Recorded', ClaimsInv, NEW c \in Collectors, AddHourly(c)
    PROVE  ClaimsInv'
<1>. DEFINE value == hc[c].sample
            at == hc[c].at
<1>1. PICK t \in Turn(hc[c].left) :
         /\ rec' = IF Delta(value, baseline[t]) = 0 THEN rec
                   ELSE [rec EXCEPT !["hourly"][t][at] =
                          [bytes |-> @.bytes + Delta(value, baseline[t]),
                           reset |-> @.reset \/ value < baseline[t]]]
         /\ billed' = [billed EXCEPT ![t] = @ + Delta(value, baseline[t])]
         /\ added' = [added EXCEPT ![t][at] = @ + Delta(value, baseline[t])]
  BY DEF AddHourly
<1>. DEFINE delta == Delta(value, baseline[t])
<1>2. /\ t \in Targets /\ at \in Hours /\ delta \in Nat
  <2>1. t \in Targets /\ at \in Hours /\ value \in Nat
    BY TrafficAssumption DEF Turn, Bounded, TypeOK
  <2>2. baseline[t] \in Nat
    BY <2>1, TrafficAssumption DEF Bounded, TypeOK
  <2>. QED  BY <2>1, <2>2 DEF Delta
<1>3. Recorded
  BY BoundedRecorded
<1>4. /\ \A u \in Targets : u # t => added'[u] = added[u] /\ billed'[u] = billed[u]
      /\ added'[t][at] = added[t][at] + delta /\ billed'[t] = billed[t] + delta
      /\ \A h \in Hours : h # at => added'[t][h] = added[t][h]
  <2>. HIDE DEF delta, at
  <2>. QED  BY <1>1, <1>2, <1>3 DEF Recorded, delta, at
<1>5. \A u \in Targets, h \in Hours :
         added[u][h] \in Nat /\ added'[u][h] \in Nat /\ added[u][h] <= added'[u][h]
  <2>1. ASSUME NEW u \in Targets, NEW h \in Hours
        PROVE  added[u][h] \in Nat /\ added'[u][h] \in {added[u][h], added[u][h] + delta}
    <3>. HIDE DEF delta, at
    <3>. QED  BY <1>3, <1>4 DEF Recorded
  <2>2. \A m, n \in Nat : m + n \in Nat /\ m <= m + n /\ m <= m
    OBVIOUS
  <2>. HIDE DEF delta
  <2>. QED  BY <1>2, <2>1, <2>2
<1>6. ASSUME NEW u \in Targets, NEW S \in SUBSET Hours
      PROVE  Given(u, S) <= Given(u, S)'
  <2>1. \A h \in S : added[u][h] \in Nat /\ added'[u][h] \in Nat /\ added[u][h] <= added'[u][h]
    BY <1>5
  <2>2. IsFiniteSet(S)
    BY HoursFinite, FS_Subset
  <2>. QED  BY <2>1, <2>2, SumMonotone DEF Given
<1>7. ASSUME NEW S \in SUBSET Hours, at \in S PROVE Given(t, S)' = Given(t, S) + delta
  <2>1. IsFiniteSet(S)
    BY HoursFinite, FS_Subset
  <2>2. /\ \A h \in S : added[t][h] \in Nat
        /\ added'[t][at] = added[t][at] + delta
        /\ \A h \in S : h # at => added'[t][h] = added[t][h]
    BY <1>2, <1>4, <1>5
  <2>. HIDE DEF delta, at
  <2>. QED  BY <1>2, <1>7, <2>1, <2>2, SumAdd DEF Given
<1>8. \A p \in Periods, w \in Hours : HoursOf(p, w) \in SUBSET Hours
  BY DEF HoursOf
<1>9. ASSUME NEW u \in Targets, NEW S \in SUBSET Hours
      PROVE  Given(u, S) \in Nat /\ Given(u, S)' \in Nat
  <2>1. \A h \in Hours : added[u][h] \in Nat /\ added'[u][h] \in Nat
    BY <1>5
  <2>. QED  BY <2>1, HoursFinite, SumNat DEF Given
<1>10. RecordsNeverInvent'
  <2>1. ASSUME NEW u \in Targets PROVE Given(u, Hours)' = billed'[u]
    <3>1. Given(u, Hours) = billed[u]
      BY DEF ClaimsInv, RecordsNeverInvent, Given
    <3>2. CASE u = t
      BY <1>2, <1>4, <1>7, <3>1, <3>2
    <3>3. CASE u # t
      BY <1>4, <3>1, <3>3 DEF Given
    <3>. QED  BY <3>2, <3>3
  <2>2. ASSUME NEW u \in Targets, NEW p \in Periods, NEW w \in Hours
        PROVE  rec'[p][u][w].bytes <= Given(u, HoursOf(p, w))'
    <3>1. rec[p][u][w].bytes <= Given(u, HoursOf(p, w)) /\ rec[p][u][w].bytes \in Nat
      BY <1>3 DEF ClaimsInv, RecordsNeverInvent, Given, Recorded, Records
    <3>2. CASE p = "hourly" /\ u = t /\ w = at
      <4>1. rec'[p][u][w].bytes \in {rec[p][u][w].bytes, rec[p][u][w].bytes + delta}
        BY <1>1, <1>2, <1>3, <3>2 DEF Recorded, Records, Periods
      <4>2. at \in HoursOf(p, w)
        BY <1>2, <3>2 DEF HoursOf, WindowOf
      <4>3. Given(u, HoursOf(p, w))' = Given(u, HoursOf(p, w)) + delta
        BY <1>7, <1>8, <3>2, <4>2
      <4>4. Given(u, HoursOf(p, w)) \in Nat
        BY <1>8, <1>9
      <4>. HIDE DEF delta
      <4>. QED  BY <1>2, <3>1, <4>1, <4>3, <4>4
    <3>3. CASE ~(p = "hourly" /\ u = t /\ w = at)
      <4>1. rec'[p][u][w].bytes = rec[p][u][w].bytes
        BY <1>1, <1>2, <1>3, <3>3 DEF Recorded, Records, Periods
      <4>2. /\ Given(u, HoursOf(p, w)) <= Given(u, HoursOf(p, w))'
            /\ Given(u, HoursOf(p, w)) \in Nat /\ Given(u, HoursOf(p, w))' \in Nat
        BY <1>6, <1>8, <1>9
      <4>. QED  BY <3>1, <4>1, <4>2
    <3>. QED  BY <3>2, <3>3
  <2>. QED  BY <2>1, <2>2 DEF RecordsNeverInvent, Given
<1>11. SumsNeverInvent'
  <2>1. ASSUME NEW a \in Aggregators, NEW u \in Targets, ag[a].pc = "replace",
               NEW S \in SUBSET Hours, ag[a].sums[u].bytes <= Given(u, S)
        PROVE  ag[a].sums[u].bytes <= Given(u, S)'
    <3>1. ag[a].sums[u].bytes \in Nat
      BY <1>3 DEF Recorded, Aggregations, Records
    <3>2. Given(u, S) <= Given(u, S)' /\ Given(u, S) \in Nat /\ Given(u, S)' \in Nat
      BY <1>6, <1>9
    <3>. QED  BY <2>1, <3>1, <3>2
  <2>2. ASSUME NEW a \in Aggregators, NEW u \in Targets, ag[a].pc = "replace"
        PROVE  ag[a].sums[u].bytes
                  <= SumFunctionOnSet(added'[u], HoursOf(ag[a].period, ag[a].window))
    <3>1. HoursOf(ag[a].period, ag[a].window) \in SUBSET Hours
      BY DEF HoursOf
    <3>2. ag[a].sums[u].bytes <= Given(u, HoursOf(ag[a].period, ag[a].window))
      BY <2>2 DEF ClaimsInv, SumsNeverInvent
    <3>. QED  BY <2>1, <2>2, <3>1, <3>2 DEF Given
  <2>3. ag' = ag
    BY DEF AddHourly
  <2>. QED  BY <2>2, <2>3 DEF SumsNeverInvent, Given
<1>. QED  BY <1>10, <1>11 DEF ClaimsInv

\* What is read to be summed is what the parts claim.
LEMMA ListClaims ==
    ASSUME Recorded, ClaimsInv, NEW a \in Aggregators, ListSources(a) PROVE ClaimsInv'
<1>1. UNCHANGED <<added, billed, rec>>
  BY DEF ListSources, database
<1>2. RecordsNeverInvent'
  BY <1>1 DEF ClaimsInv, RecordsNeverInvent
<1>3. SumsNeverInvent'
  <2>1. ASSUME NEW b \in Aggregators, NEW t \in Targets, ag'[b].pc = "replace"
        PROVE  ag'[b].sums[t].bytes <= Given(t, HoursOf(ag'[b].period, ag'[b].window))
    <3>1. CASE b = a
      <4>1. /\ ag'[a].period = ag[a].period /\ ag'[a].window = ag[a].window
            /\ ag'[a].sums[t] = IF t \in ag[a].instances
                                THEN Aggregate(ag[a].period, t, ag[a].window) ELSE NoRecord
        BY DEF ListSources, Recorded, Aggregations
      <4>2. ag[a].period \in {"daily", "monthly"} /\ ag[a].window \in Hours
        BY DEF Recorded, Aggregations
      <4>3. NoRecord.bytes = 0 /\ Given(t, HoursOf(ag[a].period, ag[a].window)) \in Nat
        BY GivenNat DEF NoRecord, HoursOf
      <4>4. Aggregate(ag[a].period, t, ag[a].window).bytes
               <= Given(t, HoursOf(ag[a].period, ag[a].window))
        BY <4>2, AggregateClaims DEF ClaimsInv
      <4>. QED  BY <3>1, <4>1, <4>3, <4>4
    <3>2. CASE b # a
      <4>1. ag'[b] = ag[b]
        BY <3>2 DEF ListSources, Recorded, Aggregations
      <4>. QED  BY <2>1, <4>1 DEF ClaimsInv, SumsNeverInvent
    <3>. QED  BY <3>1, <3>2
  <2>. QED  BY <1>1, <2>1 DEF SumsNeverInvent, Given
<1>. QED  BY <1>2, <1>3 DEF ClaimsInv

\* What is written is what was summed, however much was collected since.
LEMMA ReplaceClaims ==
    ASSUME Recorded, Recorded', ClaimsInv, NEW a \in Aggregators, ReplaceWindow(a)
    PROVE  ClaimsInv'
<1>1. UNCHANGED <<added, billed>>
  BY DEF ReplaceWindow
<1>2. ag[a].period \in Periods /\ ag[a].window \in Hours /\ ag[a].pc = "replace"
  BY DEF Recorded, Aggregations, Periods, ReplaceWindow
<1>3. RecordsNeverInvent'
  <2>1. ASSUME NEW t \in Targets, NEW p \in Periods, NEW w \in Hours
        PROVE  rec'[p][t][w].bytes <= Given(t, HoursOf(p, w))
    <3>1. \/ rec'[p][t][w] = rec[p][t][w]
          \/ p = ag[a].period /\ w = ag[a].window /\ rec'[p][t][w] = ag[a].sums[t]
      BY <1>2 DEF ReplaceWindow, Recorded
    <3>2. rec[p][t][w].bytes <= Given(t, HoursOf(p, w))
      BY DEF ClaimsInv, RecordsNeverInvent, Given
    <3>3. ag[a].sums[t].bytes <= Given(t, HoursOf(ag[a].period, ag[a].window))
      BY <1>2 DEF ClaimsInv, SumsNeverInvent
    <3>. QED  BY <3>1, <3>2, <3>3
  <2>. QED  BY <1>1, <2>1 DEF RecordsNeverInvent, Given, ClaimsInv
<1>4. SumsNeverInvent'
  <2>1. \A b \in Aggregators : ag'[b].pc = "replace" => ag'[b] = ag[b]
    BY DEF ReplaceWindow, Recorded, Aggregations, IdleAG
  <2>. QED  BY <1>1, <2>1 DEF ClaimsInv, SumsNeverInvent, Given
<1>. QED  BY <1>3, <1>4 DEF ClaimsInv

\* Nothing is claimed and nothing given at the start.
LEMMA InitClaims == Init => ClaimsInv
<1>. SUFFICES ASSUME Init PROVE ClaimsInv
  OBVIOUS
<1>1. Recorded
  BY InitBounded, BoundedRecorded
<1>2. ASSUME NEW t \in Targets PROVE Given(t, Hours) = 0
  <2>. DEFINE G == {S \in SUBSET Hours : Given(t, S) = 0}
  <2>1. ASSUME NEW S \in SUBSET Hours, \A T \in SUBSET S : T # S => T \in G PROVE S \in G
    <3>1. CASE S # {}
      <4>1. PICK h \in S : TRUE
        BY <3>1
      <4>2. \A x \in Hours : added[t][x] \in Nat
        BY <1>1 DEF Recorded
      <4>3. Given(t, S) = added[t][h] + Given(t, S \ {h})
        BY <4>2, HoursFinite, SumWithout DEF Given
      <4>4. Given(t, S \ {h}) = 0
        BY <2>1, <4>1
      <4>. QED  BY <4>3, <4>4 DEF Init
    <3>2. CASE S = {}
      BY <3>2, SumOfNone DEF Given
    <3>. QED  BY <3>1, <3>2
  <2>. HIDE DEF G
  <2>2. Hours \in G
    BY <2>1, HoursFinite, SetInduction
  <2>. QED  BY <2>2 DEF G
<1>3. RecordsNeverInvent
  <2>1. ASSUME NEW t \in Targets, NEW p \in Periods, NEW w \in Hours
        PROVE  rec[p][t][w].bytes <= Given(t, HoursOf(p, w))
    <3>1. Given(t, HoursOf(p, w)) \in Nat
      BY <1>1, GivenNat DEF HoursOf
    <3>2. rec[p][t][w].bytes = 0
      BY DEF Init, NoRecord
    <3>. QED  BY <3>1, <3>2
  <2>2. \A t \in Targets : billed[t] = 0
    BY DEF Init
  <2>. QED  BY <1>2, <2>1, <2>2 DEF RecordsNeverInvent, Given
<1>4. SumsNeverInvent
  BY DEF Init, SumsNeverInvent, IdleAG
<1>. QED  BY <1>3, <1>4 DEF ClaimsInv

\* No step makes a record or a sum in flight claim more than its hours were
\* given, however many commands run.
LEMMA ClaimsStep == Bounded /\ Bounded' /\ ClaimsInv /\ [Next]_vars => ClaimsInv'
<1>. SUFFICES ASSUME Bounded, Bounded', ClaimsInv, [Next]_vars PROVE ClaimsInv'
  OBVIOUS
<1>1. Recorded /\ Recorded'
  BY BoundedRecorded, PTL
<1>2. ASSUME UNCHANGED <<added, billed, rec>>,
             \A a \in Aggregators : ag'[a].pc = "replace" => ag'[a] = ag[a]
      PROVE  ClaimsInv'
  <2>1. \A p \in Periods, t \in Targets, w \in Hours : rec[p][t][w].bytes <= rec[p][t][w].bytes
    BY <1>1 DEF Recorded, Records
  <2>. QED  BY <1>1, <1>2, <2>1, ClaimsStay
<1>3. ASSUME UNCHANGED <<added, billed, rec, ag>> PROVE ClaimsInv'
  BY <1>2, <1>3
<1>4. ASSUME NEW t \in Targets, Carry(t) \/ Restart(t) \/ Toggle(t) PROVE ClaimsInv'
  BY <1>3, <1>4 DEF Carry, Restart, Toggle, database
<1>5. CASE Tick
  BY <1>3, <1>5 DEF Tick, database
<1>6. ASSUME NEW c \in Collectors, StartHourly(c) \/ Query(c) \/ AbortHourly(c) PROVE ClaimsInv'
  BY <1>3, <1>6 DEF StartHourly, Query, AbortHourly, database
<1>7. ASSUME NEW c \in Collectors, AddHourly(c) PROVE ClaimsInv'
  BY <1>1, <1>7, AddClaims
<1>8. ASSUME NEW v \in Viewers, StartView(v) \/ QueryView(v) \/ ReadBaseline(v) PROVE ClaimsInv'
  BY <1>3, <1>8 DEF StartView, QueryView, ReadBaseline, database
<1>9. ASSUME NEW a \in Aggregators, StartAggregate(a) \/ AbortAggregate(a) PROVE ClaimsInv'
  <2>1. CASE StartAggregate(a)
    <3>1. PICK S \in Selections, period \in {"daily", "monthly"} :
          \E w \in 0..WindowOf(period, hour) :
             ag' = [ag EXCEPT ![a] = [IdleAG EXCEPT !.pc = "list", !.period = period,
                                                    !.window = w, !.instances = S,
                                                    !.all = (S = enabled)]]
      BY <2>1 DEF StartAggregate
    <3>2. DOMAIN ag = Aggregators
      BY <1>1 DEF Recorded, Aggregations
    <3>3. ag'[a].pc = "list" /\ \A b \in Aggregators : b # a => ag'[b] = ag[b]
      BY <3>1, <3>2 DEF IdleAG
    <3>4. \A b \in Aggregators : ag'[b].pc = "replace" => ag'[b] = ag[b]
      BY <3>3
    <3>. QED  BY <1>2, <2>1, <3>4 DEF StartAggregate, database
  <2>2. CASE AbortAggregate(a)
    <3>1. \A b \in Aggregators : ag'[b].pc = "replace" => ag'[b] = ag[b]
      BY <1>1, <2>2 DEF AbortAggregate, IdleAG, Recorded, Aggregations
    <3>. QED  BY <1>2, <2>2, <3>1 DEF AbortAggregate, database
  <2>. QED  BY <1>9, <2>1, <2>2
<1>10. ASSUME NEW a \in Aggregators, ListSources(a) PROVE ClaimsInv'
  BY <1>1, <1>10, ListClaims
<1>11. ASSUME NEW a \in Aggregators, ReplaceWindow(a) PROVE ClaimsInv'
  BY <1>1, <1>11, ReplaceClaims
<1>12. ASSUME NEW q \in Periods, Cleanup(q) PROVE ClaimsInv'
  <2>1. ASSUME NEW p \in Periods, NEW t \in Targets, NEW w \in Hours
        PROVE  rec'[p][t][w].bytes <= rec[p][t][w].bytes
    <3>1. rec'[p][t][w] \in {rec[p][t][w], NoRecord}
      BY <1>1, <1>12 DEF Cleanup, Recorded
    <3>2. rec[p][t][w].bytes \in Nat
      BY <1>1 DEF Recorded, Records
    <3>. QED  BY <3>1, <3>2 DEF NoRecord
  <2>. QED  BY <1>1, <1>12, <2>1, ClaimsStay DEF Cleanup
<1>13. CASE UNCHANGED vars
  BY <1>3, <1>13 DEF vars, database
<1>. QED
  BY <1>4, <1>5, <1>6, <1>7, <1>8, <1>9, <1>10, <1>11, <1>12, <1>13 DEF Next

-----------------------------------------------------------------------------
(* What the aggregates keep *)

\* No hour of the window is past the retention.
Fresh(period, w) == \A h \in HoursOf(period, w) : ~(h < Cutoff("hourly"))

Recs == [Periods -> [Targets -> [Hours -> Records]]]

\* What the parts of a window sum up to.
PartsSum(r, period, t, w) ==
    SumFunctionOnSet([v \in Hours |-> r[Source(period)][t][v].bytes], Parts(period, w))

\* A record is never ahead of the parts that are still there, and a sum in
\* flight is between the record and them.
NotAhead ==
    \A period \in {"daily", "monthly"}, t \in Targets, w \in Hours : Fresh(period, w) =>
        rec[period][t][w].bytes <= PartsSum(rec, period, t, w)

SumsBetween ==
    \A a \in Aggregators, period \in {"daily", "monthly"}, w \in Hours, t \in Targets :
        /\ ag[a].pc = "replace" /\ period = ag[a].period /\ w = ag[a].window
        /\ t \in ag[a].instances /\ Fresh(period, w)
        => /\ rec[period][t][w].bytes <= ag[a].sums[t].bytes
           /\ ag[a].sums[t].bytes <= PartsSum(rec, period, t, w)

GrowInv == NotAhead /\ SumsBetween

\* Multiplication keeps the order.
LEMMA ProductGrows ==
    ASSUME NEW k \in Nat, NEW m \in Nat, NEW n \in Nat, m <= n
    PROVE  m * k <= n * k
BY SMT

\* What is past the retention stays past it.
LEMMA FreshBefore ==
    ASSUME hour \in Hours, hour' \in Hours, hour <= hour', NEW period \in Periods, NEW w \in Hours,
           Fresh(period, w)'
    PROVE  Fresh(period, w)
<1>. DEFINE days == Monus(DayOf(hour), RetentionDays)
            later == Monus(DayOf(hour'), RetentionDays)
<1>1. hour \in Nat /\ hour' \in Nat
  BY TrafficAssumption DEF Hours
<1>2. DayOf(hour) \in Nat /\ DayOf(hour') \in Nat /\ DayOf(hour) <= DayOf(hour')
  BY <1>1, DivBounds, DivMono, TrafficAssumption DEF DayOf
<1>3. days \in Nat /\ later \in Nat /\ days <= later
  BY <1>2, TrafficAssumption DEF Monus
<1>4. Cutoff("hourly") = days * HoursPerDay /\ Cutoff("hourly")' = later * HoursPerDay
  BY DEF Cutoff
<1>. HIDE DEF days, later
<1>5. days * HoursPerDay <= later * HoursPerDay
      /\ days * HoursPerDay \in Nat /\ later * HoursPerDay \in Nat
  BY <1>3, ProductGrows, TrafficAssumption
<1>6. \A h \in Hours : h \in Nat
  BY TrafficAssumption DEF Hours
<1>7. ASSUME NEW h \in HoursOf(period, w) PROVE ~(h < Cutoff("hourly"))
  <2>1. ~(h < Cutoff("hourly")')
    BY DEF Fresh, HoursOf
  <2>2. h \in Nat
    BY <1>6 DEF HoursOf
  <2>. QED  BY <1>4, <1>5, <2>1, <2>2
<1>. QED  BY <1>7 DEF Fresh

\* The days of a fresh month are fresh.
LEMMA FreshParts ==
    ASSUME NEW w \in Hours, Fresh("monthly", w), NEW v \in Parts("monthly", w)
    PROVE  Fresh("daily", v)
<1>1. HoursOf("daily", v) \subseteq HoursOf("monthly", w)
  BY HoursOfParts DEF Source
<1>. QED  BY <1>1 DEF Fresh

\* Days are kept as long as their hours.
LEMMA FreshIsKept ==
    ASSUME hour \in Hours, NEW v \in Hours, Fresh("daily", v) PROVE ~(v < Cutoff("daily"))
<1>. DEFINE today == DayOf(hour)
            kept == IF RetentionDays < DailyMinRetentionDays
                    THEN DailyMinRetentionDays ELSE RetentionDays
<1>1. SUFFICES ASSUME v < Cutoff("daily") PROVE FALSE
  OBVIOUS
<1>2. hour \in Nat /\ v \in Nat /\ hour <= MaxHour /\ HoursPerDay \in Nat \ {0}
  BY TrafficAssumption DEF Hours
<1>3. today \in Nat /\ today * HoursPerDay <= hour
  BY <1>2, DivBounds DEF DayOf
<1>4. kept \in Nat \ {0} /\ RetentionDays \in Nat \ {0} /\ RetentionDays <= kept
  BY TrafficAssumption
<1>5. Cutoff("daily") = Monus(today, kept)
      /\ Cutoff("hourly") = Monus(today, RetentionDays) * HoursPerDay
  BY DEF Cutoff
<1>. HIDE DEF today, kept
<1>6. Monus(today, RetentionDays) \in Nat /\ v + 1 <= Monus(today, RetentionDays) /\ v <= today
  BY <1>1, <1>2, <1>3, <1>4, <1>5 DEF Monus
<1>7. v * HoursPerDay \in Nat /\ v * HoursPerDay <= hour
  BY <1>2, <1>3, <1>6, ProductGrows
<1>8. v * HoursPerDay \in HoursOf("daily", v)
  <2>1. (v * HoursPerDay) \div HoursPerDay = v
    BY <1>2, DivBack
  <2>2. v * HoursPerDay \in Hours
    BY <1>2, <1>7, TrafficAssumption DEF Hours
  <2>. QED  BY <2>1, <2>2 DEF HoursOf, WindowOf, DayOf
<1>9. v * HoursPerDay < Cutoff("hourly")
  <2>1. (v + 1) * HoursPerDay <= Monus(today, RetentionDays) * HoursPerDay
    BY <1>2, <1>6, ProductGrows
  <2>2. v * HoursPerDay < (v + 1) * HoursPerDay
    BY <1>2
  <2>3. (v + 1) * HoursPerDay \in Nat /\ Monus(today, RetentionDays) * HoursPerDay \in Nat
    BY <1>2, <1>6
  <2>. QED  BY <1>5, <1>7, <2>1, <2>2, <2>3
<1>. QED  BY <1>8, <1>9 DEF Fresh

\* What the parts sum up to is a number.
LEMMA PartsSumNat ==
    ASSUME NEW r \in Recs, NEW period \in {"daily", "monthly"}, NEW t \in Targets, NEW w \in Hours
    PROVE  PartsSum(r, period, t, w) \in Nat
<1>. DEFINE f == [v \in Hours |-> r[Source(period)][t][v].bytes]
<1>1. \A v \in Hours : f[v] \in Nat
  BY DEF Recs, Source, Periods, Records
<1>2. Parts(period, w) \in SUBSET Hours
  BY HoursOfParts
<1>. HIDE DEF f
<1>3. SumFunctionOnSet(f, Parts(period, w)) \in Nat
  BY <1>1, <1>2, HoursFinite, SumNat
<1>. QED  BY <1>3 DEF PartsSum, f

\* Larger parts, larger sum.
LEMMA PartsSumGrows ==
    ASSUME NEW r \in Recs, NEW s \in Recs, NEW period \in {"daily", "monthly"},
           NEW t \in Targets, NEW w \in Hours,
           \A v \in Parts(period, w) :
              r[Source(period)][t][v].bytes <= s[Source(period)][t][v].bytes
    PROVE  PartsSum(r, period, t, w) <= PartsSum(s, period, t, w)
<1>. DEFINE f == [v \in Hours |-> r[Source(period)][t][v].bytes]
            g == [v \in Hours |-> s[Source(period)][t][v].bytes]
            P == Parts(period, w)
<1>1. P \in SUBSET Hours
  BY HoursOfParts
<1>2. \A v \in P : f[v] \in Nat /\ g[v] \in Nat /\ f[v] <= g[v]
  BY <1>1 DEF Recs, Source, Periods, Records
<1>3. IsFiniteSet(P)
  BY <1>1, HoursFinite, FS_Subset
<1>. HIDE DEF f, g, P
<1>4. SumFunctionOnSet(f, P) <= SumFunctionOnSet(g, P)
  BY <1>2, <1>3, SumMonotone
<1>. QED  BY <1>4 DEF PartsSum, f, g, P

\* A step that writes no aggregate and takes no sums, and takes nothing from
\* the parts of a fresh window.
LEMMA GrowStays ==
    ASSUME Recorded, Recorded', GrowInv,
           \A p \in Periods, w \in Hours : Fresh(p, w)' => Fresh(p, w),
           \A p \in {"daily", "monthly"}, t \in Targets, w \in Hours : Fresh(p, w)' =>
              \A v \in Parts(p, w) :
                 rec[Source(p)][t][v].bytes <= rec'[Source(p)][t][v].bytes,
           \A p \in {"daily", "monthly"}, t \in Targets, w \in Hours :
              rec'[p][t][w].bytes <= rec[p][t][w].bytes,
           \A a \in Aggregators : ag'[a].pc = "replace" => ag'[a] = ag[a]
    PROVE  GrowInv'
<1>0. rec \in Recs /\ rec' \in Recs
  BY DEF Recorded, Recs
<1>1. ASSUME NEW p \in {"daily", "monthly"}, NEW t \in Targets, NEW w \in Hours, Fresh(p, w)'
      PROVE  /\ PartsSum(rec, p, t, w) \in Nat /\ PartsSum(rec', p, t, w) \in Nat
             /\ PartsSum(rec, p, t, w) <= PartsSum(rec', p, t, w)
             /\ rec[p][t][w].bytes \in Nat /\ rec'[p][t][w].bytes \in Nat
             /\ rec'[p][t][w].bytes <= rec[p][t][w].bytes
             /\ Fresh(p, w)
  <2>1. PartsSum(rec, p, t, w) \in Nat /\ PartsSum(rec', p, t, w) \in Nat
    BY <1>0, PartsSumNat
  <2>2. PartsSum(rec, p, t, w) <= PartsSum(rec', p, t, w)
    BY <1>0, <1>1, PartsSumGrows
  <2>3. rec[p][t][w].bytes \in Nat /\ rec'[p][t][w].bytes \in Nat
    BY <1>0 DEF Recs, Records, Periods
  <2>4. p \in Periods
    BY DEF Periods
  <2>. QED  BY <1>1, <2>1, <2>2, <2>3, <2>4
<1>2. NotAhead'
  <2>1. ASSUME NEW p \in {"daily", "monthly"}, NEW t \in Targets, NEW w \in Hours, Fresh(p, w)'
        PROVE  rec'[p][t][w].bytes <= PartsSum(rec', p, t, w)
    <3>1. rec[p][t][w].bytes <= PartsSum(rec, p, t, w)
      BY <1>1, <2>1 DEF GrowInv, NotAhead
    <3>. QED  BY <1>1, <2>1, <3>1
  <2>. QED  BY <2>1 DEF NotAhead
<1>3. SumsBetween'
  <2>1. ASSUME NEW a \in Aggregators, NEW p \in {"daily", "monthly"}, NEW w \in Hours,
               NEW t \in Targets, ag'[a].pc = "replace", p = ag'[a].period, w = ag'[a].window,
               t \in ag'[a].instances, Fresh(p, w)'
        PROVE  /\ rec'[p][t][w].bytes <= ag'[a].sums[t].bytes
               /\ ag'[a].sums[t].bytes <= PartsSum(rec', p, t, w)
    <3>1. ag'[a] = ag[a]
      BY <2>1
    <3>2. ag[a].sums[t].bytes \in Nat
      BY DEF Recorded, Aggregations, Records
    <3>3. /\ rec[p][t][w].bytes <= ag[a].sums[t].bytes
          /\ ag[a].sums[t].bytes <= PartsSum(rec, p, t, w)
      BY <1>1, <2>1, <3>1 DEF GrowInv, SumsBetween
    <3>. QED  BY <1>1, <2>1, <3>1, <3>2, <3>3
  <2>. QED  BY <2>1 DEF SumsBetween
<1>. QED  BY <1>2, <1>3 DEF GrowInv

\* What is read to be summed is what the parts hold now.
LEMMA ListGrows ==
    ASSUME Recorded, GrowInv, NEW a \in Aggregators, ListSources(a) PROVE GrowInv'
<1>1. UNCHANGED <<rec, hour>>
  BY DEF ListSources, database, world
<1>2. \A p, w : Fresh(p, w)' <=> Fresh(p, w)
  BY <1>1 DEF Fresh, Cutoff
<1>3. NotAhead'
  BY <1>1, <1>2 DEF GrowInv, NotAhead
<1>4. SumsBetween'
  <2>1. ASSUME NEW b \in Aggregators, NEW p \in {"daily", "monthly"}, NEW w \in Hours,
               NEW t \in Targets, ag'[b].pc = "replace", p = ag'[b].period, w = ag'[b].window,
               t \in ag'[b].instances, Fresh(p, w)
        PROVE  /\ rec[p][t][w].bytes <= ag'[b].sums[t].bytes
               /\ ag'[b].sums[t].bytes <= PartsSum(rec, p, t, w)
    <3>1. CASE b = a
      <4>1. /\ ag'[a].period = ag[a].period /\ ag'[a].window = ag[a].window
            /\ ag'[a].instances = ag[a].instances
            /\ ag'[a].sums[t] = IF t \in ag[a].instances
                                THEN Aggregate(ag[a].period, t, ag[a].window) ELSE NoRecord
        BY DEF ListSources, Recorded, Aggregations
      <4>2. ag'[b].sums[t].bytes = PartsSum(rec, p, t, w)
        BY <2>1, <3>1, <4>1 DEF Aggregate, PartsSum
      <4>3. rec[p][t][w].bytes <= PartsSum(rec, p, t, w)
        BY <2>1 DEF GrowInv, NotAhead
      <4>4. PartsSum(rec, p, t, w) \in Nat
        BY PartsSumNat DEF Recorded, Recs
      <4>. QED  BY <4>2, <4>3, <4>4
    <3>2. CASE b # a
      <4>1. ag'[b] = ag[b]
        BY <3>2 DEF ListSources, Recorded, Aggregations
      <4>. QED  BY <2>1, <4>1 DEF GrowInv, SumsBetween
    <3>. QED  BY <3>1, <3>2
  <2>. QED  BY <1>1, <1>2, <2>1 DEF SumsBetween
<1>. QED  BY <1>3, <1>4 DEF GrowInv

\* What is written is no less than what was there, and no more than the parts.
\* With a second aggregator its sum could by now be older than the record.
LEMMA ReplaceGrows ==
    ASSUME OneAggregator, Recorded, Recorded', GrowInv, NEW a \in Aggregators, ReplaceWindow(a)
    PROVE  /\ GrowInv'
           /\ \A p \in {"daily", "monthly"}, t \in Targets, w \in Hours : Fresh(p, w) =>
                 rec[p][t][w].bytes <= rec'[p][t][w].bytes
<1>. DEFINE P == ag[a].period
            W == ag[a].window
<1>1. P \in {"daily", "monthly"} /\ W \in Hours /\ ag[a].pc = "replace" /\ UNCHANGED hour
  BY DEF Recorded, Aggregations, ReplaceWindow, world
<1>2. \A p, w : Fresh(p, w)' <=> Fresh(p, w)
  BY <1>1 DEF Fresh, Cutoff
<1>3. rec \in Recs /\ rec' \in Recs
  BY DEF Recorded, Recs
<1>4. ASSUME NEW p \in Periods, NEW t \in Targets, NEW w \in Hours
      PROVE  \/ rec'[p][t][w] = rec[p][t][w]
             \/ /\ p = P /\ w = W /\ t \in ag[a].instances
                /\ rec'[p][t][w] = ag[a].sums[t]
  BY <1>1 DEF ReplaceWindow, Recorded
<1>5. ASSUME NEW p \in Periods, NEW t \in Targets, NEW w \in Hours, Fresh(p, w)
      PROVE  rec[p][t][w].bytes <= rec'[p][t][w].bytes
  <2>1. rec[p][t][w].bytes \in Nat
    BY DEF Recorded, Records
  <2>2. CASE rec'[p][t][w] = rec[p][t][w]
    BY <2>1, <2>2
  <2>3. CASE p = P /\ w = W /\ t \in ag[a].instances /\ rec'[p][t][w] = ag[a].sums[t]
    BY <1>1, <1>5, <2>3 DEF GrowInv, SumsBetween
  <2>. QED  BY <1>4, <2>2, <2>3
<1>6. ASSUME NEW p \in {"daily", "monthly"}, NEW t \in Targets, NEW w \in Hours, Fresh(p, w)
      PROVE  PartsSum(rec, p, t, w) <= PartsSum(rec', p, t, w)
  <2>1. ASSUME NEW v \in Parts(p, w)
        PROVE  rec[Source(p)][t][v].bytes <= rec'[Source(p)][t][v].bytes
    <3>1. v \in Hours
      BY DEF Parts
    <3>2. CASE p = "daily"
      <4>1. rec'["hourly"][t][v] = rec["hourly"][t][v]
        BY <1>1, <1>4, <3>1 DEF Periods
      <4>2. rec["hourly"][t][v].bytes \in Nat
        BY <3>1 DEF Recorded, Records, Periods
      <4>. QED  BY <3>2, <4>1, <4>2 DEF Source
    <3>3. CASE p = "monthly"
      <4>1. Fresh("daily", v)
        BY <1>6, <2>1, <3>3, FreshParts
      <4>. QED  BY <1>5, <3>1, <3>3, <4>1 DEF Source, Periods
    <3>. QED  BY <3>2, <3>3
  <2>. QED  BY <1>3, <2>1, PartsSumGrows
<1>7. NotAhead'
  <2>1. ASSUME NEW p \in {"daily", "monthly"}, NEW t \in Targets, NEW w \in Hours, Fresh(p, w)
        PROVE  rec'[p][t][w].bytes <= PartsSum(rec', p, t, w)
    <3>1. rec'[p][t][w].bytes <= PartsSum(rec, p, t, w)
      BY <1>1, <1>4, <2>1 DEF GrowInv, NotAhead, SumsBetween, Periods
    <3>2. /\ PartsSum(rec, p, t, w) \in Nat /\ PartsSum(rec', p, t, w) \in Nat
          /\ rec'[p][t][w].bytes \in Nat
      <4>1. PartsSum(rec, p, t, w) \in Nat /\ PartsSum(rec', p, t, w) \in Nat
        BY <1>3, PartsSumNat
      <4>2. rec'[p][t][w].bytes \in Nat
        BY <1>3 DEF Recs, Records, Periods
      <4>. QED  BY <4>1, <4>2
    <3>. QED  BY <1>6, <2>1, <3>1, <3>2
  <2>. QED  BY <1>2, <2>1 DEF NotAhead
<1>8. SumsBetween'
  <2>1. \A b \in Aggregators : ag'[b].pc # "replace"
    <3>1. ag'[a].pc = "idle"
      BY DEF ReplaceWindow, Recorded, Aggregations, IdleAG
    <3>. QED  BY <3>1 DEF OneAggregator
  <2>. QED  BY <2>1 DEF SumsBetween
<1>9. \A p \in {"daily", "monthly"} : p \in Periods
  BY DEF Periods
<1>. QED  BY <1>5, <1>7, <1>8, <1>9 DEF GrowInv

\* Cleanup takes no part of a fresh window.
LEMMA CleanupGrows ==
    ASSUME Bounded, Recorded', GrowInv, NEW q \in Periods, Cleanup(q)
    PROVE  GrowInv'
<1>1. Recorded /\ hour \in Hours /\ UNCHANGED <<hour, ag>>
  BY BoundedRecorded DEF Bounded, TypeOK, Cleanup, world
<1>2. \A p, w : Fresh(p, w)' <=> Fresh(p, w)
  BY <1>1 DEF Fresh, Cutoff
<1>3. ASSUME NEW p \in Periods, NEW t \in Targets, NEW w \in Hours
      PROVE  /\ rec'[p][t][w].bytes <= rec[p][t][w].bytes
             /\ ~(p = q /\ w < Cutoff(q)) => rec'[p][t][w] = rec[p][t][w]
             /\ rec[p][t][w].bytes \in Nat
  <2>1. rec'[p][t][w] = IF p = q /\ w < Cutoff(q) THEN NoRecord ELSE rec[p][t][w]
    BY <1>1 DEF Cleanup, Recorded
  <2>2. rec[p][t][w].bytes \in Nat
    BY <1>1 DEF Recorded, Records
  <2>. QED  BY <2>1, <2>2 DEF NoRecord
<1>4. ASSUME NEW p \in {"daily", "monthly"}, NEW t \in Targets, NEW w \in Hours, Fresh(p, w),
             NEW v \in Parts(p, w)
      PROVE  rec[Source(p)][t][v].bytes <= rec'[Source(p)][t][v].bytes
  <2>1. v \in Hours
    BY DEF Parts
  <2>2. CASE p = "daily"
    <3>1. v \in HoursOf("daily", w)
      BY <1>4, <2>1, <2>2 DEF Parts, HoursOf, WindowOf, DayOf
    <3>2. ~(v < Cutoff("hourly"))
      BY <1>4, <2>2, <3>1 DEF Fresh
    <3>. QED  BY <1>3, <2>1, <2>2, <3>2 DEF Source, Periods
  <2>3. CASE p = "monthly"
    <3>1. ~(v < Cutoff("daily"))
      BY <1>1, <1>4, <2>1, <2>3, FreshParts, FreshIsKept
    <3>. QED  BY <1>3, <2>1, <2>3, <3>1 DEF Source, Periods
  <2>. QED  BY <2>2, <2>3
<1>5. \A p \in {"daily", "monthly"} : p \in Periods
  BY DEF Periods
<1>. QED  BY <1>1, <1>2, <1>3, <1>4, <1>5, GrowStays

\* Starting and aborting an aggregation takes no sums.
LEMMA IdleAgain ==
    ASSUME Recorded, NEW a \in Aggregators, StartAggregate(a) \/ AbortAggregate(a)
    PROVE  \A b \in Aggregators : ag'[b].pc = "replace" => ag'[b] = ag[b]
<1>1. DOMAIN ag = Aggregators
  BY DEF Recorded, Aggregations
<1>2. CASE StartAggregate(a)
  <2>1. PICK S \in Selections, period \in {"daily", "monthly"} :
        \E w \in 0..WindowOf(period, hour) :
           ag' = [ag EXCEPT ![a] = [IdleAG EXCEPT !.pc = "list", !.period = period,
                                                  !.window = w, !.instances = S,
                                                  !.all = (S = enabled)]]
    BY <1>2 DEF StartAggregate
  <2>2. ag'[a].pc = "list" /\ \A b \in Aggregators : b # a => ag'[b] = ag[b]
    BY <1>1, <2>1 DEF IdleAG
  <2>. QED  BY <2>2
<1>3. CASE AbortAggregate(a)
  BY <1>1, <1>3 DEF AbortAggregate, IdleAG
<1>. QED  BY <1>2, <1>3

\* The aggregates start with their parts, at nothing.
LEMMA InitGrow == Init => GrowInv
<1>. SUFFICES ASSUME Init PROVE GrowInv
  OBVIOUS
<1>1. rec \in Recs
  BY DEF Init, Recs, NoRecord, Records
<1>2. NotAhead
  <2>1. ASSUME NEW p \in {"daily", "monthly"}, NEW t \in Targets, NEW w \in Hours
        PROVE  rec[p][t][w].bytes <= PartsSum(rec, p, t, w)
    <3>1. PartsSum(rec, p, t, w) \in Nat
      BY <1>1, PartsSumNat
    <3>2. rec[p][t][w].bytes = 0
      BY DEF Init, NoRecord, Periods
    <3>. QED  BY <3>1, <3>2
  <2>. QED  BY <2>1 DEF NotAhead
<1>3. SumsBetween
  BY DEF Init, IdleAG, SumsBetween
<1>. QED  BY <1>2, <1>3 DEF GrowInv

\* A step that takes an aggregate back.
Shrinks ==
    \E p \in {"daily", "monthly"}, t \in Targets, w \in Hours :
        /\ rec'[p][t][w].bytes < rec[p][t][w].bytes
        /\ Fresh(p, w) /\ ~(w < Cutoff(p))

\* Every step keeps the aggregates between what they were and their parts,
\* one aggregator running.
LEMMA GrowStep ==
    ASSUME OneAggregator, Bounded, Bounded', GrowInv, [Next]_vars
    PROVE  GrowInv' /\ ~Shrinks
<1>1. Recorded /\ Recorded'
  BY BoundedRecorded, PTL
<1>2. hour \in Hours /\ hour' \in Hours
  BY DEF Bounded, TypeOK
<1>3. \A p \in {"daily", "monthly"} : p \in Periods
  BY DEF Periods
<1>4. \A p \in Periods, t \in Targets, w \in Hours : rec[p][t][w].bytes \in Nat
  BY <1>1 DEF Recorded, Records
<1>5. ASSUME hour <= hour', UNCHANGED rec,
             \A a \in Aggregators : ag'[a].pc = "replace" => ag'[a] = ag[a]
      PROVE  GrowInv' /\ ~Shrinks
  <2>1. \A p \in Periods, w \in Hours : Fresh(p, w)' => Fresh(p, w)
    BY <1>2, <1>5, FreshBefore
  <2>2. ASSUME NEW p \in {"daily", "monthly"}, NEW t \in Targets, NEW w \in Hours,
               NEW v \in Parts(p, w)
        PROVE  rec[Source(p)][t][v].bytes <= rec'[Source(p)][t][v].bytes
    BY <1>4, <1>5 DEF Parts, Source, Periods
  <2>3. \A p \in {"daily", "monthly"}, t \in Targets, w \in Hours :
           rec'[p][t][w].bytes <= rec[p][t][w].bytes
    BY <1>3, <1>4, <1>5
  <2>4. GrowInv'
    BY <1>1, <1>5, <2>1, <2>2, <2>3, GrowStays
  <2>5. ~Shrinks
    BY <1>3, <1>4, <1>5 DEF Shrinks
  <2>. QED  BY <2>4, <2>5
<1>6. ASSUME UNCHANGED <<hour, rec, ag>> PROVE GrowInv' /\ ~Shrinks
  <2>1. hour <= hour'
    BY <1>2, <1>6, TrafficAssumption DEF Hours
  <2>. QED  BY <1>5, <1>6, <2>1
<1>7. ASSUME NEW t \in Targets, Carry(t) \/ Restart(t) \/ Toggle(t) PROVE GrowInv' /\ ~Shrinks
  BY <1>6, <1>7 DEF Carry, Restart, Toggle, database
<1>8. CASE Tick
  <2>1. hour <= hour'
    BY <1>2, <1>8, TrafficAssumption DEF Tick, Hours
  <2>. QED  BY <1>5, <1>8, <2>1 DEF Tick, database
<1>9. ASSUME NEW c \in Collectors, StartHourly(c) \/ Query(c) \/ AbortHourly(c)
      PROVE  GrowInv' /\ ~Shrinks
  BY <1>6, <1>9 DEF StartHourly, Query, AbortHourly, database, world
<1>10. ASSUME NEW c \in Collectors, AddHourly(c) PROVE GrowInv' /\ ~Shrinks
  <2>1. /\ UNCHANGED <<hour, ag>>
        /\ \A p \in {"daily", "monthly"} : rec'[p] = rec[p]
        /\ \A t \in Targets, h \in Hours : rec["hourly"][t][h].bytes <= rec'["hourly"][t][h].bytes
    <3>. DEFINE value == hc[c].sample
                at == hc[c].at
    <3>1. PICK t \in Turn(hc[c].left) :
             rec' = IF Delta(value, baseline[t]) = 0 THEN rec
                    ELSE [rec EXCEPT !["hourly"][t][at] =
                           [bytes |-> @.bytes + Delta(value, baseline[t]),
                            reset |-> @.reset \/ value < baseline[t]]]
      BY <1>10 DEF AddHourly
    <3>2. t \in Targets /\ at \in Hours /\ value \in Nat /\ baseline[t] \in Nat
      <4>1. t \in Targets
        BY DEF Bounded, TypeOK, Turn
      <4>2. at \in Hours /\ value \in 0..MaxCarried /\ baseline[t] \in 0..MaxCarried
        BY <4>1 DEF Bounded, TypeOK
      <4>. QED  BY <4>1, <4>2, TrafficAssumption
    <3>3. Delta(value, baseline[t]) \in Nat
      BY <3>2 DEF Delta
    <3>. DEFINE delta == Delta(value, baseline[t])
                new == [bytes |-> rec["hourly"][t][at].bytes + delta,
                        reset |-> rec["hourly"][t][at].reset \/ value < baseline[t]]
    <3>4. rec' = rec \/ rec' = [rec EXCEPT !["hourly"][t][at] = new]
      BY <3>1
    <3>5. new.bytes = rec["hourly"][t][at].bytes + delta
      OBVIOUS
    <3>6. rec["hourly"][t][at].bytes <= new.bytes
      <4>1. rec["hourly"][t][at].bytes \in Nat
        BY <1>4, <3>2 DEF Periods
      <4>. HIDE DEF delta, new
      <4>. QED  BY <3>3, <3>5, <4>1 DEF delta
    <3>. HIDE DEF new, at
    <3>7. \A u \in Targets, h \in Hours :
             /\ rec'["hourly"][u][h] \in {rec["hourly"][u][h], new}
             /\ ~(u = t /\ h = at) => rec'["hourly"][u][h] = rec["hourly"][u][h]
      BY <1>1, <3>2, <3>4 DEF Recorded, Periods
    <3>8. \A u \in Targets, h \in Hours : rec["hourly"][u][h].bytes <= rec'["hourly"][u][h].bytes
      <4>1. \A u \in Targets, h \in Hours : rec["hourly"][u][h].bytes \in Nat
        BY <1>4 DEF Periods
      <4>. QED  BY <3>2, <3>6, <3>7, <4>1
    <3>9. \A p \in {"daily", "monthly"} : rec'[p] = rec[p]
      BY <1>1, <3>2, <3>4 DEF Recorded, Periods
    <3>. QED  BY <1>10, <3>8, <3>9 DEF AddHourly, world
  <2>2. \A p \in Periods, w \in Hours : Fresh(p, w)' => Fresh(p, w)
    BY <2>1 DEF Fresh, Cutoff
  <2>3. ASSUME NEW p \in {"daily", "monthly"}, NEW t \in Targets, NEW w \in Hours,
               NEW v \in Parts(p, w)
        PROVE  rec[Source(p)][t][v].bytes <= rec'[Source(p)][t][v].bytes
    <3>1. v \in Hours
      BY DEF Parts
    <3>2. CASE p = "daily"
      BY <2>1, <3>1, <3>2 DEF Source
    <3>3. CASE p = "monthly"
      BY <1>3, <1>4, <2>1, <3>1, <3>3 DEF Source
    <3>. QED  BY <3>2, <3>3
  <2>4. \A p \in {"daily", "monthly"}, t \in Targets, w \in Hours :
           rec'[p][t][w].bytes <= rec[p][t][w].bytes
    BY <1>3, <1>4, <2>1
  <2>5. GrowInv'
    BY <1>1, <2>1, <2>2, <2>3, <2>4, GrowStays
  <2>6. ~Shrinks
    BY <1>3, <1>4, <2>1 DEF Shrinks
  <2>. QED  BY <2>5, <2>6
<1>11. ASSUME NEW v \in Viewers, StartView(v) \/ QueryView(v) \/ ReadBaseline(v)
       PROVE  GrowInv' /\ ~Shrinks
  BY <1>6, <1>11 DEF StartView, QueryView, ReadBaseline, database, world
<1>12. ASSUME NEW a \in Aggregators, StartAggregate(a) \/ AbortAggregate(a)
       PROVE  GrowInv' /\ ~Shrinks
  <2>1. \A b \in Aggregators : ag'[b].pc = "replace" => ag'[b] = ag[b]
    BY <1>1, <1>12, IdleAgain
  <2>2. UNCHANGED <<hour, rec>>
    BY <1>12 DEF StartAggregate, AbortAggregate, database, world
  <2>3. hour <= hour'
    BY <1>2, <2>2, TrafficAssumption DEF Hours
  <2>. QED  BY <1>5, <2>1, <2>2, <2>3
<1>13. ASSUME NEW a \in Aggregators, ListSources(a) PROVE GrowInv' /\ ~Shrinks
  <2>1. UNCHANGED rec
    BY <1>13 DEF ListSources, database
  <2>2. ~Shrinks
    BY <1>3, <1>4, <2>1 DEF Shrinks
  <2>. QED  BY <1>1, <1>13, <2>2, ListGrows
<1>14. ASSUME NEW a \in Aggregators, ReplaceWindow(a) PROVE GrowInv' /\ ~Shrinks
  <2>1. \A p \in {"daily", "monthly"}, t \in Targets, w \in Hours :
           rec[p][t][w].bytes \in Nat /\ rec'[p][t][w].bytes \in Nat
    BY <1>1, <1>3 DEF Recorded, Records
  <2>2. /\ GrowInv'
        /\ \A p \in {"daily", "monthly"}, t \in Targets, w \in Hours : Fresh(p, w) =>
              rec[p][t][w].bytes <= rec'[p][t][w].bytes
    BY <1>1, <1>14, ReplaceGrows
  <2>. QED  BY <2>1, <2>2 DEF Shrinks
<1>15. ASSUME NEW q \in Periods, Cleanup(q) PROVE GrowInv' /\ ~Shrinks
  <2>1. GrowInv'
    BY <1>1, <1>15, CleanupGrows
  <2>2. ASSUME NEW p \in {"daily", "monthly"}, NEW t \in Targets, NEW w \in Hours,
               ~(w < Cutoff(p))
        PROVE  ~(rec'[p][t][w].bytes < rec[p][t][w].bytes)
    <3>1. rec'[p][t][w] = rec[p][t][w]
      BY <1>1, <1>3, <1>15, <2>2 DEF Cleanup, Recorded
    <3>. QED  BY <1>3, <1>4, <3>1
  <2>. QED  BY <2>1, <2>2 DEF Shrinks
<1>16. CASE UNCHANGED vars
  BY <1>6, <1>16 DEF vars, database, world
<1>. QED
  BY <1>7, <1>8, <1>9, <1>10, <1>11, <1>12, <1>13, <1>14, <1>15, <1>16 DEF Next

-----------------------------------------------------------------------------

\* The hours of yesterday and, when the days are kept long enough, the days
\* of last month are within their retention.
LEMMA SourcesAreKept ==
    ASSUME hour \in Hours, NEW w \in Hours
    PROVE  /\ DayOf(w) + 1 >= DayOf(hour) => ~(w < Cutoff("hourly"))
           /\ /\ DailyMinRetentionDays >= 2 * DaysPerMonth - 1
              /\ MonthOf(w) + 1 >= MonthOf(DayOf(hour))
              => ~(w < Cutoff("daily"))
<1>. DEFINE today == DayOf(hour)
            kept == IF RetentionDays < DailyMinRetentionDays
                    THEN DailyMinRetentionDays ELSE RetentionDays
<1>1. hour \in Nat /\ w \in Nat /\ HoursPerDay \in Nat \ {0} /\ DaysPerMonth \in Nat \ {0}
  BY TrafficAssumption DEF Hours
<1>2. /\ today \in Nat
      /\ DayOf(w) \in Nat /\ DayOf(w) * HoursPerDay <= w
      /\ MonthOf(w) \in Nat /\ MonthOf(w) * DaysPerMonth <= w
  BY <1>1, DivBounds DEF DayOf, MonthOf
<1>3. MonthOf(today) \in Nat /\ today < MonthOf(today) * DaysPerMonth + DaysPerMonth
  BY <1>1, <1>2, DivBounds DEF MonthOf
<1>4. /\ RetentionDays \in Nat \ {0} /\ kept \in Nat \ {0} /\ DailyMinRetentionDays <= kept
      /\ DailyMinRetentionDays \in Nat
  BY TrafficAssumption
<1>5. Cutoff("daily") = Monus(today, kept)
      /\ Cutoff("hourly") = Monus(today, RetentionDays) * HoursPerDay
  BY DEF Cutoff
<1>. HIDE DEF today, kept
<1>6. ASSUME DayOf(w) + 1 >= today PROVE ~(w < Cutoff("hourly"))
  <2>1. Monus(today, RetentionDays) \in Nat /\ Monus(today, RetentionDays) <= DayOf(w)
    BY <1>2, <1>4, <1>6 DEF Monus
  <2>2. Monus(today, RetentionDays) * HoursPerDay <= DayOf(w) * HoursPerDay
    BY <1>1, <1>2, <2>1, ProductGrows
  <2>3. Monus(today, RetentionDays) * HoursPerDay \in Nat /\ DayOf(w) * HoursPerDay \in Nat
    BY <1>1, <1>2, <2>1
  <2>. QED  BY <1>1, <1>2, <1>5, <2>2, <2>3
<1>7. ASSUME DailyMinRetentionDays >= 2 * DaysPerMonth - 1, MonthOf(w) + 1 >= MonthOf(today)
      PROVE  ~(w < Cutoff("daily"))
  <2>1. /\ MonthOf(today) * DaysPerMonth <= (MonthOf(w) + 1) * DaysPerMonth
        /\ (MonthOf(w) + 1) * DaysPerMonth = MonthOf(w) * DaysPerMonth + DaysPerMonth
        /\ MonthOf(today) * DaysPerMonth \in Nat /\ MonthOf(w) * DaysPerMonth \in Nat
    BY <1>1, <1>2, <1>3, <1>7, ProductGrows
  <2>2. today < w + 2 * DaysPerMonth
    BY <1>1, <1>2, <1>3, <2>1
  <2>3. today <= w + kept
    BY <1>1, <1>2, <1>4, <1>7, <2>2
  <2>4. Monus(today, kept) <= w
    BY <1>1, <1>2, <1>4, <2>3 DEF Monus
  <2>. QED  BY <1>1, <1>2, <1>4, <1>5, <2>4 DEF Monus
<1>. QED  BY <1>6, <1>7 DEF today

-----------------------------------------------------------------------------
(* The theorems *)

\* The counters and everything else keep their types.
THEOREM Types == Spec => []Bounded
BY InitBounded, BoundedStep, PTL DEF Spec

\* The inductive invariant holds when one collector runs.
THEOREM Accounting == ASSUME OneCollector PROVE Spec => []AccountInv
<1>1. OneCollector /\ Bounded /\ Bounded' /\ AccountInv /\ [Next]_vars => AccountInv'
  BY AccountStep
<1>. QED  BY <1>1, InitAccount, Types, PTL DEF Spec

\* The hours never bill more than was carried, whatever restarts and fails:
\* AddHourlyCounters keeps the baseline and the hour in one transaction.
THEOREM BillsAreCarried == ASSUME OneCollector PROVE Spec => []NothingInvented
<1>1. AccountInv => NothingInvented
  <2>. SUFFICES ASSUME AccountInv, NEW t \in Targets PROVE billed[t] <= carried[t]
    BY DEF NothingInvented
  <2>. USE DEF AccountInv, TypeInv, Counters
  <2>1. Delta(counter[t], baseline[t]) \in Nat
    BY DeltaNat
  <2>. QED  BY <2>1 DEF Pending
<1>. QED  BY <1>1, Accounting, PTL

\* Nothing is lost without a restart.
THEOREM NoLossWithoutRestart == ASSUME OneCollector PROVE Spec => []NothingLost
<1>1. AccountInv => NothingLost
  BY DEF AccountInv
<1>. QED  BY <1>1, Accounting, PTL

\* A recorded reset is a restart.
THEOREM ResetsAreRestarts == ASSUME OneCollector PROVE Spec => []ResetIsRestart
<1>1. AccountInv => ResetIsRestart
  BY DEF AccountInv
<1>. QED  BY <1>1, Accounting, PTL

\* What "show current" shows unmarked is pending, even when a collection
\* commits between its query and its read of the baseline.
THEOREM UnmarkedShowsArePending == ASSUME OneCollector PROVE Spec => UnmarkedIsPending
<1>. DEFINE Shows == \A v \in Viewers, t \in Targets \ restarted :
          ReadBaseline(v) /\ t \in Turn(view[v].left) /\ ~view'[v].shown.reset =>
              view'[v].shown.bytes + billed[t] <= carried[t]
<1>1. AccountInv => Shows
  <2>. SUFFICES ASSUME AccountInv, NEW v \in Viewers, NEW t \in Targets \ restarted,
                       ReadBaseline(v), t \in Turn(view[v].left), ~view'[v].shown.reset
                PROVE  view'[v].shown.bytes + billed[t] <= carried[t]
    OBVIOUS
  <2>. USE DEF AccountInv, TypeInv, Counters, Commands
  <2>1. Reads(v, t) /\ view[v].left \in SUBSET Targets /\ view[v].sample \in Nat
    BY DEF ReadBaseline, Reads
  <2>2. view'[v].shown = [bytes |-> Delta(view[v].sample, baseline[t]),
                          reset |-> view[v].sample < baseline[t]]
    BY <2>1, TurnUnique DEF ReadBaseline
  <2>3. baseline[t] <= view[v].sample
    <3>1. view'[v].shown.reset = (view[v].sample < baseline[t])
      BY <2>2
    <3>2. ~(view[v].sample < baseline[t])
      BY <3>1, Zenon
    <3>. QED  BY <2>1, <3>2
  <2>4. view[v].sample <= counter[t] /\ baseline[t] <= counter[t]
    BY <2>1 DEF Ordered
  <2>5. view'[v].shown.bytes = view[v].sample - baseline[t]
    BY <2>1, <2>2, <2>3 DEF Delta
  <2>6. billed[t] + (counter[t] - baseline[t]) = carried[t]
    BY DEF NothingLost
  <2>. QED  BY <2>1, <2>4, <2>5, <2>6
<1>2. AccountInv /\ [Next]_vars => [Shows]_vars
  BY <1>1
<1>. QED  BY <1>2, Accounting, PTL DEF Spec, UnmarkedIsPending

\* Every variable keeps its type; the counters are bounded by what the
\* instances carried.
THEOREM TrafficTypes == Spec => []TypeOK
<1>1. Bounded => TypeOK
  BY DEF Bounded
<1>. QED  BY <1>1, Types, PTL

\* No record of an hour, a day or a month claims more than was ever added to
\* its hours, however many collectors, aggregators and cleanups overlap.
THEOREM NoRecordInvents == Spec => []RecordsNeverInvent
<1>1. ClaimsInv => RecordsNeverInvent
  BY DEF ClaimsInv
<1>. QED  BY <1>1, InitClaims, ClaimsStep, Types, PTL DEF Spec

\* Computing a day or a month again takes nothing away while all its hours are
\* within the retention, when one aggregator runs.
THEOREM AggregatesOnlyGrow == ASSUME OneAggregator PROVE Spec => AggregatesGrow
<1>. DEFINE Grows == \A period \in {"daily", "monthly"}, t \in Targets, w \in Hours :
          rec'[period][t][w].bytes < rec[period][t][w].bytes =>
              \/ w < Cutoff(period)
              \/ \E h \in HoursOf(period, w) : h < Cutoff("hourly")
<1>1. Bounded /\ Bounded' /\ GrowInv /\ [Next]_vars => GrowInv' /\ [Grows]_vars
  <2>. SUFFICES ASSUME Bounded, Bounded', GrowInv, [Next]_vars PROVE GrowInv' /\ Grows
    OBVIOUS
  <2>1. GrowInv' /\ ~Shrinks
    BY GrowStep
  <2>. QED  BY <2>1 DEF Shrinks, Fresh
<1>. QED  BY <1>1, InitGrow, Types, PTL DEF Spec, AggregatesGrow

\* Cleanup leaves the hours of yesterday, and the days of last month when the
\* daily retention reaches back to its first day, for the timers to aggregate.
THEOREM CleanupLeavesSources == Spec => CleanupKeepsSources
<1>. DEFINE Keeps == (\E period \in Periods : Cleanup(period)) => \A t \in Targets, w \in Hours :
          /\ DayOf(w) + 1 >= DayOf(hour) => rec'["hourly"][t][w] = rec["hourly"][t][w]
          /\ /\ DailyMinRetentionDays >= 2 * DaysPerMonth - 1
             /\ MonthOf(w) + 1 >= MonthOf(DayOf(hour))
             => rec'["daily"][t][w] = rec["daily"][t][w]
<1>1. Bounded => Keeps
  <2>. SUFFICES ASSUME Bounded, NEW q \in Periods, Cleanup(q), NEW t \in Targets, NEW w \in Hours
                PROVE  /\ DayOf(w) + 1 >= DayOf(hour) =>
                             rec'["hourly"][t][w] = rec["hourly"][t][w]
                       /\ /\ DailyMinRetentionDays >= 2 * DaysPerMonth - 1
                          /\ MonthOf(w) + 1 >= MonthOf(DayOf(hour))
                          => rec'["daily"][t][w] = rec["daily"][t][w]
    OBVIOUS
  <2>1. hour \in Hours
    BY DEF Bounded, TypeOK
  <2>2. ASSUME NEW p \in Periods, ~(w < Cutoff(p)) PROVE rec'[p][t][w] = rec[p][t][w]
    BY <2>2, BoundedRecorded DEF Cleanup, Recorded
  <2>. QED  BY <2>1, <2>2, SourcesAreKept DEF Periods
<1>2. Bounded /\ [Next]_vars => [Keeps]_vars
  BY <1>1
<1>. QED  BY <1>2, Types, PTL DEF Spec, CleanupKeepsSources
=============================================================================
