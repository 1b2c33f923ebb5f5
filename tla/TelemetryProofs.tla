-------------------------- MODULE TelemetryProofs --------------------------
(***************************************************************************)
(* What is concluded from the stored spans can be relied on: an exporter's *)
(* answer, the window that a command reads, the entry route of every span  *)
(* of it, and the routes reported for a change.  For any batches of any    *)
(* sizes, any number of exporters, and every window, diff and limit.       *)
(***************************************************************************)
EXTENDS Telemetry, FiniteSetTheorems, WellFoundedInduction, TLAPS

\* A step is Zenon's unless it cites another prover.
USE Zenon

-----------------------------------------------------------------------------
(* Numbers and positions                                                   *)

\* A non-empty set of naturals has a least element.
LEMMA LeastOf ==
  ASSUME NEW T, T \subseteq Nat, T # {}
  PROVE  \E x \in T : \A y \in T : x <= y
<1>1. PICK x \in T : \A y \in T : ~(<<y, x>> \in OpToRel(<, Nat))
  BY WFMin, NatLessThanWellFounded
<1>2. \A y \in T : y \in Nat /\ x \in Nat
  OBVIOUS
<1>3. ASSUME NEW y \in T PROVE x <= y
  <2>1. CASE y < x
    <3>1. <<y, x>> \in OpToRel(<, Nat)
      BY SMT, <1>2, <2>1 DEF OpToRel
    <3> QED  BY <1>1, <3>1
  <2> QED  BY SMT, <1>2, <2>1
<1> QED  BY <1>3

\* Min is that element.
LEMMA MinIs ==
  ASSUME NEW T, T \subseteq Nat, T # {}
  PROVE  Min(T) \in T /\ \A y \in T : Min(T) <= y
<1>1. PICK x \in T : \A y \in T : x <= y
  BY LeastOf
<1> QED  BY <1>1 DEF Min

-----------------------------------------------------------------------------
(* Strict orders                                                           *)

StrictOrder(S, R) ==
  /\ \A x \in S : <<x, x>> \notin R
  /\ \A x, y, z \in S : <<x, y>> \in R /\ <<y, z>> \in R => <<x, z>> \in R
  /\ \A x, y \in S : x # y => <<x, y>> \in R \/ <<y, x>> \in R

Before(S, R, x) == {y \in S : <<y, x>> \in R}

\* What comes before an element is less than all, and less than what comes
\* before a later one.
LEMMA BeforeLess ==
  ASSUME NEW S, IsFiniteSet(S), NEW R, StrictOrder(S, R), NEW x \in S
  PROVE  /\ Cardinality(S) \in Nat /\ Cardinality(Before(S, R, x)) \in Nat
         /\ Cardinality(Before(S, R, x)) < Cardinality(S)
         /\ \A y \in S : <<x, y>> \in R => Cardinality(Before(S, R, x)) < Cardinality(Before(S, R, y))
<1>1. \A y \in S : Before(S, R, y) \in SUBSET S /\ IsFiniteSet(Before(S, R, y))
  <2>1. \A y \in S : Before(S, R, y) \in SUBSET S
    BY DEF Before
  <2> QED  BY <2>1, FS_Subset
<1>2. Cardinality(S) \in Nat /\ \A y \in S : Cardinality(Before(S, R, y)) \in Nat
  BY <1>1, FS_CardinalityType
<1>3. x \notin Before(S, R, x)
  BY DEF Before, StrictOrder
<1>4. Cardinality(Before(S, R, x)) < Cardinality(S)
  <2>1. /\ Cardinality(Before(S, R, x)) <= Cardinality(S)
        /\ Cardinality(S) = Cardinality(Before(S, R, x)) => S = Before(S, R, x)
    BY <1>1, FS_Subset
  <2>2. S # Before(S, R, x)
    BY <1>3
  <2> QED  BY SMT, <1>2, <2>1, <2>2
<1>5. ASSUME NEW y \in S, <<x, y>> \in R
      PROVE  Cardinality(Before(S, R, x)) < Cardinality(Before(S, R, y))
  <2>1. Before(S, R, x) \in SUBSET Before(S, R, y) /\ x \in Before(S, R, y)
    BY <1>5 DEF Before, StrictOrder
  <2>2. /\ Cardinality(Before(S, R, x)) <= Cardinality(Before(S, R, y))
        /\ Cardinality(Before(S, R, y)) = Cardinality(Before(S, R, x)) => Before(S, R, y) = Before(S, R, x)
    BY <1>1, <2>1, FS_Subset
  <2>3. Before(S, R, y) # Before(S, R, x)
    BY <1>3, <2>1
  <2> QED  BY SMT, <1>2, <2>2, <2>3
<1> QED  BY <1>2, <1>4, <1>5

\* Every place is taken by exactly one element.
LEMMA Placed ==
  ASSUME NEW S, IsFiniteSet(S), NEW R, StrictOrder(S, R)
  PROVE  \A k \in 1 .. Cardinality(S) : \E x \in S : Cardinality(Before(S, R, x)) = k - 1
<1> DEFINE n == Cardinality(S)
           f == [x \in S |-> Cardinality(Before(S, R, x)) + 1]
<1>1. n \in Nat /\ \A x \in S : Cardinality(Before(S, R, x)) \in Nat /\ Cardinality(Before(S, R, x)) < n
  BY FS_CardinalityType, BeforeLess
<1>2. f \in [S -> 1 .. n]
  BY SMT, <1>1
<1>3. ASSUME NEW x \in S, NEW y \in S, f[x] = f[y] PROVE x = y
  <2>1. Cardinality(Before(S, R, x)) = Cardinality(Before(S, R, y))
    BY SMT, <1>1, <1>3
  <2>2. /\ <<x, y>> \in R => Cardinality(Before(S, R, x)) < Cardinality(Before(S, R, y))
        /\ <<y, x>> \in R => Cardinality(Before(S, R, y)) < Cardinality(Before(S, R, x))
    BY BeforeLess
  <2>3. <<x, y>> \notin R /\ <<y, x>> \notin R
    BY SMT, <1>1, <2>1, <2>2
  <2> QED  BY <2>3 DEF StrictOrder
<1>4. f \in Injection(S, 1 .. n)
  <2>1. DOMAIN f = S
    OBVIOUS
  <2> HIDE DEF f
  <2> QED  BY <1>2, <1>3, <2>1 DEF Injection, IsInjective
<1>5. IsFiniteSet(1 .. n) /\ Cardinality(1 .. n) = n
  BY SMT, <1>1, FS_Interval
<1>6. f \in Surjection(S, 1 .. n)
  <2> HIDE DEF f
  <2> QED  BY <1>4, <1>5, FS_Injection
<1>7. ASSUME NEW k \in 1 .. n PROVE \E x \in S : Cardinality(Before(S, R, x)) = k - 1
  <2>1. PICK x \in S : f[x] = k
    <3> HIDE DEF f
    <3> QED  BY <1>6 DEF Surjection
  <2>2. Cardinality(Before(S, R, x)) + 1 = k
    BY <2>1
  <2> QED  BY SMT, <1>1, <2>2
<1> QED  BY <1>7

\* What orderBy answers: every element once, each after those before it.
InOrder(S, R, q) ==
  /\ Cardinality(S) \in Nat /\ q \in [1 .. Cardinality(S) -> S]
  /\ \A x \in S : \E k \in 1 .. Cardinality(S) : q[k] = x
  /\ \A i, j \in 1 .. Cardinality(S) : q[i] = q[j] => i = j
  /\ \A k \in 1 .. Cardinality(S) : Cardinality(Before(S, R, q[k])) = k - 1

\* orderBy lists a finite set in order: sort.Slice of groupTraces and sortTraceSpans.
LEMMA OrderedBy ==
  ASSUME NEW S, IsFiniteSet(S), NEW R, StrictOrder(S, R)
  PROVE  InOrder(S, R, orderBy(S, R))
<1> DEFINE n == Cardinality(S)
           q == orderBy(S, R)
<1>1. n \in Nat /\ \A x \in S : Cardinality(Before(S, R, x)) \in Nat /\ Cardinality(Before(S, R, x)) < n
  BY FS_CardinalityType, BeforeLess
<1>2. q = [k \in 1 .. n |-> CHOOSE x \in S : Cardinality(Before(S, R, x)) = k - 1]
  BY DEF orderBy, Before
<1> HIDE DEF q
<1>3. ASSUME NEW k \in 1 .. n PROVE q[k] \in S /\ Cardinality(Before(S, R, q[k])) = k - 1
  <2>1. q[k] = CHOOSE x \in S : Cardinality(Before(S, R, x)) = k - 1
    BY <1>2
  <2>2. \E x \in S : Cardinality(Before(S, R, x)) = k - 1
    BY Placed
  <2> QED  BY <2>1, <2>2
<1>4. q \in [1 .. n -> S]
  BY <1>2, <1>3
<1>5. ASSUME NEW x \in S PROVE \E k \in 1 .. n : q[k] = x
  <2>1. PICK k \in 1 .. n : Cardinality(Before(S, R, x)) = k - 1
    BY SMT, <1>1
  <2>2. q[k] \in S /\ Cardinality(Before(S, R, q[k])) = Cardinality(Before(S, R, x))
    BY <1>3, <2>1
  <2>3. ASSUME NEW y \in S, NEW z \in S, <<y, z>> \in R,
               Cardinality(Before(S, R, y)) = Cardinality(Before(S, R, z)) PROVE FALSE
    <3>1. Cardinality(Before(S, R, y)) < Cardinality(Before(S, R, z))
      BY <2>3, BeforeLess
    <3> QED  BY SMT, <1>1, <2>3, <3>1
  <2>4. q[k] = x
    BY <2>2, <2>3 DEF StrictOrder
  <2> QED  BY <2>4
<1>6. ASSUME NEW i \in 1 .. n, NEW j \in 1 .. n, q[i] = q[j] PROVE i = j
  <2>1. i - 1 = j - 1
    BY <1>3, <1>6
  <2> QED  BY SMT, <2>1
<1> QED  BY <1>1, <1>3, <1>4, <1>5, <1>6 DEF InOrder, q

\* Of an ordered set, those with fewer than m before them are all or m.
Firsts(S, R, m) == {x \in S : Cardinality(Before(S, R, x)) < m}

\* The first m of an order are m elements, or all there are.
LEMMA FirstOnes ==
  ASSUME NEW S, IsFiniteSet(S), NEW R, StrictOrder(S, R), NEW m \in Nat
  PROVE  Firsts(S, R, m) = S \/ Cardinality(Firsts(S, R, m)) = m
<1>0. PICK F : F = Firsts(S, R, m) /\ F = {x \in S : Cardinality(Before(S, R, x)) < m}
  BY DEF Firsts
<1>1. SUFFICES ASSUME F # S PROVE Cardinality(F) = m
  BY <1>0
<1> DEFINE n == Cardinality(S)
<1>2. PICK q : InOrder(S, R, q)
  BY OrderedBy
<1>3. /\ n \in Nat /\ q \in [1 .. n -> S]
      /\ \A x \in S : \E k \in 1 .. n : q[k] = x
      /\ \A i, j \in 1 .. n : q[i] = q[j] => i = j
      /\ \A k \in 1 .. n : Cardinality(Before(S, R, q[k])) = k - 1
  BY <1>2 DEF InOrder
<1>4. m < n
  <2>1. PICK x \in S : ~(Cardinality(Before(S, R, x)) < m)
    BY <1>0, <1>1
  <2>2. Cardinality(Before(S, R, x)) \in Nat /\ Cardinality(Before(S, R, x)) < n
    BY BeforeLess
  <2> QED  BY SMT, <1>3, <2>1, <2>2
<1> HIDE DEF n
<1>5. \A k \in 1 .. m : k \in 1 .. n /\ k - 1 < m
  BY SMT, <1>3, <1>4
<1> DEFINE g == [k \in 1 .. m |-> q[k]]
<1>6. g \in [1 .. m -> F]
  <2>1. \A k \in 1 .. m : q[k] \in S /\ Cardinality(Before(S, R, q[k])) < m
    BY <1>3, <1>5
  <2> QED  BY <1>0, <2>1
<1>7. \A x \in F : \E k \in 1 .. m : g[k] = x
  <2> SUFFICES ASSUME NEW x \in F PROVE \E k \in 1 .. m : g[k] = x
    OBVIOUS
  <2>1. PICK k \in 1 .. n : q[k] = x
    BY <1>0, <1>3
  <2>2. k - 1 < m
    BY <1>0, <1>3, <2>1
  <2>3. k \in 1 .. m
    BY SMT, <1>3, <2>2
  <2> QED  BY <2>1, <2>3
<1>8. \A i, j \in 1 .. m : g[i] = g[j] => i = j
  BY <1>3, <1>5
<1>9. DOMAIN g = 1 .. m
  OBVIOUS
<1> HIDE DEF g
<1>10. g \in Bijection(1 .. m, F)
  BY <1>6, <1>7, <1>8, <1>9 DEF Bijection, Injection, Surjection, IsInjective
<1>11. ExistsBijection(1 .. m, F)
  BY <1>10 DEF ExistsBijection
<1> QED  BY <1>11, FS_CountingElements

\* A finite set of integers has a greatest element.
LEMMA MaxIs ==
  ASSUME NEW S, IsFiniteSet(S), S # {}, S \subseteq Int
  PROVE  Max(S) \in S /\ \A y \in S : Max(S) >= y
<1> DEFINE R == {p \in S \X S : p[1] > p[2]}
<1>1. \A x, y \in S : <<x, y>> \in R <=> x > y
  OBVIOUS
<1> HIDE DEF R
<1>2. \A x \in S : x \in Int
  OBVIOUS
<1>3. StrictOrder(S, R)
  BY SMT, <1>1, <1>2 DEF StrictOrder
<1>4. Cardinality(S) \in Nat /\ Cardinality(S) # 0
  BY FS_EmptySet, FS_CardinalityType
<1>5. 1 \in 1 .. Cardinality(S)
  BY SMT, <1>4
<1>6. PICK x \in S : Cardinality(Before(S, R, x)) = 1 - 1
  BY <1>3, <1>5, Placed
<1>7. Before(S, R, x) = {}
  <2>1. Before(S, R, x) \in SUBSET S
    BY DEF Before
  <2>2. Cardinality(Before(S, R, x)) = 0
    BY SMT, <1>6
  <2> QED  BY <2>1, <2>2, FS_Subset, FS_EmptySet
<1>8. \A y \in S : x >= y
  <2>1. \A y \in S : ~(y > x)
    BY <1>1, <1>7 DEF Before
  <2> QED  BY SMT, <1>2, <2>1
<1> QED  BY <1>8 DEF Max

-----------------------------------------------------------------------------
(* Windows                                                                 *)

\* What a store can hold.
Sound(S) == S \subseteq World /\ IsFiniteSet(S)

\* A produced span has numbers for its times and ids, and an id.
LEMMA SpanIs ==
  ASSUME NEW s \in World
  PROVE  s.trace \in Nat /\ s.start \in Nat /\ s.id \in Nat /\ s.id # NoSpan
BY IngestAssumption

\* A function of a finite domain has finitely many values.
LEMMA Finite ==
  ASSUME NEW f, IsFiniteSet(DOMAIN f)
  PROVE  IsFiniteSet(Range(f))
<1>1. PICK g : g = [x \in DOMAIN f |-> f[x]]
  OBVIOUS
<1>2. g \in Surjection(DOMAIN f, Range(f))
  BY <1>1 DEF Surjection, Range
<1> QED  BY <1>2, FS_Surjection

\* Finitely many spans are of finitely many traces.
LEMMA TracesFinite ==
  ASSUME NEW S, IsFiniteSet(S)
  PROVE  IsFiniteSet(tracesOf(S)) /\ \A T \in SUBSET tracesOf(S) : IsFiniteSet(T)
<1>1. PICK f : f = [s \in S |-> s.trace]
  OBVIOUS
<1>2. DOMAIN f = S /\ Range(f) = tracesOf(S)
  BY <1>1 DEF Range, tracesOf
<1>3. IsFiniteSet(tracesOf(S))
  BY <1>2, Finite
<1> QED  BY <1>3, FS_Subset

\* A stored trace has a newest start.
LEMMA LastIs ==
  ASSUME NEW S, Sound(S), NEW t \in tracesOf(S)
  PROVE  t \in Nat /\ last(S, t) \in Nat
<1>1. PICK f : f = [s \in ofTrace(S, t) |-> s.start]
  OBVIOUS
<1>2. DOMAIN f = ofTrace(S, t) /\ Range(f) = {s.start : s \in ofTrace(S, t)}
  BY <1>1 DEF Range
<1>3. ofTrace(S, t) \in SUBSET S
  BY DEF ofTrace
<1>4. IsFiniteSet(ofTrace(S, t))
  BY <1>3, FS_Subset DEF Sound
<1>5. IsFiniteSet(Range(f))
  BY <1>2, <1>4, Finite
<1>6. \A s \in S : s.start \in Nat /\ s.trace \in Nat
  BY SpanIs DEF Sound
<1>7. Range(f) # {} /\ Range(f) \subseteq Nat /\ t \in Nat
  BY <1>2, <1>3, <1>6 DEF tracesOf, ofTrace
<1>8. Range(f) \subseteq Int
  BY SMT, <1>7
<1>9. Max(Range(f)) \in Range(f)
  BY <1>5, <1>7, <1>8, MaxIs
<1> QED  BY <1>2, <1>7, <1>9 DEF last

\* Comparing pairs of numbers.
LEMMA Lexicographic ==
  ASSUME NEW a \in Nat, NEW b \in Nat, NEW c \in Nat, NEW d \in Nat, NEW e \in Nat, NEW f \in Nat
  PROVE  /\ ~(a > a \/ (a = a /\ b > b))
         /\ (a > c \/ (a = c /\ b > d)) /\ (c > e \/ (c = e /\ d > f)) => (a > e \/ (a = e /\ b > f))
         /\ b # d => (a > c \/ (a = c /\ b > d)) \/ (c > a \/ (c = a /\ d > b))
         /\ ~(a < a \/ (a = a /\ b < b))
         /\ (a < c \/ (a = c /\ b < d)) /\ (c < e \/ (c = e /\ d < f)) => (a < e \/ (a = e /\ b < f))
         /\ b # d => (a < c \/ (a = c /\ b < d)) \/ (c < a \/ (c = a /\ d < b))
BY SMT

\* groupTraces compares traces by a strict order of them all.
LEMMA NewerOrders ==
  ASSUME NEW S, Sound(S)
  PROVE  /\ \A t \in tracesOf(S) : ~newer(S, t, t)
         /\ \A t, u, v \in tracesOf(S) : newer(S, t, u) /\ newer(S, u, v) => newer(S, t, v)
         /\ \A t, u \in tracesOf(S) : t # u => newer(S, t, u) \/ newer(S, u, t)
<1>1. \A t \in tracesOf(S) : t \in Nat /\ last(S, t) \in Nat
  BY LastIs
<1>2. \A t \in tracesOf(S) : ~newer(S, t, t)
  BY <1>1, Lexicographic DEF newer
<1>3. ASSUME NEW t \in tracesOf(S), NEW u \in tracesOf(S), NEW v \in tracesOf(S),
             newer(S, t, u), newer(S, u, v)
      PROVE  newer(S, t, v)
  BY SMT, <1>1, <1>3 DEF newer
<1>4. \A t, u \in tracesOf(S) : t # u => newer(S, t, u) \/ newer(S, u, t)
  BY SMT, <1>1 DEF newer
<1> QED  BY <1>2, <1>3, <1>4

\* sortTraceSpans compares the spans of a trace by a strict order of them all.
LEMMA OlderOrders ==
  ASSUME NEW S, Sound(S)
  PROVE  /\ \A r \in S : ~older(r, r)
         /\ \A q, r, s \in S : older(q, r) /\ older(r, s) => older(q, s)
         /\ \A r, s \in S : r # s /\ r.trace = s.trace => older(r, s) \/ older(s, r)
<1>1. \A s \in S : s.id \in Nat /\ s.start \in Nat
  BY SpanIs DEF Sound
<1>2. \A r, s \in S : r # s /\ r.trace = s.trace => r.id # s.id
  BY IngestAssumption DEF Sound
<1>3. \A r \in S : ~older(r, r)
  BY SMT, <1>1 DEF older
<1>4. ASSUME NEW q \in S, NEW r \in S, NEW s \in S, older(q, r), older(r, s)
      PROVE  older(q, s)
  BY SMT, <1>1, <1>4 DEF older
<1>5. \A r, s \in S : r # s /\ r.trace = s.trace => older(r, s) \/ older(s, r)
  BY SMT, <1>1, <1>2 DEF older
<1> QED  BY <1>3, <1>4, <1>5

\* So the spans of a window are strictly ordered.
LEMMA SoonerOrders ==
  ASSUME NEW S, Sound(S), NEW T \in SUBSET S
  PROVE  StrictOrder(T, {p \in T \X T : sooner(S, p[1], p[2])})
<1>1. PICK R : R = {p \in T \X T : sooner(S, p[1], p[2])}
  OBVIOUS
<1>2. \A r, s \in T : <<r, s>> \in R <=> sooner(S, r, s)
  BY <1>1
<1>3. \A s \in T : s \in S /\ s.trace \in tracesOf(S)
  BY DEF tracesOf
<1>4. \A r \in T : ~sooner(S, r, r)
  BY <1>3, NewerOrders, OlderOrders DEF sooner
<1>5. ASSUME NEW q \in T, NEW r \in T, NEW s \in T, sooner(S, q, r), sooner(S, r, s)
      PROVE  sooner(S, q, s)
  <2>1. newer(S, q.trace, r.trace) /\ newer(S, r.trace, s.trace) => newer(S, q.trace, s.trace)
    BY <1>3, NewerOrders
  <2>2. older(q, r) /\ older(r, s) => older(q, s)
    BY <1>3, OlderOrders
  <2> QED  BY <1>5, <2>1, <2>2 DEF sooner
<1>6. ASSUME NEW r \in T, NEW s \in T, r # s PROVE sooner(S, r, s) \/ sooner(S, s, r)
  <2>1. r.trace # s.trace => newer(S, r.trace, s.trace) \/ newer(S, s.trace, r.trace)
    BY <1>3, NewerOrders
  <2>2. r.trace = s.trace => older(r, s) \/ older(s, r)
    BY <1>3, <1>6, OlderOrders
  <2> QED  BY <2>1, <2>2 DEF sooner
<1>7. StrictOrder(T, R)
  BY <1>2, <1>4, <1>5, <1>6 DEF StrictOrder
<1> QED  BY <1>1, <1>7

\* A function of 1 .. n is a sequence of length n.
LEMMA Listed ==
  ASSUME NEW S, NEW n \in Nat, NEW q \in [1 .. n -> S]
  PROVE  q \in Seq(S) /\ Len(q) = n
BY SMT

\* A list without repetitions, and what it lists.
Lists(w, S) ==
  /\ w \in Seq(S) /\ Len(w) \in Nat /\ DOMAIN w = 1 .. Len(w)
  /\ \A i, j \in DOMAIN w : w[i] = w[j] => i = j

\* What is cut at the cap repeats nothing, and below the cap nothing is cut.
LEMMA CutIs ==
  ASSUME NEW S, NEW n \in Nat, NEW q \in [1 .. n -> S], NEW m \in Nat,
         \A i, j \in 1 .. n : q[i] = q[j] => i = j
  PROVE  /\ Lists(upTo(q, m), S)
         /\ n <= m => upTo(q, m) = q
<1>1. q \in Seq(S) /\ Len(q) = n
  BY SMT, Listed
<1>2. PICK k \in 0 .. n : k = IF n < m THEN n ELSE m
  BY SMT
<1>3. upTo(q, m) = SubSeq(q, 1, k)
  BY <1>1, <1>2 DEF upTo
<1>4. PICK w : w = SubSeq(q, 1, k)
  OBVIOUS
<1>5. w \in Seq(S) /\ Len(w) = k /\ DOMAIN w = 1 .. k /\ \A i \in 1 .. k : w[i] = q[i]
  BY SMT, <1>1, <1>2, <1>4
<1>6. k \in Nat /\ \A i \in 1 .. k : i \in 1 .. n
  BY SMT, <1>2
<1>7. Lists(w, S)
  BY <1>5, <1>6 DEF Lists
<1>8. n <= m => k = n
  BY SMT, <1>2
<1>9. k = n => w = q
  <2>1. ASSUME k = n PROVE w = q
    <3>1. w \in [1 .. n -> S]
      BY SMT, <1>5, <2>1
    <3> QED  BY SMT, <1>5, <2>1, <3>1
  <2> QED  BY <2>1
<1> QED  BY <1>3, <1>4, <1>7, <1>8, <1>9

\* What SelectWindow answers: spans of the traces kept, all of them when they fit.
shows(w, S, out) ==
  /\ Lists(w, S) /\ Range(w) \subseteq out
  /\ Cardinality(out) <= MaxWindowSpans => Range(w) = out /\ Len(w) = Cardinality(out)

\* SelectWindow returns the spans of the traces kept, each once, and all of them
\* below the cap.
LEMMA SelectedAre ==
  ASSUME NEW S, Sound(S), NEW n, NEW service, NEW out,
         out = {s \in S : s.trace \in kept(S, n, service)}
  PROVE  shows(SelectWindow(S, n, service), S, out)
<1>1. PICK R : R = {p \in out \X out : sooner(S, p[1], p[2])}
  OBVIOUS
<1>2. out \in SUBSET S
  OBVIOUS
<1>3. IsFiniteSet(out)
  BY <1>2, FS_Subset DEF Sound
<1>4. StrictOrder(out, R)
  BY <1>1, <1>2, SoonerOrders
<1>5. PICK q : q = orderBy(out, R)
  OBVIOUS
<1>6. InOrder(out, R, q)
  BY <1>3, <1>4, <1>5, OrderedBy
<1>7. PICK w : w = upTo(q, MaxWindowSpans)
  OBVIOUS
<1>8. SelectWindow(S, n, service) = w
  BY <1>1, <1>5, <1>7 DEF SelectWindow
<1>9. Cardinality(out) \in Nat /\ q \in [1 .. Cardinality(out) -> out]
      /\ (\A i, j \in 1 .. Cardinality(out) : q[i] = q[j] => i = j)
      /\ \A x \in out : \E k \in 1 .. Cardinality(out) : q[k] = x
  BY <1>6 DEF InOrder
<1>10. MaxWindowSpans \in Nat
  BY SMT, SpansAssumption
<1>11. Lists(w, out) /\ (Cardinality(out) <= MaxWindowSpans => w = q)
  BY <1>7, <1>9, <1>10, CutIs
<1>12. Range(w) \subseteq out
  <2>1. w \in Seq(out) /\ DOMAIN w = 1 .. Len(w)
    BY <1>11 DEF Lists
  <2>2. \A i \in 1 .. Len(w) : w[i] \in out
    BY SMT, <2>1
  <2> QED  BY <2>1, <2>2 DEF Range
<1>13. Lists(w, S)
  <2>1. w \in Seq(out)
    BY <1>11 DEF Lists
  <2>2. w \in Seq(S)
    BY SMT, <1>2, <2>1
  <2> QED  BY <1>11, <2>2 DEF Lists
<1>14. ASSUME Cardinality(out) <= MaxWindowSpans PROVE Range(w) = out /\ Len(w) = Cardinality(out)
  <2>1. w = q /\ DOMAIN w = 1 .. Cardinality(out)
    BY <1>9, <1>11, <1>14
  <2>2. out \subseteq Range(w)
    BY <1>9, <2>1 DEF Range
  <2>3. Len(w) = Cardinality(out)
    BY <1>9, <2>1, Listed
  <2> QED  BY <1>12, <2>2, <2>3
<1> QED  BY <1>8, <1>12, <1>13, <1>14 DEF shows

\* A window is of one trace at least.
LEMMA WindowSize ==
  ASSUME NEW n \in Int
  PROVE  normalizeTraceWindow(n) \in Nat /\ normalizeTraceWindow(n) # 0
BY SMT, SpansAssumption DEF normalizeTraceWindow

\* The traces of G with fewer than m newer ones.
Newest(S, G, m) == {t \in G : Cardinality({u \in G : last(S, u) > last(S, t)}) < m}

\* A store no two of whose traces are equally new, and whose newest ones fit.
Fits(S, n, service, G, W, whole) ==
  /\ Sound(S) /\ n \in Int /\ G = groupTraces(S, service)
  /\ W = Newest(S, G, normalizeTraceWindow(n)) /\ whole = {s \in S : s.trace \in W}
  /\ \A t, u \in G : t # u => last(S, t) # last(S, u)
  /\ Cardinality(whole) <= MaxWindowSpans

\* Where no two traces are equally new and all fit, they are what is kept.
LEMMA KeptAre ==
  ASSUME NEW S, NEW n, NEW service, NEW G, NEW W, NEW whole, Fits(S, n, service, G, W, whole)
  PROVE  kept(S, n, service) = W
<1> SUFFICES ASSUME Sound(S), n \in Int, G = groupTraces(S, service),
                    W = Newest(S, G, normalizeTraceWindow(n)), whole = {s \in S : s.trace \in W},
                    \A t, u \in G : t # u => last(S, t) # last(S, u),
                    Cardinality(whole) <= MaxWindowSpans
             PROVE  kept(S, n, service) = W
  BY DEF Fits
<1>1. G \subseteq tracesOf(S) /\ W \subseteq G
  BY DEF groupTraces, Newest
<1>2. \A t \in G : t \in Nat /\ last(S, t) \in Nat
  BY <1>1, LastIs
<1>3. \A t, u \in G : newer(S, u, t) <=> last(S, u) > last(S, t)
  BY SMT, <1>2 DEF newer
<1>4. \A t \in G : ahead(S, service, t) = {u \in G : last(S, u) > last(S, t)}
  BY <1>3 DEF ahead
<1>5. MaxWindowSpans \in Nat
  BY SMT, SpansAssumption
<1>6. whole \in SUBSET S /\ IsFiniteSet(whole)
  <2>1. whole \in SUBSET S
    OBVIOUS
  <2> QED  BY <2>1, FS_Subset DEF Sound
<1>7. \A T \in SUBSET tracesOf(S) : IsFiniteSet(T) /\ Cardinality(T) \in Nat
  BY TracesFinite, FS_CardinalityType DEF Sound
<1>8. ASSUME NEW t \in W PROVE ahead(S, service, t) \subseteq W /\ t \notin ahead(S, service, t)
  <2>1. t \notin ahead(S, service, t)
    BY <1>1, NewerOrders DEF ahead
  <2>2. ASSUME NEW u \in ahead(S, service, t) PROVE u \in W
    <3>1. u \in G /\ t \in G /\ last(S, u) > last(S, t)
      BY <1>1, <1>4
    <3>2. \A v \in G : last(S, v) > last(S, u) => last(S, v) > last(S, t)
      BY SMT, <1>2, <3>1
    <3>3. PICK A, B : A = {v \in G : last(S, v) > last(S, u)} /\ B = {v \in G : last(S, v) > last(S, t)}
      OBVIOUS
    <3>4. A \in SUBSET B /\ B \in SUBSET tracesOf(S) /\ A \in SUBSET tracesOf(S)
      BY <1>1, <3>2, <3>3
    <3>5. Cardinality(A) <= Cardinality(B) /\ Cardinality(A) \in Nat /\ Cardinality(B) \in Nat
      BY <1>7, <3>4, FS_Subset
    <3>6. Cardinality(B) < normalizeTraceWindow(n)
      BY <3>3 DEF Newest
    <3>7. normalizeTraceWindow(n) \in Nat
      BY WindowSize
    <3>8. Cardinality(A) < normalizeTraceWindow(n)
      BY SMT, <3>5, <3>6, <3>7
    <3> QED  BY <3>1, <3>3, <3>8 DEF Newest
  <2> QED  BY <2>1, <2>2
<1>9. ASSUME NEW t \in W
      PROVE  Cardinality({s \in S : s.trace \in ahead(S, service, t)}) < MaxWindowSpans
  <2>1. PICK A : A = {s \in S : s.trace \in ahead(S, service, t)}
    OBVIOUS
  <2>2. PICK s \in S : s.trace = t
    BY <1>1 DEF tracesOf
  <2>3. A \in SUBSET whole /\ s \in whole /\ s \notin A
    BY <1>8, <2>1, <2>2
  <2>4. Cardinality(A) <= Cardinality(whole) /\ (Cardinality(whole) = Cardinality(A) => whole = A)
        /\ IsFiniteSet(A)
    BY <1>6, <2>3, FS_Subset
  <2>5. Cardinality(A) \in Nat /\ Cardinality(whole) \in Nat /\ Cardinality(A) # Cardinality(whole)
    BY <1>6, <2>3, <2>4, FS_CardinalityType
  <2>6. Cardinality(A) < MaxWindowSpans
    BY SMT, <1>5, <2>4, <2>5
  <2> QED  BY <2>1, <2>6
<1>10. W \subseteq kept(S, n, service)
  <2> SUFFICES ASSUME NEW t \in W PROVE t \in kept(S, n, service)
    OBVIOUS
  <2>1. Cardinality(ahead(S, service, t)) < normalizeTraceWindow(n)
    BY <1>1, <1>4 DEF Newest
  <2> QED  BY <1>1, <1>9, <2>1 DEF kept
<1>11. kept(S, n, service) \subseteq W
  BY <1>4 DEF kept, Newest
<1> QED  BY <1>10, <1>11

\* What an answer to WindowNewest's question has to be.
complete(w, whole) == Range(w) = whole /\ Len(w) = Cardinality(whole)

\* The memory store's window is the newest whole traces.
LEMMA MemoryNewest ==
  ASSUME NEW S, NEW n, NEW service, NEW G, NEW W, NEW whole, Fits(S, n, service, G, W, whole)
  PROVE  complete(SelectWindow(S, n, service), whole)
<1> SUFFICES ASSUME Sound(S), n \in Int, G = groupTraces(S, service),
                    W = Newest(S, G, normalizeTraceWindow(n)), whole = {s \in S : s.trace \in W},
                    \A t, u \in G : t # u => last(S, t) # last(S, u),
                    Cardinality(whole) <= MaxWindowSpans
             PROVE  complete(SelectWindow(S, n, service), whole)
  BY DEF Fits
<1>1. kept(S, n, service) = W
  BY KeptAre
<1>2. whole = {s \in S : s.trace \in kept(S, n, service)}
  BY <1>1
<1>3. shows(SelectWindow(S, n, service), S, whole)
  BY <1>2, SelectedAre
<1> QED  BY <1>3 DEF shows, complete

\* The rows of the newest traces are again a store whose newest traces are all.
LEMMA RowsNewest ==
  ASSUME NEW S, NEW n, NEW service, NEW G, NEW W, NEW whole, Fits(S, n, service, G, W, whole)
  PROVE  complete(SelectWindow(whole, n, service), whole)
<1> SUFFICES ASSUME Sound(S), n \in Int, G = groupTraces(S, service),
                    W = Newest(S, G, normalizeTraceWindow(n)), whole = {s \in S : s.trace \in W},
                    \A t, u \in G : t # u => last(S, t) # last(S, u),
                    Cardinality(whole) <= MaxWindowSpans
             PROVE  complete(SelectWindow(whole, n, service), whole)
  BY DEF Fits
<1>1. G \subseteq tracesOf(S) /\ W \subseteq G
  BY DEF groupTraces, Newest
<1>2. Sound(whole)
  <2>1. whole \in SUBSET S
    OBVIOUS
  <2> QED  BY <2>1, FS_Subset DEF Sound
<1>3. tracesOf(whole) = W
  <2>1. \A t \in W : \E s \in S : s.trace = t
    BY <1>1 DEF tracesOf
  <2> QED  BY <2>1 DEF tracesOf
<1>4. \A t \in W : ofTrace(whole, t) = ofTrace(S, t)
  BY DEF ofTrace
<1>5. \A t \in W : last(whole, t) = last(S, t)
  BY <1>4 DEF last
<1>6. groupTraces(whole, service) = W
  <2>1. \A t \in W : ~probeOnly(ofTrace(S, t)) /\ traceTouches(ofTrace(S, t), service)
    BY <1>1 DEF groupTraces
  <2> QED  BY <1>3, <1>4, <2>1 DEF groupTraces
<1>7. W = Newest(whole, W, normalizeTraceWindow(n))
  <2> SUFFICES ASSUME NEW t \in W
               PROVE  Cardinality({u \in W : last(whole, u) > last(whole, t)}) < normalizeTraceWindow(n)
    BY DEF Newest
  <2>1. PICK A, B : A = {u \in W : last(whole, u) > last(whole, t)} /\ B = {u \in G : last(S, u) > last(S, t)}
    OBVIOUS
  <2>2. A \in SUBSET B /\ B \in SUBSET tracesOf(S)
    BY <1>1, <1>5, <2>1
  <2>3. IsFiniteSet(B)
    BY <2>2, TracesFinite DEF Sound
  <2>4. Cardinality(A) <= Cardinality(B) /\ Cardinality(A) \in Nat /\ Cardinality(B) \in Nat
    BY <2>2, <2>3, FS_Subset, FS_CardinalityType
  <2>5. Cardinality(B) < normalizeTraceWindow(n) /\ normalizeTraceWindow(n) \in Nat
    BY <2>1, WindowSize DEF Newest
  <2>6. Cardinality(A) < normalizeTraceWindow(n)
    BY SMT, <2>4, <2>5
  <2> QED  BY <2>1, <2>6
<1>8. whole = {s \in whole : s.trace \in W}
  OBVIOUS
<1>9. ASSUME NEW t \in W, NEW u \in W, t # u PROVE last(whole, t) # last(whole, u)
  <2>1. last(whole, t) = last(S, t) /\ last(whole, u) = last(S, u)
    BY <1>5
  <2> QED  BY <1>1, <1>9, <2>1
<1>10. Fits(whole, n, service, W, W, whole)
  BY <1>2, <1>6, <1>7, <1>8, <1>9 DEF Fits
<1> QED  BY <1>10, MemoryNewest

\* Where no two traces are equally new, the statement picks the newest ones.
LEMMA RecentNewest ==
  ASSUME NEW S, Sound(S), NEW n \in Int, NEW service, NEW G, G = sqlCandidates(S, service),
         \A t, u \in G : t # u => last(S, t) # last(S, u),
         NEW r \in recent(S, n, service)
  PROVE  r = Newest(S, G, normalizeTraceWindow(n))
<1> DEFINE m == normalizeTraceWindow(n)
<1>1. m \in Nat /\ m # 0
  BY WindowSize
<1>2. /\ r \in SUBSET G
      /\ Cardinality(r) = IF Cardinality(G) < m THEN Cardinality(G) ELSE m
      /\ \A x \in r, y \in G \ r : ~(last(S, y) > last(S, x))
  <2> DEFINE R == {p \in G \X G : last(S, p[1]) > last(S, p[2])}
  <2>1. r \in limit(G, R, m)
    BY DEF recent
  <2>2. \A x, y \in G : last(S, y) > last(S, x) => <<y, x>> \in R
    BY SMT
  <2> HIDE DEF R
  <2> QED  BY <2>1, <2>2 DEF limit
<1>3. G \subseteq tracesOf(S)
  BY DEF sqlCandidates
<1>4. \A t \in G : last(S, t) \in Nat
  BY <1>3, LastIs
<1>5. \A T \in SUBSET G : IsFiniteSet(T) /\ Cardinality(T) \in Nat
  BY <1>3, TracesFinite, FS_CardinalityType DEF Sound
<1> DEFINE above(t) == {u \in G : last(S, u) > last(S, t)}
<1>6. \A t : above(t) \in SUBSET G
  OBVIOUS
<1>7. ASSUME NEW t \in r PROVE Cardinality(above(t)) < m
  <2>1. above(t) \in SUBSET r /\ t \notin above(t)
    <3>1. \A u \in above(t) : u \in r
      BY <1>2
    <3>2. ~(last(S, t) > last(S, t))
      BY SMT, <1>2, <1>4
    <3> QED  BY <3>1, <3>2
  <2> HIDE DEF above
  <2>2. /\ Cardinality(above(t)) <= Cardinality(r)
        /\ Cardinality(r) = Cardinality(above(t)) => r = above(t)
        /\ Cardinality(r) \in Nat /\ Cardinality(above(t)) \in Nat
    BY <1>2, <1>5, <1>6, <2>1, FS_Subset
  <2>3. Cardinality(r) # Cardinality(above(t))
    BY <2>1, <2>2
  <2>4. Cardinality(r) <= m
    BY SMT, <1>1, <1>2, <1>5
  <2> QED  BY SMT, <1>1, <2>2, <2>3, <2>4
<1>8. ASSUME NEW t \in G, Cardinality(above(t)) < m PROVE t \in r
  <2> SUFFICES ASSUME t \notin r PROVE FALSE
    OBVIOUS
  <2>1. \A x \in r : last(S, x) > last(S, t)
    BY SMT, <1>2, <1>4
  <2>2. r \in SUBSET above(t)
    BY <1>2, <2>1
  <2> HIDE DEF above
  <2>3. Cardinality(r) <= Cardinality(above(t)) /\ Cardinality(above(t)) \in Nat
    BY <1>5, <1>6, <2>2, FS_Subset
  <2>4. Cardinality(r) = Cardinality(G)
    BY SMT, <1>1, <1>2, <1>5, <1>8, <2>3
  <2>5. r = G
    BY <1>2, <1>5, <2>4, FS_Subset
  <2> QED  BY <2>5
<1> QED  BY <1>2, <1>7, <1>8 DEF Newest

\* So is every window that the PostgreSQL store may answer.
LEMMA PostgresNewest ==
  ASSUME NEW S, NEW n, NEW service, NEW G, NEW W, NEW whole, Fits(S, n, service, G, W, whole),
         G = sqlCandidates(S, service)
  PROVE  \A w \in postgresWindows(S, n, service) : complete(w, whole)
<1> SUFFICES ASSUME Sound(S), n \in Int, G = groupTraces(S, service),
                    W = Newest(S, G, normalizeTraceWindow(n)), whole = {s \in S : s.trace \in W},
                    \A t, u \in G : t # u => last(S, t) # last(S, u),
                    Cardinality(whole) <= MaxWindowSpans
             PROVE  \A w \in postgresWindows(S, n, service) : complete(w, whole)
  BY DEF Fits
<1> SUFFICES ASSUME NEW w \in postgresWindows(S, n, service) PROVE complete(w, whole)
  OBVIOUS
<1>1. PICK r \in recent(S, n, service) : \E rows \in windowRows(S, r) : w = SelectWindow(rows, n, service)
  BY DEF postgresWindows
<1>2. r = W
  BY RecentNewest
<1> PICK rows \in windowRows(S, r) : w = SelectWindow(rows, n, service)
  BY <1>1
<1>3. rows \in SUBSET whole
      /\ Cardinality(rows) = IF Cardinality(whole) < MaxWindowSpans THEN Cardinality(whole) ELSE MaxWindowSpans
  BY <1>1, <1>2 DEF windowRows, limit
<1>4. IsFiniteSet(whole)
  <2>1. whole \in SUBSET S
    OBVIOUS
  <2> QED  BY <2>1, FS_Subset DEF Sound
<1>5. Cardinality(whole) \in Nat /\ MaxWindowSpans \in Nat
  BY SMT, <1>4, FS_CardinalityType, SpansAssumption
<1>6. Cardinality(rows) = Cardinality(whole)
  BY SMT, <1>3, <1>5
<1>7. rows = whole
  BY <1>3, <1>4, <1>6, FS_Subset
<1>8. complete(SelectWindow(whole, n, service), whole)
  BY RowsNewest
<1> QED  BY <1>7, <1>8

\* Of any store.
LEMMA NewestShown ==
  ASSUME Sound(spans)
  PROVE  WindowNewest
<1> SUFFICES ASSUME NEW n \in Windows, NEW service \in Services, NEW whole,
                    whole = {s \in spans : s.trace \in wanted(n, service)},
                    probesAgree(service),
                    \A t, u \in tracesOf(spans) : t # u => last(spans, t) # last(spans, u),
                    Cardinality(whole) <= MaxWindowSpans,
                    NEW w \in Readable(n, service)
             PROVE  complete(w, whole)
  BY DEF WindowNewest, complete
<1>1. n \in Int
  BY TelemetryAssumption
<1>2. PICK G : G = groupTraces(spans, service)
  OBVIOUS
<1>3. G = {t \in serving(service) : ~probeOnly(ofTrace(spans, t))}
  BY <1>2 DEF groupTraces, serving
<1>4. wanted(n, service) = Newest(spans, G, normalizeTraceWindow(n))
  BY <1>3 DEF wanted, Newest
<1>5. G = sqlCandidates(spans, service)
  BY <1>3 DEF sqlCandidates, serving, probesAgree
<1>6. \A t, u \in G : t # u => last(spans, t) # last(spans, u)
  BY <1>2 DEF groupTraces
<1>7. Fits(spans, n, service, G, wanted(n, service), whole)
  BY <1>1, <1>2, <1>4, <1>6 DEF Fits
<1>8. complete(SelectWindow(spans, n, service), whole)
  BY <1>7, MemoryNewest
<1>9. \A v \in postgresWindows(spans, n, service) : complete(v, whole)
  BY <1>5, <1>7, PostgresNewest
<1> QED  BY <1>8, <1>9 DEF Readable, memoryWindow

-----------------------------------------------------------------------------
(* Recursion                                                               *)

\* f is defined by recursion up to n.
Recursive(f, n, S, x, g) ==
  /\ f \in [0 .. n -> S] /\ f[0] = x
  /\ \A k \in Nat : k + 1 \in 0 .. n => f[k + 1] = g[<<k + 1, f[k]>>]

\* A recursion defined up to n goes on to n + 1.
LEMMA Extended ==
  ASSUME NEW S, NEW x \in S, NEW g \in [Nat \X S -> S], NEW n \in Nat, NEW f, Recursive(f, n, S, x, g)
  PROVE  \E h : Recursive(h, n + 1, S, x, g)
<1> DEFINE h == [k \in 0 .. n + 1 |-> IF k = n + 1 THEN g[<<n + 1, f[n]>>] ELSE f[k]]
<1>1. f \in [0 .. n -> S] /\ f[0] = x
      /\ \A k \in Nat : k + 1 \in 0 .. n => f[k + 1] = g[<<k + 1, f[k]>>]
  BY DEF Recursive
<1>2. /\ n \in 0 .. n /\ n + 1 \in Nat /\ 0 # n + 1 /\ 0 \in 0 .. n + 1 /\ n + 1 \in 0 .. n + 1
      /\ \A k \in 0 .. n + 1 : k # n + 1 => k \in 0 .. n
  BY SMT
<1>3. g[<<n + 1, f[n]>>] \in S
  BY <1>1, <1>2
<1>4. h \in [0 .. n + 1 -> S] /\ h[0] = x
  BY <1>1, <1>2, <1>3
<1>5. ASSUME NEW k \in Nat, k + 1 \in 0 .. n + 1 PROVE h[k + 1] = g[<<k + 1, h[k]>>]
  <2>1. k \in 0 .. n /\ k \in 0 .. n + 1 /\ k # n + 1 /\ (k + 1 # n + 1 => k + 1 \in 0 .. n) /\ (k + 1 = n + 1 => k = n)
    BY SMT, <1>5
  <2>2. h[k] = f[k]
    BY <2>1
  <2>3. CASE k + 1 = n + 1
    <3>1. k = n
      BY <2>1, <2>3
    <3>2. h[n + 1] = g[<<n + 1, f[n]>>]
      BY <1>2
    <3> QED  BY <2>2, <3>1, <3>2
  <2>4. CASE k + 1 # n + 1
    <3>1. h[k + 1] = f[k + 1]
      BY <1>5, <2>4
    <3> QED  BY <1>1, <2>1, <2>2, <2>4, <3>1
  <2> QED  BY <2>3, <2>4
<1> HIDE DEF h
<1>6. Recursive(h, n + 1, S, x, g)
  BY <1>4, <1>5 DEF Recursive
<1> QED  BY <1>6

\* Two runs of a recursion have the same values as far as both go.
LEMMA SameValues ==
  ASSUME NEW S, NEW x, NEW g, NEW n \in Nat, NEW m \in Nat, NEW f, NEW h,
         Recursive(f, n, S, x, g), Recursive(h, m, S, x, g),
         NEW i \in Nat, i <= n, i <= m
  PROVE  f[i] = h[i]
<1> DEFINE T == {k \in Nat : k <= n /\ k <= m /\ f[k] # h[k]}
<1>1. SUFFICES ASSUME T # {} PROVE FALSE
  OBVIOUS
<1>2. PICK k \in T : \A j \in T : k <= j
  <2>1. T \subseteq Nat
    OBVIOUS
  <2> HIDE DEF T
  <2> QED  BY <1>1, <2>1, LeastOf
<1>3. k # 0
  BY DEF Recursive
<1>4. /\ k - 1 \in Nat /\ k - 1 <= n /\ k - 1 <= m /\ k \in 0 .. n /\ k \in 0 .. m
      /\ ~(k <= k - 1) /\ (k - 1) + 1 = k
  BY SMT, <1>3
<1>5. f[k - 1] = h[k - 1]
  BY <1>2, <1>4
<1>6. f[k] = g[<<k, f[k - 1]>>] /\ h[k] = g[<<k, h[k - 1]>>]
  BY SMT, <1>4 DEF Recursive
<1> QED  BY <1>5, <1>6

\* A recursion is defined up to every n: there is no first n where it is not.
LEMMA RecursionTo ==
  ASSUME NEW S, NEW x \in S, NEW g \in [Nat \X S -> S], NEW n \in Nat
  PROVE  \E f : Recursive(f, n, S, x, g)
<1> DEFINE T == {k \in Nat : ~\E f : Recursive(f, k, S, x, g)}
<1>1. SUFFICES ASSUME T # {} PROVE FALSE
  OBVIOUS
<1>2. PICK k \in T : \A j \in T : k <= j
  <2>1. T \subseteq Nat
    OBVIOUS
  <2> HIDE DEF T
  <2> QED  BY <1>1, <2>1, LeastOf
<1>3. k # 0
  <2> DEFINE h == [j \in 0 .. 0 |-> x]
  <2>1. 0 \in 0 .. 0 /\ \A j \in Nat : ~(j + 1 \in 0 .. 0)
    BY SMT
  <2>2. h \in [0 .. 0 -> S] /\ h[0] = x
    BY <2>1
  <2> HIDE DEF h
  <2>3. Recursive(h, 0, S, x, g)
    BY <2>1, <2>2 DEF Recursive
  <2> QED  BY <2>3
<1>4. k - 1 \in Nat /\ ~(k <= k - 1) /\ (k - 1) + 1 = k
  BY SMT, <1>3
<1>5. PICK f : Recursive(f, k - 1, S, x, g)
  BY <1>2, <1>4
<1>6. \E h : Recursive(h, (k - 1) + 1, S, x, g)
  BY <1>4, <1>5, Extended
<1> QED  BY <1>4, <1>6

\* The same, as a recursive function is written.
Stepwise(f, n, S, x, g) ==
  f \in [0 .. n -> S] /\ f[0] = x /\ \A k \in 1 .. n : f[k] = g[<<k, f[k - 1]>>]

\* The same recursion, said of the step that leads to k.
LEMMA RecursiveIs ==
  ASSUME NEW S, NEW x, NEW g, NEW n \in Nat, NEW f, Recursive(f, n, S, x, g)
  PROVE  Stepwise(f, n, S, x, g)
<1>1. \A k \in 1 .. n : k - 1 \in Nat /\ (k - 1) + 1 = k /\ k \in 0 .. n
  BY SMT
<1>2. ASSUME NEW k \in 1 .. n PROVE f[k] = g[<<k, f[k - 1]>>]
  <2>1. PICK j \in Nat : j = k - 1 /\ j + 1 = k /\ j + 1 \in 0 .. n
    BY SMT, <1>1
  <2>2. f[j + 1] = g[<<j + 1, f[j]>>]
    BY <2>1 DEF Recursive
  <2> QED  BY <2>1, <2>2
<1> QED  BY <1>2 DEF Recursive, Stepwise

\* f is defined by recursion.
Iterates(f, S, x, g) ==
  f \in [Nat -> S] /\ f[0] = x /\ \A k \in Nat : f[k + 1] = g[<<k + 1, f[k]>>]

\* A recursion is defined on all the naturals.
LEMMA Recursion ==
  ASSUME NEW S, NEW x \in S, NEW g \in [Nat \X S -> S]
  PROVE  \E f : Iterates(f, S, x, g)
<1>1. \A n \in Nat : \E f : Recursive(f, n, S, x, g)
  BY RecursionTo
<1> DEFINE F(n) == CHOOSE f : Recursive(f, n, S, x, g)
           f == [n \in Nat |-> F(n)[n]]
<1>2. \A n \in Nat : Recursive(F(n), n, S, x, g)
  BY <1>1
<1> HIDE DEF F
<1>3. f \in [Nat -> S]
  <2>1. ASSUME NEW n \in Nat PROVE F(n)[n] \in S
    <3>1. n \in 0 .. n
      BY SMT
    <3> QED  BY <1>2, <3>1 DEF Recursive
  <2> QED  BY <2>1
<1>4. f[0] = x
  <2>1. 0 \in Nat
    BY SMT
  <2>2. F(0)[0] = x
    BY <1>2, <2>1 DEF Recursive
  <2> QED  BY <2>1, <2>2
<1>5. ASSUME NEW k \in Nat PROVE f[k + 1] = g[<<k + 1, f[k]>>]
  <2>1. k + 1 \in Nat /\ k + 1 \in 0 .. k + 1 /\ k <= k /\ k <= k + 1
    BY SMT
  <2>2. F(k + 1)[k + 1] = g[<<k + 1, F(k + 1)[k]>>]
    BY <1>2, <2>1 DEF Recursive
  <2>3. F(k + 1)[k] = F(k)[k]
    <3>1. PICK a, b : a = F(k + 1) /\ b = F(k)
      OBVIOUS
    <3>2. Recursive(a, k + 1, S, x, g) /\ Recursive(b, k, S, x, g)
      BY <1>2, <2>1, <3>1
    <3>3. a[k] = b[k]
      BY SMT, <2>1, <3>2, SameValues
    <3> QED  BY <3>1, <3>3
  <2>4. f[k + 1] = F(k + 1)[k + 1] /\ f[k] = F(k)[k]
    BY <2>1
  <2> QED  BY <2>2, <2>3, <2>4
<1> HIDE DEF f
<1>6. Iterates(f, S, x, g)
  BY <1>3, <1>4, <1>5 DEF Iterates
<1> QED  BY <1>6

\* The way up is what it is written to be.
GoesUp(nodes, id, up) ==
  /\ up[0] = id
  /\ \A k \in Nat : up[k + 1] = IF up[k] \in DOMAIN nodes THEN nodes[up[k]].parent ELSE NoSpan

\* ancestors follows the parents, step by step.
LEMMA AncestorsAre ==
  ASSUME NEW nodes, NEW id
  PROVE  GoesUp(nodes, id, ancestors(nodes, id))
<1> DEFINE P(i) == IF i \in DOMAIN nodes THEN nodes[i].parent ELSE NoSpan
           S == {id, NoSpan} \cup {nodes[i].parent : i \in DOMAIN nodes}
           g == [p \in Nat \X S |-> P(p[2])]
<1>1. g \in [Nat \X S -> S]
  OBVIOUS
<1>2. \A n \in Nat : \A s \in S : g[<<n, s>>] = P(s)
  OBVIOUS
<1>3. id \in S
  OBVIOUS
<1> HIDE DEF g, S
<1>4. PICK f \in [Nat -> S] : f[0] = id /\ \A k \in Nat : f[k + 1] = g[<<k + 1, f[k]>>]
  <2>1. PICK f : Iterates(f, S, id, g)
    BY <1>1, <1>3, Recursion
  <2> QED  BY <2>1 DEF Iterates
<1>5. \A k \in Nat : f[k + 1] = P(f[k])
  <2>1. \A k \in Nat : k + 1 \in Nat
    BY SMT
  <2> QED  BY <1>2, <1>4, <2>1
<1> HIDE DEF P
<1>6. f = [k \in Nat |-> IF k = 0 THEN id ELSE P(f[k - 1])]
  <2>1. ASSUME NEW k \in Nat PROVE f[k] = IF k = 0 THEN id ELSE P(f[k - 1])
    <3>1. k # 0 => k - 1 \in Nat /\ (k - 1) + 1 = k
      BY SMT
    <3>2. CASE k = 0
      BY <1>4, <3>2
    <3>3. CASE k # 0
      <4>1. f[(k - 1) + 1] = P(f[k - 1])
        BY <1>5, <3>1, <3>3
      <4> QED  BY <3>1, <3>3, <4>1
    <3> QED  BY <3>2, <3>3
  <2> QED  BY <1>4, <2>1
<1>7. PICK up : up = ancestors(nodes, id)
  OBVIOUS
<1>8. up = CHOOSE u : u = [k \in Nat |-> IF k = 0 THEN id ELSE P(u[k - 1])]
  BY <1>7 DEF ancestors, P
<1>9. up = [k \in Nat |-> IF k = 0 THEN id ELSE P(up[k - 1])]
  BY <1>6, <1>8
<1>10. up[0] = id /\ \A k \in Nat : up[k + 1] = P(up[k])
  <2>1. 0 \in Nat /\ \A k \in Nat : k + 1 \in Nat /\ k + 1 # 0 /\ (k + 1) - 1 = k
    BY SMT
  <2>2. \A k \in Nat : up[k] = IF k = 0 THEN id ELSE P(up[k - 1])
    BY <1>9
  <2>3. \A k \in Nat : up[k + 1] = P(up[(k + 1) - 1])
    BY <2>1, <2>2
  <2> QED  BY <2>1, <2>2, <2>3
<1> QED  BY <1>7, <1>10 DEF P, GoesUp

-----------------------------------------------------------------------------
(* Lines from a root                                                       *)

\* The spans of one trace and their index.
Graph(nodes, S) ==
  /\ IsFiniteSet(S) /\ DOMAIN nodes = {s.id : s \in S}
  /\ \A s \in S : nodes[s.id] = s /\ s.id # NoSpan

\* The map of the spans of a trace has each span under its id.
LEMMA NodesAre ==
  ASSUME NEW nodes, NEW S, Graph(nodes, S)
  PROVE  /\ \A i \in DOMAIN nodes : nodes[i] \in S /\ nodes[i].id = i
         /\ NoSpan \notin DOMAIN nodes
         /\ \A s \in S : s.id \in DOMAIN nodes /\ nodes[s.id] = s /\ s.id # NoSpan
         /\ \A r, s \in S : r.id = s.id => r = s
BY DEF Graph

IsLine(q, n, S) ==
  /\ n \in Nat /\ n # 0 /\ q \in [1 .. n -> S] /\ q[1].parent = NoSpan
  /\ \A k \in Nat : k \in 1 .. n /\ k + 1 \in 1 .. n => q[k + 1].parent = q[k].id

\* No span is on a line twice.
LEMMA LineSimple ==
  ASSUME NEW nodes, NEW S, Graph(nodes, S), NEW q, NEW n, IsLine(q, n, S),
         NEW i \in 1 .. n, NEW j \in 1 .. n, i < j
  PROVE  q[i] # q[j]
<1> DEFINE T == {k \in Nat : k \in 1 .. n /\ \E l \in 1 .. n : k < l /\ q[k] = q[l]}
<1>1. SUFFICES ASSUME q[i] = q[j] PROVE FALSE
  OBVIOUS
<1>2. n \in Nat /\ i \in Nat
  BY SMT DEF IsLine
<1>3. T \subseteq Nat /\ T # {}
  BY <1>1, <1>2
<1>4. PICK k \in T : \A l \in T : k <= l
  <2> HIDE DEF T
  <2> QED  BY <1>3, LeastOf
<1>5. PICK l \in 1 .. n : k < l /\ q[k] = q[l]
  BY <1>4
<1>6. k \in Nat /\ k \in 1 .. n
  BY <1>4
<1>7. /\ l - 1 \in Nat /\ l - 1 \in 1 .. n /\ (l - 1) + 1 = l
      /\ k # 1 => k - 1 \in Nat /\ k - 1 \in 1 .. n /\ (k - 1) + 1 = k /\ k - 1 < l - 1 /\ ~(k <= k - 1)
  BY SMT, <1>2, <1>5, <1>6
<1>8. q[l].parent = q[l - 1].id /\ q[l - 1] \in S
  <2>1. q[(l - 1) + 1].parent = q[l - 1].id
    BY <1>5, <1>7 DEF IsLine
  <2>2. q \in [1 .. n -> S]
    BY DEF IsLine
  <2> QED  BY <1>7, <2>1, <2>2
<1>9. CASE k = 1
  <2>1. q[l].parent = NoSpan
    BY <1>5, <1>9 DEF IsLine
  <2> QED  BY <1>8, <2>1 DEF Graph
<1>10. CASE k # 1
  <2>1. q[(k - 1) + 1].parent = q[k - 1].id
    BY <1>6, <1>7, <1>10 DEF IsLine
  <2>2. q[k].parent = q[k - 1].id
    BY <1>7, <1>10, <2>1
  <2>3. q[k - 1] \in S
    BY <1>7, <1>10 DEF IsLine
  <2>4. q[k - 1] = q[l - 1]
    BY <1>5, <1>8, <2>2, <2>3 DEF Graph
  <2>5. k - 1 \in T
    BY <1>7, <1>10, <2>4
  <2> QED  BY <1>4, <1>7, <1>10, <2>5
<1> QED  BY <1>9, <1>10

\* Lines(S) are the lines of any length: a line has no span twice.
LEMMA LinesAre ==
  ASSUME NEW nodes, NEW S, Graph(nodes, S), NEW q
  PROVE  q \in Lines(S) <=> \E n \in Nat : IsLine(q, n, S)
<1>1. Cardinality(S) \in Nat
  BY FS_CardinalityType DEF Graph
<1>2. ASSUME q \in Lines(S) PROVE \E n \in Nat : IsLine(q, n, S)
  <2>1. PICK n \in 1 .. Cardinality(S) : q \in [1 .. n -> S]
    BY <1>2 DEF Lines
  <2>2. n \in Nat /\ n # 0
    BY SMT, <1>1
  <2>3. Len(q) = n
    BY <2>1, <2>2, Listed
  <2>4. q[1].parent = NoSpan /\ \A i \in 1 .. n - 1 : q[i + 1].parent = q[i].id
    BY <1>2, <2>3 DEF Lines
  <2>5. \A k \in Nat : k \in 1 .. n /\ k + 1 \in 1 .. n => k \in 1 .. n - 1
    BY SMT, <2>2
  <2>6. IsLine(q, n, S)
    BY <2>1, <2>2, <2>4, <2>5 DEF IsLine
  <2> QED  BY <2>2, <2>6
<1>3. ASSUME NEW n \in Nat, IsLine(q, n, S) PROVE q \in Lines(S)
  <2>1. n # 0 /\ q \in [1 .. n -> S] /\ DOMAIN q = 1 .. n
    BY <1>3 DEF IsLine
  <2>2. \A i, j \in 1 .. n : i # j => q[i] # q[j]
    <3>1. \A i, j \in 1 .. n : i # j => i < j \/ j < i
      BY SMT, <1>3
    <3>2. \A i, j \in 1 .. n : i < j => q[i] # q[j]
      BY <1>3, LineSimple
    <3> QED  BY <3>1, <3>2
  <2>3. q \in Injection(1 .. n, S)
    BY <2>1, <2>2 DEF Injection, IsInjective
  <2>4. Cardinality(1 .. n) <= Cardinality(S)
    BY <2>3, FS_Injection DEF Graph
  <2>5. Cardinality(1 .. n) = n
    BY SMT, <2>1, FS_Interval
  <2>6. n \in 1 .. Cardinality(S)
    BY SMT, <1>1, <2>1, <2>4, <2>5
  <2>7. Len(q) = n
    BY <2>1, Listed
  <2>8. \A i \in 1 .. n - 1 : i \in Nat /\ i \in 1 .. n /\ i + 1 \in 1 .. n
    BY SMT, <1>3
  <2>9. q[1].parent = NoSpan /\ \A i \in 1 .. Len(q) - 1 : q[i + 1].parent = q[i].id
    BY <1>3, <2>7, <2>8 DEF IsLine
  <2> QED  BY <2>1, <2>6, <2>9 DEF Lines
<1> QED  BY <1>2, <1>3

lineParts(nodes, S, q, n) ==
  /\ n \in Nat /\ n # 0 /\ 1 \in 1 .. n /\ n \in 1 .. n
  /\ Len(q) = n /\ q \in [1 .. n -> S] /\ q[1].parent = NoSpan
  /\ foot(q) = q[n] /\ foot(q) \in S /\ foot(q) = nodes[foot(q).id]
  /\ routedOn(q) = {i \in 1 .. n : routedServer(q[i])}

\* The parts of a line.
LEMMA LineHas ==
  ASSUME NEW nodes, NEW S, Graph(nodes, S), NEW q, NEW n, IsLine(q, n, S)
  PROVE  lineParts(nodes, S, q, n)
<1>1. n \in Nat /\ n # 0 /\ q \in [1 .. n -> S] /\ q[1].parent = NoSpan
  BY DEF IsLine
<1>2. 1 \in 1 .. n /\ n \in 1 .. n
  BY SMT, <1>1
<1>3. Len(q) = n
  BY <1>1, Listed
<1>4. foot(q) = q[n] /\ foot(q) \in S
  BY <1>1, <1>2, <1>3 DEF foot
<1>5. foot(q) = nodes[foot(q).id]
  BY <1>4 DEF Graph
<1>6. routedOn(q) = {i \in 1 .. n : routedServer(q[i])}
  BY <1>3 DEF routedOn
<1> QED  BY <1>1, <1>2, <1>3, <1>4, <1>5, <1>6 DEF lineParts

\* A line and its last but one span.
Longer(q, n, p, m) == n = m + 1 /\ \A k \in 1 .. m : q[k] = p[k]

\* A line to a span that has a parent leads through the parent.
LEMMA Shortened ==
  ASSUME NEW nodes, NEW S, Graph(nodes, S), NEW q, NEW n, IsLine(q, n, S), foot(q).parent # NoSpan
  PROVE  \E p : \E m \in Nat : IsLine(p, m, S) /\ Longer(q, n, p, m) /\ foot(p).id = foot(q).parent
<1>1. /\ n \in Nat /\ n # 0 /\ q \in [1 .. n -> S] /\ foot(q) = q[n] /\ q[1].parent = NoSpan
  <2>1. lineParts(nodes, S, q, n)
    BY LineHas
  <2> QED  BY <2>1 DEF lineParts
<1>2. n # 1
  BY <1>1
<1> DEFINE m == n - 1
           p == [k \in 1 .. m |-> q[k]]
<1>3. /\ m \in Nat /\ m # 0 /\ n = m + 1 /\ m \in 1 .. m /\ 1 \in 1 .. m /\ m \in 1 .. n /\ m + 1 \in 1 .. n
      /\ \A k \in 1 .. m : k \in 1 .. n
  BY SMT, <1>1, <1>2
<1>4. p \in [1 .. m -> S] /\ \A k \in 1 .. m : p[k] = q[k]
  <2> HIDE DEF m
  <2> QED  BY <1>1, <1>3
<1> HIDE DEF m, p
<1>5. ASSUME NEW k \in Nat, k \in 1 .. m, k + 1 \in 1 .. m PROVE p[k + 1].parent = p[k].id
  <2>1. q[k + 1].parent = q[k].id
    BY <1>3, <1>5 DEF IsLine
  <2> QED  BY <1>4, <1>5, <2>1
<1>6. IsLine(p, m, S)
  BY <1>1, <1>3, <1>4, <1>5 DEF IsLine
<1>7. foot(p) = q[m]
  <2>1. lineParts(nodes, S, p, m)
    BY <1>6, LineHas
  <2> QED  BY <1>3, <1>4, <2>1 DEF lineParts
<1>8. q[m + 1].parent = q[m].id
  BY <1>3 DEF IsLine
<1>9. foot(p).id = foot(q).parent
  BY <1>1, <1>3, <1>7, <1>8
<1> QED  BY <1>3, <1>4, <1>6, <1>9 DEF Longer

\* A line to the parent of a span goes on to the span.
LEMMA Lengthened ==
  ASSUME NEW nodes, NEW S, Graph(nodes, S), NEW p, NEW m, IsLine(p, m, S),
         NEW s \in S, s.parent = foot(p).id
  PROVE  \E q : \E n \in Nat : IsLine(q, n, S) /\ foot(q) = s
<1>1. m \in Nat /\ m # 0 /\ p \in [1 .. m -> S] /\ foot(p) = p[m] /\ p[1].parent = NoSpan
  <2>1. lineParts(nodes, S, p, m)
    BY LineHas
  <2> QED  BY <2>1 DEF lineParts
<1> DEFINE n == m + 1
           q == [k \in 1 .. n |-> IF k = n THEN s ELSE p[k]]
<1>2. /\ n \in Nat /\ n # 0 /\ n \in 1 .. n /\ 1 \in 1 .. n /\ 1 # n
      /\ \A k \in 1 .. n : k # n => k \in 1 .. m
      /\ \A k \in Nat : k + 1 \in 1 .. n => k # n /\ (k + 1 = n => k = m) /\ (k + 1 # n => k + 1 \in 1 .. m)
  BY SMT, <1>1
<1>3. q \in [1 .. n -> S] /\ q[n] = s /\ \A k \in 1 .. n : k # n => q[k] = p[k]
  <2> HIDE DEF n
  <2> QED  BY <1>1, <1>2
<1> HIDE DEF n, q
<1>4. q[1].parent = NoSpan
  BY <1>1, <1>2, <1>3
<1>5. ASSUME NEW k \in Nat, k \in 1 .. n, k + 1 \in 1 .. n PROVE q[k + 1].parent = q[k].id
  <2>1. k # n /\ q[k] = p[k] /\ k \in 1 .. m
    BY <1>2, <1>3, <1>5
  <2>2. CASE k + 1 = n
    <3>1. k = m
      BY <1>2, <1>5, <2>2
    <3> QED  BY <1>1, <1>3, <2>1, <2>2, <3>1
  <2>3. CASE k + 1 # n
    <3>1. k + 1 \in 1 .. m /\ q[k + 1] = p[k + 1]
      BY <1>2, <1>3, <1>5, <2>3
    <3>2. p[k + 1].parent = p[k].id
      BY <1>5, <2>1, <3>1 DEF IsLine
    <3> QED  BY <2>1, <3>1, <3>2
  <2> QED  BY <2>2, <2>3
<1>6. IsLine(q, n, S)
  BY <1>2, <1>3, <1>4, <1>5 DEF IsLine
<1>7. foot(q) = s
  <2>1. lineParts(nodes, S, q, n)
    BY <1>6, LineHas
  <2> QED  BY <1>3, <2>1 DEF lineParts
<1> QED  BY <1>2, <1>6, <1>7

\* The id of a line's entry.
lineEntry(q) == IF routedOn(q) = {} THEN NoSpan ELSE entryOfLine(q).id

\* A line of one span.
LEMMA RootEntry ==
  ASSUME NEW nodes, NEW S, Graph(nodes, S), NEW q, IsLine(q, 1, S)
  PROVE  lineEntry(q) = IF routedServer(foot(q)) THEN foot(q).id ELSE NoSpan
<1>1. lineParts(nodes, S, q, 1)
  BY LineHas
<1>2. foot(q) = q[1] /\ routedOn(q) = {i \in 1 .. 1 : routedServer(q[i])}
  BY <1>1 DEF lineParts
<1>3. \A i : i \in 1 .. 1 <=> i = 1
  BY SMT
<1>4. CASE routedServer(q[1])
  <2>1. routedOn(q) = {1}
    BY <1>2, <1>3, <1>4
  <2>2. Min(routedOn(q)) = 1
    <3>1. routedOn(q) \subseteq Nat /\ routedOn(q) # {}
      BY SMT, <2>1
    <3> QED  BY <2>1, <3>1, MinIs
  <2> QED  BY <1>2, <1>4, <2>1, <2>2 DEF lineEntry, entryOfLine
<1>5. CASE ~routedServer(q[1])
  <2>1. routedOn(q) = {}
    BY <1>2, <1>3, <1>5
  <2> QED  BY <1>2, <1>5, <2>1 DEF lineEntry
<1> QED  BY <1>4, <1>5

\* A line of several.
LEMMA LongerEntry ==
  ASSUME NEW nodes, NEW S, Graph(nodes, S), NEW q, NEW n, IsLine(q, n, S),
         NEW p, NEW m, IsLine(p, m, S), Longer(q, n, p, m)
  PROVE  lineEntry(q) = IF lineEntry(p) = NoSpan /\ routedServer(foot(q)) THEN foot(q).id ELSE lineEntry(p)
<1>1. lineParts(nodes, S, q, n) /\ lineParts(nodes, S, p, m)
  BY LineHas
<1>2. n \in Nat /\ foot(q) = q[n] /\ routedOn(q) = {i \in 1 .. n : routedServer(q[i])}
  BY <1>1 DEF lineParts
<1>3. m \in Nat /\ p \in [1 .. m -> S] /\ routedOn(p) = {i \in 1 .. m : routedServer(p[i])}
  BY <1>1 DEF lineParts
<1>4. n = m + 1 /\ \A k \in 1 .. m : q[k] = p[k]
  BY DEF Longer
<1>5. n \in 1 .. n /\ n \notin 1 .. m /\ \A i : i \in 1 .. n <=> i \in 1 .. m \/ i = n
  BY SMT, <1>3, <1>4
<1>6. /\ \A i \in routedOn(p) : i \in routedOn(q)
      /\ \A i \in routedOn(q) : i \in routedOn(p) \/ (i = n /\ routedServer(q[n]))
      /\ routedServer(q[n]) => n \in routedOn(q)
  BY <1>2, <1>3, <1>4, <1>5
<1>7. routedOn(q) \subseteq Nat /\ routedOn(p) \subseteq Nat
  <2>1. 1 .. n \subseteq Nat /\ 1 .. m \subseteq Nat
    BY SMT, <1>2, <1>3
  <2> QED  BY <1>2, <1>3, <2>1
<1>8. CASE routedOn(p) # {}
  <2>1. Min(routedOn(p)) \in routedOn(p) /\ \A y \in routedOn(p) : Min(routedOn(p)) <= y
    BY <1>7, <1>8, MinIs
  <2>2. routedOn(q) # {}
    BY <1>6, <1>8
  <2>3. Min(routedOn(q)) \in routedOn(q) /\ \A y \in routedOn(q) : Min(routedOn(q)) <= y
    BY <1>7, <2>2, MinIs
  <2>4. Min(routedOn(q)) = Min(routedOn(p))
    <3>1. PICK a, b : a = Min(routedOn(p)) /\ b = Min(routedOn(q))
      OBVIOUS
    <3>2. a \in routedOn(p) /\ a \in routedOn(q) /\ a \in 1 .. m /\ a \in Nat /\ b \in Nat
      BY <1>3, <1>6, <1>7, <2>1, <2>3, <3>1
    <3>3. b <= a
      BY <2>3, <3>1, <3>2
    <3>4. b = n \/ a <= b
      BY <1>6, <2>1, <2>3, <3>1
    <3>5. a = b
      BY SMT, <1>3, <1>4, <3>2, <3>3, <3>4
    <3> QED  BY <3>1, <3>5
  <2>5. Min(routedOn(p)) \in 1 .. m
    BY <1>3, <2>1
  <2>6. entryOfLine(q) = entryOfLine(p) /\ entryOfLine(p) \in S
    BY <1>3, <1>4, <2>4, <2>5 DEF entryOfLine
  <2>7. entryOfLine(p).id # NoSpan
    BY <2>6 DEF Graph
  <2> QED  BY <1>8, <2>2, <2>6, <2>7 DEF lineEntry
<1>9. CASE routedOn(p) = {}
  <2>1. CASE routedServer(q[n])
    <3>1. routedOn(q) = {n}
      BY <1>6, <1>9, <2>1
    <3>2. Min(routedOn(q)) = n
      BY <1>7, <3>1, MinIs
    <3> QED  BY <1>2, <1>9, <2>1, <3>1, <3>2 DEF lineEntry, entryOfLine
  <2>2. CASE ~routedServer(q[n])
    <3>1. routedOn(q) = {}
      BY <1>6, <1>9, <2>2
    <3> QED  BY <1>2, <1>9, <2>2, <3>1 DEF lineEntry
  <2> QED  BY <2>1, <2>2
<1> QED  BY <1>8, <1>9

-----------------------------------------------------------------------------
(* Ancestries                                                              *)

\* A line that leads to span i.
Reaches(q, n, S, i) == IsLine(q, n, S) /\ foot(q).id = i

\* What is recorded of span i is so.
Truly(S, i, a) ==
  /\ a.complete => \E q : \E n \in Nat : Reaches(q, n, S, i)
  /\ \A q : \A n \in Nat : Reaches(q, n, S, i) => a.complete /\ a.entry = lineEntry(q)

Records(nodes) == [complete : BOOLEAN, entry : DOMAIN nodes \cup {NoSpan}]

\* What a walk has learnt above a root, and where it broke off.
LEMMA FirstRecords ==
  ASSUME NEW nodes
  PROVE  /\ Rooted \in Records(nodes) /\ Rooted.complete /\ Rooted.entry = NoSpan
         /\ Unknown \in Records(nodes) /\ ~Unknown.complete
<1>1. Rooted.complete /\ Rooted.entry = NoSpan /\ Unknown.complete = FALSE
  BY SMT DEF Rooted, Unknown
<1>2. Rooted \in Records(nodes) /\ Unknown \in Records(nodes)
  BY SMT DEF Rooted, Unknown, Records
<1> QED  BY <1>1, <1>2

\* What a step down makes of an ancestry.
LEMMA Inherited ==
  ASSUME NEW nodes, NEW a \in Records(nodes), NEW i \in DOMAIN nodes
  PROVE  /\ inherit(nodes, a, i) \in Records(nodes)
         /\ inherit(nodes, a, i).complete = a.complete
         /\ a.complete => inherit(nodes, a, i).entry =
                            IF a.entry = NoSpan /\ routedServer(nodes[i]) THEN i ELSE a.entry
<1>1. CASE a.complete /\ a.entry = NoSpan /\ routedServer(nodes[i])
  <2>1. inherit(nodes, a, i) = [complete |-> TRUE, entry |-> i]
    BY <1>1 DEF inherit
  <2>2. [complete |-> TRUE, entry |-> i] \in Records(nodes)
    BY SMT DEF Records
  <2>3. a.complete = TRUE
    BY SMT, <1>1 DEF Records
  <2>4. [complete |-> TRUE, entry |-> i].complete = TRUE /\ [complete |-> TRUE, entry |-> i].entry = i
    BY SMT
  <2> QED  BY <1>1, <2>1, <2>2, <2>3, <2>4
<1>2. CASE ~(a.complete /\ a.entry = NoSpan /\ routedServer(nodes[i]))
  <2>1. inherit(nodes, a, i) = a
    BY <1>2 DEF inherit
  <2> QED  BY <1>2, <2>1
<1> QED  BY <1>1, <1>2

\* A root.
LEMMA TrulyRooted ==
  ASSUME NEW nodes, NEW S, Graph(nodes, S), NEW i \in DOMAIN nodes, nodes[i].parent = NoSpan
  PROVE  Truly(S, i, inherit(nodes, Rooted, i))
<1>1. nodes[i] \in S /\ nodes[i].id = i
  BY NodesAre
<1>2. PICK b : b = inherit(nodes, Rooted, i)
  OBVIOUS
<1>3. b.complete /\ b.entry = IF routedServer(nodes[i]) THEN i ELSE NoSpan
  <2>1. Rooted \in Records(nodes) /\ Rooted.complete /\ Rooted.entry = NoSpan
    BY FirstRecords
  <2> QED  BY ZenonT(30), <1>2, <2>1, Inherited
<1>4. \E q : \E n \in Nat : Reaches(q, n, S, i)
  <2> DEFINE q == [k \in 1 .. 1 |-> nodes[i]]
  <2>1. 1 \in Nat /\ 1 # 0 /\ 1 \in 1 .. 1 /\ \A k \in Nat : ~(k \in 1 .. 1 /\ k + 1 \in 1 .. 1)
    BY SMT
  <2>2. q \in [1 .. 1 -> S] /\ q[1] = nodes[i]
    BY <1>1, <2>1
  <2> HIDE DEF q
  <2>3. IsLine(q, 1, S)
    BY <2>1, <2>2 DEF IsLine
  <2>4. lineParts(nodes, S, q, 1)
    BY <2>3, LineHas
  <2>5. foot(q).id = i
    BY <1>1, <2>2, <2>4 DEF lineParts
  <2> QED  BY <2>1, <2>3, <2>5 DEF Reaches
<1>5. ASSUME NEW q, NEW n \in Nat, Reaches(q, n, S, i) PROVE b.entry = lineEntry(q)
  <2>1. IsLine(q, n, S) /\ foot(q).id = i
    BY <1>5 DEF Reaches
  <2>2. lineParts(nodes, S, q, n)
    BY <2>1, LineHas
  <2>3. foot(q) = nodes[i] /\ n # 0 /\ n \in 1 .. n /\ foot(q) = q[n] /\ q \in [1 .. n -> S]
    BY <2>1, <2>2 DEF lineParts
  <2>4. n = 1
    <3>1. SUFFICES ASSUME n # 1 PROVE FALSE
      OBVIOUS
    <3>2. n - 1 \in Nat /\ n - 1 \in 1 .. n /\ (n - 1) + 1 = n
      BY SMT, <2>3, <3>1
    <3>3. q[(n - 1) + 1].parent = q[n - 1].id
      BY <2>1, <2>3, <3>2 DEF IsLine
    <3>4. q[n - 1] \in S /\ q[n - 1].id = NoSpan
      BY <2>3, <3>2, <3>3
    <3> QED  BY <3>4 DEF Graph
  <2>5. IsLine(q, 1, S)
    BY <2>1, <2>4
  <2>6. lineEntry(q) = IF routedServer(foot(q)) THEN foot(q).id ELSE NoSpan
    BY <2>5, RootEntry
  <2> QED  BY <1>3, <2>1, <2>3, <2>6
<1>6. Truly(S, i, b)
  BY <1>3, <1>4, <1>5 DEF Truly
<1> QED  BY <1>2, <1>6

\* A child of a span that is known.
LEMMA TrulyInherited ==
  ASSUME NEW nodes, NEW S, Graph(nodes, S), NEW i \in DOMAIN nodes, nodes[i].parent \in DOMAIN nodes,
         NEW a \in Records(nodes), Truly(S, nodes[i].parent, a)
  PROVE  Truly(S, i, inherit(nodes, a, i))
<1>1. nodes[i] \in S /\ nodes[i].id = i /\ nodes[i].parent # NoSpan
  BY NodesAre
<1>2. PICK b : b = inherit(nodes, a, i)
  OBVIOUS
<1>3. /\ b.complete = a.complete
      /\ a.complete => b.entry = IF a.entry = NoSpan /\ routedServer(nodes[i]) THEN i ELSE a.entry
  BY <1>2, Inherited
<1>4. ASSUME b.complete PROVE \E q : \E n \in Nat : Reaches(q, n, S, i)
  <2>1. PICK p : \E m \in Nat : Reaches(p, m, S, nodes[i].parent)
    BY <1>3, <1>4 DEF Truly
  <2>2. PICK m \in Nat : IsLine(p, m, S) /\ foot(p).id = nodes[i].parent
    BY <2>1 DEF Reaches
  <2>3. PICK q : \E n \in Nat : IsLine(q, n, S) /\ foot(q) = nodes[i]
    BY <1>1, <2>2, Lengthened
  <2> QED  BY <1>1, <2>3 DEF Reaches
<1>5. ASSUME NEW q, NEW n \in Nat, Reaches(q, n, S, i) PROVE b.complete /\ b.entry = lineEntry(q)
  <2>1. IsLine(q, n, S) /\ foot(q).id = i
    BY <1>5 DEF Reaches
  <2>2. lineParts(nodes, S, q, n)
    BY <2>1, LineHas
  <2>3. foot(q) = nodes[i]
    BY <2>1, <2>2 DEF lineParts
  <2>4. PICK p : \E m \in Nat : IsLine(p, m, S) /\ Longer(q, n, p, m) /\ foot(p).id = foot(q).parent
    BY <1>1, <2>1, <2>3, Shortened
  <2>5. PICK m \in Nat : IsLine(p, m, S) /\ Longer(q, n, p, m) /\ foot(p).id = foot(q).parent
    BY <2>4
  <2>6. Reaches(p, m, S, nodes[i].parent)
    BY <2>3, <2>5 DEF Reaches
  <2>7. a.complete /\ a.entry = lineEntry(p)
    BY <2>6 DEF Truly
  <2>8. lineEntry(q) = IF lineEntry(p) = NoSpan /\ routedServer(foot(q)) THEN foot(q).id ELSE lineEntry(p)
    BY <2>1, <2>5, LongerEntry
  <2> QED  BY <1>3, <2>1, <2>3, <2>7, <2>8
<1>6. Truly(S, i, b)
  BY <1>4, <1>5 DEF Truly
<1> QED  BY <1>2, <1>6

\* A span to which no line leads.
LEMMA TrulyUnknown ==
  ASSUME NEW nodes, NEW S, NEW i \in DOMAIN nodes, NEW a \in Records(nodes), ~a.complete,
         \A q : \A n \in Nat : ~Reaches(q, n, S, i)
  PROVE  Truly(S, i, inherit(nodes, a, i))
<1>1. PICK b : b = inherit(nodes, a, i)
  OBVIOUS
<1>2. b.complete = a.complete
  BY <1>1, Inherited
<1>3. Truly(S, i, b)
  BY <1>2 DEF Truly
<1> QED  BY <1>1, <1>3

\* A line shorter than n leads to span i.
Nearer(n, S, i) == \E p : \E m \in Nat : n = m + 1 /\ Reaches(p, m, S, i)

\* A child that a line leads to has a parent that a line leads to.
LEMMA ParentReached ==
  ASSUME NEW nodes, NEW S, Graph(nodes, S), NEW i \in DOMAIN nodes, nodes[i].parent # NoSpan,
         NEW q, NEW n \in Nat, Reaches(q, n, S, i)
  PROVE  nodes[i].parent \in DOMAIN nodes /\ Nearer(n, S, nodes[i].parent)
<1>1. IsLine(q, n, S) /\ foot(q).id = i
  BY DEF Reaches
<1>2. lineParts(nodes, S, q, n)
  BY <1>1, LineHas
<1>3. foot(q) = nodes[i]
  BY <1>1, <1>2 DEF lineParts
<1>4. PICK p : \E m \in Nat : IsLine(p, m, S) /\ Longer(q, n, p, m) /\ foot(p).id = foot(q).parent
  BY <1>1, <1>3, Shortened
<1>5. PICK m \in Nat : IsLine(p, m, S) /\ Longer(q, n, p, m) /\ foot(p).id = foot(q).parent
  BY <1>4
<1>6. Reaches(p, m, S, nodes[i].parent) /\ n = m + 1
  BY <1>3, <1>5 DEF Reaches, Longer
<1>7. lineParts(nodes, S, p, m)
  BY <1>5, LineHas
<1>8. foot(p) \in S
  BY <1>7 DEF lineParts
<1>9. nodes[i].parent \in DOMAIN nodes
  BY <1>3, <1>5, <1>8 DEF Graph
<1> QED  BY <1>6, <1>9 DEF Nearer

-----------------------------------------------------------------------------
(* One walk                                                                *)

\* What has been resolved so far is so.
Resolved(nodes, S, resolved) ==
  /\ DOMAIN resolved \subseteq DOMAIN nodes
  /\ \A i \in DOMAIN resolved : resolved[i] \in Records(nodes) /\ Truly(S, i, resolved[i])

\* A walk up to its n-th step, where it stops.
Way(nodes, resolved, up, n) ==
  /\ n \in Nat /\ stops(nodes, resolved, up, n)
  /\ \A k \in Nat : k < n => /\ up[k] \in DOMAIN nodes /\ up[k] \notin DOMAIN resolved
                             /\ up[k + 1] = nodes[up[k]].parent

\* Every walk stops.
LEMMA Stops ==
  ASSUME NEW nodes, NEW resolved, IsFiniteSet(DOMAIN nodes), NEW up
  PROVE  \E k \in 0 .. Cardinality(DOMAIN nodes) : stops(nodes, resolved, up, k)
<1> DEFINE c == Cardinality(DOMAIN nodes)
           f == [k \in 0 .. c |-> up[k]]
<1>1. c \in Nat
  BY FS_CardinalityType
<1>2. SUFFICES ASSUME \A k \in 0 .. c : ~stops(nodes, resolved, up, k) PROVE FALSE
  OBVIOUS
<1> HIDE DEF c
<1>3. /\ \A k \in 0 .. c : up[k] \in DOMAIN nodes
      /\ \A k \in 0 .. c : \A j \in 0 .. k - 1 : up[j] # up[k]
  BY <1>2 DEF stops
<1>4. \A i, j \in 0 .. c : i # j => i \in 0 .. j - 1 \/ j \in 0 .. i - 1
  BY SMT, <1>1
<1>5. f \in [0 .. c -> DOMAIN nodes] /\ \A i, j \in 0 .. c : i # j => f[i] # f[j]
  BY <1>3, <1>4
<1> HIDE DEF f
<1>6. f \in Injection(0 .. c, DOMAIN nodes)
  BY <1>5 DEF Injection, IsInjective
<1>7. Cardinality(0 .. c) <= Cardinality(DOMAIN nodes)
  BY <1>6, FS_Injection
<1>8. Cardinality(0 .. c) = c + 1
  BY SMT, <1>1, FS_Interval
<1>9. c + 1 <= c
  BY <1>7, <1>8 DEF c
<1> QED  BY SMT, <1>1, <1>9

\* What climb returns.
Climbed(nodes, resolved, up, n, walk) ==
  /\ walk.chain \in [1 .. n -> DOMAIN nodes] /\ \A k \in 1 .. n : walk.chain[k] = up[k - 1]
  /\ walk.parent = IF up[n] \in DOMAIN resolved THEN resolved[up[n]]
                   ELSE IF up[n] = NoSpan THEN Rooted ELSE Unknown

\* The upward loop of traceEntries ends, and its chain is the way up to there.
LEMMA ClimbIs ==
  ASSUME NEW nodes, NEW resolved, IsFiniteSet(DOMAIN nodes), NEW id
  PROVE  \E up : \E n \in Nat : /\ up[0] = id /\ Way(nodes, resolved, up, n)
                               /\ Climbed(nodes, resolved, up, n, climb(nodes, resolved, id))
<1> DEFINE c == Cardinality(DOMAIN nodes)
<1>1. PICK up : up = ancestors(nodes, id)
  OBVIOUS
<1>2. up[0] = id /\ \A k \in Nat : up[k + 1] = IF up[k] \in DOMAIN nodes THEN nodes[up[k]].parent ELSE NoSpan
  <2>1. GoesUp(nodes, id, up)
    BY <1>1, AncestorsAre
  <2> QED  BY <2>1 DEF GoesUp
<1> DEFINE T == {k \in 0 .. c : stops(nodes, resolved, up, k)}
<1>3. PICK n : n = Min(T)
  OBVIOUS
<1>4. n \in T /\ \A k \in T : n <= k
  <2>1. c \in Nat
    BY FS_CardinalityType
  <2>2. 0 .. c \subseteq Nat
    BY SMT, <2>1
  <2>3. T # {}
    BY Stops
  <2>4. T \subseteq Nat
    BY <2>2
  <2> HIDE DEF T
  <2> QED  BY <1>3, <2>3, <2>4, MinIs
<1>5. n \in Nat /\ \A k \in Nat : k < n => k \in 0 .. c /\ ~(n <= k)
  <2>1. c \in Nat /\ n \in 0 .. c
    BY <1>4, FS_CardinalityType
  <2> HIDE DEF c
  <2> QED  BY SMT, <2>1
<1>6. \A k \in Nat : k < n => ~stops(nodes, resolved, up, k)
  BY <1>4, <1>5
<1>7. \A k \in Nat : k < n => up[k] \in DOMAIN nodes /\ up[k] \notin DOMAIN resolved
  BY <1>6 DEF stops
<1>8. Way(nodes, resolved, up, n)
  BY <1>2, <1>4, <1>5, <1>7 DEF Way
<1>9. PICK chain : chain = [k \in 1 .. n |-> up[k - 1]]
  OBVIOUS
<1>10. PICK a : a = IF up[n] \in DOMAIN resolved THEN resolved[up[n]]
                    ELSE IF up[n] = NoSpan THEN Rooted ELSE Unknown
  OBVIOUS
<1>11. PICK walk : walk = climb(nodes, resolved, id)
  OBVIOUS
<1>12. walk = [chain |-> chain, parent |-> a]
  BY <1>1, <1>3, <1>9, <1>10, <1>11 DEF climb
<1>13. walk.chain = chain /\ walk.parent = a
  BY SMT, <1>12
<1>14. \A k \in 1 .. n : k - 1 \in Nat /\ k - 1 < n
  BY SMT, <1>5
<1>15. chain \in [1 .. n -> DOMAIN nodes] /\ \A k \in 1 .. n : chain[k] = up[k - 1]
  BY <1>7, <1>9, <1>14
<1>16. Climbed(nodes, resolved, up, n, walk)
  BY <1>10, <1>13, <1>15 DEF Climbed
<1> QED  BY <1>2, <1>5, <1>8, <1>11, <1>16

\* No line leads into a cycle.
LEMMA CycleUnreached ==
  ASSUME NEW nodes, NEW S, Graph(nodes, S), NEW up, NEW j \in Nat, NEW n \in Nat, j < n, up[j] = up[n],
         \A k \in Nat : k < n => up[k] \in DOMAIN nodes /\ up[k + 1] = nodes[up[k]].parent,
         NEW i \in Nat, j <= i, i < n
  PROVE  \A q : \A m \in Nat : ~Reaches(q, m, S, up[i])
<1> DEFINE In(k) == k \in Nat /\ j <= k /\ k < n
           T == {m \in Nat : \E q : \E k \in Nat : In(k) /\ Reaches(q, m, S, up[k])}
<1>1. SUFFICES ASSUME T # {} PROVE FALSE
  OBVIOUS
<1>2. PICK m \in T : \A l \in T : m <= l
  <2>1. T \subseteq Nat
    OBVIOUS
  <2> HIDE DEF T
  <2> QED  BY <1>1, <2>1, LeastOf
<1>3. PICK q : \E k \in Nat : In(k) /\ Reaches(q, m, S, up[k])
  BY <1>2
<1>4. PICK k \in Nat : In(k) /\ Reaches(q, m, S, up[k])
  BY <1>3
<1>5. /\ k < n /\ k + 1 \in Nat
      /\ k + 1 < n => In(k + 1)
      /\ ~(k + 1 < n) => k + 1 = n
      /\ In(j)
  BY SMT, <1>4
<1> HIDE DEF In
<1>6. PICK l \in Nat : In(l) /\ up[l] = up[k + 1]
  BY <1>5
<1>7. up[k] \in DOMAIN nodes /\ up[k + 1] = nodes[up[k]].parent
  BY <1>5
<1>8. up[l] \in DOMAIN nodes
  BY <1>6 DEF In
<1>9. nodes[up[k]].parent # NoSpan
  <2>1. NoSpan \notin DOMAIN nodes
    BY DEF Graph
  <2> QED  BY <1>6, <1>7, <1>8, <2>1
<1>10. m \in Nat
  BY <1>2
<1>11. PICK p : \E h \in Nat : m = h + 1 /\ Reaches(p, h, S, nodes[up[k]].parent)
  <2>1. PICK u : u = up[k]
    OBVIOUS
  <2>2. u \in DOMAIN nodes /\ nodes[u].parent # NoSpan /\ Reaches(q, m, S, u)
    BY <1>4, <1>7, <1>9, <2>1
  <2>3. Nearer(m, S, nodes[u].parent)
    BY <1>10, <2>2, ParentReached
  <2> QED  BY <2>1, <2>3 DEF Nearer
<1>12. PICK h \in Nat : m = h + 1 /\ Reaches(p, h, S, up[l])
  BY <1>6, <1>7, <1>11
<1>13. h \in T
  BY <1>6, <1>12
<1>14. m <= h
  BY <1>2, <1>13
<1> QED  BY SMT, <1>12, <1>14

\* The last span of the walk is known from what the walk ended with.
LEMMA FirstBack ==
  ASSUME NEW nodes, NEW S, Graph(nodes, S), NEW resolved, Resolved(nodes, S, resolved),
         NEW up, NEW n \in Nat, Way(nodes, resolved, up, n), NEW walk, Climbed(nodes, resolved, up, n, walk)
  PROVE  /\ walk.parent \in Records(nodes)
         /\ n # 0 => Truly(S, up[n - 1], inherit(nodes, walk.parent, up[n - 1]))
<1>1. /\ stops(nodes, resolved, up, n)
      /\ \A k \in Nat : k < n => up[k] \in DOMAIN nodes /\ up[k + 1] = nodes[up[k]].parent
  BY DEF Way
<1>2. n # 0 => n - 1 \in Nat /\ n - 1 < n /\ (n - 1) + 1 = n
  BY SMT
<1>3. PICK u : u = up[n - 1]
  OBVIOUS
<1>4. n # 0 => u \in DOMAIN nodes /\ nodes[u].parent = up[n]
  <2>1. n # 0 => up[n - 1] \in DOMAIN nodes /\ up[(n - 1) + 1] = nodes[up[n - 1]].parent
    BY <1>1, <1>2
  <2> QED  BY <1>2, <1>3, <2>1
<1>5. /\ Rooted \in Records(nodes) /\ Unknown \in Records(nodes) /\ ~Unknown.complete
  BY FirstRecords
<1>6. NoSpan \notin DOMAIN nodes
  BY DEF Graph
<1>7. DOMAIN resolved \subseteq DOMAIN nodes
  BY DEF Resolved
<1>8. CASE up[n] \in DOMAIN resolved
  <2>1. PICK a : a = walk.parent
    OBVIOUS
  <2>2. a \in Records(nodes) /\ Truly(S, up[n], a) /\ up[n] \in DOMAIN nodes
    BY <1>7, <1>8, <2>1 DEF Resolved, Climbed
  <2>3. n # 0 => Truly(S, u, inherit(nodes, a, u))
    BY <1>4, <2>2, TrulyInherited
  <2> QED  BY <1>3, <2>1, <2>2, <2>3
<1>9. CASE up[n] = NoSpan
  <2>1. walk.parent = Rooted
    BY <1>6, <1>7, <1>9 DEF Climbed
  <2>2. n # 0 => Truly(S, u, inherit(nodes, Rooted, u))
    BY <1>4, <1>9, TrulyRooted
  <2> QED  BY <1>3, <1>5, <2>1, <2>2
<1>10. CASE up[n] \notin DOMAIN resolved /\ up[n] # NoSpan
  <2>1. walk.parent = Unknown
    BY <1>10 DEF Climbed
  <2>2. ASSUME n # 0 PROVE \A q : \A m \in Nat : ~Reaches(q, m, S, u)
    <3>1. CASE up[n] \notin DOMAIN nodes
      BY <1>4, <1>10, <2>2, <3>1, ParentReached
    <3>2. CASE up[n] \in DOMAIN nodes
      <4>1. PICK j \in 0 .. n - 1 : up[j] = up[n]
        BY <1>1, <1>10, <3>2 DEF stops
      <4>2. j \in Nat /\ j < n /\ j <= n - 1
        BY SMT
      <4>3. \A q : \A m \in Nat : ~Reaches(q, m, S, up[n - 1])
        <5>1. PICK i \in Nat : i = n - 1 /\ j <= i /\ i < n
          BY <1>2, <2>2, <4>2
        <5>2. \A q : \A m \in Nat : ~Reaches(q, m, S, up[i])
          BY <1>1, <4>1, <4>2, <5>1, CycleUnreached
        <5> QED  BY <5>1, <5>2
      <4> QED  BY <1>3, <4>3
    <3> QED  BY <3>1, <3>2
  <2>3. n # 0 => Truly(S, u, inherit(nodes, Unknown, u))
    BY <1>4, <1>5, <2>2, TrulyUnknown
  <2> QED  BY <1>3, <1>5, <2>1, <2>3
<1> QED  BY <1>8, <1>9, <1>10

\* The way back down.
Backs(nodes, walk, n, back) ==
  back = [k \in 0 .. n |-> IF k = 0 THEN walk.parent ELSE inherit(nodes, back[k - 1], walk.chain[n + 1 - k])]

\* The downward loop is defined for every chain.
LEMMA BackIs ==
  ASSUME NEW nodes, NEW n \in Nat, NEW walk, walk.chain \in [1 .. n -> DOMAIN nodes],
         walk.parent \in Records(nodes)
  PROVE  \E back : Backs(nodes, walk, n, back)
<1>1. PICK R : R = Records(nodes)
  OBVIOUS
<1>2. PICK c \in [1 .. n -> DOMAIN nodes] : c = walk.chain
  OBVIOUS
<1>3. PICK x \in R : x = walk.parent
  BY <1>1
<1> DEFINE g == [p \in Nat \X R |-> IF p[1] \in 1 .. n THEN inherit(nodes, p[2], c[n + 1 - p[1]]) ELSE p[2]]
<1>4. \A k \in 1 .. n : n + 1 - k \in 1 .. n /\ k \in Nat /\ k \in 0 .. n /\ k - 1 \in 0 .. n
  BY SMT
<1>5. \A k \in 1 .. n : \A a \in R : inherit(nodes, a, c[n + 1 - k]) \in R
  <2>1. \A k \in 1 .. n : c[n + 1 - k] \in DOMAIN nodes
    BY <1>4
  <2> QED  BY <1>1, <2>1, Inherited
<1>6. \A k \in 1 .. n : \A a \in R : g[<<k, a>>] = inherit(nodes, a, c[n + 1 - k])
  BY <1>4
<1>7. g \in [Nat \X R -> R]
  BY <1>5
<1> HIDE DEF g
<1>8. PICK f \in [0 .. n -> R] : f[0] = x /\ \A k \in 1 .. n : f[k] = g[<<k, f[k - 1]>>]
  <2>1. PICK f : Recursive(f, n, R, x, g)
    BY <1>7, RecursionTo
  <2>2. Stepwise(f, n, R, x, g)
    BY <2>1, RecursiveIs
  <2> QED  BY <2>2 DEF Stepwise
<1>9. \A k \in 0 .. n : k # 0 => k \in 1 .. n
  BY SMT
<1>10. \A k \in 0 .. n : f[k] = IF k = 0 THEN walk.parent ELSE inherit(nodes, f[k - 1], walk.chain[n + 1 - k])
  <2>1. \A k \in 1 .. n : f[k] = inherit(nodes, f[k - 1], c[n + 1 - k])
    BY <1>4, <1>6, <1>8
  <2> QED  BY <1>2, <1>3, <1>8, <1>9, <2>1
<1>11. Backs(nodes, walk, n, f)
  <2>1. DOMAIN f = 0 .. n /\ f = [k \in 0 .. n |-> f[k]]
    BY <1>8
  <2> QED  BY <1>10, <2>1 DEF Backs
<1> QED  BY <1>11

\* The downward loop gives every span of the chain its true ancestry.
LEMMA BacksTrue ==
  ASSUME NEW nodes, NEW S, Graph(nodes, S), NEW resolved, Resolved(nodes, S, resolved),
         NEW up, NEW n \in Nat, Way(nodes, resolved, up, n), NEW walk, Climbed(nodes, resolved, up, n, walk),
         NEW back, Backs(nodes, walk, n, back)
  PROVE  \A k \in 1 .. n : back[k] \in Records(nodes) /\ Truly(S, walk.chain[n + 1 - k], back[k])
<1> DEFINE Good(k) == back[k] \in Records(nodes) /\ Truly(S, walk.chain[n + 1 - k], back[k])
           T == {k \in Nat : k \in 1 .. n /\ ~Good(k)}
<1>1. SUFFICES ASSUME T # {} PROVE FALSE
  <2>1. \A k \in 1 .. n : k \in Nat
    BY SMT
  <2> QED  BY <2>1
<1>2. PICK k \in T : \A j \in T : k <= j
  <2>1. T \subseteq Nat
    OBVIOUS
  <2> HIDE DEF T
  <2> QED  BY <1>1, <2>1, LeastOf
<1>3. /\ walk.parent \in Records(nodes)
      /\ n # 0 => Truly(S, up[n - 1], inherit(nodes, walk.parent, up[n - 1]))
  BY FirstBack
<1>4. k \in 1 .. n /\ ~Good(k)
  BY <1>2
<1>5. PICK i \in Nat : i = n - k /\ i < n
  BY SMTT(20), <1>4
<1>6. /\ n + 1 - k \in 1 .. n /\ (n + 1 - k) - 1 = i /\ k \in 0 .. n /\ k # 0 /\ n # 0
      /\ k = 1 => k - 1 = 0 /\ i = n - 1 /\ 0 \in 0 .. n
      /\ k # 1 => k - 1 \in Nat /\ k - 1 \in 1 .. n /\ ~(k <= k - 1) /\ n + 1 - (k - 1) \in 1 .. n
                  /\ (n + 1 - (k - 1)) - 1 = i + 1
  BY SMT, <1>4, <1>5
<1>7. \A j \in 1 .. n : walk.chain[j] = up[j - 1]
  BY DEF Climbed
<1>8. walk.chain[n + 1 - k] = up[i]
  BY <1>6, <1>7
<1>9. up[i] \in DOMAIN nodes /\ up[i + 1] = nodes[up[i]].parent
  BY <1>5 DEF Way
<1>10. \A j \in 0 .. n : back[j] = IF j = 0 THEN walk.parent ELSE inherit(nodes, back[j - 1], walk.chain[n + 1 - j])
  BY DEF Backs
<1>11. PICK u \in DOMAIN nodes : u = up[i]
  BY <1>9
<1>12. PICK a : a = back[k - 1]
  OBVIOUS
<1>13. back[k] = inherit(nodes, a, u)
  BY <1>6, <1>8, <1>10, <1>11, <1>12
<1>14. a \in Records(nodes) /\ Truly(S, u, inherit(nodes, a, u))
  <2>1. CASE k = 1
    <3>1. a = walk.parent
      BY <1>6, <1>10, <1>12, <2>1
    <3> QED  BY <1>3, <1>6, <1>11, <2>1, <3>1
  <2>2. CASE k # 1
    <3>1. Good(k - 1)
      BY <1>2, <1>6, <2>2
    <3>2. walk.chain[n + 1 - (k - 1)] = up[i + 1]
      BY <1>6, <1>7, <2>2
    <3>3. walk.chain[n + 1 - (k - 1)] \in DOMAIN nodes
      BY <1>6, <2>2 DEF Climbed
    <3>4. a \in Records(nodes) /\ nodes[u].parent \in DOMAIN nodes /\ Truly(S, nodes[u].parent, a)
      BY <1>9, <1>11, <1>12, <3>1, <3>2, <3>3
    <3> QED  BY <3>4, TrulyInherited
  <2> QED  BY <2>1, <2>2
<1>15. back[k] \in Records(nodes)
  BY <1>13, <1>14, Inherited
<1> QED  BY <1>4, <1>8, <1>11, <1>13, <1>14, <1>15

-----------------------------------------------------------------------------
(* All walks                                                               *)

Resolutions(nodes, S) ==
  {r \in UNION {[T -> Records(nodes)] : T \in SUBSET DOMAIN nodes} : Resolved(nodes, S, r)}

\* A table of true ancestries is a resolution.
LEMMA ResolutionIs ==
  ASSUME NEW nodes, NEW S, NEW D, D \subseteq DOMAIN nodes, NEW r, r = [i \in D |-> r[i]],
         \A i \in D : r[i] \in Records(nodes) /\ Truly(S, i, r[i])
  PROVE  r \in Resolutions(nodes, S)
<1>1. r \in [D -> Records(nodes)] /\ DOMAIN r = D
  OBVIOUS
<1>2. Resolved(nodes, S, r)
  BY <1>1 DEF Resolved
<1> QED  BY <1>1, <1>2 DEF Resolutions

\* One walk keeps the table true and adds the span it began with.
LEMMA ResolveIs ==
  ASSUME NEW nodes, NEW S, Graph(nodes, S), NEW resolved \in Resolutions(nodes, S), NEW id \in DOMAIN nodes
  PROVE  /\ resolve(nodes, resolved, id) \in Resolutions(nodes, S)
         /\ DOMAIN resolved \subseteq DOMAIN resolve(nodes, resolved, id)
         /\ id \in DOMAIN resolve(nodes, resolved, id)
<1>1. Resolved(nodes, S, resolved)
  BY DEF Resolutions
<1>2. IsFiniteSet(DOMAIN nodes)
  <2>1. PICK f : f = [s \in S |-> s.id]
    OBVIOUS
  <2>2. DOMAIN f = S /\ Range(f) = DOMAIN nodes /\ IsFiniteSet(S)
    BY ZenonT(30), <2>1 DEF Range, Graph
  <2> QED  BY <2>2, Finite
<1>3. PICK walk : walk = climb(nodes, resolved, id)
  OBVIOUS
<1> DEFINE n == Len(walk.chain)
           D == DOMAIN resolved \cup Range(walk.chain)
           at(i) == CHOOSE k \in 1 .. n : walk.chain[n + 1 - k] = i
<1>4. PICK up : \E m \in Nat : up[0] = id /\ Way(nodes, resolved, up, m) /\ Climbed(nodes, resolved, up, m, walk)
  BY <1>2, <1>3, ClimbIs
<1>5. n \in Nat /\ up[0] = id /\ Way(nodes, resolved, up, n) /\ Climbed(nodes, resolved, up, n, walk)
  <2>1. PICK m \in Nat : up[0] = id /\ Way(nodes, resolved, up, m) /\ Climbed(nodes, resolved, up, m, walk)
    BY <1>4
  <2>2. walk.chain \in [1 .. m -> DOMAIN nodes]
    BY <2>1 DEF Climbed
  <2>3. n = m
    BY <2>2, Listed
  <2> HIDE DEF n
  <2> QED  BY <2>1, <2>3
<1> DEFINE back == CHOOSE b : b = [k \in 0 .. n |-> IF k = 0 THEN walk.parent
                                                ELSE inherit(nodes, b[k - 1], walk.chain[n + 1 - k])]
<1>6. back = CHOOSE b : Backs(nodes, walk, n, b)
  BY DEF Backs
<1>7. PICK r : r = resolve(nodes, resolved, id)
  OBVIOUS
<1>8. r = [i \in D |-> IF i \in DOMAIN resolved THEN resolved[i] ELSE back[at(i)]]
  <2>1. r = descend(nodes, walk, resolved)
    BY <1>3, <1>7 DEF resolve
  <2> QED  BY <2>1 DEF descend
<1> HIDE DEF n, back
<1>9. walk.chain \in [1 .. n -> DOMAIN nodes]
  BY <1>5 DEF Climbed
<1>10. walk.parent \in Records(nodes)
  BY <1>1, <1>5, FirstBack
<1>11. Backs(nodes, walk, n, back)
  BY <1>5, <1>6, <1>9, <1>10, BackIs
<1>12. \A k \in 1 .. n : back[k] \in Records(nodes) /\ Truly(S, walk.chain[n + 1 - k], back[k])
  BY <1>1, <1>5, <1>11, BacksTrue
<1>13. \A i : (\E k \in 1 .. n : walk.chain[n + 1 - k] = i) => at(i) \in 1 .. n /\ walk.chain[n + 1 - at(i)] = i
  OBVIOUS
<1>14. \A j \in 1 .. n : n + 1 - j \in 1 .. n /\ n + 1 - (n + 1 - j) = j
  BY SMT, <1>5
<1> HIDE DEF at
<1>15. DOMAIN r = D /\ r = [i \in D |-> r[i]]
  BY <1>8
<1>16. D \subseteq DOMAIN nodes
  BY <1>1, <1>9 DEF Resolved, Range
<1>17. ASSUME NEW i \in D PROVE r[i] \in Records(nodes) /\ Truly(S, i, r[i])
  <2>1. CASE i \in DOMAIN resolved
    BY <1>1, <1>8, <2>1 DEF Resolved
  <2>2. CASE i \notin DOMAIN resolved
    <3>1. PICK j \in 1 .. n : walk.chain[j] = i
      BY <1>9, <2>2 DEF Range
    <3>2. at(i) \in 1 .. n /\ walk.chain[n + 1 - at(i)] = i
      BY <1>13, <1>14, <3>1
    <3>3. r[i] = back[at(i)]
      BY <1>8, <2>2
    <3> QED  BY <1>12, <3>2, <3>3
  <2> QED  BY <2>1, <2>2
<1>18. r \in Resolutions(nodes, S)
  BY <1>15, <1>16, <1>17, ResolutionIs
<1>19. id \in D
  <2>1. CASE n = 0
    <3>1. stops(nodes, resolved, up, 0)
      BY <1>5, <2>1 DEF Way
    <3>2. 0 .. 0 - 1 = {}
      BY SMT
    <3>3. id \in DOMAIN resolved
      BY <1>5, <3>1, <3>2 DEF stops
    <3> QED  BY <3>3
  <2>2. CASE n # 0
    <3>1. 1 \in 1 .. n /\ 1 - 1 = 0
      BY SMT, <1>5, <2>2
    <3>2. walk.chain[1] = up[1 - 1]
      BY <1>5, <3>1 DEF Climbed
    <3> QED  BY <1>5, <1>9, <3>1, <3>2 DEF Range
  <2> QED  BY <2>1, <2>2
<1> QED  BY <1>7, <1>15, <1>18, <1>19

\* The loop over the map's keys.
Loops(nodes, order, n, f) ==
  f = [k \in 0 .. n |-> IF k = 0 THEN [i \in {} |-> Unknown] ELSE resolve(nodes, f[k - 1], order[k])]

\* The loop over the map is defined for every order of it.
LEMMA LoopIs ==
  ASSUME NEW nodes, NEW S, Graph(nodes, S), NEW n \in Nat, NEW order \in [1 .. n -> DOMAIN nodes]
  PROVE  \E f : Loops(nodes, order, n, f)
<1>1. PICK R : R = Resolutions(nodes, S)
  OBVIOUS
<1>2. PICK x \in R : x = [i \in {} |-> Unknown]
  <2>1. PICK x : x = [i \in {} |-> Unknown]
    OBVIOUS
  <2>2. x = [i \in {} |-> x[i]]
    BY <2>1
  <2>3. x \in R
    BY <1>1, <2>2, ResolutionIs
  <2> QED  BY <2>1, <2>3
<1> DEFINE g == [p \in Nat \X R |-> IF p[1] \in 1 .. n THEN resolve(nodes, p[2], order[p[1]]) ELSE p[2]]
<1>3. \A k \in 1 .. n : k \in Nat /\ k \in 0 .. n /\ k - 1 \in 0 .. n
  BY SMT
<1>4. \A k \in 1 .. n : \A r \in R : resolve(nodes, r, order[k]) \in R
  <2>1. \A k \in 1 .. n : order[k] \in DOMAIN nodes
    OBVIOUS
  <2> QED  BY <1>1, <2>1, ResolveIs
<1>5. \A k \in 1 .. n : \A r \in R : g[<<k, r>>] = resolve(nodes, r, order[k])
  BY <1>3
<1>6. g \in [Nat \X R -> R]
  BY <1>4
<1> HIDE DEF g
<1>7. PICK f \in [0 .. n -> R] : f[0] = x /\ \A k \in 1 .. n : f[k] = g[<<k, f[k - 1]>>]
  <2>1. PICK f : Recursive(f, n, R, x, g)
    BY <1>6, RecursionTo
  <2>2. Stepwise(f, n, R, x, g)
    BY <2>1, RecursiveIs
  <2> QED  BY <2>2 DEF Stepwise
<1>8. \A k \in 0 .. n : k # 0 => k \in 1 .. n
  BY SMT
<1>9. \A k \in 0 .. n : f[k] = IF k = 0 THEN [i \in {} |-> Unknown] ELSE resolve(nodes, f[k - 1], order[k])
  <2>1. \A k \in 1 .. n : f[k] = resolve(nodes, f[k - 1], order[k])
    BY <1>3, <1>5, <1>7
  <2> QED  BY <1>2, <1>7, <1>8, <2>1
<1>10. Loops(nodes, order, n, f)
  <2>1. DOMAIN f = 0 .. n /\ f = [k \in 0 .. n |-> f[k]]
    BY <1>7
  <2> QED  BY <1>9, <2>1 DEF Loops
<1> QED  BY <1>10

\* After the loop the table is true and has every span, whatever the order.
LEMMA LoopTrue ==
  ASSUME NEW nodes, NEW S, Graph(nodes, S), NEW n \in Nat, NEW order \in [1 .. n -> DOMAIN nodes],
         NEW f, Loops(nodes, order, n, f)
  PROVE  f[n] \in Resolutions(nodes, S) /\ \A j \in 1 .. n : order[j] \in DOMAIN f[n]
<1> DEFINE Good(k) == f[k] \in Resolutions(nodes, S) /\ \A j \in 1 .. k : order[j] \in DOMAIN f[k]
           T == {k \in Nat : k \in 0 .. n /\ ~Good(k)}
<1>1. SUFFICES ASSUME T # {} PROVE FALSE
  <2>1. n \in 0 .. n
    BY SMT
  <2> QED  BY <2>1
<1>2. PICK k \in T : \A j \in T : k <= j
  <2>1. T \subseteq Nat
    OBVIOUS
  <2> HIDE DEF T
  <2> QED  BY <1>1, <2>1, LeastOf
<1>3. k \in Nat /\ k \in 0 .. n /\ ~Good(k)
  BY <1>2
<1>4. /\ k = 0 => 1 .. k = {}
      /\ k # 0 => /\ k - 1 \in Nat /\ k - 1 \in 0 .. n /\ ~(k <= k - 1) /\ k \in 1 .. n
                  /\ \A j \in 1 .. k : j = k \/ j \in 1 .. k - 1
  BY SMT, <1>3
<1>5. f[k] = IF k = 0 THEN [i \in {} |-> Unknown] ELSE resolve(nodes, f[k - 1], order[k])
  BY <1>3 DEF Loops
<1>6. CASE k = 0
  <2>1. PICK x : x = f[k]
    OBVIOUS
  <2>2. x = [i \in {} |-> Unknown]
    BY <1>5, <1>6, <2>1
  <2>3. x = [i \in {} |-> x[i]]
    BY <2>2
  <2>4. x \in Resolutions(nodes, S)
    BY <2>3, ResolutionIs
  <2> QED  BY <1>3, <1>4, <1>6, <2>1, <2>4
<1>7. CASE k # 0
  <2>1. Good(k - 1)
    BY <1>2, <1>4, <1>7
  <2>2. PICK r \in Resolutions(nodes, S) : r = f[k - 1]
    BY <2>1
  <2>3. PICK i \in DOMAIN nodes : i = order[k]
    BY <1>4, <1>7
  <2>4. PICK x : x = resolve(nodes, r, i)
    OBVIOUS
  <2>5. x \in Resolutions(nodes, S) /\ DOMAIN r \subseteq DOMAIN x /\ i \in DOMAIN x
    BY <2>4, ResolveIs
  <2>6. f[k] = x
    BY <1>5, <1>7, <2>2, <2>3, <2>4
  <2>7. ASSUME NEW j \in 1 .. k PROVE order[j] \in DOMAIN x
    BY <1>4, <1>7, <2>1, <2>2, <2>3, <2>5
  <2> QED  BY <1>3, <2>5, <2>6, <2>7
<1> QED  BY <1>6, <1>7

\* The entries that the spans of a trace really have.
realEntries(S) ==
  [id \in {foot(q).id : q \in entered(S)} |-> entryOfLine(CHOOSE q \in entered(S) : foot(q).id = id).id]

\* Entries that are the real ones, and so the same for every line to a span.
areReal(S, entries) ==
  /\ entries = realEntries(S)
  /\ \A q \in entered(S) : foot(q).id \in DOMAIN entries /\ entries[foot(q).id] = entryOfLine(q).id

\* A line with an entry.
LEMMA EnteredIs ==
  ASSUME NEW nodes, NEW S, Graph(nodes, S), NEW q \in entered(S)
  PROVE  /\ \E n \in Nat : Reaches(q, n, S, foot(q).id)
         /\ foot(q) \in S /\ foot(q).id \in DOMAIN nodes /\ foot(q) = nodes[foot(q).id]
         /\ entryOfLine(q) \in S /\ lineEntry(q) = entryOfLine(q).id /\ lineEntry(q) # NoSpan
<1>1. q \in Lines(S) /\ routedOn(q) # {}
  BY DEF entered
<1>2. PICK n \in Nat : IsLine(q, n, S)
  BY <1>1, LinesAre
<1>3. lineParts(nodes, S, q, n)
  BY <1>2, LineHas
<1>4. /\ foot(q) \in S /\ foot(q) = nodes[foot(q).id] /\ q \in [1 .. n -> S]
      /\ routedOn(q) \subseteq 1 .. n
  BY <1>3 DEF lineParts
<1>5. Min(routedOn(q)) \in routedOn(q)
  <2>1. 1 .. n \subseteq Nat
    BY SMT
  <2>2. routedOn(q) \subseteq Nat
    BY <1>4, <2>1
  <2> QED  BY <1>1, <2>2, MinIs
<1>6. entryOfLine(q) \in S
  BY <1>4, <1>5 DEF entryOfLine
<1>7. lineEntry(q) = entryOfLine(q).id
  BY <1>1 DEF lineEntry
<1>8. entryOfLine(q).id # NoSpan /\ foot(q).id \in DOMAIN nodes
  BY <1>4, <1>6 DEF Graph
<1>9. Reaches(q, n, S, foot(q).id)
  BY <1>2 DEF Reaches
<1> QED  BY <1>4, <1>6, <1>7, <1>8, <1>9

\* Entries taken from true ancestries of all spans are the real ones.
LEMMA EntriesOfTrue ==
  ASSUME NEW nodes, NEW S, Graph(nodes, S), NEW r, Resolved(nodes, S, r), DOMAIN r = DOMAIN nodes
  PROVE  areReal(S, entriesOf(r))
<1> DEFINE A == {i \in DOMAIN r : r[i].complete /\ r[i].entry # NoSpan}
           B == {foot(q).id : q \in entered(S)}
           at(i) == CHOOSE q \in entered(S) : foot(q).id = i
<1>1. ASSUME NEW i \in A PROVE i \in B
  <2>1. Truly(S, i, r[i])
    BY DEF Resolved
  <2>2. PICK q : \E n \in Nat : Reaches(q, n, S, i)
    BY <2>1 DEF Truly
  <2>3. PICK n \in Nat : Reaches(q, n, S, i)
    BY <2>2
  <2>4. r[i].entry = lineEntry(q)
    BY <2>1, <2>3 DEF Truly
  <2>5. routedOn(q) # {}
    BY <2>4 DEF lineEntry
  <2>6. q \in Lines(S) /\ foot(q).id = i
    BY <2>3, LinesAre DEF Reaches
  <2> QED  BY <2>5, <2>6 DEF entered
<1>2. ASSUME NEW q \in entered(S)
      PROVE  foot(q).id \in A /\ r[foot(q).id].entry = entryOfLine(q).id
  <2>1. PICK i : i = foot(q).id
    OBVIOUS
  <2>2. \E n \in Nat : Reaches(q, n, S, i)
    BY <2>1, EnteredIs
  <2>3. i \in DOMAIN nodes
    BY <2>1, EnteredIs
  <2>4. lineEntry(q) = entryOfLine(q).id /\ lineEntry(q) # NoSpan
    BY EnteredIs
  <2>5. Truly(S, i, r[i])
    BY <2>3 DEF Resolved
  <2>6. r[i].complete /\ r[i].entry = lineEntry(q)
    BY <2>2, <2>5 DEF Truly
  <2> QED  BY <2>1, <2>3, <2>4, <2>6
<1>3. A = B
  BY <1>1, <1>2
<1>4. ASSUME NEW i \in B PROVE r[i].entry = entryOfLine(at(i)).id
  <2>1. at(i) \in entered(S) /\ foot(at(i)).id = i
    OBVIOUS
  <2> HIDE DEF at
  <2> QED  BY <1>2, <2>1
<1>5. entriesOf(r) = [i \in A |-> r[i].entry]
  BY DEF entriesOf
<1>6. realEntries(S) = [i \in B |-> entryOfLine(at(i)).id]
  BY DEF realEntries
<1> HIDE DEF A, B, at
<1>7. entriesOf(r) = realEntries(S)
  BY <1>3, <1>4, <1>5, <1>6
<1>8. \A q \in entered(S) : foot(q).id \in DOMAIN entriesOf(r) /\ entriesOf(r)[foot(q).id] = entryOfLine(q).id
  BY <1>2, <1>5
<1> QED  BY <1>7, <1>8 DEF areReal

\* traceEntries finds the real entries, whatever the order of the map.
LEMMA EntriesRight ==
  ASSUME NEW nodes, NEW S, Graph(nodes, S), NEW order \in orders(DOMAIN nodes)
  PROVE  areReal(S, traceEntries(nodes, order))
<1>1. IsFiniteSet(DOMAIN nodes)
  <2>1. PICK f : f = [s \in S |-> s.id]
    OBVIOUS
  <2>2. DOMAIN f = S /\ Range(f) = DOMAIN nodes /\ IsFiniteSet(S)
    BY <2>1 DEF Range, Graph
  <2> QED  BY <2>2, Finite
<1>2. PICK c \in Nat : c = Cardinality(DOMAIN nodes)
  BY <1>1, FS_CardinalityType
<1>3. order \in [1 .. c -> DOMAIN nodes] /\ \A i \in DOMAIN nodes : \E k \in 1 .. c : order[k] = i
  BY <1>2 DEF orders, Bijection, Injection, Surjection
<1> DEFINE n == Len(order)
           f == CHOOSE g : g = [k \in 0 .. n |-> IF k = 0 THEN [i \in {} |-> Unknown]
                                                 ELSE resolve(nodes, g[k - 1], order[k])]
<1>4. n = c
  BY <1>3, Listed
<1>5. traceEntries(nodes, order) = entriesOf(f[n])
  BY DEF traceEntries
<1>6. f = CHOOSE g : Loops(nodes, order, n, g)
  BY DEF Loops
<1> HIDE DEF n, f
<1>7. n \in Nat /\ order \in [1 .. n -> DOMAIN nodes]
  BY <1>3, <1>4
<1>8. Loops(nodes, order, n, f)
  BY <1>6, <1>7, LoopIs
<1>9. f[n] \in Resolutions(nodes, S) /\ \A j \in 1 .. n : order[j] \in DOMAIN f[n]
  BY <1>7, <1>8, LoopTrue
<1>10. PICK r : r = f[n]
  OBVIOUS
<1>11. Resolved(nodes, S, r)
  BY <1>9, <1>10 DEF Resolutions
<1>12. DOMAIN r = DOMAIN nodes
  BY ZenonT(30), <1>3, <1>4, <1>9, <1>10, <1>11 DEF Resolved
<1> QED  BY <1>5, <1>10, <1>11, <1>12, EntriesOfTrue

-----------------------------------------------------------------------------
(* Of a window                                                             *)

\* The index of a trace is an index of its spans.
LEMMA GraphOf ==
  ASSUME NEW S, Sound(S), NEW t
  PROVE  Graph(byID(S, t), ofTrace(S, t))
<1> DEFINE O == ofTrace(S, t)
           nodes == byID(S, t)
<1>1. O \in SUBSET S
  BY DEF ofTrace
<1>2. IsFiniteSet(O)
  BY <1>1, FS_Subset DEF Sound
<1>3. DOMAIN nodes = {s.id : s \in O}
  BY DEF byID
<1>4. ASSUME NEW s \in O PROVE nodes[s.id] = s /\ s.id # NoSpan
  <2>1. nodes[s.id] = CHOOSE r \in O : r.id = s.id
    BY DEF byID
  <2>2. nodes[s.id] \in O /\ nodes[s.id].id = s.id
    BY <2>1
  <2>3. s \in World /\ nodes[s.id] \in World /\ nodes[s.id].trace = s.trace
    BY <2>2 DEF ofTrace, Sound
  <2>4. nodes[s.id] = s
    BY <2>2, <2>3, IngestAssumption
  <2> QED  BY <2>3, <2>4, SpanIs
<1> HIDE DEF nodes, O
<1> QED  BY <1>2, <1>3, <1>4 DEF Graph, nodes, O

\* A window lists stored spans.
LEMMA WindowIs ==
  ASSUME Sound(spans), NEW n, NEW service, NEW w \in Readable(n, service)
  PROVE  Lists(w, spans) /\ Range(w) \subseteq spans /\ Sound(Range(w))
<1>1. ASSUME NEW S \in SUBSET spans, w = SelectWindow(S, n, service) PROVE Lists(w, spans) /\ Range(w) \subseteq spans
  <2>1. Sound(S)
    BY FS_Subset DEF Sound
  <2>2. PICK out : out = {s \in S : s.trace \in kept(S, n, service)}
    OBVIOUS
  <2>3. shows(w, S, out)
    BY <1>1, <2>1, <2>2, SelectedAre
  <2>4. Lists(w, S) /\ Range(w) \subseteq spans
    BY <2>2, <2>3 DEF shows
  <2>5. w \in Seq(S)
    BY <2>4 DEF Lists
  <2>6. w \in Seq(spans)
    BY SMT, <2>5
  <2> QED  BY <2>4, <2>6 DEF Lists
<1>2. Lists(w, spans) /\ Range(w) \subseteq spans
  <2>1. CASE w \in postgresWindows(spans, n, service)
    <3>1. PICK r \in recent(spans, n, service) : \E rows \in windowRows(spans, r) : w = SelectWindow(rows, n, service)
      BY <2>1 DEF postgresWindows
    <3>2. PICK rows \in windowRows(spans, r) : w = SelectWindow(rows, n, service)
      BY <3>1
    <3>3. rows \in SUBSET spans
      BY DEF windowRows, limit
    <3> QED  BY <1>1, <3>2, <3>3
  <2>2. CASE w = memoryWindow(spans, n, service)
    BY <1>1, <2>2 DEF memoryWindow
  <2> QED  BY <2>1, <2>2 DEF Readable
<1>3. Sound(Range(w))
  BY <1>2, FS_Subset DEF Sound
<1> QED  BY <1>2, <1>3

\* So the entries of every window that can be read are right.
LEMMA EntriesNeverWrong ==
  ASSUME Sound(spans)
  PROVE  EntryNeverWrong
<1> SUFFICES ASSUME NEW n \in Windows, NEW service \in Services, NEW w \in Readable(n, service),
                    NEW t \in tracesOf(Range(w)), NEW order \in orders(DOMAIN byID(Range(w), t))
             PROVE  traceEntries(byID(Range(w), t), order) = realEntries(ofTrace(Range(w), t))
  BY DEF EntryNeverWrong, realEntries
<1>1. Sound(Range(w))
  BY WindowIs
<1>2. PICK nodes, S : nodes = byID(Range(w), t) /\ S = ofTrace(Range(w), t)
  OBVIOUS
<1>3. Graph(nodes, S)
  BY <1>1, <1>2, GraphOf
<1>4. order \in orders(DOMAIN nodes)
  BY <1>2
<1>5. areReal(S, traceEntries(nodes, order))
  BY <1>3, <1>4, EntriesRight
<1> QED  BY <1>2, <1>5 DEF areReal

-----------------------------------------------------------------------------
(* Affected functions                                                      *)

\* Whether a line comes before every later function of a function's file.
beforeNext(f, l) == \A g \in Funcs : before(f, g) => l < g.line

\* A function's span has the lines that count as its own.
LEMMA CoversIs ==
  ASSUME NEW f \in Funcs, NEW l \in Nat
  PROVE  covers(f, l) <=> countsAs(f, l)
<1>1. f.line \in Nat /\ f.end \in Nat /\ \A g \in Funcs : g.line \in Nat
  BY ChangesAssumption
<1>2. beforeNext(f, l) <=> ~\E g \in Funcs : before(f, g) /\ g.line <= l
  <2>1. \A g \in Funcs : l < g.line <=> ~(g.line <= l)
    BY SMT, <1>1
  <2> QED  BY <2>1 DEF beforeNext
<1>3. CASE f.end >= f.line /\ f.end > 0
  <2>1. covers(f, l) <=> f.line <= l /\ l < f.end + 1
    BY <1>3 DEF covers
  <2>2. ~(f.end = 0 \/ f.end < f.line)
    BY SMT, <1>1, <1>3
  <2>3. countsAs(f, l) <=> f.line <= l /\ l <= f.end
    BY <1>3, <2>2 DEF countsAs
  <2>4. l < f.end + 1 <=> l <= f.end
    BY SMT, <1>1
  <2> QED  BY <2>1, <2>3, <2>4
<1>4. CASE ~(f.end >= f.line /\ f.end > 0)
  <2>1. covers(f, l) <=> f.line <= l /\ beforeNext(f, l)
    BY <1>4 DEF covers, beforeNext
  <2>2. (f.end = 0 \/ f.end < f.line) /\ ~(f.line <= l /\ f.end > 0 /\ l <= f.end)
    BY SMT, <1>1, <1>4
  <2> QED  BY <1>2, <2>1, <2>2 DEF countsAs
<1> QED  BY <1>3, <1>4

\* What a line has to do with a function for it to be the function's.
ownLine(f, l) == countsAs(f, l) /\ ~\E g \in Funcs : before(g, f) /\ countsAs(g, l)

\* overlappingFuncs finds the functions of a file that own a changed line.
LEMMA OverlapIs ==
  ASSUME NEW diff \in Diffs, NEW c \in diff
  PROVE  /\ overlappingFuncs(c) \subseteq Funcs
         /\ \A f \in Funcs :
              f \in overlappingFuncs(c) <=> c.path = f.file /\ \E l \in c.lines : ownLine(f, l)
<1>1. c.lines \subseteq Nat
  BY TelemetryAssumption
<1>2. \A l \in c.lines : \A g \in Funcs : covers(g, l) <=> countsAs(g, l)
  BY <1>1, CoversIs
<1>3. \A f : f \in overlappingFuncs(c) <=> \E l \in c.lines : f \in matched(c.path, l)
  BY DEF overlappingFuncs
<1>4. \A l \in c.lines : \A f : f \in matched(c.path, l) <=>
                                    f \in Funcs /\ c.path = f.file /\ ownLine(f, l)
  BY <1>2 DEF matched, ownLine
<1> QED  BY <1>3, <1>4

\* A function is changed when it owns a line of its file that is.
LEMMA ChangedIs ==
  ASSUME NEW diff, NEW f
  PROVE  f \in changed(diff) <=>
            /\ f \in Funcs
            /\ \E c \in diff : /\ ~c.binary /\ c.path = f.file /\ c.path \in Files
                               /\ \E l \in c.lines : ownLine(f, l)
BY DEF changed, ownLine

\* directID has the ids of the changed functions, and no others.
LEMMA DirectIs ==
  ASSUME NEW diff \in Diffs, NEW i
  PROVE  i \in directID(diff) <=> \E f \in changed(diff) : f.id = i
<1>2. ASSUME i \in directID(diff) PROVE \E f \in changed(diff) : f.id = i
  <2>1. PICK g \in Direct(diff) : g.reason = "changed_lines" /\ g.source = i
    BY <1>2 DEF directID
  <2>2. PICK c \in diff : g \in directOf(c)
    BY DEF Direct
  <2>3. ~c.binary /\ \E f \in overlappingFuncs(c) : g = finding(c, f.id, "changed_lines")
    <3>1. \/ g = finding(c, c.path, "binary") \/ g = finding(c, c.path, "changed_outside_func")
          \/ g = finding(c, c.path, "changed_file")
          \/ ~c.binary /\ \E f \in overlappingFuncs(c) : g = finding(c, f.id, "changed_lines")
      BY <2>2 DEF directOf
    <3>2. "changed_lines" # "binary" /\ "changed_lines" # "changed_outside_func" /\ "changed_lines" # "changed_file"
      BY SMT
    <3> QED  BY SMT, <2>1, <3>1, <3>2 DEF finding
  <2>4. PICK f \in overlappingFuncs(c) : g = finding(c, f.id, "changed_lines")
    BY <2>3
  <2>5. f \in Funcs /\ f.id = i
    <3>1. f \in Funcs
      BY OverlapIs
    <3>2. f.id = i
      BY SMT, <2>1, <2>4 DEF finding
    <3> QED  BY <3>1, <3>2
  <2>6. f \in changed(diff)
    <3>1. c.path \in Files
      BY <2>2 DEF directOf
    <3> QED  BY <2>3, <2>4, <2>5, <3>1, OverlapIs, ChangedIs
  <2> QED  BY <2>5, <2>6
<1>3. ASSUME NEW f \in changed(diff), f.id = i PROVE i \in directID(diff)
  <2>1. PICK c \in diff : /\ ~c.binary /\ c.path = f.file /\ c.path \in Files
                          /\ \E l \in c.lines : ownLine(f, l)
    BY ChangedIs
  <2>2. f \in Funcs
    BY ChangedIs
  <2>3. f \in overlappingFuncs(c)
    BY <2>1, <2>2, OverlapIs
  <2>4. PICK g : g = finding(c, f.id, "changed_lines")
    OBVIOUS
  <2>5. g \in directOf(c)
    BY <2>1, <2>3, <2>4 DEF directOf
  <2>6. g.reason = "changed_lines" /\ g.source = i
    BY SMTT(20), <1>3, <2>4 DEF finding
  <2> QED  BY <2>5, <2>6 DEF directID, Direct
<1> QED  BY <1>2, <1>3

\* The functions looked up are the affected ones.
LEMMA AffectedIs ==
  ASSUME NEW diff \in Diffs, NEW f \in Funcs
  PROVE  /\ f \in affected(diff) <=> f.id \in directID(diff) \/ callerTargets(diff, f.id) # {}
         /\ f \in affected(diff) <=> f.id \in watch(diff)
<1>1. \A g \in Funcs : g.id \in directID(diff) <=> g \in changed(diff)
  <2>1. \A g, h \in Funcs : g.id = h.id => g = h
    BY ChangesAssumption
  <2>2. \A g \in Funcs : g.id \in directID(diff) <=> \E h \in changed(diff) : h.id = g.id
    BY DirectIs
  <2>3. \A h \in changed(diff) : h \in Funcs
    BY ChangedIs
  <2> QED  BY <2>1, <2>2, <2>3
<1>2. callerTargets(diff, f.id) # {} <=> \E g \in changed(diff) : <<f.id, g.id>> \in Calls
  BY DirectIs DEF callerTargets
<1>3. f \in affected(diff) <=> f \in changed(diff) \/ \E g \in changed(diff) : <<f.id, g.id>> \in Calls
  BY DEF affected
<1>4. f \in affected(diff) <=> f.id \in directID(diff) \/ callerTargets(diff, f.id) # {}
  BY <1>1, <1>2, <1>3
<1>5. f.id \in watch(diff) <=> f.id \in directID(diff) \/ callerTargets(diff, f.id) # {}
  <2>1. \A g \in Funcs : g.id = f.id => g = f
    BY ChangesAssumption
  <2> QED  BY <2>1 DEF watch
<1> QED  BY <1>4, <1>5

\* A binding names its function.
LEMMA BoundIs ==
  ASSUME NEW s
  PROVE  /\ bindOne(s) => \E f \in Funcs : hits(s) = {f} /\ sourceOf(s) = f.id
         /\ \A f \in Funcs : hits(s) = {f} => bindOne(s) /\ sourceOf(s) = f.id
<1>1. hits(s) \in SUBSET Funcs
  BY DEF hits
<1>2. IsFiniteSet(hits(s))
  BY <1>1, FS_Subset, ChangesAssumption
<1>3. bindOne(s) <=> \E f : hits(s) = {f}
  BY <1>2, FS_Singleton DEF bindOne
<1>4. \A f : hits(s) = {f} => sourceOf(s) = f.id
  BY DEF sourceOf
<1> QED  BY <1>1, <1>3, <1>4

-----------------------------------------------------------------------------
(* Entry routes                                                            *)

\* A route is that of the lines to a span, and there is none without a line.
rightRoute(R, s, route) ==
  /\ route # NoRoute => \E q \in entered(ofTrace(R, s.trace)) :
                           foot(q) = s /\ route = routeLabel(entryOfLine(q))
  /\ \A q \in entered(ofTrace(R, s.trace)) :
         foot(q) = s => route = routeLabel(entryOfLine(q)) /\ route # NoRoute

\* The route of a binding is the label of the entry its span really has.
LEMMA RouteIs ==
  ASSUME NEW R, Sound(R), NEW s \in R
  PROVE  rightRoute(R, s, entryRoute(byID(R, s.trace), s))
<1>1. PICK nodes : nodes = byID(R, s.trace)
  OBVIOUS
<1>2. PICK S : S = ofTrace(R, s.trace)
  OBVIOUS
<1>3. Graph(nodes, S) /\ s \in S
  BY <1>1, <1>2, GraphOf DEF ofTrace
<1>4. PICK route : route = entryRoute(nodes, s)
  OBVIOUS
<1> DEFINE order == CHOOSE o \in orders(DOMAIN nodes) : TRUE
<1>5. PICK x : x = EntryForSpan(nodes, s.id, order)
  OBVIOUS
<1>6. order \in orders(DOMAIN nodes)
  <2>1. IsFiniteSet(DOMAIN nodes)
    <3>1. PICK f : f = [r \in S |-> r.id]
      OBVIOUS
    <3>2. DOMAIN f = S /\ Range(f) = DOMAIN nodes /\ IsFiniteSet(S)
      BY ZenonT(30), <1>3, <3>1 DEF Range, Graph
    <3> QED  BY <3>2, Finite
  <2>2. ExistsBijection(1 .. Cardinality(DOMAIN nodes), DOMAIN nodes)
    BY <2>1, FS_CardinalityType
  <2>3. orders(DOMAIN nodes) # {}
    BY <2>2 DEF orders, ExistsBijection
  <2> QED  BY <2>3
<1>7. PICK e : e = traceEntries(nodes, order)
  OBVIOUS
<1>8. areReal(S, e)
  BY <1>3, <1>6, <1>7, EntriesRight
<1>9. route = IF x = NoSpan THEN NoRoute ELSE routeLabel(nodes[x])
  <2>1. entryRoute(nodes, s) = IF EntryForSpan(nodes, s.id, order) = NoSpan THEN NoRoute
                               ELSE routeLabel(nodes[EntryForSpan(nodes, s.id, order)])
    BY SMT DEF entryRoute
  <2> HIDE DEF order
  <2> QED  BY <1>4, <1>5, <2>1
<1> HIDE DEF order
<1>10. x = IF s.id \in DOMAIN e THEN e[s.id] ELSE NoSpan
  BY <1>5, <1>7 DEF EntryForSpan
<1>11. \A q \in entered(S) : foot(q).id \in DOMAIN e /\ e[foot(q).id] = entryOfLine(q).id
  BY <1>8 DEF areReal
<1>12. ASSUME NEW q \in entered(S), foot(q) = s PROVE route = routeLabel(entryOfLine(q)) /\ route # NoRoute
  <2>1. entryOfLine(q) \in S
    BY <1>3, EnteredIs
  <2>2. x = entryOfLine(q).id
    BY <1>10, <1>11, <1>12
  <2>3. nodes[x] = entryOfLine(q) /\ x # NoSpan
    BY <1>3, <2>1, <2>2 DEF Graph
  <2>4. \A r : routeLabel(r) # NoRoute
    BY SMT DEF routeLabel, NoRoute
  <2> QED  BY <1>9, <2>3, <2>4
<1>13. ASSUME route # NoRoute PROVE \E q \in entered(S) : foot(q) = s /\ route = routeLabel(entryOfLine(q))
  <2>1. s.id \in DOMAIN e
    BY <1>9, <1>10, <1>13
  <2>2. DOMAIN e = {foot(q).id : q \in entered(S)}
    BY <1>8 DEF areReal, realEntries
  <2>3. PICK q \in entered(S) : foot(q).id = s.id
    BY <2>1, <2>2
  <2>4. foot(q) = nodes[foot(q).id]
    BY <1>3, EnteredIs
  <2>5. foot(q) = s
    BY <1>3, <2>3, <2>4 DEF Graph
  <2> QED  BY <1>12, <2>5
<1> QED  BY <1>1, <1>2, <1>4, <1>12, <1>13 DEF rightRoute

-----------------------------------------------------------------------------
(* Findings                                                                *)

\* Of some elements one comes first.
LEMMA Earliest ==
  ASSUME NEW F, IsFiniteSet(F), NEW R, StrictOrder(F, R), NEW T, T \subseteq F, T # {}
  PROVE  \E g \in T : \A h \in T : <<h, g>> \notin R
<1> DEFINE at(g) == Cardinality(Before(F, R, g))
           N == {at(g) : g \in T}
<1>1. \A g \in F : at(g) \in Nat /\ \A h \in F : <<g, h>> \in R => at(g) < at(h)
  BY BeforeLess
<1> HIDE DEF at
<1>2. N \subseteq Nat /\ N # {}
  BY <1>1
<1>3. PICK n \in N : \A m \in N : n <= m
  <2> HIDE DEF N
  <2> QED  BY <1>2, LeastOf
<1>4. PICK g \in T : n = at(g)
  OBVIOUS
<1>5. ASSUME NEW h \in T, <<h, g>> \in R PROVE FALSE
  <2>1. at(h) < at(g) /\ at(h) \in Nat /\ at(g) \in Nat
    BY <1>1, <1>5
  <2>2. at(g) <= at(h)
    BY <1>3, <1>4
  <2> QED  BY SMT, <2>1, <2>2
<1> QED  BY <1>5

\* The finding of a binding.
findingOf(R, s, p) ==
  [source |-> sourceOf(s), route |-> entryRoute(byID(R, s.trace), s), provenance |-> p,
   trace |-> s.trace, span |-> s.id]

\* What a binding is found by.
foundBy(R, diff, s) ==
  IF entryRoute(byID(R, s.trace), s) = NoRoute THEN {"code_attrs"}
  ELSE {p \in {"trace_entry", "trace_entry_caller"} :
            IF p = "trace_entry" THEN sourceOf(s) \in directID(diff)
            ELSE callerTargets(diff, sourceOf(s)) # {}}

fieldsAre(R, s, p, h) ==
  /\ h.source = sourceOf(s) /\ h.route = entryRoute(byID(R, s.trace), s) /\ h.provenance = p
  /\ h.trace = s.trace /\ h.span = s.id

\* The fields of a finding.
LEMMA FindingIs ==
  ASSUME NEW R, NEW s, NEW p
  PROVE  fieldsAre(R, s, p, findingOf(R, s, p))
<1>0. PICK h : h = findingOf(R, s, p)
  OBVIOUS
<1>1. PICK a : a = sourceOf(s)
  OBVIOUS
<1>2. PICK b : b = entryRoute(byID(R, s.trace), s)
  OBVIOUS
<1>3. h = [source |-> a, route |-> b, provenance |-> p, trace |-> s.trace, span |-> s.id]
  BY <1>0, <1>1, <1>2 DEF findingOf
<1>4. h.source = a /\ h.route = b /\ h.provenance = p /\ h.trace = s.trace /\ h.span = s.id
  BY SMT, <1>3
<1> QED  BY <1>0, <1>1, <1>2, <1>4 DEF fieldsAre

\* h is a finding of binding s, by p.
raised(w, diff, h, s, p) ==
  /\ s \in Bind(w) /\ sourceOf(s) \in watch(diff) /\ p \in foundBy(Range(w), diff, s)
  /\ h = findingOf(Range(w), s, p)

\* Every finding was raised by a watched binding.
LEMMA RaisedAre ==
  ASSUME NEW w, NEW diff, NEW h
  PROVE  h \in bound(w, diff) <=> \E s, p : raised(w, diff, h, s, p)
<1>1. ASSUME NEW s
      PROVE  boundFindings(entryRoute(byID(Range(w), s.trace), s), diff, s)
               = {findingOf(Range(w), s, p) : p \in foundBy(Range(w), diff, s)}
  BY DEF boundFindings, findingOf, foundBy
<1>2. h \in bound(w, diff) <=> \E s \in Bind(w) : /\ sourceOf(s) \in watch(diff)
                                              /\ h \in boundFindings(entryRoute(byID(Range(w), s.trace), s), diff, s)
  BY DEF bound
<1>3. h \in bound(w, diff) <=> \E s \in Bind(w) : /\ sourceOf(s) \in watch(diff)
                                              /\ \E p \in foundBy(Range(w), diff, s) : h = findingOf(Range(w), s, p)
  BY ZenonT(30), <1>1, <1>2
<1> QED  BY <1>3 DEF raised

\* The bindings of a window are spans of it that bind.
LEMMA BindIs ==
  ASSUME NEW w, NEW s \in Bind(w)
  PROVE  s \in Range(w) /\ bindOne(s)
BY DEF Bind, boundAt, Range

\* Two findings of one binding are the observed and the inferred one.
LEMMA FoundBy ==
  ASSUME NEW R, NEW diff, NEW s, NEW p \in foundBy(R, diff, s), NEW q \in foundBy(R, diff, s), p # q
  PROVE  \/ p = "trace_entry" /\ q = "trace_entry_caller"
         \/ q = "trace_entry" /\ p = "trace_entry_caller"
BY DEF foundBy

\* No finding comes before itself, and those of different spans are ordered.
LEMMA ComesBefore ==
  ASSUME NEW f, NEW g, f.trace \in Nat, f.span \in Nat, g.trace \in Nat, g.span \in Nat
  PROVE  /\ ~comesBefore(f, f)
         /\ f.trace # g.trace \/ f.span # g.span => comesBefore(f, g) \/ comesBefore(g, f)
BY SMT DEF comesBefore

\* The findings are finitely many and come in an order.
LEMMA FindingsOrdered ==
  ASSUME NEW w, Sound(Range(w)), NEW diff, NEW F, F = bound(w, diff),
         NEW R, R = {p \in F \X F : comesBefore(p[1], p[2])}
  PROVE  IsFiniteSet(F) /\ StrictOrder(F, R)
<1>1. \A f \in F : \E s, p : raised(w, diff, f, s, p)
  BY RaisedAre
<1>2. ASSUME NEW f, NEW s, NEW p, raised(w, diff, f, s, p)
      PROVE  /\ s \in Range(w) /\ s \in World /\ p \in foundBy(Range(w), diff, s)
             /\ f = findingOf(Range(w), s, p)
             /\ f.trace = s.trace /\ f.span = s.id /\ f.provenance = p /\ f.trace \in Nat /\ f.span \in Nat
  <2>1. s \in Range(w) /\ s \in World
    BY <1>2, BindIs DEF raised, Sound
  <2>2. f = findingOf(Range(w), s, p) /\ p \in foundBy(Range(w), diff, s)
    BY <1>2 DEF raised
  <2>3. f.trace = s.trace /\ f.span = s.id /\ f.provenance = p
    <3>1. fieldsAre(Range(w), s, p, f)
      BY <2>2, FindingIs
    <3> QED  BY <3>1 DEF fieldsAre
  <2>4. s.trace \in Nat /\ s.id \in Nat
    BY <2>1, SpanIs
  <2> QED  BY <2>1, <2>2, <2>3, <2>4
<1>3. \A f \in F : f.trace \in Nat /\ f.span \in Nat
  BY <1>1, <1>2
<1>4. \A f, g \in F : <<f, g>> \in R <=> comesBefore(f, g)
  OBVIOUS
<1>5. ASSUME NEW f \in F, NEW g \in F, f # g PROVE comesBefore(f, g) \/ comesBefore(g, f)
  <2>1. PICK s, p : raised(w, diff, f, s, p)
    BY <1>1
  <2>2. PICK r, q : raised(w, diff, g, r, q)
    BY <1>1
  <2>3. CASE f.trace = g.trace /\ f.span = g.span
    <3>1. r \in World /\ s \in World /\ r.trace = s.trace /\ r.id = s.id
      BY <1>2, <2>1, <2>2, <2>3
    <3>2. r = s
      BY <3>1, IngestAssumption
    <3>3. f = findingOf(Range(w), s, p) /\ g = findingOf(Range(w), s, q) /\ f.provenance = p /\ g.provenance = q
      BY <1>2, <2>1, <2>2, <3>2
    <3>4. p # q
      BY <1>5, <3>3
    <3>5. p \in foundBy(Range(w), diff, s) /\ q \in foundBy(Range(w), diff, s)
      BY <1>2, <2>1, <2>2, <3>2
    <3>6. (p = "trace_entry" /\ q = "trace_entry_caller") \/ (q = "trace_entry" /\ p = "trace_entry_caller")
      BY <3>4, <3>5, FoundBy
    <3> QED  BY <2>3, <3>3, <3>6 DEF comesBefore
  <2>4. CASE f.trace # g.trace \/ f.span # g.span
    BY <1>3, <2>4, ComesBefore
  <2> QED  BY <2>3, <2>4
<1>6. \A f \in F : ~comesBefore(f, f)
  BY <1>3, ComesBefore
<1>7. ASSUME NEW f \in F, NEW g \in F, NEW h \in F, comesBefore(f, g), comesBefore(g, h) PROVE comesBefore(f, h)
  BY SMT, <1>3, <1>7 DEF comesBefore
<1>8. StrictOrder(F, R)
  <2>1. \A f \in F : <<f, f>> \notin R
    BY <1>4, <1>6
  <2>2. ASSUME NEW f \in F, NEW g \in F, NEW h \in F, <<f, g>> \in R, <<g, h>> \in R PROVE <<f, h>> \in R
    BY <1>4, <1>7, <2>2
  <2>3. \A f, g \in F : f # g => <<f, g>> \in R \/ <<g, f>> \in R
    BY <1>4, <1>5
  <2>4. \A f, g, h \in F : <<f, g>> \in R /\ <<g, h>> \in R => <<f, h>> \in R
    BY SMT, <2>2
  <2> QED  BY SMT, <2>1, <2>3, <2>4 DEF StrictOrder
<1>9. IsFiniteSet(F)
  <2>1. PICK P : P = {"code_attrs", "trace_entry", "trace_entry_caller"}
    OBVIOUS
  <2>2. IsFiniteSet(P)
    <3>1. IsFiniteSet({"code_attrs"})
      BY FS_Singleton
    <3>2. IsFiniteSet({"code_attrs"} \cup {"trace_entry"})
      BY <3>1, FS_AddElement
    <3>3. IsFiniteSet(({"code_attrs"} \cup {"trace_entry"}) \cup {"trace_entry_caller"})
      BY <3>2, FS_AddElement
    <3>4. P = ({"code_attrs"} \cup {"trace_entry"}) \cup {"trace_entry_caller"}
      BY <2>1
    <3> QED  BY <3>3, <3>4
  <2>3. IsFiniteSet(Range(w) \X P)
    BY <2>2, FS_Product DEF Sound
  <2>4. PICK a : a = [x \in Range(w) \X P |-> findingOf(Range(w), x[1], x[2])]
    OBVIOUS
  <2>5. IsFiniteSet(Range(a))
    <3>1. DOMAIN a = Range(w) \X P
      BY <2>4
    <3> QED  BY <2>3, <3>1, Finite
  <2>6. ASSUME NEW f \in F PROVE f \in Range(a)
    <3>1. PICK s, p : raised(w, diff, f, s, p)
      BY <1>1
    <3>2. s \in Range(w) /\ p \in foundBy(Range(w), diff, s) /\ f = findingOf(Range(w), s, p)
      BY <1>2, <3>1
    <3>3. p \in P
      BY <2>1, <3>2 DEF foundBy
    <3>4. <<s, p>> \in DOMAIN a /\ a[<<s, p>>] = f
      BY <2>4, <3>2, <3>3
    <3> QED  BY <3>4 DEF Range
  <2>7. F \in SUBSET Range(a)
    BY <2>6
  <2> QED  BY <2>5, <2>7, FS_Subset
<1> QED  BY <1>8, <1>9

\* The lines of a window that lead to an affected function.
reachedBy(w, diff) ==
  {q \in UNION {entered(ofTrace(Range(w), t)) : t \in tracesOf(Range(w))} :
      \E f \in affected(diff) : hits(foot(q)) = {f}}

\* A line leads to a span of the window.
LEMMA ReachedIs ==
  ASSUME NEW w, Sound(Range(w)), NEW diff, NEW q \in reachedBy(w, diff)
  PROVE  foot(q) \in Range(w) /\ q \in entered(ofTrace(Range(w), foot(q).trace))
<1>1. PICK t \in tracesOf(Range(w)) : q \in entered(ofTrace(Range(w), t))
  BY DEF reachedBy
<1>2. PICK nodes, S : nodes = byID(Range(w), t) /\ S = ofTrace(Range(w), t)
  OBVIOUS
<1>3. Graph(nodes, S)
  BY <1>2, GraphOf
<1>4. foot(q) \in S
  BY <1>1, <1>2, <1>3, EnteredIs
<1>5. foot(q) \in Range(w) /\ foot(q).trace = t
  BY <1>2, <1>4 DEF ofTrace
<1> QED  BY <1>1, <1>5

\* Every route found is a route of the functions affected.
LEMMA RoutesReal ==
  ASSUME NEW w, Sound(Range(w)), NEW diff \in Diffs, NEW h \in bound(w, diff), h.route # NoRoute
  PROVE  \E q \in reachedBy(w, diff) : h.route = routeLabel(entryOfLine(q))
<1>1. PICK s, p : raised(w, diff, h, s, p)
  BY RaisedAre
<1>2. s \in Range(w) /\ bindOne(s) /\ sourceOf(s) \in watch(diff)
  BY <1>1, BindIs DEF raised
<1>3. h.route = entryRoute(byID(Range(w), s.trace), s)
  <2>1. fieldsAre(Range(w), s, p, h)
    BY <1>1, FindingIs DEF raised
  <2> QED  BY <2>1 DEF fieldsAre
<1>4. PICK f \in Funcs : hits(s) = {f} /\ sourceOf(s) = f.id
  BY <1>2, BoundIs
<1>5. f \in affected(diff)
  BY <1>2, <1>4, AffectedIs
<1>6. PICK q \in entered(ofTrace(Range(w), s.trace)) : foot(q) = s /\ h.route = routeLabel(entryOfLine(q))
  <2>1. rightRoute(Range(w), s, h.route)
    BY <1>2, <1>3, RouteIs
  <2>2. h.route # NoRoute
    BY SMT
  <2> QED  BY <2>1, <2>2 DEF rightRoute
<1>7. s.trace \in tracesOf(Range(w))
  BY <1>2 DEF tracesOf
<1>8. q \in reachedBy(w, diff)
  BY <1>4, <1>5, <1>6, <1>7 DEF reachedBy
<1> QED  BY <1>6, <1>8

\* Below the cap on bindings every span that binds is bound.
LEMMA AllBound ==
  ASSUME NEW w, Lists(w, spans), ~(Cardinality(boundAt(w)) > MaxBindings), NEW s \in Range(w), bindOne(s)
  PROVE  s \in Bind(w)
<1>1. PICK k \in DOMAIN w : w[k] = s
  BY DEF Range
<1>2. PICK B : B = boundAt(w)
  OBVIOUS
<1>3. k \in B /\ B \subseteq DOMAIN w
  BY <1>1, <1>2 DEF boundAt
<1>4. DOMAIN w = 1 .. Len(w) /\ Len(w) \in Nat
  BY DEF Lists
<1>5. IsFiniteSet(B)
  <2>1. IsFiniteSet(1 .. Len(w))
    BY SMT, <1>4, FS_Interval
  <2> QED  BY <1>3, <1>4, <2>1, FS_Subset
<1>6. PICK C : C = {j \in B : j < k}
  OBVIOUS
<1>7. C \in SUBSET B /\ k \notin C
  <2>1. ~(k < k)
    BY SMT, <1>4
  <2> QED  BY <1>6, <2>1
<1>8. /\ Cardinality(C) <= Cardinality(B) /\ IsFiniteSet(C)
      /\ Cardinality(B) = Cardinality(C) => B = C
  BY <1>5, <1>7, FS_Subset
<1>9. Cardinality(C) \in Nat /\ Cardinality(B) \in Nat /\ Cardinality(C) # Cardinality(B)
  BY <1>3, <1>5, <1>7, <1>8, FS_CardinalityType
<1>10. ~(Cardinality(B) > MaxBindings)
  BY <1>2
<1>11. Cardinality(C) < MaxBindings
  BY SMTT(20), <1>8, <1>9, <1>10, ImpactAssumption
<1> QED  BY <1>1, <1>2, <1>3, <1>6, <1>11 DEF Bind

\* Below that cap every route of the functions affected is found.
LEMMA RoutesFound ==
  ASSUME NEW w, Lists(w, spans), Sound(Range(w)), NEW diff \in Diffs,
         ~(Cardinality(boundAt(w)) > MaxBindings), NEW q \in reachedBy(w, diff)
  PROVE  \E h \in bound(w, diff) : h.route = routeLabel(entryOfLine(q)) /\ h.route # NoRoute
<1>1. PICK s : s = foot(q)
  OBVIOUS
<1>2. s \in Range(w) /\ q \in entered(ofTrace(Range(w), s.trace))
  BY <1>1, ReachedIs
<1>3. PICK f \in affected(diff) : hits(s) = {f}
  BY <1>1 DEF reachedBy
<1>4. f \in Funcs
  BY DEF affected
<1>5. bindOne(s) /\ sourceOf(s) = f.id
  BY <1>3, <1>4, BoundIs
<1>6. s \in Bind(w)
  BY <1>2, <1>5, AllBound
<1>7. sourceOf(s) \in watch(diff) /\ (sourceOf(s) \in directID(diff) \/ callerTargets(diff, sourceOf(s)) # {})
  BY <1>3, <1>4, <1>5, AffectedIs
<1>8. PICK route : route = entryRoute(byID(Range(w), s.trace), s)
  OBVIOUS
<1>9. route = routeLabel(entryOfLine(q)) /\ route # NoRoute
  <2>1. rightRoute(Range(w), s, route)
    BY <1>2, <1>8, RouteIs
  <2> QED  BY <1>1, <1>2, <2>1 DEF rightRoute
<1>10. PICK p : p \in foundBy(Range(w), diff, s)
  <2>1. "trace_entry_caller" # "trace_entry"
    BY SMT
  <2> QED  BY <1>7, <1>8, <1>9, <2>1 DEF foundBy
<1>11. PICK h : h = findingOf(Range(w), s, p)
  OBVIOUS
<1>12. raised(w, diff, h, s, p)
  BY <1>6, <1>7, <1>10, <1>11 DEF raised
<1>13. h \in bound(w, diff)
  BY <1>12, RaisedAre
<1>14. h.route = route
  <2>1. fieldsAre(Range(w), s, p, h)
    BY <1>11, FindingIs
  <2> QED  BY <1>8, <2>1 DEF fieldsAre
<1> QED  BY <1>9, <1>13, <1>14

\* Leaving out repeated findings loses no route, and below the cap neither
\* does the cut.
LEMMA RoutesKept ==
  ASSUME NEW w, Sound(Range(w)), NEW diff, Cardinality(Runtime(w, diff)) # MaxFindings, NEW h \in bound(w, diff)
  PROVE  \E g \in Runtime(w, diff) : g.route = h.route
<1>1. PICK F : F = bound(w, diff)
  OBVIOUS
<1>2. PICK R : R = {p \in F \X F : comesBefore(p[1], p[2])}
  OBVIOUS
<1>3. IsFiniteSet(F) /\ StrictOrder(F, R)
  BY <1>1, <1>2, FindingsOrdered
<1>4. \A f, g \in F : <<f, g>> \in R <=> comesBefore(f, g)
  BY <1>2
<1> DEFINE like(f, g) == <<g.source, g.route, g.provenance>> = <<f.source, f.route, f.provenance>>
           T == {g \in F : like(h, g)}
<1>5. PICK g \in T : \A f \in T : <<f, g>> \notin R
  <2>1. T \subseteq F /\ T # {}
    BY <1>1
  <2> HIDE DEF T
  <2> QED  BY <1>3, <2>1, Earliest
<1>6. PICK E : E = distinct(F)
  OBVIOUS
<1>7. E = {f \in F : \A x \in F : comesBefore(x, f) => ~like(f, x)}
  BY <1>6 DEF distinct
<1>8. g \in E
  <2>1. ASSUME NEW x \in F, comesBefore(x, g) PROVE ~like(g, x)
    <3>1. <<x, g>> \in R
      BY <1>4, <1>5, <2>1
    <3>2. x \notin T
      BY <1>5, <3>1
    <3> QED  BY <1>5, <3>2
  <2> QED  BY <1>5, <1>7, <2>1
<1>9. g.route = h.route
  BY SMT, <1>5
<1> HIDE DEF T, like
<1>10. E \in SUBSET F
  BY <1>7
<1>11. IsFiniteSet(E)
  BY <1>3, <1>10, FS_Subset
<1>12. StrictOrder(E, R)
  BY <1>3, <1>10 DEF StrictOrder
<1>13. MaxFindings \in Nat
  BY SMTT(20), ImpactAssumption
<1>14. PICK K : K = Runtime(w, diff)
  OBVIOUS
<1>15. K = {f \in E : Cardinality({x \in E : comesBefore(x, f)}) < MaxFindings}
  BY <1>1, <1>6, <1>14 DEF Runtime, appendFinding
<1>16. \A f \in E : {x \in E : comesBefore(x, f)} = Before(E, R, f)
  BY <1>4, <1>10 DEF Before
<1>17. K = Firsts(E, R, MaxFindings)
  BY <1>15, <1>16 DEF Firsts
<1>18. K = E \/ Cardinality(K) = MaxFindings
  BY <1>11, <1>12, <1>13, <1>17, FirstOnes
<1> QED  BY <1>8, <1>9, <1>14, <1>18

\* So the routes reported for a change are right in every window that can be read.
LEMMA RoutesAreExact ==
  ASSUME Sound(spans)
  PROVE  RoutesExact
<1> DEFINE routes(w, diff) == {routeLabel(entryOfLine(q)) : q \in reachedBy(w, diff)}
           found(w, diff) == Runtime(w, diff)
<1>1. SUFFICES ASSUME NEW n \in Windows, NEW service \in Services, NEW w \in Readable(n, service), NEW diff \in Diffs
               PROVE  /\ RuntimeRoutes(found(w, diff)) \subseteq routes(w, diff)
                      /\ \/ RuntimeRoutes(found(w, diff)) = routes(w, diff)
                         \/ Cardinality(boundAt(w)) > MaxBindings
                         \/ Cardinality(found(w, diff)) = MaxFindings
  BY DEF RoutesExact, reachedBy
<1>2. Lists(w, spans) /\ Sound(Range(w))
  BY WindowIs
<1>3. Runtime(w, diff) \subseteq bound(w, diff)
  BY DEF Runtime, appendFinding, distinct
<1>4. RuntimeRoutes(found(w, diff)) \subseteq routes(w, diff)
  <2>1. ASSUME NEW x \in RuntimeRoutes(found(w, diff)) PROVE x \in routes(w, diff)
    <3>1. PICK h \in bound(w, diff) : x = h.route /\ h.route # NoRoute
      BY <1>3 DEF RuntimeRoutes
    <3>2. \E q \in reachedBy(w, diff) : h.route = routeLabel(entryOfLine(q))
      BY <1>2, <3>1, RoutesReal
    <3> QED  BY <3>1, <3>2
  <2> QED  BY <2>1
<1>5. ASSUME ~(Cardinality(boundAt(w)) > MaxBindings), Cardinality(found(w, diff)) # MaxFindings
      PROVE  routes(w, diff) \subseteq RuntimeRoutes(found(w, diff))
  <2>1. ASSUME NEW q \in reachedBy(w, diff) PROVE routeLabel(entryOfLine(q)) \in RuntimeRoutes(found(w, diff))
    <3>1. PICK h \in bound(w, diff) : h.route = routeLabel(entryOfLine(q)) /\ h.route # NoRoute
      BY <1>2, <1>5, RoutesFound
    <3>2. PICK g \in Runtime(w, diff) : g.route = h.route
      BY <1>2, <1>5, RoutesKept
    <3> QED  BY <3>1, <3>2 DEF RuntimeRoutes
  <2> QED  BY <2>1
<1> QED  BY <1>4, <1>5

-----------------------------------------------------------------------------
(* What is stored                                                          *)

\* A non-empty bounded set of positions has a last one.
LEMMA LastOf ==
  ASSUME NEW n \in Nat, NEW S \in SUBSET (1 .. n), S # {}
  PROVE  \E j \in S : \A k \in S : ~(k > j)
<1> DEFINE T == {n - k : k \in S}
<1>1. T \subseteq Nat /\ T # {}
  <2>1. \A k \in S : n - k \in Nat
    BY SMT
  <2> QED  BY <2>1
<1>2. \E x \in T : \A y \in T : ~(<<y, x>> \in OpToRel(<, Nat))
  BY <1>1, WFMin, NatLessThanWellFounded
<1>3. PICK j \in S : \A k \in S : ~(<<n - k, n - j>> \in OpToRel(<, Nat))
  BY <1>2
<1>4. ASSUME NEW k \in S, k > j PROVE FALSE
  <2>1. n - k \in Nat /\ n - j \in Nat /\ n - k < n - j
    BY SMT, <1>4
  <2>2. <<n - k, n - j>> \in OpToRel(<, Nat)
    BY SMTT(20), <2>1 DEF OpToRel
  <2> QED  BY <1>3, <2>2
<1> QED  BY <1>4

\* What lies outside a set of positions is at most the rest of them.
LEMMA Outside ==
  ASSUME NEW n \in Nat, NEW S, S \subseteq 1 .. n, NEW T, T \subseteq (1 .. n) \ S
  PROVE  Cardinality(T) <= n - Cardinality(S)
<1>1. PICK I : I = 1 .. n
  BY SMT
<1>2. IsFiniteSet(I) /\ Cardinality(I) = n
  BY SMT, <1>1, FS_Interval
<1>3. I \cap S = S
  BY <1>1
<1>4. IsFiniteSet(I \ S) /\ Cardinality(I \ S) = n - Cardinality(S)
  BY <1>2, <1>3, FS_Difference
<1>5. Cardinality(T) <= Cardinality(I \ S)
  BY <1>1, <1>4, FS_Subset
<1> QED  BY SMT, <1>4, <1>5

\* What normalizeBatch keeps of an export.
LEMMA BatchKept ==
  ASSUME NEW e \in DOMAIN Exports
  PROVE  /\ Len(Exports[e]) \in Nat
         /\ DOMAIN normalizeBatch(Exports[e]) = taken(Exports[e])
         /\ taken(Exports[e]) \subseteq 1 .. Len(Exports[e])
         /\ \A i \in taken(Exports[e]) :
              /\ wellFormed(Exports[e][i])
              /\ normalizeBatch(Exports[e])[i] = normalizeSpan(Exports[e][i])
              /\ normalizeSpan(Exports[e][i]) \in World
<1>1. PICK s : s = Exports[e]
  BY SMT
<1>2. s \in Seq(Range(s)) /\ Len(s) \in Nat /\ DOMAIN s = 1 .. Len(s)
  BY SMTT(20), <1>1, IngestAssumption
<1>3. /\ DOMAIN normalizeBatch(s) = taken(s) /\ taken(s) \subseteq 1 .. Len(s)
      /\ \A i \in taken(s) : wellFormed(s[i]) /\ normalizeBatch(s)[i] = normalizeSpan(s[i])
  BY DEF normalizeBatch, taken
<1>4. ASSUME NEW i \in taken(s) PROVE normalizeSpan(s[i]) \in World
  <2>1. s[i] \in Range(s) /\ wellFormed(s[i])
    BY <1>2, <1>3 DEF Range
  <2> QED  BY <1>1, <2>1 DEF World
<1> QED  BY <1>1, <1>2, <1>3, <1>4

\* As a key stands for one span, an upsert loses none: whichever of equal keys
\* is written last, what is stored is what was there and the batch.
LEMMA Upserted ==
  ASSUME NEW store \in SUBSET World, NEW n \in Nat, NEW batch, DOMAIN batch \subseteq 1 .. n,
         \A i \in DOMAIN batch : batch[i] \in World
  PROVE  \A x : x \in UpsertSpans(store, batch) <=> x \in store \/ \E i \in DOMAIN batch : x = batch[i]
<1>1. \A r, s \in World : key(r) = key(s) => r = s
  BY SMTT(20), IngestAssumption DEF key
<1> DEFINE final == {j \in DOMAIN batch : \A k \in DOMAIN batch : k > j => key(batch[k]) # key(batch[j])}
<1>2. UpsertSpans(store, batch) = {s \in store : \A i \in DOMAIN batch : key(batch[i]) # key(s)}
                                  \cup {batch[i] : i \in final}
  BY DEF UpsertSpans
<1>3. ASSUME NEW i \in DOMAIN batch PROVE \E j \in final : batch[j] = batch[i]
  <2> DEFINE S == {k \in DOMAIN batch : key(batch[k]) = key(batch[i])}
  <2>1. S \in SUBSET (1 .. n) /\ S # {}
    OBVIOUS
  <2>2. PICK j \in S : \A k \in S : ~(k > j)
    BY <2>1, LastOf
  <2>3. j \in final
    BY <2>2
  <2>4. batch[j] = batch[i]
    BY <1>1, <2>2
  <2> QED  BY <2>3, <2>4
<1> HIDE DEF final
<1>4. final \subseteq DOMAIN batch
  BY DEF final
<1>5. \A s \in store : \A i \in DOMAIN batch : key(batch[i]) = key(s) => s = batch[i]
  BY <1>1
<1>6. ASSUME NEW x \in store PROVE x \in UpsertSpans(store, batch)
  <2>1. CASE \A i \in DOMAIN batch : key(batch[i]) # key(x)
    BY <1>2, <2>1
  <2>2. ASSUME NEW i \in DOMAIN batch, key(batch[i]) = key(x) PROVE x \in UpsertSpans(store, batch)
    <3>1. PICK j \in final : batch[j] = batch[i]
      BY <1>3
    <3>2. x = batch[j]
      BY <1>5, <2>2, <3>1
    <3> QED  BY <1>2, <3>1, <3>2
  <2> QED  BY <2>1, <2>2
<1>7. ASSUME NEW i \in DOMAIN batch PROVE batch[i] \in UpsertSpans(store, batch)
  BY <1>2, <1>3
<1>8. \A x \in UpsertSpans(store, batch) : x \in store \/ \E i \in DOMAIN batch : x = batch[i]
  BY <1>2, <1>4
<1> QED  BY <1>6, <1>7, <1>8

\* The inductive invariant: whoever has an answer, or is about to get one, has all
\* that normalizeBatch kept in the store unless the commit failed; and no answer
\* is other than the count.
stored(e) == \A i \in taken(Exports[e]) : normalizeSpan(Exports[e][i]) \in spans

IngestInv ==
  /\ Sound(spans)
  /\ request \in [DOMAIN Exports -> {"idle", "sent", "stored", "dropped"}]
  /\ told \in [DOMAIN Exports -> Int]
  /\ \A e \in DOMAIN Exports : request[e] = "stored" => stored(e)
  /\ \A e \in DOMAIN Exports : told[e] # Waiting =>
        (e \in unkept \/ stored(e)) /\ told[e] = Rejected(Exports[e])

\* A step that adds spans and changes one request keeps the invariant, if what it
\* says of that request is true.
LEMMA Progress ==
  ASSUME IngestInv, spans \subseteq spans', Sound(spans'), NEW e \in DOMAIN Exports,
         NEW r \in {"idle", "sent", "stored", "dropped"}, request' = [request EXCEPT ![e] = r],
         r = "stored" => stored(e)', unkept \subseteq unkept',
         \/ told' = told
         \/ told' = [told EXCEPT ![e] = Rejected(Exports[e])] /\ (e \in unkept' \/ stored(e)')
  PROVE  IngestInv'
<1>1. \A d \in DOMAIN Exports : stored(d) => stored(d)'
  BY DEF stored
<1>2. request' \in [DOMAIN Exports -> {"idle", "sent", "stored", "dropped"}]
  BY SMT DEF IngestInv
<1>3. \A d \in DOMAIN Exports : request'[d] = "stored" => stored(d)'
  BY SMT, <1>1 DEF IngestInv
<1>4. Rejected(Exports[e]) \in Int
  <2>1. PICK n, S : n = Len(Exports[e]) /\ S = taken(Exports[e])
    OBVIOUS
  <2>2. n \in Nat /\ S \in SUBSET (1 .. n)
    BY <2>1, BatchKept
  <2>3. IsFiniteSet(S)
    <3>1. IsFiniteSet(1 .. n)
      BY SMT, <2>2, FS_Interval
    <3> QED  BY <2>2, <3>1, FS_Subset
  <2>4. Cardinality(S) \in Nat
    BY <2>3, FS_CardinalityType
  <2>5. n - Cardinality(S) \in Int
    BY SMT, <2>2, <2>4
  <2> QED  BY <2>1, <2>5 DEF Rejected
<1>5. told' \in [DOMAIN Exports -> Int]
  BY SMT, <1>4 DEF IngestInv
<1>6. \A d \in DOMAIN Exports : told'[d] # Waiting =>
        (d \in unkept' \/ stored(d)') /\ told'[d] = Rejected(Exports[d])
  BY SMT, <1>1 DEF IngestInv
<1> QED  BY <1>2, <1>3, <1>5, <1>6 DEF IngestInv

\* An empty table and idle exporters.
LEMMA IngestInit == Init => IngestInv
<1>1. Init => Sound(spans)
  BY FS_EmptySet DEF Init, Sound
<1> QED  BY SMT, <1>1 DEF Init, IngestInv, Waiting

\* Every step of an exporter, of handleOTLPTraces and of the network keeps it.
LEMMA IngestStep == IngestInv /\ [Next]_vars => IngestInv'
<1> SUFFICES ASSUME IngestInv, [Next]_vars PROVE IngestInv'
  BY SMT
<1>1. Sound(spans) /\ spans \in SUBSET World
  BY DEF IngestInv, Sound
<1>2. ASSUME NEW e \in DOMAIN Exports, Send(e) PROVE IngestInv'
  <2>1. /\ spans' = spans /\ told' = told /\ request' = [request EXCEPT ![e] = "sent"]
        /\ unkept \subseteq unkept'
    BY <1>2 DEF Send
  <2>2. spans \subseteq spans' /\ Sound(spans')
    BY <1>1, <2>1
  <2> QED  BY <2>1, <2>2, Progress
<1>3. ASSUME NEW e \in DOMAIN Exports, StoreFails(e) \/ Lose(e) PROVE IngestInv'
  <2>1. /\ spans' = spans /\ told' = told /\ request' = [request EXCEPT ![e] = "idle"]
        /\ unkept \subseteq unkept'
    BY <1>3 DEF StoreFails, Lose
  <2>2. spans \subseteq spans' /\ Sound(spans')
    BY <1>1, <2>1
  <2> QED  BY <2>1, <2>2, Progress
<1>8. ASSUME NEW e \in DOMAIN Exports, CommitFails(e) PROVE IngestInv'
  <2>1. /\ spans' = spans /\ told' = told /\ request' = [request EXCEPT ![e] = "dropped"]
        /\ unkept \subseteq unkept'
    BY <1>8 DEF CommitFails
  <2>2. spans \subseteq spans' /\ Sound(spans')
    BY <1>1, <2>1
  <2>3. "dropped" # "stored"
    BY SMT
  <2> QED  BY <2>1, <2>2, <2>3, Progress
<1>4. ASSUME NEW e \in DOMAIN Exports, Store(e) PROVE IngestInv'
  <2>1. /\ spans' = UpsertSpans(spans, normalizeBatch(Exports[e])) /\ told' = told
        /\ request' = [request EXCEPT ![e] = "stored"] /\ unkept \subseteq unkept'
    BY <1>4 DEF Store
  <2>2. PICK b : b = normalizeBatch(Exports[e])
    BY SMT
  <2>3. /\ DOMAIN b \subseteq 1 .. Len(Exports[e]) /\ Len(Exports[e]) \in Nat
        /\ \A i \in DOMAIN b : b[i] \in World
    BY <2>2, BatchKept
  <2>4. \A x : x \in spans' <=> x \in spans \/ \E i \in DOMAIN b : x = b[i]
    <3>1. PICK n \in Nat : n = Len(Exports[e])
      BY <2>3
    <3>2. DOMAIN b \subseteq 1 .. n
      BY <2>3, <3>1
    <3>3. \A x : x \in UpsertSpans(spans, b) <=> x \in spans \/ \E i \in DOMAIN b : x = b[i]
      BY SMTT(20), <1>1, <2>3, <3>2, Upserted
    <3> QED  BY <2>1, <2>2, <3>3
  <2>5. spans \subseteq spans' /\ Sound(spans')
    <3>1. spans \subseteq spans' /\ spans' \subseteq World
      BY <1>1, <2>3, <2>4
    <3>2. IsFiniteSet(Range(b))
      <4>1. IsFiniteSet(1 .. Len(Exports[e]))
        BY SMT, <2>3, FS_Interval
      <4>2. IsFiniteSet(DOMAIN b)
        BY <2>3, <4>1, FS_Subset
      <4> QED  BY <4>2, Finite
    <3>3. IsFiniteSet(spans \cup Range(b))
      BY <1>1, <3>2, FS_Union DEF Sound
    <3>4. spans' = spans \cup Range(b)
      BY <2>4 DEF Range
    <3> QED  BY <3>1, <3>3, <3>4 DEF Sound
  <2>6. stored(e)'
    BY <2>2, <2>4, BatchKept DEF stored
  <2> QED  BY <2>1, <2>5, <2>6, Progress
<1>5. ASSUME NEW e \in DOMAIN Exports, Answer(e) PROVE IngestInv'
  <2>1. /\ spans' = spans /\ told' = [told EXCEPT ![e] = Rejected(Exports[e])]
        /\ request' = [request EXCEPT ![e] = "idle"] /\ request[e] \in {"stored", "dropped"}
        /\ unkept' = IF request[e] = "dropped" THEN unkept \cup {e} ELSE unkept
    BY <1>5 DEF Answer
  <2>2. unkept \subseteq unkept' /\ (e \in unkept' \/ stored(e)')
    <3>1. request[e] = "stored" => stored(e)'
      BY <2>1 DEF IngestInv, stored
    <3> QED  BY <2>1, <3>1
  <2>3. spans \subseteq spans' /\ Sound(spans')
    BY <1>1, <2>1
  <2> QED  BY <2>1, <2>2, <2>3, Progress
<1>6. CASE Restart
  <2>1. /\ spans' = spans /\ told' = told /\ request' = [e \in DOMAIN Exports |-> "idle"]
        /\ unkept' = unkept
    BY <1>6 DEF Restart
  <2>2. \A d : stored(d) <=> stored(d)'
    BY <2>1 DEF stored
  <2> QED  BY SMT, <2>1, <2>2 DEF IngestInv
<1>7. CASE UNCHANGED vars
  <2>1. \A d : stored(d) <=> stored(d)'
    BY <1>7 DEF stored, vars
  <2> QED  BY SMTT(20), <1>7, <2>1 DEF IngestInv, vars
<1> QED  BY <1>2, <1>3, <1>4, <1>5, <1>6, <1>7, <1>8 DEF Next

\* At all times, an exporter with an answer has stored what the handler kept of
\* its batch, unless the commit of that batch failed (handleOTLPTraces in
\* internal/api/ingest.go, UpsertSpans in internal/ingest/postgres.go).
THEOREM IngestInvariant == Spec => []IngestInv
BY IngestInit, IngestStep, PTL DEF Spec

\* For any batches, whatever repeats them, loses their answers or restarts the
\* server, an exporter that has its answer misses at most as many spans as it was
\* told, if the commit of the answered batch did not fail after its last result
\* (Rejected in internal/ingest/otlp.go, UpsertSpans in postgres.go).
THEOREM AnswersAreTrue == Spec => []ExportKept
<1>1. ASSUME IngestInv, NEW e \in DOMAIN Exports \ unkept, told[e] # Waiting
      PROVE  Cardinality({i \in 1 .. Len(Exports[e]) :
                ~(wellFormed(Exports[e][i]) /\ normalizeSpan(Exports[e][i]) \in spans)}) <= told[e]
  <2> DEFINE n == Len(Exports[e])
             got == taken(Exports[e])
             missing == {i \in 1 .. n : ~(wellFormed(Exports[e][i]) /\ normalizeSpan(Exports[e][i]) \in spans)}
  <2>1. n \in Nat /\ got \subseteq 1 .. n /\ \A i \in got : wellFormed(Exports[e][i])
    BY BatchKept
  <2>2. stored(e) /\ told[e] = n - Cardinality(got)
    BY SMT, <1>1 DEF IngestInv, Rejected
  <2>3. missing \subseteq (1 .. n) \ got
    BY <2>1, <2>2 DEF stored
  <2> HIDE DEF n, got, missing
  <2>4. Cardinality(missing) <= n - Cardinality(got)
    BY <2>1, <2>3, Outside
  <2>5. Cardinality(missing) <= told[e]
    BY <2>2, <2>4 DEF n, got
  <2> QED  BY <2>5 DEF missing, n
<1>2. IngestInv => ExportKept
  BY <1>1 DEF ExportKept
<1> QED  BY <1>2, IngestInvariant, PTL

\* At all times both stores answer a window with exactly the whole traces wanted,
\* the newest ones of the service that are not health probes, where the probe
\* lists agree, no two traces are equally new and the span cap does not bite
\* (SelectWindow in internal/ingest/window.go, traceWindowSQL in postgres.go).
THEOREM WindowsAreNewest == Spec => []WindowNewest
<1>1. IngestInv => WindowNewest
  BY NewestShown DEF IngestInv
<1> QED  BY <1>1, IngestInvariant, PTL

\* At all times the entry that traceEntries (internal/graph/graph.go) gives a span
\* of a window is the one it has by its ancestry in the window, in whatever order
\* the map of spans is ranged over, and a span without an entry gets none.
THEOREM EntriesAreRight == Spec => []EntryNeverWrong
<1>1. IngestInv => EntryNeverWrong
  BY EntriesNeverWrong DEF IngestInv
<1> QED  BY <1>1, IngestInvariant, PTL

\* At all times the routes that impact.Analyze (internal/impact/analyze.go) reports
\* for a change are routes by which an affected function was reached in the window,
\* and all of them unless the bindings or the findings were cut.
THEOREM RoutesAreRight == Spec => []RoutesExact
<1>1. IngestInv => RoutesExact
  BY RoutesAreExact DEF IngestInv
<1> QED  BY <1>1, IngestInvariant, PTL
=============================================================================
