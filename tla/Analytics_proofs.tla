-------------------------- MODULE Analytics_proofs --------------------------
(***************************************************************************)
(* Theorems about Analytics, for any visits, windows, panels and timing of *)
(* the answers: the view keeps the rollup equal to what it summarizes, the *)
(* chart adds up with the cards, and a click on a panel agrees with it.    *)
(***************************************************************************)
EXTENDS Analytics, SequenceTheorems, FiniteSetTheorems, WellFoundedInduction, TLAPS

-----------------------------------------------------------------------------
(* Induction and sums over finite sets *)

\* Induction over the natural numbers, for a set of them.
LEMMA SetInduction ==
    ASSUME NEW T, 0 \in T, \A n \in Nat : n \in T => n + 1 \in T
    PROVE  Nat \subseteq T
<1> DEFINE R == OpToRel(<, Nat)
<1>1. \A n \in Nat : <<n, n + 1>> \in R
  BY DEF OpToRel
<1>2. IsWellFoundedOn(R, Nat)
  BY NatLessThanWellFounded
<1> HIDE DEF R
<1> SUFFICES ASSUME Nat \ T # {} PROVE FALSE
  OBVIOUS
<1>3. PICK x \in Nat \ T : \A y \in Nat \ T : ~(<<y, x>> \in R)
  BY <1>2, WFMin
<1>4. x # 0
  BY <1>3
<1>5. x - 1 \in Nat /\ x - 1 \notin T /\ x = (x - 1) + 1
  BY <1>4
<1> QED
  BY <1>1, <1>3, <1>5

\* The element a fold takes from a set, and the function by which SumFunction sums.
Some(s) == CHOOSE x \in s : TRUE
IsSum(iter, f, S) ==
    iter = [s \in SUBSET S |-> IF s = {} THEN 0 ELSE f[Some(s)] + iter[s \ {Some(s)}]]

\* SumFunction, by that function.
LEMMA SumDef ==
    ASSUME NEW f
    PROVE  SumFunction(f) = (CHOOSE iter : IsSum(iter, f, DOMAIN f))[DOMAIN f]
BY DEF SumFunction, SumFunctionOnSet, FoldFunctionOnSet, MapThenFoldSet, IsSum, Some

\* The recursion that SumFunction is defined by has a solution.
LEMMA SumExists ==
    ASSUME NEW f, NEW S, IsFiniteSet(S)
    PROVE  \E iter : IsSum(iter, f, S)
<1> DEFINE Small(n) == {s \in SUBSET S : Cardinality(s) <= n}
           Step(g, s) == IF s = {} THEN 0 ELSE f[Some(s)] + g[s \ {Some(s)}]
           T == {n \in Nat : \E g : g = [s \in Small(n) |-> Step(g, s)]}
<1>0. ASSUME NEW s \in SUBSET S
      PROVE /\ IsFiniteSet(s) /\ Cardinality(s) \in Nat /\ (Cardinality(s) = 0 <=> s = {})
            /\ s # {} => Some(s) \in s /\ Cardinality(s \ {Some(s)}) = Cardinality(s) - 1
                         /\ s \ {Some(s)} \in SUBSET S
  <2>1. IsFiniteSet(s)
    BY FS_Subset
  <2>2. Cardinality(s) \in Nat /\ (Cardinality(s) = 0 <=> s = {})
    BY <2>1, FS_CardinalityType, FS_EmptySet
  <2>3. ASSUME s # {} PROVE Some(s) \in s
    BY <2>3 DEF Some
  <2> QED
    BY <2>1, <2>2, <2>3, FS_RemoveElement
<1>1. 0 \in T
  <2> DEFINE g == [s \in Small(0) |-> 0]
  <2>1. ASSUME NEW s \in Small(0) PROVE s = {}
    <3>1. s \in SUBSET S /\ Cardinality(s) <= 0
      OBVIOUS
    <3>2. Cardinality(s) \in Nat /\ (Cardinality(s) = 0 <=> s = {})
      BY <1>0, <3>1
    <3> QED
      BY ONLY <3>1, <3>2
  <2>2. g = [s \in Small(0) |-> Step(g, s)]
    BY <2>1
  <2> QED
    BY <2>2
<1>2. ASSUME NEW n \in Nat, n \in T PROVE n + 1 \in T
  <2>1. PICK g : g = [s \in Small(n) |-> Step(g, s)]
    BY <1>2
  <2> DEFINE h == [s \in Small(n + 1) |-> IF s \in Small(n) THEN g[s] ELSE Step(g, s)]
  <2>2. ASSUME NEW s \in Small(n + 1) PROVE h[s] = Step(h, s)
    <3>1. CASE s = {}
      <4>1. s \in SUBSET S /\ Cardinality(s) = 0
        BY <1>0, <3>1
      <4>2. s \in Small(n)
        BY <4>1
      <4> QED
        BY <2>1, <3>1, <4>2
    <3>2. CASE s # {}
      <4>1. s \ {Some(s)} \in Small(n) /\ s \ {Some(s)} \in Small(n + 1)
        BY <3>2, <1>0
      <4>2. h[s \ {Some(s)}] = g[s \ {Some(s)}]
        BY <4>1
      <4>3. h[s] = Step(g, s)
        BY <2>1
      <4> HIDE DEF h
      <4> QED
        BY <4>2, <4>3, <3>2
    <3> QED
      BY <3>1, <3>2
  <2>3. h = [s \in Small(n + 1) |-> Step(h, s)]
    <3>1. h = [s \in Small(n + 1) |-> h[s]]
      OBVIOUS
    <3> HIDE DEF h
    <3> QED
      BY <2>2, <3>1
  <2>4. n + 1 \in Nat
    OBVIOUS
  <2> HIDE DEF h
  <2>5. \E gg : gg = [s \in Small(n + 1) |-> Step(gg, s)]
    BY <2>3
  <2> HIDE DEF Small, Step
  <2> QED
    BY <2>4, <2>5
<1>3. Nat \subseteq T
  <2> HIDE DEF T
  <2> QED
    BY <1>1, <1>2, SetInduction
<1>4. Cardinality(S) \in Nat /\ Small(Cardinality(S)) = SUBSET S
  <2>1. \A s \in SUBSET S : Cardinality(s) <= Cardinality(S)
    BY FS_Subset
  <2> QED
    BY <1>0, <2>1
<1>5. PICK g : g = [s \in Small(Cardinality(S)) |-> Step(g, s)]
  BY <1>3, <1>4
<1> QED
  BY <1>4, <1>5 DEF IsSum

\* What holds of the empty set, and of a set when of the set without its chosen
\* element, holds of every subset of a finite set.
LEMMA SubsetInduction ==
    ASSUME NEW S, IsFiniteSet(S), NEW T, {} \in T,
           \A s \in SUBSET S : s # {} /\ s \ {Some(s)} \in T => s \in T
    PROVE  SUBSET S \subseteq T
<1> DEFINE N == {n \in Nat : \A s \in SUBSET S : Cardinality(s) <= n => s \in T}
<1>1. ASSUME NEW s \in SUBSET S
      PROVE  /\ Cardinality(s) \in Nat /\ (Cardinality(s) = 0 <=> s = {})
             /\ s # {} => /\ Cardinality(s \ {Some(s)}) = Cardinality(s) - 1
                          /\ s \ {Some(s)} \in SUBSET S
  <2>1. IsFiniteSet(s)
    BY FS_Subset
  <2>2. s # {} => Some(s) \in s
    BY DEF Some
  <2> QED
    BY <2>1, <2>2, FS_CardinalityType, FS_EmptySet, FS_RemoveElement
<1>2. 0 \in N
  <2> SUFFICES ASSUME NEW s \in SUBSET S, Cardinality(s) <= 0 PROVE s \in T
    OBVIOUS
  <2>1. Cardinality(s) \in Nat /\ (Cardinality(s) = 0 <=> s = {})
    BY <1>1
  <2>2. s = {}
    BY ONLY <2>1, Cardinality(s) <= 0
  <2> QED
    BY <2>2
<1>3. ASSUME NEW n \in Nat, n \in N PROVE n + 1 \in N
  <2> SUFFICES ASSUME NEW s \in SUBSET S, Cardinality(s) <= n + 1 PROVE s \in T
    OBVIOUS
  <2>1. CASE s # {}
    <3>1. s \ {Some(s)} \in SUBSET S /\ Cardinality(s \ {Some(s)}) <= n
      BY <1>1, <2>1
    <3> QED
      BY <1>3, <2>1, <3>1
  <2> QED
    BY <2>1
<1>4. Nat \subseteq N
  <2> HIDE DEF N
  <2> QED
    BY <1>2, <1>3, SetInduction
<1> SUFFICES ASSUME NEW s \in SUBSET S PROVE s \in T
  OBVIOUS
<1>5. Cardinality(s) \in Nat /\ Cardinality(s) \in N
  BY <1>1, <1>4
<1> QED
  BY <1>5

\* The sum of the sizes of finite sets is at least the size of their union, and equal to
\* it when the sets are disjoint.
LEMMA SumOfSizes ==
    ASSUME NEW B, IsFiniteSet(B), NEW V, \A b \in B : IsFiniteSet(V[b]),
           NEW f, f = [b \in B |-> Cardinality(V[b])]
    PROVE  /\ SumFunction(f) \in Nat
           /\ Cardinality(UNION {V[b] : b \in B}) <= SumFunction(f)
           /\ (\A a, b \in B : a # b => V[a] \cap V[b] = {})
                 => Cardinality(UNION {V[b] : b \in B}) = SumFunction(f)
<1> DEFINE F == CHOOSE iter : IsSum(iter, f, B)
           Un(s) == UNION {V[b] : b \in s}
           Apart == \A a, b \in B : a # b => V[a] \cap V[b] = {}
           T == {s \in SUBSET B :
                    /\ IsFiniteSet(Un(s)) /\ Cardinality(Un(s)) \in Nat /\ F[s] \in Nat
                    /\ Cardinality(Un(s)) <= F[s]
                    /\ Apart => Cardinality(Un(s)) = F[s]}
<1>1. IsSum(F, f, B) /\ SumFunction(f) = F[B]
  BY SumExists, SumDef
<1> HIDE DEF F
<1>2. {} \in T
  <2>1. Un({}) = {} /\ F[{}] = 0
    BY <1>1 DEF IsSum
  <2> QED
    BY <2>1, FS_EmptySet
<1>3. ASSUME NEW s \in SUBSET B, s # {}, s \ {Some(s)} \in T PROVE s \in T
  <2> DEFINE x == Some(s)
             t == s \ {x}
             U == Un(t)
             W == V[x]
  <2>1. x \in s /\ x \in B /\ s = t \cup {x} /\ x \notin t
    BY <1>3 DEF Some
  <2>2. F[s] = Cardinality(W) + F[t]
    BY <1>1, <1>3, <2>1 DEF IsSum
  <2>3. /\ IsFiniteSet(U) /\ Cardinality(U) \in Nat /\ F[t] \in Nat
        /\ Cardinality(U) <= F[t] /\ (Apart => Cardinality(U) = F[t])
    BY <1>3
  <2>4. Un(s) = U \cup W
    BY <2>1
  <2>5. IsFiniteSet(W) /\ Cardinality(W) \in Nat
    BY <2>1, FS_CardinalityType
  <2>6. Apart => U \cap W = {}
    <3> SUFFICES ASSUME Apart, NEW v \in U, v \in W PROVE FALSE
      OBVIOUS
    <3>1. PICK b \in t : v \in V[b]
      OBVIOUS
    <3> QED
      BY <2>1, <3>1
  <2> HIDE DEF x, t, U, W, Un, Apart
  <2>7. /\ IsFiniteSet(U \cap W) /\ Cardinality(U \cap W) \in Nat
        /\ Cardinality(U \cap W) = 0 <=> U \cap W = {}
    BY <2>3, <2>5, FS_Subset, FS_CardinalityType, FS_EmptySet
  <2>8. /\ IsFiniteSet(U \cup W)
        /\ Cardinality(U \cup W) = Cardinality(U) + Cardinality(W) - Cardinality(U \cap W)
    BY <2>3, <2>5, FS_Union
  <2>9. Cardinality(U \cup W) \in Nat
    BY <2>8, FS_CardinalityType
  <2>10. F[s] \in Nat /\ Cardinality(U \cup W) <= F[s]
         /\ (Apart => Cardinality(U \cup W) = F[s])
    BY <2>2, <2>3, <2>5, <2>6, <2>7, <2>8, <2>9
  <2> QED
    BY <2>4, <2>8, <2>9, <2>10
<1>4. SUBSET B \subseteq T
  <2> HIDE DEF T
  <2> QED
    BY <1>2, <1>3, SubsetInduction
<1>5. B \in T
  BY <1>4
<1> QED
  BY <1>1, <1>5

\* The values of a function on a finite set are finitely many.
LEMMA ImageFinite ==
    ASSUME NEW S, IsFiniteSet(S), NEW f
    PROVE  /\ IsFiniteSet({f[x] : x \in S}) /\ Cardinality({f[x] : x \in S}) \in Nat
           /\ Cardinality({f[x] : x \in S}) <= Cardinality(S)
<1> DEFINE T == {f[x] : x \in S}
           g == [x \in S |-> f[x]]
<1>1. g \in Surjection(S, T)
  BY DEF Surjection
<1> HIDE DEF T, g
<1>2. IsFiniteSet(T) /\ Cardinality(T) <= Cardinality(S)
  BY <1>1, FS_Surjection
<1> QED
  BY <1>2, FS_CardinalityType DEF T

-----------------------------------------------------------------------------
(* Counting rows and visitors *)

LEMMA CountTypes ==
    ASSUME NEW rs, NEW I, IsFiniteSet(I)
    PROVE  /\ Visitors(rs, I) \in Nat /\ Pageviews(rs, I) \in Nat
           /\ IsFiniteSet({rs[i].visitor : i \in I})
           /\ IsFiniteSet({i \in I : rs[i].name = "pageview"})
           /\ Visitors(rs, I) <= Cardinality(I)
<1> DEFINE f == [i \in I |-> rs[i].visitor]
<1>1. {f[i] : i \in I} = {rs[i].visitor : i \in I}
  OBVIOUS
<1> HIDE DEF f
<1>2. /\ IsFiniteSet({f[i] : i \in I}) /\ Cardinality({f[i] : i \in I}) \in Nat
      /\ Cardinality({f[i] : i \in I}) <= Cardinality(I)
  BY ImageFinite
<1>3. IsFiniteSet({i \in I : rs[i].name = "pageview"})
  BY FS_Subset
<1> QED
  BY <1>1, <1>2, <1>3, FS_CardinalityType DEF Visitors, Pageviews

\* Rows that are among some others and a few more count at most as many visitors and
\* pageviews as those and the few.
LEMMA CountsCovered ==
    ASSUME NEW rs, NEW A, NEW B, NEW C, IsFiniteSet(B), IsFiniteSet(C), A \subseteq B \cup C
    PROVE  /\ IsFiniteSet(A)
           /\ Visitors(rs, A) <= Visitors(rs, B) + Cardinality(C)
           /\ Pageviews(rs, A) <= Pageviews(rs, B) + Cardinality(C)
<1>1. IsFiniteSet(B \cup C)
  BY FS_Union
<1>2. IsFiniteSet(A)
  BY <1>1, FS_Subset
<1>3. ASSUME NEW P, NEW Q, NEW R, IsFiniteSet(Q), IsFiniteSet(R), P \subseteq Q \cup R
      PROVE  Cardinality(P) <= Cardinality(Q) + Cardinality(R)
  <2>1. IsFiniteSet(Q \cup R) /\ IsFiniteSet(Q \cap R)
        /\ Cardinality(Q \cup R) = Cardinality(Q) + Cardinality(R) - Cardinality(Q \cap R)
    BY <1>3, FS_Union, FS_Subset
  <2>2. IsFiniteSet(P) /\ Cardinality(P) <= Cardinality(Q \cup R)
    BY <1>3, <2>1, FS_Subset
  <2>3. /\ Cardinality(P) \in Nat /\ Cardinality(Q) \in Nat /\ Cardinality(R) \in Nat
        /\ Cardinality(Q \cap R) \in Nat
    BY <1>3, <2>1, <2>2, FS_CardinalityType
  <2> QED
    BY <2>1, <2>2, <2>3
<1>4. Pageviews(rs, A) <= Pageviews(rs, B) + Cardinality(C)
  <2>1. {i \in A : rs[i].name = "pageview"} \subseteq {i \in B : rs[i].name = "pageview"} \cup C
    OBVIOUS
  <2> QED
    BY <1>3, <2>1, CountTypes DEF Pageviews
<1>5. Visitors(rs, A) <= Visitors(rs, B) + Cardinality(C)
  <2>1. {rs[i].visitor : i \in A} \subseteq
            {rs[i].visitor : i \in B} \cup {rs[i].visitor : i \in C}
    OBVIOUS
  <2>2. Visitors(rs, A) <= Visitors(rs, B) + Visitors(rs, C)
    BY <1>3, <2>1, CountTypes DEF Visitors
  <2>3. /\ Visitors(rs, C) <= Cardinality(C) /\ Cardinality(C) \in Nat
        /\ Visitors(rs, A) \in Nat /\ Visitors(rs, B) \in Nat /\ Visitors(rs, C) \in Nat
    BY <1>2, CountTypes, FS_CardinalityType
  <2> QED
    BY <2>2, <2>3
<1> QED
  BY <1>2, <1>4, <1>5

-----------------------------------------------------------------------------
(* The chart and the rows it counts *)

\* The rows there can be.
AllHits == Hits \cup {Stored[i].hit : i \in DOMAIN Stored}
Rows == {RowOf(hit, t) : hit \in AllHits, t \in Int}

\* Windows are intervals of times.
Window(range) == range.from \in Int /\ range.to \in Int

\* The rows of the whole days of a window.
WholeDays(rs, scope) ==
    {i \in DOMAIN rs :
        /\ rs[i].site = Site
        /\ rs[i].time \div Day \in scope.range.from \div Day .. scope.range.to \div Day}

LEMMA DivMonotone ==
    ASSUME NEW a \in Int, NEW b \in Int, NEW d \in Nat \ {0}
    PROVE  /\ a \div d \in Int
           /\ a <= b => a \div d <= b \div d
<1> DEFINE p == a \div d
           q == b \div d
<1>1. p \in Int /\ q \in Int
  OBVIOUS
<1>2. d * p <= a /\ b < d * (q + 1)
  OBVIOUS
<1> HIDE DEF p, q
<1>3. ASSUME a <= b, p > q PROVE FALSE
  <2>1. PICK k \in Nat : p = q + 1 + k
    <3>1. p - q - 1 \in Nat /\ p = q + 1 + (p - q - 1)
      BY <1>1, <1>3
    <3> QED
      BY <3>1
  <2>2. d * p = d * (q + 1) + d * k
    BY <1>1, <2>1
  <2>3. d * k >= 0 /\ d * (q + 1) \in Int /\ d * k \in Int /\ d * p \in Int
    BY <1>1
  <2> QED
    BY <1>2, <1>3, <2>2, <2>3
<1>4. a <= b => p <= q
  BY <1>1, <1>3
<1> QED
  BY <1>1, <1>4 DEF p, q

LEMMA RowFacts ==
    ASSUME NEW rs \in Seq(Rows), NEW i \in DOMAIN rs
    PROVE  /\ rs[i].time \in Int /\ rs[i].time \div Day \in Int
           /\ rs[i].visitor[2] = rs[i].time \div Day
           /\ DOMAIN rs = 1 .. Len(rs) /\ Len(rs) \in Nat /\ IsFiniteSet(DOMAIN rs)
<1>1. /\ DOMAIN rs = 1 .. Len(rs) /\ Len(rs) \in Nat
      /\ rs[i] \in Rows
  BY LenProperties, ElementOfSeq
<1>2. PICK hit \in AllHits, t \in Int : rs[i] = RowOf(hit, t)
  BY <1>1 DEF Rows
<1>3. rs[i].time = t /\ rs[i].visitor = <<hit.person, t \div Day>>
  BY <1>2 DEF RowOf
<1>4. Day \in Nat \ {0}
  BY AnalyticsAssumption
<1>5. t \div Day \in Int
  BY <1>4, DivMonotone
<1>6. IsFiniteSet(1 .. Len(rs))
  BY <1>1, FS_Interval
<1> QED
  BY <1>1, <1>3, <1>5, <1>6

\* The window lies in its whole days.
LEMMA WindowInDays ==
    ASSUME NEW rs \in Seq(Rows), NEW scope, Window(scope.range)
    PROVE  /\ BuildWhere(rs, scope) \subseteq WholeDays(rs, scope)
           /\ IsFiniteSet(BuildWhere(rs, scope)) /\ IsFiniteSet(WholeDays(rs, scope))
<1>1. ASSUME NEW i \in BuildWhere(rs, scope) PROVE i \in WholeDays(rs, scope)
  <2>1. /\ i \in DOMAIN rs /\ rs[i].site = Site
        /\ rs[i].time >= scope.range.from /\ rs[i].time < scope.range.to
    BY DEF BuildWhere
  <2>2. Day \in Nat \ {0}
    BY AnalyticsAssumption
  <2>3. /\ scope.range.from \div Day \in Int /\ scope.range.to \div Day \in Int
        /\ rs[i].time \div Day \in Int
        /\ rs[i].time \in Int
        /\ scope.range.from <= rs[i].time /\ rs[i].time <= scope.range.to
    <3>1. rs[i].time \in Int /\ rs[i].time \div Day \in Int
      BY <2>1, RowFacts
    <3>2. scope.range.from \in Int /\ scope.range.to \in Int
      BY DEF Window
    <3>3. scope.range.from \div Day \in Int /\ scope.range.to \div Day \in Int
      BY <2>2, <3>2, DivMonotone
    <3> QED
      BY <2>1, <3>1, <3>2, <3>3
  <2>4. /\ scope.range.from \div Day <= rs[i].time \div Day
        /\ rs[i].time \div Day <= scope.range.to \div Day
    BY <2>2, <2>3, DivMonotone DEF Window
  <2> QED
    BY <2>1, <2>3, <2>4 DEF WholeDays
<1>2. IsFiniteSet(DOMAIN rs)
  BY LenProperties, FS_Interval
<1>3. BuildWhere(rs, scope) \subseteq DOMAIN rs /\ WholeDays(rs, scope) \subseteq DOMAIN rs
  BY DEF BuildWhere, WholeDays
<1> QED
  BY <1>1, <1>2, <1>3, FS_Subset

\* The rows of a site's day.
OfDay(rs, site, d) == {i \in DOMAIN rs : rs[i].site = site /\ rs[i].time \div Day = d}

\* A day of the rollup counts its rows.
LEMMA RolledDay ==
    ASSUME NEW rs \in Seq(Rows), NEW site, NEW d
    PROVE  DayOf(Rolled(rs), site, d) =
               [pageviews |-> Pageviews(rs, OfDay(rs, site, d)),
                visitors |-> {rs[i].visitor : i \in OfDay(rs, site, d)}]
<1> DEFINE key == <<site, d>>
           Keys == {<<rs[i].site, rs[i].time \div Day>> : i \in DOMAIN rs}
           I == {i \in DOMAIN rs : <<rs[i].site, rs[i].time \div Day>> = key}
<1>1. I = OfDay(rs, site, d)
  BY DEF OfDay
<1>2. CASE key \in Keys
  <2>1. key \in DOMAIN Rolled(rs)
    BY <1>2 DEF Rolled
  <2>2. Rolled(rs)[key] = [pageviews |-> Cardinality({i \in I : rs[i].name = "pageview"}),
                           visitors |-> {rs[i].visitor : i \in I}]
    BY <1>2 DEF Rolled
  <2> QED
    BY <1>1, <2>1, <2>2 DEF DayOf, Pageviews
<1>3. CASE key \notin Keys
  <2>1. key \notin DOMAIN Rolled(rs)
    BY <1>3 DEF Rolled
  <2>2. I = {}
    BY <1>3
  <2>3. OfDay(rs, site, d) = {}
    BY <1>1, <2>2
  <2>4. Pageviews(rs, {}) = 0
    BY FS_EmptySet DEF Pageviews
  <2> QED
    BY <2>1, <2>3, <2>4 DEF DayOf, NoDay
<1> QED
  BY <1>2, <1>3

\* The chart of the rollup shows each pageview and each visitor of its days once.
LEMMA RollupTotals ==
    ASSUME NEW rs \in Seq(Rows), NEW scope, Window(scope.range)
    PROVE  LET series == RollupSeries(Rolled(rs), scope) IN
           /\ Total(series, "pageviews") = Pageviews(rs, WholeDays(rs, scope))
           /\ Total(series, "visitors") = Visitors(rs, WholeDays(rs, scope))
<1> DEFINE D == scope.range.from \div Day .. scope.range.to \div Day
           series == RollupSeries(Rolled(rs), scope)
           V == [d \in D |-> {rs[i].visitor : i \in OfDay(rs, Site, d)}]
           P == [d \in D |-> {i \in OfDay(rs, Site, d) : rs[i].name = "pageview"}]
           W == WholeDays(rs, scope)
<1>1. IsFiniteSet(D) /\ Day \in Nat \ {0}
  <2>1. Day \in Nat \ {0}
    BY AnalyticsAssumption
  <2>2. scope.range.from \div Day \in Int /\ scope.range.to \div Day \in Int
    BY <2>1, DivMonotone DEF Window
  <2> QED
    BY <2>1, <2>2, FS_Interval
<1>2. DOMAIN series = D
      /\ \A d \in D : /\ series[d]["pageviews"] = Cardinality(P[d])
                      /\ series[d]["visitors"] = Cardinality(V[d])
  <2>1. DOMAIN series = D
        /\ \A d \in D :
              /\ series[d]["visitors"] = Cardinality(DayOf(Rolled(rs), Site, d).visitors)
              /\ series[d]["pageviews"] = DayOf(Rolled(rs), Site, d).pageviews
    BY DEF RollupSeries
  <2>2. ASSUME NEW d
        PROVE  /\ DayOf(Rolled(rs), Site, d).pageviews = Pageviews(rs, OfDay(rs, Site, d))
               /\ DayOf(Rolled(rs), Site, d).visitors =
                     {rs[i].visitor : i \in OfDay(rs, Site, d)}
    BY RolledDay
  <2> HIDE DEF series
  <2>3. \A d \in D : /\ P[d] = {i \in OfDay(rs, Site, d) : rs[i].name = "pageview"}
                     /\ V[d] = {rs[i].visitor : i \in OfDay(rs, Site, d)}
    OBVIOUS
  <2> HIDE DEF D, V, P
  <2>4. ASSUME NEW d \in D
        PROVE  /\ series[d]["pageviews"] = Cardinality(P[d])
               /\ series[d]["visitors"] = Cardinality(V[d])
    <3>1. series[d]["visitors"] = Cardinality(V[d])
      BY <2>1, <2>2, <2>3, <2>4, Zenon
    <3>2. Pageviews(rs, OfDay(rs, Site, d)) = Cardinality(P[d])
      BY <2>3, <2>4, Zenon DEF Pageviews
    <3>3. series[d]["pageviews"] = Pageviews(rs, OfDay(rs, Site, d))
      BY <2>1, <2>2, <2>4, Zenon
    <3> QED
      BY <3>1, <3>2, <3>3, Zenon
  <2> QED
    BY <2>1, <2>4, Zenon
<1>3. ASSUME NEW d \in D PROVE IsFiniteSet(V[d]) /\ IsFiniteSet(P[d])
  <2>1. IsFiniteSet(DOMAIN rs)
    BY LenProperties, FS_Interval
  <2>2. IsFiniteSet(OfDay(rs, Site, d))
    BY <2>1, FS_Subset DEF OfDay
  <2> QED
    BY <2>2, CountTypes
<1>0. \A i : i \in W <=> \E d \in D : i \in OfDay(rs, Site, d)
  BY DEF OfDay, WholeDays
<1>4. UNION {P[d] : d \in D} = {i \in W : rs[i].name = "pageview"}
  <2>1. \A d \in D : \A i : i \in P[d] <=> i \in OfDay(rs, Site, d) /\ rs[i].name = "pageview"
    OBVIOUS
  <2> HIDE DEF D, P, W
  <2> QED
    BY <1>0, <2>1
<1>5. UNION {V[d] : d \in D} = {rs[i].visitor : i \in W}
  <2>1. \A d \in D : \A v : v \in V[d] <=> \E i \in OfDay(rs, Site, d) : v = rs[i].visitor
    OBVIOUS
  <2> HIDE DEF D, V, W
  <2> QED
    BY <1>0, <2>1
<1>6. ASSUME NEW a \in D, NEW b \in D, a # b PROVE P[a] \cap P[b] = {}
  BY <1>6 DEF OfDay
<1>7. ASSUME NEW a \in D, NEW b \in D, a # b PROVE V[a] \cap V[b] = {}
  <2>1. \A d \in D : \A v \in V[d] : v[2] = d
    BY RowFacts DEF OfDay
  <2> HIDE DEF V
  <2> QED
    BY <1>7, <2>1
<1>8. Total(series, "pageviews") = Cardinality({i \in W : rs[i].name = "pageview"})
  <2> DEFINE f == [d \in D |-> Cardinality(P[d])]
  <2>1. Total(series, "pageviews") = SumFunction(f)
    <3>1. [d \in D |-> series[d]["pageviews"]] = f
      BY <1>2
    <3> HIDE DEF series, D, f
    <3> QED
      BY <1>2, <3>1 DEF Total
  <2> HIDE DEF D, P, W, f
  <2>2. Cardinality(UNION {P[d] : d \in D}) = SumFunction(f)
    BY <1>1, <1>3, <1>6, SumOfSizes DEF f
  <2> QED
    BY <1>4, <2>1, <2>2
<1>9. Total(series, "visitors") = Cardinality({rs[i].visitor : i \in W})
  <2> DEFINE f == [d \in D |-> Cardinality(V[d])]
  <2>1. Total(series, "visitors") = SumFunction(f)
    <3>1. [d \in D |-> series[d]["visitors"]] = f
      BY <1>2
    <3> HIDE DEF series, D, f
    <3> QED
      BY <1>2, <3>1 DEF Total
  <2> HIDE DEF D, V, W, f
  <2>2. Cardinality(UNION {V[d] : d \in D}) = SumFunction(f)
    BY <1>1, <1>3, <1>7, SumOfSizes DEF f
  <2> QED
    BY <1>5, <2>1, <2>2
<1> QED
  BY <1>8, <1>9 DEF Pageviews, Visitors

\* The chart of the raw rows shows each pageview once and each visitor at least once.
LEMMA RawTotals ==
    ASSUME NEW rs \in Seq(Rows), NEW scope, Window(scope.range), scope.zone \in Int
    PROVE  LET series == RawSeries(rs, scope) IN
           /\ Total(series, "pageviews") = Pageviews(rs, BuildWhere(rs, scope))
           /\ Total(series, "visitors") \in Nat
           /\ Total(series, "visitors") >= Visitors(rs, BuildWhere(rs, scope))
<1> DEFINE I == BuildWhere(rs, scope)
           width == IF Hourly(scope) THEN Hour ELSE Day
           Bucket(t) == (t + scope.zone) \div width
           at == [i \in I |-> Bucket(rs[i].time)]
           first == Bucket(scope.range.from)
           last == Bucket(scope.range.to)
           D == first .. last - 1 \cup {at[i] : i \in I}
           In(b) == {i \in I : at[i] = b}
           series == RawSeries(rs, scope)
           V == [b \in D |-> {rs[i].visitor : i \in In(b)}]
           P == [b \in D |-> {i \in In(b) : rs[i].name = "pageview"}]
<1>1. series = [b \in D |-> Count(rs, In(b))]
  <2>1. /\ \A b : {i \in I : Bucket(rs[i].time) = b} = In(b)
        /\ {Bucket(rs[i].time) : i \in I} = {at[i] : i \in I}
    OBVIOUS
  <2>2. series = [b \in (first .. last - 1) \cup {Bucket(rs[i].time) : i \in I} |->
                     Count(rs, {i \in I : Bucket(rs[i].time) = b})]
    BY DEF RawSeries
  <2> QED
    BY <2>1, <2>2
<1>2. IsFiniteSet(I)
  BY WindowInDays
<1>3. first \in Int /\ last \in Int
  <2>1. width \in Nat \ {0}
    BY AnalyticsAssumption
  <2>2. scope.range.from + scope.zone \in Int /\ scope.range.to + scope.zone \in Int
    BY DEF Window
  <2> HIDE DEF width
  <2> QED
    BY <2>1, <2>2, DivMonotone
<1> HIDE DEF I, at, first, last, series
<1>4. IsFiniteSet(D)
  <2>1. IsFiniteSet(first .. last - 1)
    BY <1>3, FS_Interval
  <2>2. IsFiniteSet({at[i] : i \in I})
    BY <1>2, ImageFinite
  <2> QED
    BY <2>1, <2>2, FS_Union
<1>5. ASSUME NEW b \in D PROVE IsFiniteSet(V[b]) /\ IsFiniteSet(P[b])
  <2>1. IsFiniteSet(In(b))
    BY <1>2, FS_Subset
  <2> QED
    BY <2>1, CountTypes
<1>0. \A i : i \in I <=> \E b \in D : i \in In(b)
  OBVIOUS
<1>6. UNION {P[b] : b \in D} = {i \in I : rs[i].name = "pageview"}
  <2>1. \A b \in D : \A i : i \in P[b] <=> i \in In(b) /\ rs[i].name = "pageview"
    OBVIOUS
  <2> HIDE DEF D, P, In
  <2> QED
    BY <1>0, <2>1
<1>7. UNION {V[b] : b \in D} = {rs[i].visitor : i \in I}
  <2>1. \A b \in D : \A v : v \in V[b] <=> \E i \in In(b) : v = rs[i].visitor
    OBVIOUS
  <2> HIDE DEF D, V, In
  <2> QED
    BY <1>0, <2>1
<1>8. \A a, b \in D : a # b => P[a] \cap P[b] = {}
  OBVIOUS
<1>9. Total(series, "pageviews") = Cardinality({i \in I : rs[i].name = "pageview"})
  <2> DEFINE f == [b \in D |-> Cardinality(P[b])]
  <2>1. Total(series, "pageviews") = SumFunction(f)
    <3>1. DOMAIN series = D /\ [b \in D |-> series[b]["pageviews"]] = f
      BY <1>1 DEF Count, Pageviews
    <3> HIDE DEF D, f
    <3> QED
      BY <3>1 DEF Total
  <2> HIDE DEF D, P, f
  <2>2. Cardinality(UNION {P[b] : b \in D}) = SumFunction(f)
    BY <1>4, <1>5, <1>8, SumOfSizes DEF f
  <2> QED
    BY <1>6, <2>1, <2>2
<1>10. /\ Total(series, "visitors") \in Nat
       /\ Total(series, "visitors") >= Cardinality({rs[i].visitor : i \in I})
  <2> DEFINE f == [b \in D |-> Cardinality(V[b])]
  <2>1. Total(series, "visitors") = SumFunction(f)
    <3>1. DOMAIN series = D /\ [b \in D |-> series[b]["visitors"]] = f
      BY <1>1 DEF Count, Visitors
    <3> HIDE DEF D, f
    <3> QED
      BY <3>1 DEF Total
  <2> HIDE DEF D, V, P, f
  <2>2. /\ Cardinality(UNION {V[b] : b \in D}) <= SumFunction(f) /\ SumFunction(f) \in Nat
    <3>1. \A b \in D : IsFiniteSet(V[b])
      BY <1>5
    <3>2. f = [b \in D |-> Cardinality(V[b])]
      BY DEF f
    <3> HIDE DEF width, Bucket, In
    <3>3. SumFunction(f) \in Nat
      BY <1>4, <3>1, <3>2, SumOfSizes
    <3>4. Cardinality(UNION {V[b] : b \in D}) <= SumFunction(f)
      BY ONLY <1>4, <3>1, <3>2, SumOfSizes
    <3> QED
      BY <3>3, <3>4
  <2>3. Cardinality({rs[i].visitor : i \in I}) \in Nat
    BY <1>2, CountTypes DEF Visitors
  <2> QED
    BY <1>7, <2>1, <2>2, <2>3
<1> QED
  BY <1>9, <1>10 DEF Pageviews, Visitors, I, series

\* An empty chart.
LEMMA EmptyTotal ==
    ASSUME NEW figure
    PROVE  Total(<<>>, figure) = 0
<1> DEFINE f == [b \in DOMAIN <<>> |-> (<<>>)[b][figure]]
           F == CHOOSE iter : IsSum(iter, f, {})
<1>1. DOMAIN <<>> = {} /\ DOMAIN f = {}
  OBVIOUS
<1>2. Total(<<>>, figure) = SumFunction(f)
  BY DEF Total
<1> HIDE DEF f
<1>3. IsSum(F, f, {}) /\ SumFunction(f) = F[{}]
  BY <1>1, FS_EmptySet, SumExists, SumDef
<1> HIDE DEF F
<1> QED
  BY <1>2, <1>3 DEF IsSum

\* The first n rows.
Upto(rs, n) == SubSeq(rs, 1, n)

LEMMA UptoFacts ==
    ASSUME NEW rs \in Seq(Rows), NEW n \in 0 .. Len(rs)
    PROVE  /\ Upto(rs, n) \in Seq(Rows) /\ Len(Upto(rs, n)) = n /\ DOMAIN Upto(rs, n) = 1 .. n
           /\ \A i \in 1 .. n : Upto(rs, n)[i] = rs[i]
<1>1. Len(rs) \in Nat
  BY LenProperties
<1>2. n \in Nat /\ n <= Len(rs) /\ \A i \in 1 .. n : rs[i] \in Rows
  BY <1>1, ElementOfSeq
<1>3. Upto(rs, n) = [i \in 1 .. n |-> rs[i]]
  BY <1>1, <1>2 DEF Upto
<1> QED
  BY <1>2, <1>3

\* What earlier rows are selected, and what they count, is told by the rows of now.
LEMMA UptoCounts ==
    ASSUME NEW rs \in Seq(Rows), NEW n \in 0 .. Len(rs), NEW scope
    PROVE  LET I == BuildWhere(Upto(rs, n), scope)
               W == WholeDays(Upto(rs, n), scope) IN
           /\ I = {i \in 1 .. n : i \in BuildWhere(rs, scope)}
           /\ W = {i \in 1 .. n : i \in WholeDays(rs, scope)}
           /\ Visitors(Upto(rs, n), I) = Visitors(rs, I)
           /\ Pageviews(Upto(rs, n), I) = Pageviews(rs, I)
           /\ Visitors(Upto(rs, n), W) = Visitors(rs, W)
           /\ Pageviews(Upto(rs, n), W) = Pageviews(rs, W)
<1>1. /\ DOMAIN Upto(rs, n) = 1 .. n /\ \A i \in 1 .. n : Upto(rs, n)[i] = rs[i]
      /\ 1 .. n \subseteq DOMAIN rs
  <2>1. DOMAIN rs = 1 .. Len(rs) /\ Len(rs) \in Nat
    BY LenProperties
  <2>2. 1 .. n \subseteq DOMAIN rs
    BY <2>1
  <2> QED
    BY <2>2, UptoFacts, Zenon
<1>2. BuildWhere(Upto(rs, n), scope) = {i \in 1 .. n : i \in BuildWhere(rs, scope)}
  BY <1>1 DEF BuildWhere
<1>3. WholeDays(Upto(rs, n), scope) = {i \in 1 .. n : i \in WholeDays(rs, scope)}
  BY <1>1 DEF WholeDays
<1>4. ASSUME NEW I \in SUBSET (1 .. n)
      PROVE  /\ Visitors(Upto(rs, n), I) = Visitors(rs, I)
             /\ Pageviews(Upto(rs, n), I) = Pageviews(rs, I)
  <2>1. /\ {Upto(rs, n)[i].visitor : i \in I} = {rs[i].visitor : i \in I}
        /\ {i \in I : Upto(rs, n)[i].name = "pageview"} = {i \in I : rs[i].name = "pageview"}
    BY <1>1
  <2> QED
    BY <2>1 DEF Visitors, Pageviews
<1> QED
  BY <1>2, <1>3, <1>4

\* The answer to the chart's query when rs are the rows that it counts.
SeriesOf(rs, scope) ==
    IF FromRollup(scope) THEN RollupSeries(Rolled(rs), scope) ELSE RawSeries(rs, scope)

\* Chart and cards that are answered on different rs, ns and nt of them.
LEMMA ChartAndCards ==
    ASSUME NEW rs \in Seq(Rows), NEW ns \in 0 .. Len(rs),
           NEW nt \in 0 .. Len(rs), NEW scope, Window(scope.range), scope.zone \in Int
    PROVE  LET series == SeriesOf(Upto(rs, ns), scope)
               top == Count(Upto(rs, nt), BuildWhere(Upto(rs, nt), scope))
               came == ns - nt
               outside == Cardinality({i \in 1 .. ns :
                             /\ rs[i].site = Site
                             /\ rs[i].time \div Day \in DOMAIN series
                             /\ rs[i].time \notin scope.range.from .. scope.range.to - 1})
               slack == IF FromRollup(scope) THEN outside ELSE 0
               more == IF came > 0 THEN came ELSE 0
               fewer == IF came < 0 THEN -came ELSE 0 IN
           /\ Total(series, "visitors") >= top.visitors - fewer
           /\ Total(series, "pageviews") >= top.pageviews - fewer
           /\ Total(series, "pageviews") <= top.pageviews + more + slack
           /\ FromRollup(scope) => Total(series, "visitors") <= top.visitors + more + slack
<1> DEFINE A == BuildWhere(Upto(rs, nt), scope)
           B == BuildWhere(Upto(rs, ns), scope)
           W == WholeDays(Upto(rs, ns), scope)
           New == nt + 1 .. ns
           Gone == ns + 1 .. nt
           series == SeriesOf(Upto(rs, ns), scope)
           O == {i \in 1 .. ns :
                    /\ rs[i].site = Site
                    /\ rs[i].time \div Day \in DOMAIN series
                    /\ rs[i].time \notin scope.range.from .. scope.range.to - 1}
           more == IF ns - nt > 0 THEN ns - nt ELSE 0
           fewer == IF ns - nt < 0 THEN -(ns - nt) ELSE 0
<1>1. ns \in Nat /\ nt \in Nat /\ ns <= Len(rs) /\ nt <= Len(rs) /\ Len(rs) \in Nat
  BY LenProperties
<1>2. /\ Upto(rs, ns) \in Seq(Rows) /\ Upto(rs, nt) \in Seq(Rows)
      /\ IsFiniteSet(A) /\ IsFiniteSet(B) /\ IsFiniteSet(W) /\ B \subseteq W
  BY UptoFacts, WindowInDays
<1>3. /\ A = {i \in 1 .. nt : i \in BuildWhere(rs, scope)}
      /\ B = {i \in 1 .. ns : i \in BuildWhere(rs, scope)}
      /\ Visitors(Upto(rs, nt), A) = Visitors(rs, A)
      /\ Pageviews(Upto(rs, nt), A) = Pageviews(rs, A)
      /\ Visitors(Upto(rs, ns), B) = Visitors(rs, B)
      /\ Pageviews(Upto(rs, ns), B) = Pageviews(rs, B)
      /\ Visitors(Upto(rs, ns), W) = Visitors(rs, W)
      /\ Pageviews(Upto(rs, ns), W) = Pageviews(rs, W)
  BY UptoCounts
<1>4. /\ A \subseteq B \cup Gone /\ B \subseteq A \cup New /\ A \subseteq W \cup Gone
      /\ IsFiniteSet(New) /\ IsFiniteSet(Gone)
      /\ Cardinality(New) = more /\ Cardinality(Gone) = fewer
  <2>1. A \subseteq B \cup Gone /\ B \subseteq A \cup New
    BY <1>1, <1>3
  <2>2. IsFiniteSet(New) /\ Cardinality(New) = IF nt + 1 > ns THEN 0 ELSE ns - (nt + 1) + 1
    BY <1>1, FS_Interval
  <2>3. IsFiniteSet(Gone) /\ Cardinality(Gone) = IF ns + 1 > nt THEN 0 ELSE nt - (ns + 1) + 1
    BY <1>1, FS_Interval
  <2>4. more = (IF nt + 1 > ns THEN 0 ELSE ns - (nt + 1) + 1)
        /\ fewer = (IF ns + 1 > nt THEN 0 ELSE nt - (ns + 1) + 1)
    BY <1>1
  <2> QED
    BY <1>2, <2>1, <2>2, <2>3, <2>4
<1>5. more \in Nat /\ fewer \in Nat
  BY <1>1
<1>6. /\ Visitors(rs, A) \in Nat /\ Pageviews(rs, A) \in Nat
      /\ Visitors(rs, B) \in Nat /\ Pageviews(rs, B) \in Nat
      /\ Visitors(rs, W) \in Nat /\ Pageviews(rs, W) \in Nat
  BY <1>2, CountTypes
<1>7. IsFiniteSet(O) /\ Cardinality(O) \in Nat
  <2>1. IsFiniteSet(1 .. ns)
    BY <1>1, FS_Interval
  <2>2. O \subseteq 1 .. ns
    OBVIOUS
  <2> HIDE DEF O
  <2> QED
    BY <2>1, <2>2, FS_Subset, FS_CardinalityType
<1> HIDE DEF A, B, W, New, Gone, O, more, fewer
<1>8. CASE FromRollup(scope)
  <2>1. /\ Total(series, "pageviews") = Pageviews(rs, W)
        /\ Total(series, "visitors") = Visitors(rs, W)
    BY <1>2, <1>3, <1>8, RollupTotals DEF SeriesOf, W
  <2>2. /\ Visitors(rs, A) <= Visitors(rs, W) + fewer
        /\ Pageviews(rs, A) <= Pageviews(rs, W) + fewer
    BY <1>2, <1>4, CountsCovered
  <2>3. W \subseteq A \cup (New \cup O)
    <3>1. ASSUME NEW i \in W, i \notin O PROVE i \in B
      <4>1. /\ i \in DOMAIN Upto(rs, ns) /\ Upto(rs, ns)[i].site = Site
            /\ Upto(rs, ns)[i].time \div Day \in
                  scope.range.from \div Day .. scope.range.to \div Day
        BY DEF W, WholeDays
      <4>2. i \in 1 .. ns /\ Upto(rs, ns)[i] = rs[i]
        BY <4>1, UptoFacts
      <4>3. DOMAIN series = scope.range.from \div Day .. scope.range.to \div Day
        BY <1>8 DEF SeriesOf, RollupSeries
      <4>4. rs[i].time \in scope.range.from .. scope.range.to - 1
        BY <3>1, <4>1, <4>2, <4>3 DEF O
      <4>5. Upto(rs, ns)[i].time >= scope.range.from /\ Upto(rs, ns)[i].time < scope.range.to
        BY <4>2, <4>4 DEF Window
      <4>6. \A key \in DOMAIN FilterColumns : scope.filters[key] = ""
        BY <1>8 DEF FromRollup, HasActiveFilters, NoFilters, FilterColumns
      <4> QED
        BY <4>1, <4>5, <4>6 DEF B, BuildWhere
    <3> QED
      BY <1>4, <3>1
  <2>4. /\ IsFiniteSet(New \cup O) /\ Cardinality(New \cup O) \in Nat
        /\ Cardinality(New \cup O) <= more + Cardinality(O)
    <3>1. /\ IsFiniteSet(New \cup O)
          /\ Cardinality(New \cup O) = more + Cardinality(O) - Cardinality(New \cap O)
      BY <1>4, <1>7, FS_Union
    <3>2. Cardinality(New \cap O) \in Nat
      <4>1. IsFiniteSet(New \cap O)
        BY <1>4, FS_Subset
      <4> QED
        BY <4>1, FS_CardinalityType
    <3>3. Cardinality(New \cup O) \in Nat
      BY <3>1, FS_CardinalityType
    <3> QED
      BY <1>5, <1>7, <3>1, <3>2, <3>3
  <2>5. /\ Visitors(rs, W) <= Visitors(rs, A) + Cardinality(New \cup O)
        /\ Pageviews(rs, W) <= Pageviews(rs, A) + Cardinality(New \cup O)
    BY <1>2, <2>3, <2>4, CountsCovered
  <2>6. /\ Total(series, "visitors") >= Visitors(rs, A) - fewer
        /\ Total(series, "pageviews") >= Pageviews(rs, A) - fewer
        /\ Total(series, "pageviews") <= Pageviews(rs, A) + more + Cardinality(O)
        /\ Total(series, "visitors") <= Visitors(rs, A) + more + Cardinality(O)
    <3> HIDE DEF series
    <3>1. /\ Visitors(rs, W) >= Visitors(rs, A) - fewer
          /\ Pageviews(rs, W) >= Pageviews(rs, A) - fewer
      BY ONLY <1>5, <1>6, <2>2
    <3>2. /\ Visitors(rs, W) <= Visitors(rs, A) + more + Cardinality(O)
          /\ Pageviews(rs, W) <= Pageviews(rs, A) + more + Cardinality(O)
      <4> DEFINE o == Cardinality(O)
                 u == Cardinality(New \cup O)
      <4>1. /\ o \in Nat /\ u \in Nat /\ u <= more + o
            /\ Visitors(rs, W) <= Visitors(rs, A) + u
            /\ Pageviews(rs, W) <= Pageviews(rs, A) + u
        BY <1>7, <2>4, <2>5
      <4> HIDE DEF o, u
      <4>2. /\ Visitors(rs, W) <= Visitors(rs, A) + more + o
            /\ Pageviews(rs, W) <= Pageviews(rs, A) + more + o
        <5>1. \A w, a, m \in Nat : w <= a + u => w <= a + m + o \/ ~(u <= m + o)
          BY <4>1
        <5> QED
          BY ONLY <1>5, <1>6, <4>1, <5>1
      <4> QED
        BY <4>2 DEF o
    <3> QED
      BY <2>1, <3>1, <3>2
  <2> QED
    BY <1>3, <1>8, <2>6 DEF Count, A, O, more, fewer
<1>9. CASE ~FromRollup(scope)
  <2>1. /\ Total(series, "pageviews") = Pageviews(rs, B)
        /\ Total(series, "visitors") \in Nat
        /\ Total(series, "visitors") >= Visitors(rs, B)
    BY <1>2, <1>3, <1>9, RawTotals DEF SeriesOf, B
  <2>2. /\ Visitors(rs, A) <= Visitors(rs, B) + fewer
        /\ Pageviews(rs, A) <= Pageviews(rs, B) + fewer
        /\ Pageviews(rs, B) <= Pageviews(rs, A) + more
    BY <1>2, <1>4, CountsCovered
  <2>3. /\ Total(series, "visitors") >= Visitors(rs, A) - fewer
        /\ Total(series, "pageviews") >= Pageviews(rs, A) - fewer
        /\ Total(series, "pageviews") <= Pageviews(rs, A) + more + 0
    <3> HIDE DEF series
    <3> DEFINE v == Total(series, "visitors")
               p == Total(series, "pageviews")
               va == Visitors(rs, A)
               pa == Pageviews(rs, A)
               vb == Visitors(rs, B)
               pb == Pageviews(rs, B)
    <3>1. /\ v \in Nat /\ p = pb /\ v >= vb
          /\ va \in Nat /\ pa \in Nat /\ vb \in Nat /\ pb \in Nat
          /\ va <= vb + fewer /\ pa <= pb + fewer /\ pb <= pa + more
      BY <1>6, <2>1, <2>2
    <3> HIDE DEF v, p, va, pa, vb, pb
    <3>2. v >= va - fewer /\ p >= pa - fewer /\ p <= pa + more + 0
      BY ONLY <1>5, <3>1
    <3> QED
      BY <3>2 DEF v, p, va, pa
  <2> QED
    BY <1>3, <1>9, <2>3 DEF Count, A, more, fewer
<1> QED
  BY <1>8, <1>9

-----------------------------------------------------------------------------
(* The rollup *)

\* The view adds to the rollup what a row adds to the days.
LEMMA MergeRolled ==
    ASSUME NEW rs \in Seq(Rows), NEW r \in Rows
    PROVE  Merge(Rolled(rs), r) = Rolled(Append(rs, r))
<1> DEFINE n == Len(rs)
           more == Append(rs, r)
           Key(s, i) == <<s[i].site, s[i].time \div Day>>
           Of(s, k) == {i \in DOMAIN s : Key(s, i) = k}
           new == <<r.site, r.time \div Day>>
           Day0(s, k) == [pageviews |-> Cardinality({i \in Of(s, k) : s[i].name = "pageview"}),
                          visitors |-> {s[i].visitor : i \in Of(s, k)}]
           Keys(s) == {Key(s, i) : i \in DOMAIN s}
           old == DayOf(Rolled(rs), r.site, r.time \div Day)
           added == [pageviews |-> old.pageviews + (IF r.name = "pageview" THEN 1 ELSE 0),
                     visitors |-> old.visitors \cup {r.visitor}]
<1>1. /\ n \in Nat /\ DOMAIN rs = 1 .. n /\ DOMAIN more = 1 .. n + 1
      /\ more[n + 1] = r /\ \A i \in 1 .. n : more[i] = rs[i]
  <2>1. n \in Nat /\ DOMAIN rs = 1 .. n
    BY LenProperties
  <2> QED
    BY <2>1, AppendProperties
<1>2. Rolled(rs) = [k \in Keys(rs) |-> Day0(rs, k)]
  BY DEF Rolled
<1>3. Rolled(more) = [k \in Keys(more) |-> Day0(more, k)]
  BY DEF Rolled
<1>4. Keys(more) = {new} \cup Keys(rs)
  BY <1>1
<1>5. Merge(Rolled(rs), r) = [k \in {new} \cup Keys(rs) |->
                                 IF k = new THEN added ELSE Rolled(rs)[k]]
  <2>1. DOMAIN Rolled(rs) = Keys(rs)
    BY <1>2
  <2> HIDE DEF Keys
  <2>2. Merge(Rolled(rs), r) = Put(Rolled(rs), new, added)
    BY DEF Merge
  <2> HIDE DEF new, added
  <2> QED
    BY <2>1, <2>2 DEF Put
<1>6. ASSUME NEW k, k # new PROVE Day0(more, k) = Day0(rs, k)
  <2>1. Of(more, k) = Of(rs, k)
    BY <1>1, <1>6
  <2>2. Of(rs, k) \subseteq 1 .. n
    BY <1>1
  <2> HIDE DEF Of, more
  <2>3. /\ {more[i].visitor : i \in Of(rs, k)} = {rs[i].visitor : i \in Of(rs, k)}
        /\ {i \in Of(rs, k) : more[i].name = "pageview"} =
              {i \in Of(rs, k) : rs[i].name = "pageview"}
    BY <1>1, <2>2
  <2> QED
    BY <2>1, <2>3
<1>7. Day0(more, new) = added
  <2> DEFINE I == Of(rs, new)
  <2>1. Of(more, new) = I \cup {n + 1} /\ I \subseteq 1 .. n
    BY <1>1
  <2>2. old = [pageviews |-> Pageviews(rs, I), visitors |-> {rs[i].visitor : i \in I}]
    <3>1. OfDay(rs, r.site, r.time \div Day) = I
      BY DEF OfDay
    <3> HIDE DEF I
    <3> QED
      BY <3>1, RolledDay
  <2>3. IsFiniteSet({i \in I : rs[i].name = "pageview"})
    <3>1. IsFiniteSet(1 .. n)
      BY <1>1, FS_Interval
    <3> HIDE DEF I
    <3>2. IsFiniteSet(I)
      BY <2>1, <3>1, FS_Subset
    <3> QED
      BY <3>2, FS_Subset
  <2> HIDE DEF I, Of, more, old
  <2>4. {more[i].visitor : i \in I \cup {n + 1}} = {rs[i].visitor : i \in I} \cup {r.visitor}
    BY <1>1, <2>1
  <2>5. {i \in I \cup {n + 1} : more[i].name = "pageview"} =
            IF r.name = "pageview" THEN {i \in I : rs[i].name = "pageview"} \cup {n + 1}
                                   ELSE {i \in I : rs[i].name = "pageview"}
    BY <1>1, <2>1
  <2>6. Cardinality({i \in I \cup {n + 1} : more[i].name = "pageview"}) =
            Pageviews(rs, I) + (IF r.name = "pageview" THEN 1 ELSE 0)
    <3>1. n + 1 \notin {i \in I : rs[i].name = "pageview"}
      BY <1>1, <2>1
    <3>2. Cardinality({i \in I : rs[i].name = "pageview"} \cup {n + 1}) =
              Cardinality({i \in I : rs[i].name = "pageview"}) + 1
      BY <2>3, <3>1, FS_AddElement
    <3>3. Cardinality({i \in I : rs[i].name = "pageview"}) \in Nat
      BY <2>3, FS_CardinalityType
    <3> DEFINE p == {i \in I : rs[i].name = "pageview"}
               q == {i \in I \cup {n + 1} : more[i].name = "pageview"}
    <3>4. q = IF r.name = "pageview" THEN p \cup {n + 1} ELSE p
      BY <2>5
    <3>5. Pageviews(rs, I) = Cardinality(p)
      BY DEF Pageviews
    <3> HIDE DEF p, q
    <3>6. Cardinality(q) = Cardinality(p) + (IF r.name = "pageview" THEN 1 ELSE 0)
      BY <3>2, <3>3, <3>4 DEF p
    <3> QED
      BY <3>5, <3>6 DEF q
  <2> QED
    BY <2>1, <2>2, <2>4, <2>6
<1> HIDE DEF Keys, Day0, more, new, added
<1>8. \A k \in {new} \cup Keys(rs) :
          Day0(more, k) = IF k = new THEN added ELSE Rolled(rs)[k]
  BY <1>2, <1>6, <1>7
<1>9. Rolled(more) = Merge(Rolled(rs), r)
  BY <1>3, <1>4, <1>5, <1>8
<1> QED
  BY <1>9 DEF more

-----------------------------------------------------------------------------
(* The panels *)

\* A LIMIT takes some of the groups, and no more than its number.
LEMMA TopBound ==
    ASSUME NEW groups, IsFiniteSet(groups), NEW figure, NEW S \in Top(groups, figure)
    PROVE  S \subseteq groups /\ Cardinality(S) <= PanelLimit
<1>1. Cardinality(groups) \in Nat /\ PanelLimit \in Nat
  BY FS_CardinalityType, AnalyticsAssumption
<1> QED
  BY <1>1 DEF Top

LEMMA PanelBound ==
    ASSUME NEW rs \in Seq(Rows), NEW scope
    PROVE  /\ \A S \in CustomEvents(rs, scope) : Cardinality(S) <= PanelLimit
           /\ \A dim \in Panels : \A S \in Breakdown(rs, scope, dim) :
                 Cardinality(S) <= PanelLimit
<1>1. IsFiniteSet(BuildWhere(rs, scope))
  <2>1. IsFiniteSet(DOMAIN rs)
    BY LenProperties, FS_Interval
  <2> QED
    BY <2>1, FS_Subset DEF BuildWhere
<1>2. ASSUME NEW S \in CustomEvents(rs, scope) PROVE Cardinality(S) <= PanelLimit
  <2> DEFINE I == {i \in BuildWhere(rs, scope) : rs[i].name # "pageview"}
             Named(l) == {i \in I : rs[i].name = l}
             Group(l) == [label |-> l, count |-> Cardinality(Named(l)),
                          visitors |-> Visitors(rs, Named(l))]
             f == [i \in I |-> Group(rs[i].name)]
             G == {Group(l) : l \in {rs[i].name : i \in I}}
  <2>1. S \in Top(G, "count")
    BY DEF CustomEvents
  <2>2. G = {f[i] : i \in I}
    <3> HIDE DEF Group, I
    <3> QED
      OBVIOUS
  <2>3. IsFiniteSet(I)
    BY <1>1, FS_Subset
  <2> HIDE DEF I, f, G
  <2>4. IsFiniteSet(G)
    BY <2>2, <2>3, ImageFinite
  <2> QED
    BY <2>1, <2>4, TopBound
<1>3. ASSUME NEW dim \in Panels, NEW S \in Breakdown(rs, scope, dim)
      PROVE  Cardinality(S) <= PanelLimit
  <2> DEFINE label(i) == rs[i].col[BreakdownColumns[dim]]
             I == {i \in BuildWhere(rs, scope) : label(i) # ""}
             Group(l) == [label |-> l, visitors |-> Visitors(rs, {i \in I : label(i) = l}),
                          pageviews |-> Pageviews(rs, {i \in I : label(i) = l})]
             f == [i \in I |-> Group(label(i))]
             G == {Group(l) : l \in {label(i) : i \in I}}
  <2>1. S \in Top(G, "visitors")
    BY DEF Breakdown
  <2>2. G = {f[i] : i \in I}
    <3> HIDE DEF Group, I, label
    <3> QED
      OBVIOUS
  <2>3. IsFiniteSet(I)
    BY <1>1, FS_Subset
  <2> HIDE DEF I, f, G
  <2>4. IsFiniteSet(G)
    BY <2>2, <2>3, ImageFinite
  <2> QED
    BY <2>1, <2>4, TopBound
<1> QED
  BY <1>2, <1>3

\* The rows a panel's line counts are those that its filter selects.
LEMMA LineIsFilter ==
    ASSUME NEW rs, NEW scope, NEW dim \in Panels, NEW S \in Breakdown(rs, scope, dim),
           NEW g \in S, scope.filters \in [DOMAIN NoFilters -> Values],
           NEW clicked, clicked.range = scope.range,
           clicked.filters = [scope.filters EXCEPT ![dim] = g.label]
    PROVE  Count(rs, BuildWhere(rs, clicked)) =
               [visitors |-> g.visitors, pageviews |-> g.pageviews]
<1> DEFINE label(i) == rs[i].col[BreakdownColumns[dim]]
           I == {i \in BuildWhere(rs, scope) : label(i) # ""}
           Group(l) == [label |-> l, visitors |-> Visitors(rs, {i \in I : label(i) = l}),
                        pageviews |-> Pageviews(rs, {i \in I : label(i) = l})]
           G == {Group(l) : l \in {label(i) : i \in I}}
<1>1. g \in G
  BY DEF Breakdown, Top
<1>2. PICK j \in I : g = Group(label(j))
  <2> HIDE DEF Group, label, I
  <2> QED
    BY <1>1
<1> DEFINE J == {i \in I : label(i) = label(j)}
<1>3. g.label = label(j) /\ g.visitors = Visitors(rs, J) /\ g.pageviews = Pageviews(rs, J)
  BY <1>2
<1>4. /\ dim \in DOMAIN FilterColumns /\ dim \in DOMAIN NoFilters
      /\ FilterColumns[dim] = BreakdownColumns[dim]
      /\ DOMAIN FilterColumns = DOMAIN NoFilters
  <2>1. dim \in {"page", "source", "country", "browser", "os", "device"}
    BY AnalyticsAssumption
  <2>2. DOMAIN FilterColumns = DOMAIN NoFilters /\ dim \in DOMAIN FilterColumns
    BY <2>1 DEF FilterColumns, NoFilters
  <2>3. FilterColumns[dim] = BreakdownColumns[dim]
    <3>1. /\ FilterColumns.page = "pathname"
          /\ FilterColumns.source = "referrer_source"
          /\ FilterColumns.country = "country_code"
          /\ FilterColumns.browser = "browser"
          /\ FilterColumns.os = "os"
          /\ FilterColumns.device = "device"
      BY DEF FilterColumns
    <3>2. /\ BreakdownColumns.page = "pathname"
          /\ BreakdownColumns.source = "referrer_source"
          /\ BreakdownColumns.country = "country_code"
          /\ BreakdownColumns.browser = "browser"
          /\ BreakdownColumns.os = "os"
          /\ BreakdownColumns.device = "device"
      BY DEF BreakdownColumns
    <3> QED
      BY <2>1, <3>1, <3>2
  <2> QED
    BY <2>2, <2>3
<1>5. BuildWhere(rs, clicked) = J
  <2>1. \A key \in DOMAIN FilterColumns :
            clicked.filters[key] = IF key = dim THEN label(j) ELSE scope.filters[key]
    BY <1>3, <1>4
  <2>2. scope.filters[dim] \in {"", label(j)} /\ label(j) # ""
    BY <1>2, <1>4 DEF BuildWhere
  <2>3. ASSUME NEW i \in DOMAIN rs
        PROVE  (\A key \in DOMAIN FilterColumns :
                   clicked.filters[key] \in {"", rs[i].col[FilterColumns[key]]})
               <=> /\ \A key \in DOMAIN FilterColumns :
                         scope.filters[key] \in {"", rs[i].col[FilterColumns[key]]}
                   /\ label(i) = label(j)
    BY <1>4, <2>1, <2>2
  <2>4. J = {i \in BuildWhere(rs, scope) : label(i) = label(j)}
    BY <2>2
  <2> HIDE DEF J, label
  <2> QED
    BY <2>3, <2>4 DEF BuildWhere
<1> HIDE DEF J
<1> QED
  BY <1>3, <1>5 DEF Count

-----------------------------------------------------------------------------
(* The state *)

Filters == [DOMAIN NoFilters -> Values]
IsUrl(u) == u = [range |-> u.range, filters |-> u.filters] /\ u.filters \in Filters

\* The scope of a request for address u.
ScopeInv(s, u, v) ==
    /\ s.preset \in DOMAIN Span /\ Window(s.range) /\ s.zone \in Int
    /\ s.filters \in Filters
    /\ v = "owner" => s.filters = u.filters

\* What a is when it answers query q of scope s on the first n of the rows rs.
Answered(rs, q, a, n, s) ==
    /\ n \in 0 .. Len(rs)
    /\ q = "top" => a = Count(Upto(rs, n), BuildWhere(Upto(rs, n), s))
    /\ q = "series" => a = SeriesOf(Upto(rs, n), s)
    /\ q \in Panels => a \in Breakdown(Upto(rs, n), s, q)

\* The answers of a request, each on the rows it has seen.
AnswersInv(rs, got, seen, s) ==
    /\ DOMAIN seen = DOMAIN got \cap Compared
    /\ \A q \in DOMAIN seen : Answered(rs, q, got[q], seen[q], s)
    /\ "events" \in DOMAIN got => Cardinality(got["events"]) <= PanelLimit

LoadInv(rs, l, v) ==
    /\ l = [url |-> l.url, scope |-> l.scope, got |-> l.got, seen |-> l.seen]
    /\ IsUrl(l.url) /\ ScopeInv(l.scope, l.url, v)
    /\ AnswersInv(rs, l.got, l.seen, l.scope)

\* What a page shows: an empty dashboard, or the answers of a request.
EmptyData(d) ==
    /\ d.series = <<>> /\ d.totals.visitors = 0 /\ d.totals.pageviews = 0
    /\ d.seen["series"] = 0 /\ d.seen["top"] = 0
    /\ \A p \in Panels : d.breakdowns[p] = {}
FullData(rs, d) ==
    /\ Answered(rs, "series", d.series, d.seen["series"], d.scope)
    /\ Answered(rs, "top", [visitors |-> d.totals.visitors, pageviews |-> d.totals.pageviews],
                d.seen["top"], d.scope)
    /\ \A p \in Panels : Answered(rs, p, d.breakdowns[p], d.seen[p], d.scope)

DataInv(rs, d, u, v) ==
    /\ ScopeInv(d.scope, u, v)
    /\ DOMAIN d.breakdowns = Panels /\ Cardinality(d.events) <= PanelLimit
    /\ EmptyData(d) \/ FullData(rs, d)

PageInv(rs, p, v) ==
    /\ p = [url |-> p.url, data |-> p.data, hover |-> p.hover]
    /\ IsUrl(p.url) /\ p.hover \in Int
    /\ p.data # None => DataInv(rs, p.data, p.url, v)

\* The rows, and the rollup that is their summary up to the last row it has seen.
TableInv ==
    /\ rows \in Seq(Rows) /\ Len(rows) <= MaxRows
    /\ rollup = [done |-> rollup.done, days |-> rollup.days]
    /\ rollup.done \in {Len(rows) - 1, Len(rows)} /\ rollup.done \in Nat
    /\ rollup.days = Rolled(Upto(rows, rollup.done))

IInv ==
    /\ now \in Start .. MaxTime /\ loads \in 0 .. MaxLoads /\ zone \in Int
    /\ TableInv
    /\ load # None => LoadInv(rows, load, viewer)
    /\ PageInv(rows, page, viewer)

-----------------------------------------------------------------------------
(* The steps *)

LEMMA UptoAll ==
    ASSUME NEW rs \in Seq(Rows)
    PROVE  Upto(rs, Len(rs)) = rs /\ Len(rs) \in Nat
<1>1. Len(rs) \in Nat /\ Len(rs) \in 0 .. Len(rs)
  <2>1. Len(rs) \in Nat
    BY LenProperties
  <2> QED
    BY <2>1
<1>2. /\ Upto(rs, Len(rs)) \in Seq(Rows) /\ Len(Upto(rs, Len(rs))) = Len(rs)
      /\ \A i \in 1 .. Len(rs) : Upto(rs, Len(rs))[i] = rs[i]
  BY <1>1, UptoFacts
<1> QED
  BY <1>1, <1>2, SeqEqual

\* The first rows stay the first rows.
LEMMA AnsweredStays ==
    ASSUME NEW rs \in Seq(Rows), NEW r \in Rows
    PROVE  /\ \A n \in 0 .. Len(rs) : Upto(Append(rs, r), n) = Upto(rs, n)
           /\ \A q, a, n, s : Answered(rs, q, a, n, s) => Answered(Append(rs, r), q, a, n, s)
<1>1. /\ Len(rs) \in Nat /\ DOMAIN rs = 1 .. Len(rs)
      /\ Append(rs, r) \in Seq(Rows) /\ Len(Append(rs, r)) = Len(rs) + 1
      /\ \A i \in 1 .. Len(rs) : Append(rs, r)[i] = rs[i]
  BY LenProperties, AppendProperties
<1>2. ASSUME NEW n \in 0 .. Len(rs) PROVE Upto(Append(rs, r), n) = Upto(rs, n)
  <2>1. n \in Nat /\ n <= Len(rs) /\ n \in 0 .. Len(Append(rs, r))
    BY <1>1
  <2>2. /\ Upto(rs, n) \in Seq(Rows) /\ Len(Upto(rs, n)) = n
        /\ \A i \in 1 .. n : Upto(rs, n)[i] = rs[i]
    BY UptoFacts
  <2>3. /\ Upto(Append(rs, r), n) \in Seq(Rows) /\ Len(Upto(Append(rs, r), n)) = n
        /\ \A i \in 1 .. n : Upto(Append(rs, r), n)[i] = Append(rs, r)[i]
    BY <1>1, <2>1, UptoFacts
  <2>4. \A i \in 1 .. n : Upto(Append(rs, r), n)[i] = Upto(rs, n)[i]
    BY <1>1, <2>1, <2>2, <2>3
  <2> QED
    BY <2>2, <2>3, <2>4, SeqEqual
<1>3. ASSUME NEW q, NEW a, NEW n, NEW s, Answered(rs, q, a, n, s)
      PROVE  Answered(Append(rs, r), q, a, n, s)
  <2>1. n \in 0 .. Len(rs) /\ n \in 0 .. Len(Append(rs, r))
    BY <1>1, <1>3 DEF Answered
  <2>2. Upto(Append(rs, r), n) = Upto(rs, n)
    BY <1>2, <2>1
  <2> QED
    BY <1>3, <2>1, <2>2 DEF Answered
<1> QED
  BY <1>2, <1>3

\* A new row changes nothing about the answers on earlier rows.
LEMMA MoreRows ==
    ASSUME NEW rs \in Seq(Rows), NEW r \in Rows, NEW v
    PROVE  /\ \A l : LoadInv(rs, l, v) => LoadInv(Append(rs, r), l, v)
           /\ \A p : PageInv(rs, p, v) => PageInv(Append(rs, r), p, v)
<1>1. \A q, a, n, s : Answered(rs, q, a, n, s) => Answered(Append(rs, r), q, a, n, s)
  BY AnsweredStays
<1>2. \A l : LoadInv(rs, l, v) => LoadInv(Append(rs, r), l, v)
  BY <1>1 DEF LoadInv, AnswersInv
<1>3. \A p : PageInv(rs, p, v) => PageInv(Append(rs, r), p, v)
  BY <1>1 DEF PageInv, DataInv, FullData
<1> QED
  BY <1>2, <1>3

\* A query is answered on the rows there are, or on those the rollup has.
LEMMA AnswerIsAnswered ==
    ASSUME IInv, NEW q \in Compared, NEW s, NEW a \in Answers(q, s)
    PROVE  Answered(rows, q, a, Seen(q, s), s)
<1>1. /\ rows \in Seq(Rows) /\ Len(rows) \in Nat /\ Upto(rows, Len(rows)) = rows
      /\ rollup.done \in 0 .. Len(rows) /\ rollup.days = Rolled(Upto(rows, rollup.done))
  BY UptoAll DEF IInv, TableInv
<1>2. Panels \subseteq {"page", "source", "country", "browser", "os", "device"}
  BY AnalyticsAssumption
<1>3. CASE q = "top"
  <2>1. a = Count(rows, BuildWhere(rows, s)) /\ Seen(q, s) = Len(rows)
    BY <1>3 DEF Answers, Seen
  <2> QED
    BY <1>1, <1>2, <1>3, <2>1 DEF Answered
<1>4. CASE q = "series"
  <2>1. a = IF FromRollup(s) THEN RollupSeries(rollup.days, s) ELSE RawSeries(rows, s)
    BY <1>4 DEF Answers
  <2>2. Seen(q, s) = IF FromRollup(s) THEN rollup.done ELSE Len(rows)
    BY <1>4 DEF Seen
  <2>3. a = SeriesOf(Upto(rows, Seen(q, s)), s) /\ Seen(q, s) \in 0 .. Len(rows)
    BY <1>1, <2>1, <2>2 DEF SeriesOf
  <2> QED
    BY <1>2, <1>4, <2>3 DEF Answered
<1>5. CASE q \in Panels
  <2>1. a \in Breakdown(rows, s, q) /\ Seen(q, s) = Len(rows)
    BY <1>2, <1>5 DEF Answers, Seen
  <2> QED
    BY <1>1, <1>2, <1>5, <2>1 DEF Answered
<1> QED
  BY <1>3, <1>4, <1>5 DEF Compared

\* What the assumption says of the bounds.
LEMMA Bounds ==
    /\ DOMAIN Stored = 1 .. Len(Stored) /\ Len(Stored) \in Nat /\ Len(Stored) <= MaxRows
    /\ Start \in Nat /\ MaxTime \in Nat /\ Start <= MaxTime
    /\ MaxRows \in Nat /\ MaxLoads \in Nat /\ Zones \subseteq Int
<1>1. MaxRows \in Nat
  BY AnalyticsAssumption
<1>2. Len(Stored) \in 0 .. MaxRows
  BY AnalyticsAssumption
<1>3. DOMAIN Stored = 1 .. Len(Stored)
  BY AnalyticsAssumption
<1>4. Start \in Nat /\ MaxTime \in Nat
  BY AnalyticsAssumption
<1>5. Start <= MaxTime
  BY AnalyticsAssumption
<1>6. Zones \subseteq Int
  BY AnalyticsAssumption
<1>7. MaxLoads \in Nat
  BY AnalyticsAssumption
<1> QED
  BY <1>1, <1>2, <1>3, <1>4, <1>5, <1>6, <1>7

LEMMA InitInv ==
    ASSUME Init
    PROVE  IInv
<1>1. rows \in Seq(Rows) /\ Len(rows) = Len(Stored) /\ Len(Stored) \in Nat
  <2>1. DOMAIN Stored = 1 .. Len(Stored) /\ Len(Stored) \in Nat
    BY Bounds
  <2>4. \A i \in DOMAIN Stored : Stored[i].time \in Int
    BY AnalyticsAssumption
  <2>2. \A i \in 1 .. Len(Stored) : RowOf(Stored[i].hit, Stored[i].time) \in Rows
    <3> SUFFICES ASSUME NEW i \in 1 .. Len(Stored)
                 PROVE  RowOf(Stored[i].hit, Stored[i].time) \in Rows
      OBVIOUS
    <3>1. Stored[i].hit \in AllHits /\ Stored[i].time \in Int
      BY <2>1, <2>4 DEF AllHits
    <3> QED
      BY <3>1 DEF Rows
  <2>3. rows = [i \in 1 .. Len(Stored) |-> RowOf(Stored[i].hit, Stored[i].time)]
    BY <2>1 DEF Init
  <2> QED
    BY <2>1, <2>2, <2>3
<1>2. TableInv
  <2>1. Upto(rows, Len(rows)) = rows
    BY <1>1, UptoAll
  <2> QED
    BY <1>1, <2>1, Bounds DEF Init, TableInv
<1>3. PageInv(rows, page, viewer)
  <2>1. NoFilters \in Filters
    BY AnalyticsAssumption DEF NoFilters, Filters
  <2>2. /\ page.url = [range |-> "", filters |-> NoFilters] /\ page.data = None
        /\ page.hover = -1 /\ page = [url |-> page.url, data |-> page.data, hover |-> page.hover]
    BY DEF Init, BlankPage
  <2>3. IsUrl([range |-> "", filters |-> NoFilters])
    <3> HIDE DEF NoFilters
    <3> QED
      BY <2>1 DEF IsUrl
  <2>4. page.hover \in Int /\ IsUrl(page.url)
    <3>1. -1 \in Int
      OBVIOUS
    <3> QED
      BY ONLY <2>2, <2>3, <3>1
  <2> QED
    BY ONLY <2>2, <2>4 DEF PageInv
<1>4. now \in Start .. MaxTime /\ loads \in 0 .. MaxLoads /\ zone \in Int
  BY Bounds DEF Init
<1> QED
  BY <1>2, <1>3, <1>4 DEF Init, IInv

\* What a request changes.
LEMMA RequestKeeps ==
    ASSUME IInv, NEW u, IsUrl(u), Request(u)
    PROVE  /\ loads' \in 0 .. MaxLoads /\ LoadInv(rows', load', viewer')
           /\ UNCHANGED <<now, viewer, zone, rows, rollup>>
<1>1. /\ loads' = loads + 1 /\ loads < MaxLoads
      /\ load' = [url |-> u, scope |-> ScopeOf(u), got |-> <<>>, seen |-> <<>>]
      /\ UNCHANGED <<now, viewer, zone, rows, rollup>>
  BY DEF Request
<1>2. loads' \in 0 .. MaxLoads
  BY <1>1, Bounds DEF IInv
<1>3. ScopeInv(ScopeOf(u), u, viewer)
  <2> DEFINE preset == IF u.range \in DOMAIN Span THEN u.range ELSE "30d"
             filters == IF viewer = "owner" THEN u.filters ELSE NoFilters
  <2>1. ScopeOf(u) = [preset |-> preset, range |-> ResolveRange(preset, now),
                      filters |-> filters, zone |-> zone]
    BY DEF ScopeOf
  <2>2. preset \in DOMAIN Span /\ Span[preset] \in Nat
    BY AnalyticsAssumption
  <2>3. NoFilters \in Filters
    BY AnalyticsAssumption DEF NoFilters, Filters
  <2>4. filters \in Filters /\ (viewer = "owner" => filters = u.filters)
    BY <2>3 DEF IsUrl
  <2>5. now \in Int /\ zone \in Int
    BY Bounds DEF IInv
  <2> HIDE DEF preset, filters
  <2>6. Window(ResolveRange(preset, now))
    BY <2>2, <2>5 DEF Window, ResolveRange
  <2> QED
    BY <2>1, <2>2, <2>4, <2>5, <2>6 DEF ScopeInv
<1>4. AnswersInv(rows, <<>>, <<>>, ScopeOf(u))
  BY DEF AnswersInv
<1>5. LoadInv(rows, load', viewer)
  BY <1>1, <1>3, <1>4 DEF LoadInv
<1> QED
  BY <1>1, <1>2, <1>5

\* The addresses that the page leads to.
LEMMA WithUrl ==
    ASSUME NEW u, IsUrl(u), NEW key, NEW value,
           key = "range" \/ (key \in DOMAIN NoFilters /\ value \in Values)
    PROVE  IsUrl(With(u, key, value))
<1>1. CASE key = "range"
  <2>1. With(u, key, value) = [u EXCEPT !.range = value]
    BY <1>1 DEF With
  <2> QED
    BY <2>1 DEF IsUrl
<1>2. CASE key # "range"
  <2>1. With(u, key, value) = [u EXCEPT !.filters[key] = value]
    BY <1>2 DEF With
  <2>2. [u.filters EXCEPT ![key] = value] \in Filters
    BY <1>2 DEF IsUrl, Filters
  <2>3. With(u, key, value) = [range |-> u.range, filters |-> [u.filters EXCEPT ![key] = value]]
    BY <2>1 DEF IsUrl
  <2> QED
    BY <2>2, <2>3 DEF IsUrl
<1> QED
  BY <1>1, <1>2

LEMMA GotoKeeps ==
    ASSUME IInv, NEW u, IsUrl(u), Goto(u)
    PROVE  IInv'
<1>1. Request(u) /\ UNCHANGED page
  BY DEF Goto
<1>2. /\ loads' \in 0 .. MaxLoads /\ LoadInv(rows', load', viewer')
      /\ UNCHANGED <<now, viewer, zone, rows, rollup>>
  BY <1>1, RequestKeeps
<1> QED
  BY <1>1, <1>2 DEF IInv, TableInv

\* What shows an answered request, or an empty dashboard for it.
LEMMA ShowKeeps ==
    ASSUME IInv, load # None, NEW d, Show(d), DataInv(rows, d, load.url, viewer)
    PROVE  IInv'
<1>1. /\ load' = None
      /\ UNCHANGED <<now, viewer, zone, rows, rollup, loads>>
      /\ \E hover : page' = [url |-> load.url, data |-> d, hover |-> hover]
                    /\ hover \in {page.hover, -1}
  BY DEF Show
<1>2. IsUrl(load.url) /\ page.hover \in Int
  BY DEF IInv, LoadInv, PageInv
<1>3. PageInv(rows, page', viewer)
  BY <1>1, <1>2 DEF PageInv
<1> QED
  BY <1>1, <1>3 DEF IInv, TableInv

LEMMA AnswerKeeps ==
    ASSUME IInv, NEW q \in Queries, Answer(q)
    PROVE  IInv'
<1>1. PICK a \in Answers(q, load.scope) :
          load' = [load EXCEPT
              !.got = Put(@, q, a),
              !.seen = IF q \in Compared THEN Put(@, q, Seen(q, load.scope)) ELSE @]
  BY DEF Answer
<1>2. /\ load # None /\ q \notin DOMAIN load.got
      /\ UNCHANGED <<now, viewer, zone, rows, rollup, page, loads>>
  BY DEF Answer
<1>3. LoadInv(rows, load, viewer) /\ AnswersInv(rows, load.got, load.seen, load.scope)
  BY <1>2 DEF IInv, LoadInv
<1> DEFINE s == load.scope
           got == Put(load.got, q, a)
           seen == IF q \in Compared THEN Put(load.seen, q, Seen(q, s)) ELSE load.seen
<1>4. load' = [url |-> load.url, scope |-> s, got |-> got, seen |-> seen]
  BY <1>1, <1>3 DEF LoadInv
<1>5. /\ DOMAIN got = DOMAIN load.got \cup {q} /\ got[q] = a
      /\ \A p \in DOMAIN load.got : got[p] = load.got[p]
  BY <1>2 DEF Put
<1>6. /\ DOMAIN seen = DOMAIN got \cap Compared
      /\ \A p \in DOMAIN load.seen : seen[p] = load.seen[p]
      /\ q \in Compared => seen[q] = Seen(q, s)
  <2>1. DOMAIN load.seen = DOMAIN load.got \cap Compared
    BY <1>3 DEF AnswersInv
  <2> HIDE DEF got
  <2> QED
    BY <1>2, <1>5, <2>1 DEF Put
<1>7. q \in Compared => Answered(rows, q, a, Seen(q, s), s)
  BY AnswerIsAnswered
<1>8. q = "events" => Cardinality(a) <= PanelLimit
  <2> SUFFICES ASSUME q = "events" PROVE Cardinality(a) <= PanelLimit
    OBVIOUS
  <2>1. a \in CustomEvents(rows, s)
    BY <1>1, AnalyticsAssumption DEF Answers
  <2>2. rows \in Seq(Rows)
    BY DEF IInv, TableInv
  <2> QED
    BY <2>1, <2>2, PanelBound
<1> HIDE DEF got, seen
<1>9. AnswersInv(rows, got, seen, s)
  <2>1. ASSUME NEW p \in DOMAIN seen PROVE Answered(rows, p, got[p], seen[p], s)
    <3>1. CASE p = q
      BY <1>5, <1>6, <1>7, <2>1, <3>1
    <3>2. CASE p # q
      BY <1>3, <1>5, <1>6, <2>1, <3>2 DEF AnswersInv
    <3> QED
      BY <3>1, <3>2
  <2>2. "events" \in DOMAIN got => Cardinality(got["events"]) <= PanelLimit
    BY <1>3, <1>5, <1>8 DEF AnswersInv
  <2> QED
    BY <1>6, <2>1, <2>2 DEF AnswersInv
<1>10. LoadInv(rows, load', viewer)
  BY <1>3, <1>4, <1>9 DEF LoadInv
<1> QED
  BY <1>2, <1>10 DEF IInv, TableInv

LEMMA AssembleKeeps ==
    ASSUME IInv, Assemble
    PROVE  IInv'
<1> DEFINE got == load.got
           d == [scope |-> load.scope, seen |-> load.seen,
                 totals |-> Totals(got["top"], got["engagement"]),
                 previous |-> Totals(got["previous top"], got["previous engagement"]),
                 series |-> got["series"], events |-> got["events"],
                 breakdowns |-> [p \in Panels |-> got[p]]]
<1>1. load # None /\ DOMAIN got = Queries /\ Show(d)
  BY DEF Assemble
<1>2. /\ ScopeInv(load.scope, load.url, viewer)
      /\ DOMAIN load.seen = Compared
      /\ \A q \in Compared : Answered(rows, q, got[q], load.seen[q], load.scope)
      /\ Cardinality(got["events"]) <= PanelLimit
  BY <1>1 DEF IInv, LoadInv, AnswersInv, Compared, Queries
<1>3. /\ d.scope = load.scope /\ d.seen = load.seen
      /\ d.series = got["series"] /\ d.events = got["events"]
      /\ d.breakdowns = [p \in Panels |-> got[p]]
      /\ d.totals.visitors = got["top"].visitors /\ d.totals.pageviews = got["top"].pageviews
  BY DEF Totals
<1> HIDE DEF d
<1>4. FullData(rows, d)
  <2>1. Answered(rows, "series", d.series, d.seen["series"], d.scope)
    BY <1>2, <1>3 DEF Compared
  <2>2. Answered(rows, "top", got["top"], d.seen["top"], d.scope)
    BY <1>2, <1>3 DEF Compared
  <2>3. got["top"] = [visitors |-> d.totals.visitors, pageviews |-> d.totals.pageviews]
    BY <1>3, <2>2 DEF Answered, Count
  <2>4. \A p \in Panels : Answered(rows, p, d.breakdowns[p], d.seen[p], d.scope)
    BY <1>2, <1>3 DEF Compared
  <2> QED
    BY <2>1, <2>2, <2>3, <2>4 DEF FullData
<1>5. DataInv(rows, d, load.url, viewer)
  BY <1>2, <1>3, <1>4 DEF DataInv
<1> QED
  BY <1>1, <1>5, ShowKeeps

LEMMA QueryFailsKeeps ==
    ASSUME IInv, QueryFails
    PROVE  IInv'
<1> DEFINE d == [scope |-> load.scope, seen |-> [q \in Compared |-> 0],
                 totals |-> EmptyTotals, previous |-> EmptyTotals,
                 series |-> <<>>, events |-> {}, breakdowns |-> [p \in Panels |-> {}]]
<1>1. load # None /\ Show(d)
  BY DEF QueryFails
<1>2. ScopeInv(load.scope, load.url, viewer)
  BY <1>1 DEF IInv, LoadInv
<1>3. /\ d.scope = load.scope /\ d.seen = [q \in Compared |-> 0]
      /\ d.series = <<>> /\ d.events = {} /\ d.breakdowns = [p \in Panels |-> {}]
      /\ d.totals.visitors = 0 /\ d.totals.pageviews = 0
  BY DEF EmptyTotals, Totals
<1> HIDE DEF d
<1>4. EmptyData(d)
  BY <1>3 DEF EmptyData, Compared
<1>5. Cardinality(d.events) <= PanelLimit
  <2>1. PanelLimit \in Nat
    BY AnalyticsAssumption
  <2> QED
    BY <1>3, <2>1, FS_EmptySet
<1>6. DataInv(rows, d, load.url, viewer)
  BY <1>2, <1>3, <1>4, <1>5 DEF DataInv
<1> QED
  BY <1>1, <1>6, ShowKeeps

\* The ways to another address.
LEMMA NavigateKeeps ==
    ASSUME IInv,
           \/ \E preset \in DOMAIN Span : PickRange(preset)
           \/ \E dim \in Panels, label \in Values : Select(dim, label)
           \/ \E key \in DOMAIN NoFilters : RemoveFilter(key)
           \/ ClearFilters
    PROVE  IInv'
<1>1. IsUrl(page.url)
  BY DEF IInv, PageInv
<1>2. Panels \subseteq DOMAIN NoFilters /\ "" \in Values
  <2>1. Panels \subseteq {"page", "source", "country", "browser", "os", "device"}
    BY AnalyticsAssumption
  <2>2. "" \in Values
    BY AnalyticsAssumption
  <2> QED
    BY <2>1, <2>2 DEF NoFilters
<1>3. ASSUME NEW preset \in DOMAIN Span, PickRange(preset) PROVE IInv'
  <2>1. PICK u : u = With(page.url, "range", preset)
    OBVIOUS
  <2>2. IsUrl(u) /\ Goto(u)
    BY <1>1, <1>3, <2>1, WithUrl DEF PickRange
  <2> QED
    BY <2>2, GotoKeeps
<1>4. ASSUME NEW dim \in Panels, NEW label \in Values, Select(dim, label) PROVE IInv'
  <2>1. PICK u : u = With(page.url, dim, label)
    OBVIOUS
  <2>2. IsUrl(u) /\ Goto(u)
    BY <1>1, <1>2, <1>4, <2>1, WithUrl DEF Select
  <2> QED
    BY <2>2, GotoKeeps
<1>5. ASSUME NEW key \in DOMAIN NoFilters, RemoveFilter(key) PROVE IInv'
  <2>1. PICK u : u = With(page.url, key, "")
    OBVIOUS
  <2>2. IsUrl(u) /\ Goto(u)
    BY <1>1, <1>2, <1>5, <2>1, WithUrl DEF RemoveFilter
  <2> QED
    BY <2>2, GotoKeeps
<1>6. ASSUME ClearFilters PROVE IInv'
  <2> DEFINE f == [key \in DOMAIN page.url.filters |->
                      IF key \in ActiveFilters THEN "" ELSE page.url.filters[key]]
  <2>1. PICK u : u = [page.url EXCEPT !.filters = f]
    OBVIOUS
  <2>2. f \in Filters
    BY <1>1, <1>2 DEF IsUrl, Filters
  <2>3. Goto(u)
    BY <1>6, <2>1 DEF ClearFilters
  <2> HIDE DEF f
  <2>4. IsUrl(u)
    BY <1>1, <2>1, <2>2 DEF IsUrl
  <2> QED
    BY <2>3, <2>4, GotoKeeps
<1> QED
  BY <1>3, <1>4, <1>5, <1>6

LEMMA OpenKeeps ==
    ASSUME IInv, NEW u \in Addresses, Open(u)
    PROVE  IInv'
<1>1. IsUrl(u)
  BY AnalyticsAssumption DEF IsUrl, Filters
<1>2. Request(u) /\ page' = BlankPage
  BY DEF Open
<1>3. /\ loads' \in 0 .. MaxLoads /\ LoadInv(rows', load', viewer')
      /\ UNCHANGED <<now, viewer, zone, rows, rollup>>
  BY <1>1, <1>2, RequestKeeps
<1>4. PageInv(rows, page', viewer)
  <2>1. NoFilters \in Filters
    BY AnalyticsAssumption DEF NoFilters, Filters
  <2>2. IsUrl([range |-> "", filters |-> NoFilters])
    <3> HIDE DEF NoFilters
    <3> QED
      BY <2>1 DEF IsUrl
  <2>3. -1 \in Int
    OBVIOUS
  <2>4. PageInv(rows, BlankPage, viewer)
    BY ONLY <2>2, <2>3 DEF PageInv, BlankPage
  <2> QED
    BY <1>2, <2>4
<1> QED
  BY <1>3, <1>4 DEF IInv, TableInv

\* The mouse.
LEMMA MouseKeeps ==
    ASSUME IInv, Hover \/ Leave
    PROVE  IInv'
<1>1. PICK i \in Int : page' = [page EXCEPT !.hover = i]
  <2>1. Pointed \subseteq Nat
    BY AnalyticsAssumption
  <2>2. CASE Hover
    BY <2>1, <2>2 DEF Hover
  <2>3. CASE Leave
    BY <2>3 DEF Leave
  <2> QED
    BY <2>2, <2>3
<1>2. UNCHANGED <<now, viewer, zone, rows, rollup, load, loads>>
  BY DEF Hover, Leave
<1>3. PageInv(rows, page', viewer)
  BY <1>1 DEF IInv, PageInv
<1> QED
  BY <1>2, <1>3 DEF IInv, TableInv

LEMMA InsertKeeps ==
    ASSUME IInv, NEW hit \in Hits, NEW t \in {now - 1, now}, Insert(hit, t)
    PROVE  IInv'
<1>1. /\ Len(rows) < MaxRows /\ rollup.done = Len(rows)
      /\ rows' = Append(rows, RowOf(hit, t))
      /\ UNCHANGED <<now, viewer, zone, rollup, page, load, loads>>
  BY DEF Insert
<1>2. RowOf(hit, t) \in Rows
  <2>1. t \in Int
    BY Bounds DEF IInv
  <2> QED
    BY <2>1 DEF Rows, AllHits
<1>3. rows \in Seq(Rows) /\ Len(rows) \in Nat
  BY UptoAll DEF IInv, TableInv
<1>4. /\ rows' \in Seq(Rows) /\ Len(rows') = Len(rows) + 1
      /\ Upto(rows', Len(rows)) = Upto(rows, Len(rows))
  <2>1. Len(rows) \in 0 .. Len(rows)
    BY <1>3
  <2> QED
    BY <1>1, <1>2, <1>3, <2>1, AppendProperties, AnsweredStays
<1>5. TableInv'
  BY <1>1, <1>3, <1>4, Bounds DEF IInv, TableInv
<1>6. (load # None => LoadInv(rows', load, viewer)) /\ PageInv(rows', page, viewer)
  BY <1>1, <1>2, <1>3, MoreRows DEF IInv
<1> QED
  BY <1>1, <1>5, <1>6 DEF IInv

LEMMA UpdateViewKeeps ==
    ASSUME IInv, UpdateView
    PROVE  IInv'
<1> DEFINE n == rollup.done
<1>1. /\ n < Len(rows)
      /\ rollup' = [done |-> n + 1, days |-> Merge(rollup.days, rows[n + 1])]
      /\ UNCHANGED <<now, viewer, zone, rows, page, load, loads>>
  BY DEF UpdateView
<1>2. rows \in Seq(Rows) /\ Len(rows) \in Nat /\ n \in Nat /\ n + 1 = Len(rows)
  BY <1>1, UptoAll DEF IInv, TableInv
<1>3. rows[n + 1] \in Rows
  BY <1>2, ElementOfSeq
<1>4. /\ Upto(rows, n) \in Seq(Rows) /\ Len(Upto(rows, n)) = n
      /\ \A i \in 1 .. n : Upto(rows, n)[i] = rows[i]
  <2>1. n \in 0 .. Len(rows)
    BY <1>2
  <2> QED
    BY <1>2, <2>1, UptoFacts
<1>5. Append(Upto(rows, n), rows[n + 1]) = Upto(rows, n + 1)
  <2>1. Upto(rows, n + 1) = rows
    BY <1>2, UptoAll
  <2> DEFINE m == Append(Upto(rows, n), rows[n + 1])
  <2>2. m \in Seq(Rows) /\ Len(m) = n + 1 /\ \A i \in 1 .. n + 1 : m[i] = rows[i]
    BY <1>2, <1>3, <1>4, AppendProperties
  <2> HIDE DEF m
  <2>3. m = rows
    BY <1>2, <2>2, SeqEqual
  <2> QED
    BY <2>1, <2>3 DEF m
<1>6. Merge(rollup.days, rows[n + 1]) = Rolled(Upto(rows, n + 1))
  BY <1>3, <1>4, <1>5, MergeRolled DEF IInv, TableInv
<1>7. TableInv'
  BY <1>1, <1>2, <1>6 DEF IInv, TableInv
<1> QED
  BY <1>1, <1>7 DEF IInv

LEMMA NextKeeps ==
    ASSUME IInv, [Next]_vars
    PROVE  IInv'
<1>1. ASSUME Tick PROVE IInv'
  <2>1. /\ now < MaxTime /\ now' = now + 1
        /\ UNCHANGED <<viewer, zone, rows, rollup, page, load, loads>>
    BY <1>1 DEF Tick
  <2>2. now' \in Start .. MaxTime
    BY <2>1, Bounds DEF IInv
  <2> QED
    BY <2>1, <2>2 DEF IInv, TableInv
<1>2. ASSUME UNCHANGED vars PROVE IInv'
  BY <1>2 DEF vars, IInv, TableInv
<1> QED
  BY <1>1, <1>2, OpenKeeps, NavigateKeeps, AnswerKeeps, AssembleKeeps, QueryFailsKeeps,
     MouseKeeps, InsertKeeps, UpdateViewKeeps DEF Next

\* What requests and pages hold are answers on the rows they had seen, and the rollup
\* is that of the rows its view has processed.
THEOREM Invariant == Spec => []IInv
<1>1. Init => IInv
  BY InitInv
<1>2. IInv /\ [Next]_vars => IInv'
  BY NextKeeps
<1> QED
  BY <1>1, <1>2, PTL DEF Spec

-----------------------------------------------------------------------------
(* The properties *)

\* The state keeps its shape, no panel is longer than its limit, and no card divides by
\* an empty window (queries.ts:139-175, StatCard.svelte:21-23).
THEOREM TypeCorrect == Spec => []TypeOK
<1>1. ASSUME IInv PROVE TypeOK
  <2>1. ASSUME page.data # None
        PROVE  /\ page.data.scope.preset \in DOMAIN Span
               /\ DOMAIN page.data.breakdowns = Panels
               /\ Cardinality(page.data.events) <= PanelLimit
    BY <1>1, <2>1 DEF IInv, PageInv, DataInv, ScopeInv
  <2>2. ASSUME page.data # None, NEW p \in Panels
        PROVE  Cardinality(page.data.breakdowns[p]) <= PanelLimit
    <3> DEFINE d == page.data
    <3>1. EmptyData(d) \/ FullData(rows, d)
      BY <1>1, <2>2 DEF IInv, PageInv, DataInv
    <3>2. CASE EmptyData(d)
      <4>1. d.breakdowns[p] = {} /\ PanelLimit \in Nat
        BY <3>2, AnalyticsAssumption DEF EmptyData
      <4> QED
        BY <4>1, FS_EmptySet
    <3>3. CASE FullData(rows, d)
      <4>1. Answered(rows, p, d.breakdowns[p], d.seen[p], d.scope)
        BY <3>3 DEF FullData
      <4>2. /\ d.seen[p] \in 0 .. Len(rows)
            /\ d.breakdowns[p] \in Breakdown(Upto(rows, d.seen[p]), d.scope, p)
        BY <4>1 DEF Answered
      <4>3. Upto(rows, d.seen[p]) \in Seq(Rows)
        BY <1>1, <4>2, UptoFacts DEF IInv, TableInv
      <4> QED
        BY <4>2, <4>3, PanelBound
    <3> QED
      BY <3>1, <3>2, <3>3
  <2>3. ASSUME NEW v, NEW p PROVE Delta(v, p) = None \/ Delta(v, p)[2] > 0
    BY DEF Delta
  <2>4. ASSUME NEW c \in DOMAIN Cards PROVE Cards[c] = None \/ Cards[c][2] > 0
    BY <2>3 DEF Cards
  <2>5. now \in Start .. MaxTime /\ loads \in 0 .. MaxLoads /\ page.hover \in Int
        /\ Len(rows) <= MaxRows /\ rollup.done \in {Len(rows) - 1, Len(rows)}
    BY <1>1 DEF IInv, TableInv, PageInv
  <2> QED
    BY <2>1, <2>2, <2>4, <2>5 DEF TypeOK
<1> QED
  BY <1>1, Invariant, PTL

\* The materialized view keeps the rollup equal to the summary of the rows it has
\* processed, whatever the order in which their times arrive (events_daily_mv).
RollupIsExact == rollup.days = Rolled(SubSeq(rows, 1, rollup.done))

THEOREM ViewIsExact == Spec => []RollupIsExact
<1>1. IInv => RollupIsExact
  BY DEF IInv, TableInv, RollupIsExact, Upto
<1> QED
  BY <1>1, Invariant, PTL

\* The chart adds up with the cards, from whichever table and at whatever moments
\* their queries are answered (queries.ts:57-113, index.ts:33-39).
THEOREM ChartAddsUp == Spec => []SeriesAddsUp
<1>1. ASSUME IInv, page.data # None PROVE SeriesAddsUp
  <2> DEFINE d == page.data
             ns == d.seen["series"]
             nt == d.seen["top"]
             came == ns - nt
             outside == Cardinality({i \in 1 .. ns :
                           /\ rows[i].site = Site
                           /\ rows[i].time \div Day \in DOMAIN d.series
                           /\ rows[i].time \notin d.scope.range.from .. d.scope.range.to - 1})
             slack == IF FromRollup(d.scope) THEN outside ELSE 0
             more == IF came > 0 THEN came ELSE 0
             fewer == IF came < 0 THEN -came ELSE 0
  <2>1. DataInv(rows, d, page.url, viewer) /\ rows \in Seq(Rows)
    BY <1>1 DEF IInv, PageInv, TableInv
  <2>2. /\ Total(d.series, "visitors") >= d.totals.visitors - fewer
        /\ Total(d.series, "pageviews") >= d.totals.pageviews - fewer
        /\ Total(d.series, "pageviews") <= d.totals.pageviews + more + slack
        /\ FromRollup(d.scope) => Total(d.series, "visitors") <= d.totals.visitors + more + slack
    <3>1. CASE FullData(rows, d)
      <4>1. /\ ns \in 0 .. Len(rows) /\ nt \in 0 .. Len(rows)
            /\ d.series = SeriesOf(Upto(rows, ns), d.scope)
            /\ [visitors |-> d.totals.visitors, pageviews |-> d.totals.pageviews] =
                  Count(Upto(rows, nt), BuildWhere(Upto(rows, nt), d.scope))
        BY <3>1 DEF FullData, Answered
      <4>2. Window(d.scope.range) /\ d.scope.zone \in Int
        BY <2>1 DEF DataInv, ScopeInv
      <4>3. LET top == Count(Upto(rows, nt), BuildWhere(Upto(rows, nt), d.scope)) IN
            top.visitors = d.totals.visitors /\ top.pageviews = d.totals.pageviews
        BY <4>1 DEF Count
      <4> HIDE DEF d, ns, nt
      <4> QED
        BY <2>1, <4>1, <4>2, <4>3, ChartAndCards
    <3>2. CASE EmptyData(d)
      <4>1. /\ ns = 0 /\ nt = 0 /\ d.series = <<>>
            /\ d.totals.visitors = 0 /\ d.totals.pageviews = 0
        BY <3>2 DEF EmptyData
      <4>2. Total(d.series, "visitors") = 0 /\ Total(d.series, "pageviews") = 0
        BY <4>1, EmptyTotal
      <4>3. slack = 0 /\ more = 0 /\ fewer = 0
        <5>1. outside = 0
          BY <4>1, FS_EmptySet
        <5> QED
          BY <4>1, <5>1
      <4> QED
        BY <4>1, <4>2, <4>3
    <3> QED
      BY <2>1, <3>1, <3>2 DEF DataInv
  <2> HIDE DEF d
  <2>3. /\ \A f \in {"visitors", "pageviews"} : Total(d.series, f) >= d.totals[f] - fewer
        /\ Total(d.series, "pageviews") <= d.totals.pageviews + more + slack
        /\ FromRollup(d.scope) => Total(d.series, "visitors") <= d.totals.visitors + more + slack
    BY <2>2
  <2> QED
    BY <2>3 DEF SeriesAddsUp, d
<1>2. IInv => SeriesAddsUp
  BY <1>1 DEF SeriesAddsUp
<1> QED
  BY <1>2, Invariant, PTL

\* A click on a row of a panel asks for the rows that it counted, whatever filters are
\* active already (queries.ts:116-123, filters.ts:8-18).
THEOREM ClicksAgree == Spec => []DrillDownAgrees
<1>1. ASSUME IInv, page.data # None, viewer = "owner", NEW dim \in Panels,
             NEW g \in page.data.breakdowns[dim]
      PROVE  LET d == page.data
                 seen == SubSeq(rows, 1, d.seen[dim])
                 clicked == With(page.url, dim, g.label)
                 scope == [ScopeOf(clicked) EXCEPT !.range = d.scope.range] IN
             Count(seen, BuildWhere(seen, scope)) =
                 [visitors |-> g.visitors, pageviews |-> g.pageviews]
  <2> DEFINE d == page.data
             seen == Upto(rows, d.seen[dim])
             clicked == With(page.url, dim, g.label)
             scope == [ScopeOf(clicked) EXCEPT !.range = d.scope.range]
  <2>1. /\ DataInv(rows, d, page.url, viewer) /\ IsUrl(page.url)
        /\ d.scope.filters \in Filters /\ d.scope.filters = page.url.filters
    BY <1>1 DEF IInv, PageInv, DataInv, ScopeInv
  <2>2. FullData(rows, d)
    BY <1>1, <2>1 DEF DataInv, EmptyData
  <2>3. d.breakdowns[dim] \in Breakdown(seen, d.scope, dim)
    BY <2>2 DEF FullData, Answered
  <2>4. dim # "range" /\ dim \in DOMAIN NoFilters
    <3>1. dim \in {"page", "source", "country", "browser", "os", "device"}
      BY AnalyticsAssumption
    <3> QED
      BY <3>1 DEF NoFilters
  <2>5. clicked.filters = [page.url.filters EXCEPT ![dim] = g.label]
    BY <2>1, <2>4 DEF With, IsUrl
  <2>6. scope.range = d.scope.range /\ scope.filters = clicked.filters
    BY <1>1 DEF ScopeOf
  <2> HIDE DEF d, seen, clicked, scope
  <2>7. Count(seen, BuildWhere(seen, scope)) =
            [visitors |-> g.visitors, pageviews |-> g.pageviews]
    <3>1. g \in d.breakdowns[dim]
      BY <1>1 DEF d
    <3>2. scope.filters = [d.scope.filters EXCEPT ![dim] = g.label]
      BY <2>1, <2>5, <2>6
    <3> QED
      BY <2>1, <2>3, <2>6, <3>1, <3>2, LineIsFilter DEF Filters
  <2> QED
    BY <2>7 DEF d, seen, clicked, scope, Upto
<1>2. IInv => DrillDownAgrees
  BY <1>1 DEF DrillDownAgrees
<1> QED
  BY <1>2, Invariant, PTL
=============================================================================
