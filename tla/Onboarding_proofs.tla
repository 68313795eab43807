-------------------------- MODULE Onboarding_proofs --------------------------
(***************************************************************************)
(* Theorems about Onboarding: its state has its shape, every stay of a     *)
(* visitor at a path is one pageview, and what the ingestor stores of a    *)
(* plain beacon is what the shared schema reads in it.                     *)
(***************************************************************************)
EXTENDS Onboarding, SequenceTheorems, FiniteSetTheorems, WellFoundedInduction, TLAPS

-----------------------------------------------------------------------------
(* The queue of the stub, drained *)

\* Induction over the natural numbers, for a set of them.
LEMMA NatSetInduction ==
    ASSUME NEW T, 0 \in T, \A n \in Nat : n \in T => n + 1 \in T
    PROVE  Nat \subseteq T
<1> DEFINE R == OpToRel(<, Nat)
<1>1. \A n \in Nat : <<n, n + 1>> \in R
  BY DEF OpToRel
<1>2. IsWellFoundedOn(R, Nat)
  BY NatLessThanWellFounded
<1> HIDE DEF R
<1> SUFFICES ASSUME Nat \ T # {} PROVE FALSE
  OBVIOUS
<1>3. PICK x \in Nat \ T : \A y \in Nat \ T : ~(<<y, x>> \in R)
  BY <1>2, WFMin
<1>4. x # 0
  BY <1>3
<1>5. x - 1 \in Nat /\ x - 1 \notin T /\ x = (x - 1) + 1
  BY <1>4
<1> QED
  BY <1>1, <1>3, <1>5

\* A set of natural numbers that is not empty has a least one.
LEMMA MinIsLeast ==
    ASSUME NEW s, s \subseteq Nat, s # {}
    PROVE  Min(s) \in s /\ \A y \in s : Min(s) <= y
<1> DEFINE R == OpToRel(<, Nat)
<1>1. \A x, y \in Nat : x < y => <<x, y>> \in R
  BY DEF OpToRel
<1>2. IsWellFoundedOn(R, Nat)
  BY NatLessThanWellFounded
<1> HIDE DEF R
<1>3. PICK x \in s : \A y \in s : ~(<<y, x>> \in R)
  BY <1>2, WFMin
<1>4. ASSUME NEW y \in s PROVE x <= y
  <2>1. x \in Nat /\ y \in Nat /\ ~(y < x)
    BY <1>1, <1>3
  <2> QED
    BY <2>1
<1>5. \E m \in s : \A y \in s : m <= y
  BY <1>4
<1>6. Min(s) \in s /\ \A y \in s : Min(s) <= y
  BY <1>5 DEF Min
<1> QED
  BY <1>6

\* A set of numbers up to n that is not empty has a greatest one.
LEMMA MaxIsGreatest ==
    ASSUME NEW n \in Nat, NEW s \in SUBSET (1 .. n), s # {}
    PROVE  Max(s) \in s /\ \A y \in s : Max(s) >= y
<1> DEFINE far == {n - x : x \in s}
<1>1. \A x \in s : x \in Int /\ n - x \in Nat /\ n - x \in far
  OBVIOUS
<1>2. far \subseteq Nat /\ far # {}
  BY <1>1
<1>3. PICK x \in s : Min(far) = n - x
  <2>1. Min(far) \in far
    <3> HIDE DEF far
    <3> QED
      BY <1>2, MinIsLeast
  <2> QED
    BY <2>1
<1>4. \A y \in s : n - x <= n - y
  <2>1. \A y \in far : Min(far) <= y
    <3> HIDE DEF far
    <3> QED
      BY <1>2, MinIsLeast
  <2> HIDE DEF far
  <2> QED
    BY <1>1, <1>3, <2>1
<1>5. \A y \in s : x >= y
  BY <1>1, <1>4
<1> QED
  BY <1>5 DEF Max

\* The function by which FoldLeft drains the queue.
DrainStep(iter, s) == IF s = {} THEN tracker ELSE Seyr(iter[s \ {Max(s)}], queue[Max(s)])
IsDrain(iter, S) == iter = [s \in SUBSET S |-> DrainStep(iter, s)]

LEMMA DrainDef ==
    FoldLeft(Seyr, tracker, queue) = (CHOOSE iter : IsDrain(iter, DOMAIN queue))[DOMAIN queue]
BY DEF FoldLeft, MapThenFoldSet, IsDrain, DrainStep

\* The recursion it is defined by has a solution.
LEMMA DrainExists ==
    ASSUME NEW n \in Nat
    PROVE  \E iter : IsDrain(iter, 1 .. n)
<1> DEFINE T == {k \in Nat : \E g : IsDrain(g, 1 .. k)}
<1>1. 0 \in T
  <2> DEFINE g == [s \in SUBSET (1 .. 0) |-> tracker]
  <2>1. \A s \in SUBSET (1 .. 0) : s = {}
    OBVIOUS
  <2>2. g = [s \in SUBSET (1 .. 0) |-> DrainStep(g, s)]
    BY <2>1 DEF DrainStep
  <2> QED
    BY <2>2 DEF IsDrain
<1>2. ASSUME NEW k \in Nat, k \in T PROVE k + 1 \in T
  <2>1. PICK g : IsDrain(g, 1 .. k)
    BY <1>2
  <2>2. \A s \in SUBSET (1 .. k) : g[s] = DrainStep(g, s)
    BY <2>1 DEF IsDrain
  <2> DEFINE h == [s \in SUBSET (1 .. k + 1) |->
                     IF s \in SUBSET (1 .. k) THEN g[s] ELSE DrainStep(g, s)]
  <2>3. ASSUME NEW s \in SUBSET (1 .. k + 1) PROVE h[s] = DrainStep(h, s)
    <3>1. h[s] = DrainStep(g, s)
      BY <2>2
    <3>2. ASSUME s # {} PROVE s \ {Max(s)} \in SUBSET (1 .. k)
      <4>1. k + 1 \in Nat
        OBVIOUS
      <4>2. Max(s) \in s /\ \A y \in s : Max(s) >= y
        BY <3>2, <4>1, MaxIsGreatest
      <4>3. ASSUME NEW y \in s, y # Max(s) PROVE y \in 1 .. k
        <5>1. y \in 1 .. k + 1 /\ Max(s) \in 1 .. k + 1 /\ Max(s) >= y
          BY <4>2
        <5> QED
          BY <4>3, <5>1
      <4> QED
        BY <4>3
    <3>3. ASSUME s # {} PROVE h[s \ {Max(s)}] = g[s \ {Max(s)}]
      BY <3>2, <3>3
    <3> HIDE DEF h
    <3> QED
      BY <3>1, <3>3 DEF DrainStep
  <2>4. h = [s \in SUBSET (1 .. k + 1) |-> DrainStep(h, s)]
    <3>1. h = [s \in SUBSET (1 .. k + 1) |-> h[s]]
      OBVIOUS
    <3> HIDE DEF h
    <3> QED
      BY <2>3, <3>1
  <2> HIDE DEF h
  <2>5. k + 1 \in Nat
    OBVIOUS
  <2> QED
    BY <2>4, <2>5 DEF IsDrain
<1> HIDE DEF T
<1>3. n \in T
  BY <1>1, <1>2, NatSetInduction
<1> QED
  BY <1>3 DEF T
-----------------------------------------------------------------------------
(* What the closure's functions do to a page's stay *)

Closures == [lastPath : Paths \cup {NoPath}, sent : Seq(Beacons)]

\* The pageviews handed to the browser between two states of the closure.
Pageviews(old, t) == {i \in Len(old.sent) + 1 .. Len(t.sent) : t.sent[i].name = Pageview}

\* In a page at p: the path is seen, which takes one pageview unless the page is
\* ignored, or nothing is said of it.
Reported(old, t, p) ==
    /\ t \in Closures
    /\ Len(old.sent) <= Len(t.sent)
    /\ t.lastPath \in {old.lastPath, p}
    /\ IF t.lastPath = p /\ old.lastPath # p /\ ~ShouldIgnore(p)
       THEN \E i \in Int : Pageviews(old, t) = {i}
       ELSE Pageviews(old, t) = {}

LEMMA NothingReported ==
    ASSUME NEW old \in Closures, NEW p
    PROVE  Reported(old, old, p)
<1>1. Len(old.sent) \in Nat
  BY LenProperties DEF Closures
<1>2. Pageviews(old, old) = {}
  BY <1>1 DEF Pageviews
<1> QED
  BY <1>1, <1>2 DEF Reported

\* A beacon more.
WithBeacon(t, name, p) == [t EXCEPT !.sent = Append(@, [name |-> name, path |-> p])]

LEMMA SentOnce ==
    ASSUME NEW old \in Closures, NEW t \in Closures, Len(old.sent) <= Len(t.sent),
           NEW name \in Calls, NEW p \in Paths, NEW u, u = WithBeacon(t, name, p)
    PROVE  /\ u \in Closures /\ u.lastPath = t.lastPath
           /\ Len(u.sent) = Len(t.sent) + 1
           /\ Pageviews(old, u) = Pageviews(old, t)
                 \cup (IF name = Pageview THEN {Len(t.sent) + 1} ELSE {})
<1> DEFINE b == [name |-> name, path |-> p]
<1>1. b \in Beacons /\ b.name = name
  BY DEF Beacons
<1>2. t.sent \in Seq(Beacons) /\ Len(old.sent) \in Nat /\ Len(t.sent) \in Nat
  BY LenProperties DEF Closures
<1>3. u \in Closures /\ u.lastPath = t.lastPath /\ u.sent = Append(t.sent, b)
  BY <1>1, <1>2, AppendProperties DEF Closures, WithBeacon
<1> HIDE DEF b
<1>4. /\ Len(u.sent) = Len(t.sent) + 1
      /\ u.sent[Len(t.sent) + 1] = b
      /\ \A i \in 1 .. Len(t.sent) : u.sent[i] = t.sent[i]
  BY <1>1, <1>2, <1>3, AppendProperties
<1>5. ASSUME NEW i
      PROVE  i \in Pageviews(old, u) <=>
                i \in Pageviews(old, t) \cup (IF name = Pageview THEN {Len(t.sent) + 1} ELSE {})
  <2>1. CASE i \in Len(old.sent) + 1 .. Len(t.sent)
    <3>1. i \in 1 .. Len(t.sent) /\ i \in Len(old.sent) + 1 .. Len(u.sent) /\ i # Len(t.sent) + 1
      BY <1>2, <1>4, <2>1
    <3> QED
      BY <1>4, <2>1, <3>1 DEF Pageviews
  <2>2. CASE i = Len(t.sent) + 1
    <3>1. i \in Len(old.sent) + 1 .. Len(u.sent) /\ i \notin Len(old.sent) + 1 .. Len(t.sent)
      BY <1>2, <1>4, <2>2
    <3> QED
      BY <1>1, <1>4, <2>2, <3>1 DEF Pageviews
  <2>3. CASE i \notin Len(old.sent) + 1 .. Len(t.sent) /\ i # Len(t.sent) + 1
    <3>1. i \notin Len(old.sent) + 1 .. Len(u.sent)
      BY <1>2, <1>4, <2>3
    <3> QED
      BY <2>3, <3>1 DEF Pageviews
  <2> QED
    BY <2>1, <2>2, <2>3
<1> QED
  BY <1>3, <1>4, <1>5

\* TrackPageview sees the path; another event changes nothing.
LEMMA PageviewReports ==
    ASSUME NEW old \in Closures, NEW p \in Paths, NEW t, Reported(old, t, p)
    PROVE  Reported(old, TrackPageview(t, p), p) /\ TrackPageview(t, p).lastPath = p
<1>1. CASE p = t.lastPath
  BY <1>1 DEF TrackPageview
<1>2. CASE p # t.lastPath
  <2> DEFINE s == [t EXCEPT !.lastPath = p]
             u == WithBeacon(s, Pageview, p)
  <2>1. /\ s \in Closures /\ s.lastPath = p /\ s.sent = t.sent
        /\ t.lastPath = old.lastPath /\ Len(old.sent) <= Len(s.sent)
        /\ Pageviews(old, t) = {} /\ Pageviews(old, s) = {}
    BY <1>2 DEF Reported, Closures, Pageviews
  <2>2. TrackPageview(t, p) = IF ShouldIgnore(p) THEN s ELSE u
    BY <1>2 DEF TrackPageview, Send, WithBeacon
  <2>3. Len(s.sent) \in Nat /\ Len(old.sent) \in Nat
    BY <2>1, LenProperties DEF Closures
  <2>4. CASE ShouldIgnore(p)
    <3> HIDE DEF s, u
    <3> QED
      BY <2>1, <2>2, <2>4 DEF Reported
  <2>5. CASE ~ShouldIgnore(p)
    <3> HIDE DEF s
    <3>0. Pageview \in Calls
      BY DEF Calls
    <3>1. /\ u \in Closures /\ u.lastPath = p /\ Len(u.sent) = Len(s.sent) + 1
          /\ Pageviews(old, u) = {} \cup {Len(s.sent) + 1}
      BY <2>1, <3>0, SentOnce
    <3> HIDE DEF u
    <3>2. Len(old.sent) <= Len(u.sent) /\ \E i \in Int : Pageviews(old, u) = {i}
      BY <2>1, <2>3, <3>1
    <3> QED
      BY <1>2, <2>1, <2>2, <2>5, <3>1, <3>2 DEF Reported
  <2> QED
    BY <2>4, <2>5
<1> QED
  BY <1>1, <1>2

LEMMA EventReportsNothing ==
    ASSUME NEW old \in Closures, NEW p \in Paths, NEW t, Reported(old, t, p), NEW name \in Events
    PROVE  Reported(old, Send(t, name, p), p) /\ Send(t, name, p).lastPath = t.lastPath
<1>1. CASE ShouldIgnore(p)
  BY <1>1 DEF Send
<1>2. CASE ~ShouldIgnore(p)
  <2> DEFINE u == WithBeacon(t, name, p)
  <2>1. Send(t, name, p) = u
    BY <1>2 DEF Send, WithBeacon
  <2>2. name \in Calls /\ name # Pageview
    BY TrackerAssumption DEF Calls, Pageview
  <2>3. t \in Closures /\ Len(old.sent) <= Len(t.sent)
    BY DEF Reported
  <2>4. Len(t.sent) \in Nat /\ Len(old.sent) \in Nat
    BY <2>3, LenProperties DEF Closures
  <2>5. /\ u \in Closures /\ u.lastPath = t.lastPath /\ Len(u.sent) = Len(t.sent) + 1
        /\ Pageviews(old, u) = Pageviews(old, t)
              \cup (IF name = Pageview THEN {Len(t.sent) + 1} ELSE {})
    BY <2>2, <2>3, SentOnce
  <2> HIDE DEF u
  <2>7. Pageviews(old, u) = Pageviews(old, t)
    BY <2>2, <2>5
  <2>6. Len(old.sent) <= Len(u.sent)
    BY <2>3, <2>4, <2>5
  <2> QED
    BY <2>1, <2>5, <2>6, <2>7 DEF Reported
<1> QED
  BY <1>1, <1>2
-----------------------------------------------------------------------------
(* Stays *)

\* The last path is the page's once its stay has been seen, and then only; a stay has
\* as many pageviews as it should; the ones to come have none.
StayInv ==
    /\ stay <= moves + 1
    /\ tracker.lastPath \in {NoPath, path}
    /\ (tracker.lastPath = path) = (watched[stay] # "no")
    /\ ~running => tracker.lastPath = NoPath /\ ~deferred
    /\ deferred => tab = "prerender"
    /\ \A s \in Stays : reports[s] = IF watched[s] = "seen" THEN 1 ELSE 0
    /\ \A s \in Stays : s > stay => watched[s] = "no"

\* What Leaves leaves, when the closure has done what it was asked to.
LEMMA LeavesReported ==
    ASSUME TrackerTypeOK, StayInv, NEW t, NEW s \in Stays, NEW p \in Paths,
           NEW asked \in BOOLEAN, Leaves(t, s, p, asked), Reported(tracker, t, p),
           (tracker.lastPath = p) = (watched[s] # "no"),
           (t.lastPath = p) = (tracker.lastPath = p \/ asked)
    PROVE  /\ tracker' \in Closures /\ tracker' = t
           /\ Len(tracker.sent) <= Len(tracker'.sent)
           /\ watched' \in [Stays -> {"no", "seen", "ignored"}]
           /\ reports' \in [Stays -> 0 .. MaxMoves + MaxCalls + 1]
           /\ \A r \in Stays : reports'[r] = IF watched'[r] = "seen" THEN 1 ELSE 0
           /\ (t.lastPath = p) = (watched'[s] # "no")
           /\ \A r \in Stays : r # s => watched'[r] = watched[r]
<1> DEFINE n == Cardinality(Pageviews(tracker, t))
           w == IF watched[s] # "no" \/ ~asked THEN watched[s]
                ELSE IF ShouldIgnore(p) THEN "ignored" ELSE "seen"
<1>1. /\ tracker' = t
      /\ reports' = [reports EXCEPT ![s] = @ + n]
      /\ watched' = [watched EXCEPT ![s] = w]
  BY DEF Leaves, Pageviews
<1>2. t \in Closures /\ Len(tracker.sent) <= Len(t.sent)
  BY DEF Reported
<1>3. IF t.lastPath = p /\ tracker.lastPath # p /\ ~ShouldIgnore(p) THEN n = 1 ELSE n = 0
  <2>1. CASE t.lastPath = p /\ tracker.lastPath # p /\ ~ShouldIgnore(p)
    <3>1. PICK i \in Int : Pageviews(tracker, t) = {i}
      BY <2>1 DEF Reported
    <3> QED
      BY <2>1, <3>1, FS_Singleton
  <2>2. CASE ~(t.lastPath = p /\ tracker.lastPath # p /\ ~ShouldIgnore(p))
    <3>1. Pageviews(tracker, t) = {}
      BY <2>2 DEF Reported
    <3> QED
      BY <2>2, <3>1, FS_EmptySet
  <2> QED
    BY <2>1, <2>2
<1>4. /\ watched \in [Stays -> {"no", "seen", "ignored"}]
      /\ reports \in [Stays -> 0 .. MaxMoves + MaxCalls + 1]
      /\ \A r \in Stays : reports[r] = IF watched[r] = "seen" THEN 1 ELSE 0
      /\ MaxMoves \in Nat /\ MaxCalls \in Nat
  BY TrackerAssumption DEF TrackerTypeOK, StayInv
<1> HIDE DEF n
<1>5. /\ w \in {"no", "seen", "ignored"}
      /\ (t.lastPath = p) = (w # "no")
      /\ reports[s] + n = IF w = "seen" THEN 1 ELSE 0
  <2>1. CASE watched[s] # "no"
    BY <1>3, <1>4, <2>1
  <2>2. CASE watched[s] = "no" /\ ~asked
    BY <1>3, <1>4, <2>2
  <2>3. CASE watched[s] = "no" /\ asked
    <3>1. reports[s] = 0 /\ tracker.lastPath # p /\ t.lastPath = p
      BY <1>4, <2>3
    <3>2. CASE ShouldIgnore(p)
      BY <1>3, <2>3, <3>1, <3>2
    <3>3. CASE ~ShouldIgnore(p)
      BY <1>3, <2>3, <3>1, <3>3
    <3> QED
      BY <3>2, <3>3
  <2> QED
    BY <2>1, <2>2, <2>3
<1> HIDE DEF w
<1>6. /\ watched' \in [Stays -> {"no", "seen", "ignored"}] /\ watched'[s] = w
      /\ \A r \in Stays : r # s => watched'[r] = watched[r]
  BY <1>1, <1>4, <1>5
<1>7. \A r \in Stays : reports'[r] = IF watched'[r] = "seen" THEN 1 ELSE 0
  <2>1. reports'[s] = reports[s] + n
    BY <1>1, <1>4
  <2>2. \A r \in Stays : r # s => reports'[r] = reports[r]
    BY <1>1, <1>4
  <2> QED
    BY <1>4, <1>5, <1>6, <2>1, <2>2
<1>8. reports' \in [Stays -> 0 .. MaxMoves + MaxCalls + 1]
  <2>1. \A r \in Stays : reports'[r] \in 0 .. MaxMoves + MaxCalls + 1
    BY <1>4, <1>7
  <2>2. reports' = [r \in Stays |-> reports'[r]]
    BY <1>1, <1>4
  <2> QED
    BY <2>1, <2>2
<1> QED
  BY <1>1, <1>2, <1>5, <1>6, <1>7, <1>8

\* seyr() for one call.
LEMMA SeyrReports ==
    ASSUME NEW old \in Closures, path \in Paths, NEW t, Reported(old, t, path), NEW call \in Calls
    PROVE  /\ Reported(old, Seyr(t, call), path)
           /\ (Seyr(t, call).lastPath = path) = (t.lastPath = path \/ call = Pageview)
<1>1. CASE call = Pageview
  BY <1>1, PageviewReports DEF Seyr
<1>2. CASE call # Pageview
  <2>1. call \in Events /\ Seyr(t, call) = Send(t, call, path)
    BY <1>2 DEF Calls, Seyr
  <2> QED
    BY <1>2, <2>1, EventReportsNothing
<1> QED
  BY <1>1, <1>2

\* The whole queue.
LEMMA DrainReports ==
    ASSUME tracker \in Closures, path \in Paths, tracker.lastPath # path, queue \in Seq(Calls)
    PROVE  LET drained == FoldLeft(Seyr, tracker, queue) IN
           /\ Reported(tracker, drained, path)
           /\ (drained.lastPath = path) = Contains(queue, Pageview)
<1>1. Len(queue) \in Nat /\ DOMAIN queue = 1 .. Len(queue)
  BY LenProperties
<1> DEFINE iter == CHOOSE f : IsDrain(f, DOMAIN queue)
<1>2. IsDrain(iter, DOMAIN queue)
  BY <1>1, DrainExists
<1> HIDE DEF iter
<1>3. iter[{}] = tracker
  BY <1>2 DEF IsDrain, DrainStep
<1>4. ASSUME NEW k \in Nat, k + 1 <= Len(queue)
      PROVE  iter[1 .. k + 1] = Seyr(iter[1 .. k], queue[k + 1])
  <2>1. 1 .. k + 1 \in SUBSET DOMAIN queue /\ 1 .. k + 1 # {} /\ k + 1 \in Nat
    <3>1. k + 1 \in 1 .. k + 1 /\ k + 1 \in Nat
      OBVIOUS
    <3>2. \A i \in 1 .. k + 1 : i \in 1 .. Len(queue)
      BY <1>1, <1>4
    <3> QED
      BY <1>1, <3>1, <3>2
  <2>2. Max(1 .. k + 1) \in 1 .. k + 1 /\ \A y \in 1 .. k + 1 : Max(1 .. k + 1) >= y
    BY <2>1, MaxIsGreatest
  <2>3. Max(1 .. k + 1) = k + 1
    BY <2>1, <2>2
  <2>4. (1 .. k + 1) \ {k + 1} = 1 .. k
    OBVIOUS
  <2>5. iter[1 .. k + 1] = DrainStep(iter, 1 .. k + 1)
    BY <1>2, <2>1 DEF IsDrain
  <2> QED
    BY <2>1, <2>3, <2>4, <2>5 DEF DrainStep
<1> DEFINE Good(k) == /\ Reported(tracker, iter[1 .. k], path)
                      /\ (iter[1 .. k].lastPath = path) = \E i \in 1 .. k : queue[i] = Pageview
           T == {k \in Nat : k <= Len(queue) => Good(k)}
<1>5. 0 \in T
  <2>1. 1 .. 0 = {}
    OBVIOUS
  <2>2. Reported(tracker, tracker, path)
    BY NothingReported
  <2> QED
    BY <1>3, <2>1, <2>2
<1>6. ASSUME NEW k \in Nat, k \in T PROVE k + 1 \in T
  <2> SUFFICES ASSUME k + 1 <= Len(queue) PROVE Good(k + 1)
    <3>1. k + 1 \in Nat
      OBVIOUS
    <3> HIDE DEF Good
    <3> QED
      BY <3>1
  <2>0. k <= Len(queue) /\ k + 1 \in 1 .. Len(queue)
    BY <1>1
  <2>1. Good(k)
    <3> HIDE DEF Good
    <3> QED
      BY <1>6, <2>0
  <2>2. queue[k + 1] \in Calls
    BY <1>1, <2>0, ElementOfSeq
  <2>3. /\ Reported(tracker, Seyr(iter[1 .. k], queue[k + 1]), path)
        /\ (Seyr(iter[1 .. k], queue[k + 1]).lastPath = path)
              = (iter[1 .. k].lastPath = path \/ queue[k + 1] = Pageview)
    BY <2>1, <2>2, SeyrReports
  <2>4. (\E i \in 1 .. k + 1 : queue[i] = Pageview)
           = ((\E i \in 1 .. k : queue[i] = Pageview) \/ queue[k + 1] = Pageview)
    <3>1. \A i : i \in 1 .. k + 1 <=> i \in 1 .. k \/ i = k + 1
      OBVIOUS
    <3> QED
      BY <3>1
  <2>5. iter[1 .. k + 1] = Seyr(iter[1 .. k], queue[k + 1])
    BY <1>4
  <2> QED
    BY <2>1, <2>3, <2>4, <2>5
<1> HIDE DEF T
<1>7. Len(queue) \in T
  BY <1>1, <1>5, <1>6, NatSetInduction
<1>8. Good(Len(queue))
  <2> HIDE DEF Good
  <2>1. Len(queue) <= Len(queue)
    BY <1>1
  <2> QED
    BY <1>7, <2>1 DEF T
<1>9. FoldLeft(Seyr, tracker, queue) = iter[1 .. Len(queue)]
  BY <1>1, DrainDef DEF iter
<1> QED
  BY <1>8, <1>9 DEF Contains
-----------------------------------------------------------------------------
(* The script's steps *)

TrackerInv == TrackerTypeOK /\ StayInv
MoreSent == Len(tracker.sent) <= Len(tracker'.sent)

\* The facts of the invariant that every step needs.
LEMMA TrackerFacts ==
    ASSUME TrackerInv
    PROVE  /\ tracker \in Closures /\ path \in Paths /\ stay \in Stays /\ queue \in Seq(Calls)
           /\ (tracker.lastPath = path) = (watched[stay] # "no")
           /\ path # NoPath
           /\ Len(tracker.sent) \in Nat
<1>1. tracker \in Closures
  BY DEF TrackerInv, TrackerTypeOK, Closures
<1> QED
  BY <1>1, TrackerAssumption, LenProperties DEF TrackerInv, TrackerTypeOK, StayInv, Closures

\* The stay and the page's path do not change; the closure does what Leaves says of t.
LEMMA LeavesKeepsInv ==
    ASSUME TrackerInv, NEW t, NEW asked \in BOOLEAN, Leaves(t, stay, path, asked),
           Reported(tracker, t, path),
           (t.lastPath = path) = (tracker.lastPath = path \/ asked),
           UNCHANGED <<path, stay, optedOut>>,
           moves' \in moves .. MaxMoves,
           tab' \in Tabs, calls' \in 0 .. MaxCalls, tabs' \in 0 .. MaxTabs,
           running' \in BOOLEAN, deferred' \in BOOLEAN, queue' \in Seq(Calls),
           running' => queue' = <<>>,
           running', deferred' => tab' = "prerender"
    PROVE  TrackerInv' /\ MoreSent
<1>1. /\ tracker \in Closures /\ path \in Paths /\ stay \in Stays
      /\ (tracker.lastPath = path) = (watched[stay] # "no")
  BY TrackerFacts
<1>2. TrackerTypeOK /\ StayInv
  BY DEF TrackerInv
<1>3. PICK s \in Stays : s = stay
  BY <1>1
<1>4. PICK p \in Paths : p = path
  BY <1>1
<1>5. /\ Leaves(t, s, p, asked) /\ Reported(tracker, t, p)
      /\ (tracker.lastPath = p) = (watched[s] # "no")
      /\ (t.lastPath = p) = (tracker.lastPath = p \/ asked)
  BY <1>1, <1>3, <1>4
<1>6. /\ tracker' \in Closures /\ tracker' = t
      /\ Len(tracker.sent) <= Len(tracker'.sent)
      /\ watched' \in [Stays -> {"no", "seen", "ignored"}]
      /\ reports' \in [Stays -> 0 .. MaxMoves + MaxCalls + 1]
      /\ \A r \in Stays : reports'[r] = IF watched'[r] = "seen" THEN 1 ELSE 0
      /\ (t.lastPath = p) = (watched'[s] # "no")
      /\ \A r \in Stays : r # s => watched'[r] = watched[r]
  BY <1>2, <1>5, LeavesReported
<1>7. moves \in Nat /\ MaxMoves \in Nat /\ moves' \in 0 .. MaxMoves /\ moves <= moves'
  BY <1>2, TrackerAssumption DEF TrackerTypeOK
<1>8. TrackerTypeOK'
  BY <1>2, <1>6, <1>7 DEF TrackerTypeOK, Closures
<1>9. StayInv'
  <2>1. stay' <= moves' + 1
    BY <1>1, <1>2, <1>7 DEF StayInv, Stays
  <2>2. t.lastPath \in {NoPath, path}
    BY <1>2, <1>4, <1>5 DEF Reported, StayInv
  <2>3. \A r \in Stays : r > stay => watched'[r] = "no"
    BY <1>1, <1>2, <1>3, <1>6 DEF StayInv, Stays
  <2> QED
    BY <1>3, <1>4, <1>6, <2>1, <2>2, <2>3 DEF StayInv
<1> QED
  BY <1>6, <1>8, <1>9 DEF TrackerInv, MoreSent

LEMMA CallSeyrKeeps ==
    ASSUME TrackerInv, NEW call \in Calls, CallSeyr(call)
    PROVE  TrackerInv' /\ MoreSent
<1>1. /\ tracker \in Closures /\ path \in Paths /\ stay \in Stays /\ queue \in Seq(Calls)
      /\ Len(tracker.sent) \in Nat
  BY TrackerFacts
<1>2. /\ calls' = calls + 1 /\ calls < MaxCalls
      /\ UNCHANGED <<path, tab, optedOut, moves, tabs, running, deferred, stay>>
  BY DEF CallSeyr
<1>3. calls' \in 0 .. MaxCalls
  BY <1>2, TrackerAssumption DEF TrackerInv, TrackerTypeOK
<1>4. CASE running
  <2>1. Leaves(Seyr(tracker, call), stay, path, call = Pageview) /\ UNCHANGED queue
    BY <1>4 DEF CallSeyr
  <2>2. /\ Reported(tracker, Seyr(tracker, call), path)
        /\ (Seyr(tracker, call).lastPath = path) = (tracker.lastPath = path \/ call = Pageview)
    BY <1>1, NothingReported, SeyrReports
  <2>3. PICK t : t = Seyr(tracker, call)
    OBVIOUS
  <2>4. PICK asked \in BOOLEAN : asked = (call = Pageview)
    OBVIOUS
  <2>5. /\ Leaves(t, stay, path, asked) /\ Reported(tracker, t, path)
        /\ (t.lastPath = path) = (tracker.lastPath = path \/ asked)
    BY <2>1, <2>2, <2>3, <2>4
  <2>6. /\ moves' \in moves .. MaxMoves /\ tab' \in Tabs /\ tabs' \in 0 .. MaxTabs
        /\ running' \in BOOLEAN /\ deferred' \in BOOLEAN /\ queue' \in Seq(Calls)
        /\ (running' => queue' = <<>>) /\ running' /\ (deferred' => tab' = "prerender")
    BY <1>1, <1>2, <1>4, <2>1, TrackerAssumption DEF TrackerInv, TrackerTypeOK, StayInv
  <2> QED
    BY <1>2, <1>3, <2>5, <2>6, LeavesKeepsInv
<1>5. CASE ~running
  <2>1. queue' = Append(queue, call) /\ UNCHANGED <<tracker, reports, watched>>
    BY <1>5 DEF CallSeyr
  <2>2. queue' \in Seq(Calls)
    BY <1>1, <2>1, AppendProperties
  <2>3. TrackerTypeOK'
    BY <1>2, <1>3, <1>5, <2>1, <2>2 DEF TrackerInv, TrackerTypeOK
  <2>4. StayInv'
    BY <1>2, <2>1 DEF TrackerInv, StayInv
  <2> QED
    BY <1>1, <2>1, <2>3, <2>4 DEF TrackerInv, MoreSent
<1> QED
  BY <1>4, <1>5

LEMMA RunScriptKeeps ==
    ASSUME TrackerInv, RunScript
    PROVE  TrackerInv' /\ MoreSent
<1> DEFINE drained == FoldLeft(Seyr, tracker, queue)
<1>1. /\ tracker \in Closures /\ path \in Paths /\ stay \in Stays /\ queue \in Seq(Calls)
      /\ path # NoPath
  BY TrackerFacts
<1>2. /\ ~running /\ running' = TRUE /\ queue' = <<>> /\ deferred' = (tab = "prerender")
      /\ UNCHANGED <<path, tab, optedOut, moves, calls, tabs, stay>>
      /\ IF tab = "prerender"
         THEN Leaves(drained, stay, path, Contains(queue, Pageview))
         ELSE Leaves(TrackPageview(drained, path), stay, path, TRUE)
  BY DEF RunScript, pageVars
<1>3. tracker.lastPath # path
  BY <1>1, <1>2 DEF TrackerInv, StayInv
<1>4. Reported(tracker, drained, path) /\ (drained.lastPath = path) = Contains(queue, Pageview)
  BY <1>1, <1>3, DrainReports
<1> HIDE DEF drained
<1>5. /\ Reported(tracker, TrackPageview(drained, path), path)
      /\ TrackPageview(drained, path).lastPath = path
  BY <1>1, <1>4, PageviewReports
<1>6. PICK t \in Closures, asked \in BOOLEAN :
         /\ Leaves(t, stay, path, asked) /\ Reported(tracker, t, path)
         /\ (t.lastPath = path) = (tracker.lastPath = path \/ asked)
  <2>1. CASE tab = "prerender"
    <3>1. PICK t : t = drained
      OBVIOUS
    <3>2. PICK asked \in BOOLEAN : asked = Contains(queue, Pageview)
      BY DEF Contains
    <3>3. Leaves(t, stay, path, asked)
      BY <1>2, <2>1, <3>1, <3>2
    <3>4. Reported(tracker, t, path) /\ (t.lastPath = path) = (tracker.lastPath = path \/ asked)
      BY <1>3, <1>4, <3>1, <3>2
    <3>5. t \in Closures
      BY <3>4 DEF Reported
    <3> QED
      BY <3>3, <3>4, <3>5
  <2>2. CASE tab # "prerender"
    <3>1. PICK t : t = TrackPageview(drained, path)
      OBVIOUS
    <3>2. Leaves(t, stay, path, TRUE)
      BY <1>2, <2>2, <3>1
    <3>3. Reported(tracker, t, path) /\ (t.lastPath = path) = (tracker.lastPath = path \/ TRUE)
      BY <1>5, <3>1
    <3>4. t \in Closures
      BY <3>3 DEF Reported
    <3> QED
      BY <3>2, <3>3, <3>4
  <2> QED
    BY <2>1, <2>2
<1>7. /\ moves' \in moves .. MaxMoves /\ tab' \in Tabs /\ tabs' \in 0 .. MaxTabs
      /\ calls' \in 0 .. MaxCalls
      /\ running' \in BOOLEAN /\ deferred' \in BOOLEAN /\ queue' \in Seq(Calls)
      /\ (running' => queue' = <<>>) /\ running' /\ (deferred' => tab' = "prerender")
  BY <1>2, EmptySeq, TrackerAssumption DEF TrackerInv, TrackerTypeOK
<1> QED
  BY <1>2, <1>6, <1>7, LeavesKeepsInv

LEMMA NavigateKeeps ==
    ASSUME TrackerInv, NEW p \in Paths, Navigate(p)
    PROVE  TrackerInv' /\ MoreSent
<1>1. /\ tracker \in Closures /\ path \in Paths /\ stay \in Stays /\ queue \in Seq(Calls)
      /\ path # NoPath /\ Len(tracker.sent) \in Nat
      /\ (tracker.lastPath = path) = (watched[stay] # "no")
  BY TrackerFacts
<1>2. /\ moves < MaxMoves /\ moves' = moves + 1 /\ path' = p
      /\ stay' = IF p = path THEN stay ELSE stay + 1
      /\ UNCHANGED <<tab, optedOut, calls, tabs, running, queue, deferred>>
      /\ IF running THEN Leaves(TrackPageview(tracker, p), stay', p, TRUE)
         ELSE UNCHANGED <<tracker, reports, watched>>
  BY DEF Navigate
<1>3. TrackerTypeOK /\ StayInv
  BY DEF TrackerInv
<1>4. moves \in Nat /\ MaxMoves \in Nat /\ moves' \in 0 .. MaxMoves /\ stay \in Nat
  BY <1>1, <1>2, <1>3, TrackerAssumption DEF TrackerTypeOK, Stays
<1>5. stay' \in Stays /\ stay' <= moves' + 1 /\ stay <= stay'
  BY <1>1, <1>2, <1>3, <1>4 DEF StayInv, Stays
<1>6. (tracker.lastPath = p) = (watched[stay'] # "no") /\ p # NoPath
  <2>1. CASE p = path
    BY <1>1, <1>2, <2>1
  <2>2. CASE p # path
    <3>1. watched[stay'] = "no"
      BY <1>2, <1>3, <1>4, <1>5, <2>2 DEF StayInv
    <3>2. tracker.lastPath # p
      BY <1>3, <2>2, TrackerAssumption DEF StayInv
    <3> QED
      BY <3>1, <3>2, TrackerAssumption
  <2> QED
    BY <2>1, <2>2
<1>7. CASE running
  <2>1. Leaves(TrackPageview(tracker, p), stay', p, TRUE)
    BY <1>2, <1>7
  <2>2. /\ Reported(tracker, TrackPageview(tracker, p), p)
        /\ TrackPageview(tracker, p).lastPath = p
    BY <1>1, NothingReported, PageviewReports
  <2>3. PICK t : t = TrackPageview(tracker, p)
    OBVIOUS
  <2>4. PICK s \in Stays : s = stay'
    BY <1>5
  <2>5. /\ Leaves(t, s, p, TRUE) /\ Reported(tracker, t, p)
        /\ (tracker.lastPath = p) = (watched[s] # "no")
        /\ (t.lastPath = p) = (tracker.lastPath = p \/ TRUE)
    BY <1>6, <2>1, <2>2, <2>3, <2>4
  <2>6. /\ tracker' \in Closures /\ tracker' = t
        /\ Len(tracker.sent) <= Len(tracker'.sent)
        /\ watched' \in [Stays -> {"no", "seen", "ignored"}]
        /\ reports' \in [Stays -> 0 .. MaxMoves + MaxCalls + 1]
        /\ \A r \in Stays : reports'[r] = IF watched'[r] = "seen" THEN 1 ELSE 0
        /\ (t.lastPath = p) = (watched'[s] # "no")
        /\ \A r \in Stays : r # s => watched'[r] = watched[r]
    BY <1>3, <2>5, LeavesReported
  <2>7. t.lastPath = p
    BY <2>2, <2>3
  <2>8. TrackerTypeOK'
    BY <1>2, <1>3, <1>4, <1>5, <2>6 DEF TrackerTypeOK, Closures
  <2>9. ASSUME NEW r \in Stays, r > stay' PROVE watched'[r] = "no"
    <3>1. r \in Nat /\ stay' \in Nat /\ r > stay /\ r # s
      BY <1>4, <1>5, <2>4, <2>9 DEF Stays
    <3>2. watched'[r] = watched[r]
      BY <2>6, <3>1
    <3> QED
      BY <1>3, <3>1, <3>2 DEF StayInv
  <2>10. StayInv'
    BY <1>2, <1>3, <1>5, <1>7, <2>4, <2>6, <2>7, <2>9 DEF StayInv
  <2> QED
    BY <2>6, <2>8, <2>10 DEF TrackerInv, MoreSent
<1>8. CASE ~running
  <2>1. UNCHANGED <<tracker, reports, watched>>
    BY <1>2, <1>8
  <2>2. TrackerTypeOK'
    BY <1>2, <1>3, <1>4, <1>5, <2>1 DEF TrackerTypeOK
  <2>3. \A r \in Stays : r > stay' => watched[r] = "no"
    BY <1>3, <1>4, <1>5 DEF StayInv, Stays
  <2>4. StayInv'
    BY <1>2, <1>3, <1>5, <1>6, <1>8, <2>1, <2>3 DEF StayInv
  <2> QED
    BY <1>1, <2>1, <2>2, <2>4 DEF TrackerInv, MoreSent
<1> QED
  BY <1>7, <1>8

LEMMA ChangeTabKeeps ==
    ASSUME TrackerInv, NEW v, ChangeTab(v)
    PROVE  TrackerInv' /\ MoreSent
<1>1. /\ tracker \in Closures /\ path \in Paths /\ Len(tracker.sent) \in Nat
  BY TrackerFacts
<1>2. /\ tabs < MaxTabs /\ tabs' = tabs + 1 /\ tab' \in Tabs /\ deferred' = FALSE
      /\ UNCHANGED <<path, optedOut, moves, calls, running, queue, stay>>
      /\ IF deferred THEN Leaves(TrackPageview(tracker, path), stay, path, TRUE)
         ELSE UNCHANGED <<tracker, reports, watched>>
  BY DEF ChangeTab, Tabs
<1>3. tabs' \in 0 .. MaxTabs
  BY <1>2, TrackerAssumption DEF TrackerInv, TrackerTypeOK
<1>4. CASE deferred
  <2>1. /\ Reported(tracker, TrackPageview(tracker, path), path)
        /\ TrackPageview(tracker, path).lastPath = path
    BY <1>1, NothingReported, PageviewReports
  <2>2. PICK t : t = TrackPageview(tracker, path)
    OBVIOUS
  <2>3. /\ Leaves(t, stay, path, TRUE) /\ Reported(tracker, t, path)
        /\ (t.lastPath = path) = (tracker.lastPath = path \/ TRUE)
    BY <1>2, <1>4, <2>1, <2>2
  <2>4. /\ moves' \in moves .. MaxMoves /\ calls' \in 0 .. MaxCalls
        /\ running' \in BOOLEAN /\ deferred' \in BOOLEAN /\ queue' \in Seq(Calls)
        /\ (running' => queue' = <<>>) /\ running' /\ (deferred' => tab' = "prerender")
    <3>1. running /\ queue = <<>> /\ queue \in Seq(Calls)
      BY <1>4 DEF TrackerInv, TrackerTypeOK, StayInv
    <3>2. moves \in moves .. MaxMoves /\ calls \in 0 .. MaxCalls
      BY TrackerAssumption DEF TrackerInv, TrackerTypeOK
    <3> QED
      BY <1>2, <3>1, <3>2
  <2> QED
    BY <1>2, <1>3, <2>3, <2>4, LeavesKeepsInv
<1>5. CASE ~deferred
  <2>1. UNCHANGED <<tracker, reports, watched>>
    BY <1>2, <1>5
  <2>2. TrackerTypeOK'
    BY <1>2, <1>3, <2>1 DEF TrackerInv, TrackerTypeOK
  <2>3. StayInv'
    BY <1>2, <2>1 DEF TrackerInv, StayInv
  <2> QED
    BY <1>1, <2>1, <2>2, <2>3 DEF TrackerInv, MoreSent
<1> QED
  BY <1>4, <1>5

\* From the first state, by every step.
LEMMA TrackerStarts ==
    ASSUME TrackerInit
    PROVE  TrackerInv
<1>1. MaxMoves \in Nat /\ MaxCalls \in Nat /\ MaxTabs \in Nat /\ NoPath \notin Paths
  BY TrackerAssumption
<1>2. <<>> \in Seq(Calls) /\ <<>> \in Seq(Beacons) /\ 1 \in Stays
  BY <1>1, EmptySeq DEF Stays
<1>3. TrackerTypeOK
  <2>1. /\ path \in Paths /\ tab \in Tabs /\ optedOut \in BOOLEAN
        /\ running = FALSE /\ deferred = FALSE /\ queue = <<>>
        /\ tracker = [lastPath |-> NoPath, sent |-> <<>>]
        /\ moves = 0 /\ calls = 0 /\ tabs = 0 /\ stay = 1
        /\ watched = [s \in Stays |-> "no"] /\ reports = [s \in Stays |-> 0]
    BY DEF TrackerInit
  <2>2. 0 \in 0 .. MaxMoves /\ 0 \in 0 .. MaxCalls /\ 0 \in 0 .. MaxTabs
        /\ 0 \in 0 .. MaxMoves + MaxCalls + 1
    BY <1>1
  <2>3. tracker \in [lastPath : Paths \cup {NoPath}, sent : Seq(Beacons)]
    BY <1>2, <2>1
  <2>4. /\ watched \in [Stays -> {"no", "seen", "ignored"}]
        /\ reports \in [Stays -> 0 .. MaxMoves + MaxCalls + 1]
    BY <2>1, <2>2
  <2> QED
    BY <1>2, <2>1, <2>2, <2>3, <2>4 DEF TrackerTypeOK
<1>4. StayInv
  BY <1>1, <1>2 DEF TrackerInit, StayInv
<1> QED
  BY <1>3, <1>4 DEF TrackerInv

LEMMA TrackerSteps ==
    ASSUME TrackerInv, TrackerNext \/ UNCHANGED trackerVars
    PROVE  TrackerInv' /\ MoreSent
<1>1. CASE UNCHANGED trackerVars
  <2>1. Len(tracker.sent) \in Nat
    BY TrackerFacts
  <2>2. TrackerTypeOK'
    BY <1>1 DEF TrackerInv, TrackerTypeOK, trackerVars, pageVars
  <2>3. StayInv'
    BY <1>1 DEF TrackerInv, StayInv, trackerVars, pageVars
  <2> QED
    BY <1>1, <2>1, <2>2, <2>3 DEF TrackerInv, MoreSent, trackerVars
<1>2. CASE TrackerNext
  BY <1>2, CallSeyrKeeps, RunScriptKeeps, NavigateKeeps, ChangeTabKeeps DEF TrackerNext
<1> QED
  BY <1>1, <1>2
-----------------------------------------------------------------------------
(* The dashboard's pages *)

\* A yes that is under way is true; a page that is closed does not listen.
PagesInv ==
    /\ PagesTypeOK
    /\ checks.yes > 0 => setup.site \in counted
    /\ setup.polling => setup.site # 0

\* Types of the pages' records.
Lists(ids, live) ==
    [sites : SUBSET ids, live : SUBSET live, form : {"closed", "open", "adding"}, error : BOOLEAN]
Setups(ids) ==
    [site : ids, verified : BOOLEAN, polling : BOOLEAN, checking : BOOLEAN, timer : BOOLEAN]
CheckCounts == [asked : 0 .. MaxChecks, yes : 0 .. MaxChecks, no : 0 .. MaxChecks]

LEMMA PagesFacts ==
    ASSUME PagesInv
    PROVE  /\ MaxSites \in Nat /\ MaxChecks \in Nat /\ MaxFailures \in Nat
           /\ site \in [id : 0 .. site.inserted, inserted : 0 .. MaxSites]
           /\ site.id \in 0 .. site.inserted /\ site.inserted \in 0 .. MaxSites
           /\ site.inserted \in Nat
           /\ recent \subseteq 0 .. site.inserted
           /\ counted \subseteq 1 .. site.inserted
           /\ list \in Lists(1 .. site.inserted, counted) /\ list.live \subseteq list.sites
           /\ setup \in Setups(0 .. site.inserted)
           /\ setup.verified => setup.site \in counted /\ ~setup.polling
           /\ setup.timer = setup.polling
           /\ checks \in CheckCounts /\ checks.asked + checks.yes + checks.no <= MaxChecks
           /\ checks # NoChecks => setup.site # 0
           /\ checks.yes > 0 => setup.site \in counted
           /\ setup.polling => setup.site # 0
           /\ failures \in 0 .. MaxFailures
BY PagesAssumption DEF PagesInv, PagesTypeOK, Lists, Setups, CheckCounts

\* Rows arrive.
LEMMA CountsGrow ==
    ASSUME PagesInv, UNCHANGED <<site, list, setup, checks, failures>>,
           recent' \subseteq recent,
           counted \subseteq counted', counted' \subseteq 1 .. site.inserted
    PROVE  PagesInv'
<1>1. list' \in [sites : SUBSET (1 .. site.inserted), live : SUBSET counted',
                 form : {"closed", "open", "adding"}, error : BOOLEAN]
  BY PagesFacts DEF Lists
<1> QED
  BY <1>1, PagesFacts DEF PagesInv, PagesTypeOK, Setups, CheckCounts

\* The list's steps: the rest is as it was, or has a row more in the table.
LEMMA ListKeeps ==
    ASSUME PagesInv, UNCHANGED <<counted, setup, checks>>,
           site' \in [id : 0 .. site'.inserted, inserted : 0 .. MaxSites],
           site.inserted <= site'.inserted,
           recent' \subseteq 0 .. site'.inserted,
           list' \in Lists(1 .. site'.inserted, counted), list'.live \subseteq list'.sites,
           failures' \in 0 .. MaxFailures
    PROVE  PagesInv'
<1>1. site.inserted \in Nat /\ site'.inserted \in Nat /\ MaxSites \in Nat
  BY PagesFacts
<1>2. counted \subseteq 1 .. site'.inserted /\ setup \in Setups(0 .. site'.inserted)
  <2>1. 0 .. site.inserted \subseteq 0 .. site'.inserted
        /\ 1 .. site.inserted \subseteq 1 .. site'.inserted
    BY <1>1
  <2> QED
    BY <2>1, PagesFacts DEF Setups
<1> QED
  BY <1>2, PagesFacts DEF PagesInv, PagesTypeOK, Setups, Lists, CheckCounts

\* What the count of a page shows is there, and may be shown.
LEMMA CountedAreThere ==
    ASSUME PagesInv, NEW S, NEW counts, CountEvents(S, counts)
    PROVE  counts \subseteq S \cap counted /\ failures' \in 0 .. MaxFailures
BY PagesFacts DEF CountEvents

LEMMA ListShown ==
    ASSUME PagesInv, NEW rows, NEW ids, rows \subseteq ids,
           NEW form \in {"closed", "open", "adding"}, NEW error \in BOOLEAN,
           ShowSites(rows, form, error)
    PROVE  list' \in Lists(ids, counted) /\ list'.live \subseteq list'.sites
           /\ failures' \in 0 .. MaxFailures
<1>1. PICK counts \in SUBSET rows :
         /\ CountEvents(rows, counts)
         /\ list' = [sites |-> rows, live |-> counts, form |-> form, error |-> error]
  BY DEF ShowSites
<1> QED
  BY <1>1, CountedAreThere DEF Lists

\* The setup page's steps.
LEMMA SetupKeeps ==
    ASSUME PagesInv, UNCHANGED <<site, recent, counted, list>>,
           setup' \in Setups(0 .. site.inserted),
           setup'.verified => setup'.site \in counted /\ ~setup'.polling,
           setup'.timer = setup'.polling,
           checks' \in CheckCounts, checks'.asked + checks'.yes + checks'.no <= MaxChecks,
           checks' # NoChecks => setup'.site # 0,
           checks'.yes > 0 => setup'.site \in counted,
           setup'.polling => setup'.site # 0,
           failures' \in 0 .. MaxFailures
    PROVE  PagesInv'
BY PagesFacts DEF PagesInv, PagesTypeOK, Setups, Lists, CheckCounts

LEMMA ListSteps ==
    ASSUME PagesInv,
           \/ VisitList \/ ToggleForm \/ SubmitForm
           \/ \E wellFormed \in BOOLEAN : Create(wellFormed)
           \/ \E id \in Ids : Delete(id)
    PROVE  PagesInv'
<1> USE PagesFacts
<1> DEFINE n == site.inserted
<1>1. Registered \subseteq 1 .. n
  BY DEF Registered
<1>2. n \in Nat /\ site' = site => site' \in [id : 0 .. site'.inserted, inserted : 0 .. MaxSites]
  OBVIOUS
<1>3. CASE VisitList
  <2>1. ShowSites(Registered, "closed", FALSE) /\ UNCHANGED <<site, recent, counted, setup, checks>>
    BY <1>3 DEF VisitList
  <2>2. /\ list' \in Lists(1 .. n, counted) /\ list'.live \subseteq list'.sites
        /\ failures' \in 0 .. MaxFailures
    BY <1>1, <2>1, ListShown
  <2> QED
    BY <2>1, <2>2, ListKeeps
<1>4. CASE ToggleForm \/ SubmitForm
  <2>1. UNCHANGED <<site, recent, counted, setup, checks, failures>>
    BY <1>4 DEF ToggleForm, SubmitForm
  <2>2. \E form \in {"closed", "open", "adding"} : list' = [list EXCEPT !.form = form]
    BY <1>4 DEF ToggleForm, SubmitForm, Lists
  <2>3. list' \in Lists(1 .. n, counted) /\ list'.live \subseteq list'.sites
    BY <2>2 DEF Lists
  <2> QED
    BY <2>1, <2>3, ListKeeps
<1>5. ASSUME NEW wellFormed \in BOOLEAN, Create(wellFormed) PROVE PagesInv'
  <2>1. UNCHANGED <<counted, setup, checks>>
    BY <1>5 DEF Create
  <2>2. CASE wellFormed /\ site.id = 0
    <3>1. /\ n < MaxSites /\ site' = [id |-> n + 1, inserted |-> n + 1]
          /\ recent' = recent \cup {0} /\ ShowSites({n + 1}, "closed", FALSE)
      BY <1>5, <2>2 DEF Create
    <3>2. /\ n + 1 \in 0 .. n + 1 /\ n + 1 \in 0 .. MaxSites /\ {n + 1} \subseteq 1 .. n + 1
          /\ 0 .. n \subseteq 0 .. n + 1 /\ 0 \in 0 .. n + 1 /\ n <= n + 1
      BY <3>1
    <3>3. /\ list' \in Lists(1 .. n + 1, counted) /\ list'.live \subseteq list'.sites
          /\ failures' \in 0 .. MaxFailures
      BY <3>1, <3>2, ListShown
    <3>4. /\ site'.inserted = n + 1 /\ site' \in [id : 0 .. n + 1, inserted : 0 .. MaxSites]
          /\ recent' \subseteq 0 .. n + 1
      BY <3>1, <3>2
    <3> QED
      BY <2>1, <3>2, <3>3, <3>4, ListKeeps
  <2>3. CASE ~(wellFormed /\ site.id = 0)
    <3>1. ShowSites(Registered, "closed", TRUE) /\ UNCHANGED <<site, recent>>
      BY <1>5, <2>3 DEF Create
    <3>2. /\ list' \in Lists(1 .. n, counted) /\ list'.live \subseteq list'.sites
          /\ failures' \in 0 .. MaxFailures
      BY <1>1, <3>1, ListShown
    <3> QED
      BY <2>1, <3>1, <3>2, ListKeeps
  <2> QED
    BY <2>2, <2>3
<1>6. ASSUME NEW id \in Ids, Delete(id) PROVE PagesInv'
  <2>1. UNCHANGED <<counted, setup, checks>>
    BY <1>6 DEF Delete
  <2>2. list.form \in {"closed", "open", "adding"}
    BY DEF Lists
  <2>3. CASE site.id = id
    <3>1. /\ site' = [site EXCEPT !.id = 0] /\ recent' = recent \cup {id}
          /\ ShowSites({}, list.form, FALSE)
      BY <1>6, <2>3 DEF Delete
    <3>2. /\ list' \in Lists(1 .. n, counted) /\ list'.live \subseteq list'.sites
          /\ failures' \in 0 .. MaxFailures
      BY <2>2, <3>1, ListShown
    <3>3. site'.inserted = n /\ site' \in [id : 0 .. n, inserted : 0 .. MaxSites]
      BY <3>1
    <3>4. recent' \subseteq 0 .. n
      BY <2>3, <3>1
    <3> QED
      BY <2>1, <3>2, <3>3, <3>4, ListKeeps
  <2>4. CASE site.id # id
    <3>1. ShowSites(Registered, list.form, FALSE) /\ UNCHANGED <<site, recent>>
      BY <1>6, <2>4 DEF Delete
    <3>2. /\ list' \in Lists(1 .. n, counted) /\ list'.live \subseteq list'.sites
          /\ failures' \in 0 .. MaxFailures
      BY <1>1, <2>2, <3>1, ListShown
    <3> QED
      BY <2>1, <3>1, <3>2, ListKeeps
  <2> QED
    BY <2>3, <2>4
<1> QED
  BY <1>3, <1>4, <1>5, <1>6

\* checkOnce keeps within the bound.
LEMMA AskKeeps ==
    ASSUME PagesInv, UNCHANGED <<site, recent, counted, list, failures>>,
           NEW page \in Setups(0 .. site.inserted), AskWith(page), page.site = setup.site,
           page.site # 0, page.timer = page.polling, page.verified => ~page.polling,
           page.verified = setup.verified
    PROVE  PagesInv'
<1>1. /\ checks.asked + checks.yes + checks.no < MaxChecks
      /\ checks' = [checks EXCEPT !.asked = @ + 1]
      /\ setup' = [page EXCEPT !.checking = TRUE]
  BY DEF AskWith, InFlight
<1>2. /\ checks.asked \in 0 .. MaxChecks /\ checks.yes \in 0 .. MaxChecks
      /\ checks.no \in 0 .. MaxChecks /\ MaxChecks \in Nat
  BY PagesFacts DEF CheckCounts
<1>3. /\ checks'.asked = checks.asked + 1 /\ checks'.yes = checks.yes /\ checks'.no = checks.no
      /\ checks' \in CheckCounts
  <2>1. checks.asked + 1 \in 0 .. MaxChecks
    BY <1>1, <1>2
  <2> QED
    BY <1>1, <2>1, PagesFacts DEF CheckCounts
<1>4. checks'.asked + checks'.yes + checks'.no <= MaxChecks
  BY <1>1, <1>2, <1>3
<1>5. /\ setup' \in Setups(0 .. site.inserted) /\ setup'.site = setup.site /\ setup'.site # 0
      /\ setup'.timer = setup'.polling /\ setup'.verified = setup.verified
      /\ setup'.verified => ~setup'.polling
  BY <1>1 DEF Setups
<1>6. /\ setup'.verified => setup'.site \in counted
      /\ checks'.yes > 0 => setup'.site \in counted
      /\ failures' \in 0 .. MaxFailures
  BY <1>3, <1>5, PagesFacts
<1> QED
  BY <1>3, <1>4, <1>5, <1>6, SetupKeeps

LEMMA SetupSteps ==
    ASSUME PagesInv,
           \/ OpenSetup \/ CloseSetup \/ StartPolling
           \/ TimerFires \/ Verify \/ Received \/ NotReceived
    PROVE  PagesInv'
<1> DEFINE S == Setups(0 .. site.inserted)
<1>1. /\ checks.asked \in 0 .. MaxChecks /\ checks.yes \in 0 .. MaxChecks
      /\ checks.no \in 0 .. MaxChecks /\ MaxChecks \in Nat /\ MaxFailures \in Nat
      /\ checks \in CheckCounts /\ checks.asked + checks.yes + checks.no <= MaxChecks
      /\ setup \in S /\ setup.timer = setup.polling
      /\ setup.verified => setup.site \in counted /\ ~setup.polling
      /\ checks # NoChecks => setup.site # 0
      /\ checks.yes > 0 => setup.site \in counted
      /\ setup.polling => setup.site # 0
      /\ failures \in 0 .. MaxFailures
  BY PagesFacts DEF CheckCounts
<1>2. CASE OpenSetup
  <2>1. PICK counts \in SUBSET {site.id} :
           /\ CountEvents({site.id}, counts)
           /\ setup' = [NoSetup EXCEPT !.site = site.id, !.verified = (counts # {})]
    BY <1>2 DEF OpenSetup
  <2>2. setup.site = 0 /\ site.id # 0 /\ UNCHANGED <<site, recent, counted, list, checks>>
    BY <1>2 DEF OpenSetup
  <2>3. counts \subseteq {site.id} \cap counted /\ failures' \in 0 .. MaxFailures
    BY <2>1, CountedAreThere
  <2>4. /\ setup' \in S /\ setup'.site = site.id /\ setup'.verified = (counts # {})
        /\ ~setup'.polling /\ ~setup'.timer
    BY <2>1, PagesFacts DEF NoSetup, Setups
  <2>5. checks = NoChecks /\ checks.yes = 0
    BY <1>1, <2>2 DEF NoChecks
  <2>6. /\ setup'.verified => setup'.site \in counted /\ ~setup'.polling
        /\ setup'.timer = setup'.polling
        /\ checks' \in CheckCounts /\ checks'.asked + checks'.yes + checks'.no <= MaxChecks
        /\ checks' # NoChecks => setup'.site # 0
        /\ checks'.yes > 0 => setup'.site \in counted
    BY <1>1, <2>2, <2>3, <2>4, <2>5 DEF Setups
  <2> QED
    BY <2>2, <2>3, <2>4, <2>6, SetupKeeps
<1>3. CASE CloseSetup
  <2>1. /\ setup' = NoSetup /\ checks' = NoChecks
        /\ UNCHANGED <<site, recent, counted, list, failures>>
    BY <1>3 DEF CloseSetup
  <2>2. NoSetup \in S /\ ~NoSetup.verified /\ NoSetup.timer = NoSetup.polling /\ ~NoSetup.polling
    BY PagesFacts DEF NoSetup, Setups
  <2>3. /\ NoChecks \in CheckCounts /\ NoChecks.asked + NoChecks.yes + NoChecks.no <= MaxChecks
        /\ ~(NoChecks.yes > 0)
    BY <1>1 DEF NoChecks, CheckCounts
  <2> QED
    BY <1>1, <2>1, <2>2, <2>3, SetupKeeps
<1>4. CASE StartPolling
  <2>1. /\ setup.site # 0 /\ ~setup.verified
        /\ AskWith([setup EXCEPT !.polling = TRUE, !.timer = TRUE])
        /\ UNCHANGED <<site, recent, counted, list, failures>>
    BY <1>4 DEF StartPolling
  <2>2. PICK page : page = [setup EXCEPT !.polling = TRUE, !.timer = TRUE]
    OBVIOUS
  <2>3. /\ page \in S /\ page.site = setup.site /\ page.timer = page.polling
        /\ page.verified = setup.verified
    BY <1>1, <2>2 DEF Setups
  <2> QED
    BY <2>1, <2>2, <2>3, AskKeeps
<1>5. CASE TimerFires
  <2>1. setup.timer /\ AskWith(setup) /\ UNCHANGED <<site, recent, counted, list, failures>>
    BY <1>5 DEF TimerFires
  <2>2. PICK page \in S : page = setup
    BY <1>1
  <2>3. page.site # 0
    BY <1>1, <2>1, <2>2
  <2> QED
    BY <1>1, <2>1, <2>2, <2>3, AskKeeps
<1>6. ASSUME UNCHANGED <<site, recent, counted, list>>,
             setup' \in S, setup'.site = setup.site, setup'.timer = setup'.polling,
             setup'.polling => setup.polling,
             setup'.verified => setup.site \in counted /\ ~setup'.polling,
             setup.site # 0,
             checks' \in CheckCounts, checks'.asked + checks'.yes + checks'.no <= MaxChecks,
             checks'.yes > 0 => setup.site \in counted,
             failures' \in 0 .. MaxFailures
      PROVE  PagesInv'
  BY <1>6, SetupKeeps
<1>7. CASE Verify
  <2>1. PICK counts \in SUBSET {setup.site} :
           /\ CountEvents({setup.site} \cap {site.id}, counts)
           /\ checks' = [checks EXCEPT !.asked = @ - 1,
                            ![IF counts # {} THEN "yes" ELSE "no"] = @ + 1]
    BY <1>7 DEF Verify
  <2>2. checks.asked > 0 /\ UNCHANGED <<site, recent, counted, list, setup>>
    BY <1>7 DEF Verify
  <2>3. counts \subseteq {setup.site} \cap counted /\ failures' \in 0 .. MaxFailures
    BY <2>1, CountedAreThere
  <2>4. checks # NoChecks
    BY <2>2 DEF NoChecks
  <2>5. checks.asked - 1 \in 0 .. MaxChecks
    BY <1>1, <2>2
  <2>6. CASE counts # {}
    <3>1. checks' = [checks EXCEPT !.asked = @ - 1, !.yes = @ + 1]
      BY <2>1, <2>6
    <3>2. checks.yes + 1 \in 0 .. MaxChecks
      BY <1>1, <2>2
    <3>3. /\ checks' \in CheckCounts /\ checks'.asked = checks.asked - 1
          /\ checks'.yes = checks.yes + 1 /\ checks'.no = checks.no
      BY <1>1, <2>5, <3>1, <3>2 DEF CheckCounts
    <3>4. checks'.asked + checks'.yes + checks'.no <= MaxChecks
      BY <1>1, <3>3
    <3>5. setup.site \in counted
      BY <2>3, <2>6
    <3> QED
      BY <1>1, <1>6, <2>2, <2>3, <2>4, <3>3, <3>4, <3>5
  <2>7. CASE counts = {}
    <3>1. checks' = [checks EXCEPT !.asked = @ - 1, !.no = @ + 1]
      BY <2>1, <2>7
    <3>2. checks.no + 1 \in 0 .. MaxChecks
      BY <1>1, <2>2
    <3>3. /\ checks' \in CheckCounts /\ checks'.asked = checks.asked - 1
          /\ checks'.no = checks.no + 1 /\ checks'.yes = checks.yes
      BY <1>1, <2>5, <3>1, <3>2 DEF CheckCounts
    <3>4. checks'.asked + checks'.yes + checks'.no <= MaxChecks
      BY <1>1, <3>3
    <3> QED
      BY <1>1, <1>6, <2>2, <2>3, <2>4, <3>3, <3>4
  <2> QED
    BY <2>6, <2>7
<1>8. CASE Received
  <2>1. /\ checks.yes > 0 /\ checks' = [checks EXCEPT !.yes = @ - 1]
        /\ setup' = [setup EXCEPT !.verified = TRUE, !.polling = FALSE, !.timer = FALSE,
                                  !.checking = FALSE]
        /\ UNCHANGED <<site, recent, counted, list, failures>>
    BY <1>8 DEF Received
  <2>2. checks.yes - 1 \in 0 .. MaxChecks /\ checks # NoChecks
    BY <1>1, <2>1 DEF NoChecks
  <2>3. /\ checks' \in CheckCounts /\ checks'.asked = checks.asked
        /\ checks'.yes = checks.yes - 1 /\ checks'.no = checks.no
    BY <1>1, <2>1, <2>2 DEF CheckCounts
  <2>4. checks'.asked + checks'.yes + checks'.no <= MaxChecks
    BY <1>1, <2>3
  <2>5. /\ setup' \in S /\ setup'.site = setup.site
        /\ setup'.timer = FALSE /\ setup'.polling = FALSE
    BY <1>1, <2>1 DEF Setups
  <2> QED
    BY <1>1, <1>6, <2>1, <2>2, <2>3, <2>4, <2>5
<1>9. CASE NotReceived
  <2>1. /\ checks.no > 0 /\ checks' = [checks EXCEPT !.no = @ - 1]
        /\ setup' = [setup EXCEPT !.checking = FALSE]
        /\ UNCHANGED <<site, recent, counted, list, failures>>
    BY <1>9 DEF NotReceived
  <2>2. checks.no - 1 \in 0 .. MaxChecks /\ checks # NoChecks
    BY <1>1, <2>1 DEF NoChecks
  <2>3. /\ checks' \in CheckCounts /\ checks'.asked = checks.asked
        /\ checks'.no = checks.no - 1 /\ checks'.yes = checks.yes
    BY <1>1, <2>1, <2>2 DEF CheckCounts
  <2>4. checks'.asked + checks'.yes + checks'.no <= MaxChecks
    BY <1>1, <2>3
  <2>5. /\ setup' \in S /\ setup'.site = setup.site /\ setup'.verified = setup.verified
        /\ setup'.timer = setup.timer /\ setup'.polling = setup.polling
    BY <1>1, <2>1 DEF Setups
  <2> QED
    BY <1>1, <1>6, <2>1, <2>2, <2>3, <2>4, <2>5
<1> QED
  BY <1>2, <1>3, <1>4, <1>5, <1>7, <1>8, <1>9

LEMMA PagesBegin ==
    ASSUME PagesStart, \/ site = [id |-> 0, inserted |-> 0]
                       \/ site = [id |-> 1, inserted |-> 1] /\ MaxSites > 0
    PROVE  PagesInv
<1>1. MaxSites \in Nat /\ MaxChecks \in Nat /\ MaxFailures \in Nat
  BY PagesAssumption
<1>2. /\ site \in [id : 0 .. site.inserted, inserted : 0 .. MaxSites]
      /\ 0 \in 0 .. site.inserted /\ site.inserted \in Nat
  BY <1>1
<1>3. /\ setup \in Setups(0 .. site.inserted) /\ setup.site = 0 /\ ~setup.verified
      /\ ~setup.polling /\ ~setup.timer
  BY <1>2 DEF PagesStart, NoSetup, Setups
<1>4. checks = NoChecks /\ checks \in CheckCounts
      /\ checks.asked + checks.yes + checks.no <= MaxChecks /\ ~(checks.yes > 0)
  BY <1>1 DEF PagesStart, NoChecks, CheckCounts
<1>5. /\ list \in Lists(1 .. site.inserted, counted) /\ list.live \subseteq list.sites
      /\ recent = {} /\ counted = {} /\ failures \in 0 .. MaxFailures
  BY <1>1 DEF PagesStart, Lists
<1>6. setup.timer = setup.polling
  BY <1>3 DEF Setups
<1> QED
  BY <1>2, <1>3, <1>4, <1>5, <1>6 DEF PagesInv, PagesTypeOK, Setups, Lists, CheckCounts

LEMMA PagesSteps ==
    ASSUME PagesInv, PagesNext \/ UNCHANGED pagesVars
    PROVE  PagesInv' /\ counted \subseteq counted'
<1>1. counted \subseteq 1 .. site.inserted /\ failures \in 0 .. MaxFailures
      /\ site.id \in 0 .. site.inserted /\ recent \subseteq 0 .. site.inserted
  BY PagesFacts
<1>2. CASE UNCHANGED pagesVars \/ Expire
  <2>1. UNCHANGED <<site, counted, list, setup, checks, failures>> /\ recent' \subseteq recent
    BY <1>2 DEF pagesVars, Expire
  <2> QED
    BY <1>1, <2>1, CountsGrow
<1>3. CASE VisitorCounted
  <2>1. PICK id \in ResolvesTo \ (counted \cup {0}) : StoreRow(id)
    BY <1>3 DEF VisitorCounted
  <2>2. UNCHANGED <<site, recent, list, setup, checks, failures>>
    BY <1>3 DEF VisitorCounted
  <2>3. id \in 1 .. site.inserted
    <3>1. site.inserted \in Nat
      BY PagesFacts
    <3>2. id \in 0 .. site.inserted /\ id # 0
      BY <1>1, <2>1 DEF ResolvesTo
    <3> QED
      BY <3>1, <3>2
  <2>4. counted \subseteq counted' /\ counted' \subseteq 1 .. site.inserted
    BY <1>1, <2>1, <2>3 DEF StoreRow
  <2> QED
    BY <2>2, <2>4, CountsGrow
<1>4. CASE \/ VisitList \/ ToggleForm \/ SubmitForm
           \/ \E wellFormed \in BOOLEAN : Create(wellFormed)
           \/ \E id \in Ids : Delete(id)
  <2>1. PagesInv'
    BY <1>4, ListSteps
  <2>2. UNCHANGED counted
    BY <1>4 DEF VisitList, ToggleForm, SubmitForm, Create, Delete
  <2> QED
    BY <2>1, <2>2
<1>5. CASE \/ OpenSetup \/ CloseSetup \/ StartPolling
           \/ TimerFires \/ Verify \/ Received \/ NotReceived
  <2>1. PagesInv'
    BY <1>5, SetupSteps
  <2>2. UNCHANGED counted
    BY <1>5 DEF OpenSetup, CloseSetup, StartPolling, TimerFires, Verify, Received, NotReceived
  <2> QED
    BY <2>1, <2>2
<1> QED
  BY <1>2, <1>3, <1>4, <1>5 DEF PagesNext, Owner
-----------------------------------------------------------------------------
(* A beacon and its row *)

\* Beacons as the tracker makes them, and what is known of their texts.
TrackerBeacons ==
    [n : Texts, u : BeaconURLs, d : Texts, r : Referrers, m : Seq(Properties), bytes : Nat]

\* The first conjunct of StoredAsAgreed is about these rows, the second about these.
AsAgreed(b, row) ==
    b.bytes <= Limits.body /\ Plain(b) /\ SchemaAccepts(b) => row = Agreed(b)
WithinLimits(row) ==
    /\ Bytes(row.name) \in 1 .. Limits.name
    /\ Bytes(row.referrer) <= Limits.url
    /\ Bytes(row.page.utm) <= Limits.tag
    /\ Cardinality(row.props) <= Limits.props
    /\ \A p \in row.props : Bytes(p.key) \in 1 .. Limits.key /\ Bytes(p.value) <= Limits.value

LEMMA LimitsArePositive ==
    /\ Limits.name \in Nat \ {0} /\ Limits.url \in Nat \ {0} /\ Limits.domain \in Nat \ {0}
    /\ Limits.key \in Nat \ {0} /\ Limits.value \in Nat \ {0} /\ Limits.props \in Nat \ {0}
    /\ Limits.tag \in Nat \ {0} /\ Limits.body \in Nat \ {0} /\ Limits.key >= 3
BY LimitsAssumption

\* Cutting bytes keeps within the maximum, leaves what is within it as it is, and leaves
\* a character of a text that has one.
LEMMA CutKeepsWithin ==
    ASSUME NEW t \in Texts, NEW max \in Nat
    PROVE  /\ CutBytes(t, max) \in Texts
           /\ Bytes(CutBytes(t, max)) \in Nat /\ Bytes(CutBytes(t, max)) <= max
           /\ Bytes(t) <= max => CutBytes(t, max) = t
           /\ t.len > 0 /\ max >= 3 => Bytes(CutBytes(t, max)) >= 1
<1>1. t.len \in Nat /\ t.width \in {1, 2, 3}
  BY DEF Texts
<1>2. Bytes(t) \in Nat /\ (t.len > 0 => Bytes(t) >= 1)
  <2>1. CASE t.width = 1
    BY <1>1, <2>1 DEF Bytes
  <2>2. CASE t.width = 2
    BY <1>1, <2>2 DEF Bytes
  <2>3. CASE t.width = 3
    BY <1>1, <2>3 DEF Bytes
  <2> QED
    BY <1>1, <2>1, <2>2, <2>3
<1>3. CASE ~(Bytes(t) > max)
  <2>1. CutBytes(t, max) = t
    BY <1>3 DEF CutBytes
  <2> QED
    BY <1>2, <1>3, <2>1
<1>4. CASE Bytes(t) > max
  <2> DEFINE n == max \div t.width
             u == [t EXCEPT !.len = n]
  <2>1. CutBytes(t, max) = u
    BY <1>4 DEF CutBytes
  <2>2. n \in Nat /\ n * t.width <= max /\ n * t.width \in Nat /\ (max >= 3 => n * t.width >= 1)
    <3>1. CASE t.width = 1
      BY <1>1, <3>1
    <3>2. CASE t.width = 2
      BY <1>1, <3>2
    <3>3. CASE t.width = 3
      BY <1>1, <3>3
    <3> QED
      BY <1>1, <3>1, <3>2, <3>3
  <2> HIDE DEF n
  <2>3. u \in Texts /\ u.len = n /\ u.width = t.width
    BY <2>2 DEF Texts
  <2>4. Bytes(u) = n * t.width
    BY <2>3 DEF Bytes
  <2> HIDE DEF u
  <2> QED
    BY <1>2, <1>4, <2>1, <2>2, <2>3, <2>4
<1> QED
  BY <1>3, <1>4

\* Both sides cut a plain text alike.
LEMMA PlainCutsAlike ==
    ASSUME NEW t \in Texts, IsASCII(t), NEW max \in Nat
    PROVE  CutBytes(t, max) = CutUnits(t, max)
<1>1. t.width = 1 /\ t.len \in Nat
  BY DEF IsASCII, Texts
<1>2. Bytes(t) = t.len /\ max \div t.width = max
  BY <1>1 DEF Bytes
<1> QED
  BY <1>2 DEF CutBytes, CutUnits

LEMMA TrimKeeps ==
    ASSUME NEW t \in Texts
    PROVE  Trim(t) \in Texts /\ Trim(t).len = t.len /\ Trim(t).width = t.width
           /\ Bytes(Trim(t)) = Bytes(t)
BY DEF Trim, Texts, Bytes

\* A value is stored as a text, a plain one as String() writes it.
LEMMA ValuesAreTexts ==
    ASSUME NEW v \in Values
    PROVE  /\ stringifyProp(v) \in Texts
           /\ PlainValue(v) => IsASCII(stringifyProp(v)) /\ String(v) = stringifyProp(v)
<1>1. CASE v \in Texts
  <2>1. stringifyProp(v) = v /\ String(v) = v
    BY <1>1 DEF stringifyProp, String
  <2> QED
    BY <1>1, <2>1 DEF PlainValue
<1>2. CASE v \notin Texts
  <2>1. v \in Numbers \/ v \in Others
    BY <1>2 DEF Values
  <2>2. v.written \in Texts
    BY <2>1 DEF Numbers, Others
  <2>3. stringifyProp(v) = v.written
    BY <1>2 DEF stringifyProp
  <2>4. PlainValue(v) => IsASCII(v.written) /\ String(v) = v.written
    BY <1>2 DEF PlainValue, String
  <2> QED
    BY <2>2, <2>3, <2>4
<1> QED
  BY <1>1, <1>2

\* The properties a row may have: within the limits, and those of the schema for a plain
\* beacon.
LEMMA PropsWithin ==
    ASSUME NEW m \in Seq(Properties), NEW props \in NormalizeProps(m)
    PROVE  /\ Cardinality(props) <= Limits.props
           /\ \A p \in props : Bytes(p.key) \in 1 .. Limits.key /\ Bytes(p.value) <= Limits.value
           /\ (/\ \A i \in DOMAIN m : IsASCII(m[i].key) /\ PlainValue(m[i].value)
               /\ Cardinality({i \in DOMAIN m : m[i].key.len > 0}) <= Limits.props)
                 => props = SchemaProps(m)
<1> DEFINE named == {i \in DOMAIN m : m[i].key.len > 0}
           Kept(i) == [key |-> CutBytes(m[i].key, Limits.key),
                       value |-> CutBytes(stringifyProp(m[i].value), Limits.value)]
<1>1. PICK S \in SUBSET named :
         /\ Cardinality(S) = IF Cardinality(named) > Limits.props THEN Limits.props
                             ELSE Cardinality(named)
         /\ props = {Kept(i) : i \in S}
  BY DEF NormalizeProps
<1>2. DOMAIN m = 1 .. Len(m) /\ Len(m) \in Nat
  BY LenProperties
<1>3. IsFiniteSet(named) /\ IsFiniteSet(S) /\ Cardinality(named) \in Nat /\ Cardinality(S) \in Nat
  <2>1. IsFiniteSet(DOMAIN m)
    <3>1. 1 \in Int /\ Len(m) \in Int
      BY <1>2
    <3> QED
      BY <1>2, <3>1, FS_Interval
  <2>2. IsFiniteSet(named)
    BY <2>1, FS_Subset
  <2> QED
    BY <2>2, FS_Subset, FS_CardinalityType
<1>4. \A i \in named : /\ m[i].key \in Texts /\ m[i].value \in Values /\ m[i].key.len > 0
                        /\ stringifyProp(m[i].value) \in Texts
  <2>1. \A i \in DOMAIN m : m[i] \in Properties
    BY <1>2, ElementOfSeq
  <2>2. \A i \in named : m[i].key \in Texts /\ m[i].value \in Values
    BY <2>1 DEF Properties
  <2> QED
    BY <2>2, ValuesAreTexts
<1>5. IsFiniteSet(props) /\ Cardinality(props) <= Cardinality(S)
  <2> DEFINE f == [i \in S |-> Kept(i)]
  <2> HIDE DEF Kept
  <2>1. f \in Surjection(S, props)
    BY <1>1 DEF Surjection
  <2> QED
    BY <1>3, <2>1, FS_Surjection
<1>6. Cardinality(S) <= Limits.props
  BY <1>1, <1>3, LimitsArePositive
<1>7. Cardinality(props) <= Limits.props
  <2>1. Cardinality(props) \in Nat
    BY <1>5, FS_CardinalityType
  <2> QED
    BY <1>3, <1>5, <1>6, <2>1, LimitsArePositive
<1>8. ASSUME NEW p \in props
      PROVE  Bytes(p.key) \in 1 .. Limits.key /\ Bytes(p.value) <= Limits.value
  <2>1. PICK i \in S : p = Kept(i)
    BY <1>1
  <2>2. /\ m[i].key \in Texts /\ stringifyProp(m[i].value) \in Texts /\ m[i].key.len > 0
        /\ p.key = CutBytes(m[i].key, Limits.key)
        /\ p.value = CutBytes(stringifyProp(m[i].value), Limits.value)
    BY <1>4, <2>1
  <2>3. /\ Bytes(p.key) \in Nat /\ Bytes(p.key) <= Limits.key /\ Bytes(p.key) >= 1
        /\ Bytes(p.value) <= Limits.value
    BY <2>2, LimitsArePositive, CutKeepsWithin
  <2> QED
    BY <2>3, LimitsArePositive
<1>9. ASSUME \A i \in DOMAIN m : IsASCII(m[i].key) /\ PlainValue(m[i].value),
             Cardinality(named) <= Limits.props
      PROVE  props = SchemaProps(m)
  <2> DEFINE Cut(i) == [key |-> CutUnits(m[i].key, Limits.key),
                        value |-> CutUnits(String(m[i].value), Limits.value)]
             first == {i \in named : Cardinality({j \in named : j <= i}) <= Limits.props}
  <2>1. S = named
    <3>1. Cardinality(S) = Cardinality(named)
      BY <1>1, <1>3, <1>9, LimitsArePositive
    <3> QED
      BY <1>3, <3>1, FS_Subset
  <2>2. first = named
    <3>1. ASSUME NEW i \in named PROVE Cardinality({j \in named : j <= i}) <= Limits.props
      <4> DEFINE upto == {j \in named : j <= i}
      <4>1. upto \in SUBSET named
        OBVIOUS
      <4> HIDE DEF upto, named
      <4>2. Cardinality(upto) \in Nat /\ Cardinality(upto) <= Cardinality(named)
        BY <1>3, <4>1, FS_Subset, FS_CardinalityType
      <4>3. Cardinality(upto) <= Limits.props
        BY <1>3, <1>9, <4>2, LimitsArePositive
      <4> QED
        BY <4>3 DEF upto
    <3> QED
      BY <3>1
  <2>3. \A i \in named : Kept(i) = Cut(i)
    <3> SUFFICES ASSUME NEW i \in named PROVE Kept(i) = Cut(i)
      OBVIOUS
    <3>1. /\ m[i].key \in Texts /\ IsASCII(m[i].key)
          /\ m[i].value \in Values /\ PlainValue(m[i].value)
      BY <1>4, <1>9
    <3>2. CutBytes(m[i].key, Limits.key) = CutUnits(m[i].key, Limits.key)
      BY <3>1, LimitsArePositive, PlainCutsAlike
    <3>3. PICK v : v = stringifyProp(m[i].value)
      OBVIOUS
    <3>4. v \in Texts /\ IsASCII(v) /\ String(m[i].value) = v
      BY <3>1, <3>3, ValuesAreTexts
    <3>5. CutBytes(v, Limits.value) = CutUnits(v, Limits.value)
      BY <3>4, LimitsArePositive, PlainCutsAlike
    <3> QED
      BY <3>2, <3>3, <3>4, <3>5
  <2>4. SchemaProps(m) = {Cut(i) : i \in first}
    BY DEF SchemaProps
  <2> HIDE DEF Kept, Cut, first
  <2> QED
    BY <1>1, <2>1, <2>2, <2>3, <2>4
<1> QED
  BY <1>7, <1>8, <1>9

\* The referrer the ingestor keeps: a text within the limit, and as it was sent, without
\* its blanks, when it is within it.
LEMMA ReferrerKept ==
    ASSUME NEW r \in Referrers
    PROVE  LET s == CutReferrer(r) IN
           /\ s.url.text = CutBytes(Trim(r.url.text), Limits.url)
           /\ s.url.host = r.url.host
           /\ Bytes(r.url.text) <= Limits.url =>
                 s.url.text = Trim(r.url.text) /\ s.url.refused = r.url.refused
<1> DEFINE text == CutBytes(Trim(r.url.text), Limits.url)
           refused == IF Bytes(r.url.text) > Limits.url THEN r.cutRefused ELSE r.url.refused
           s == CutReferrer(r)
<1>1. r.url \in URLs /\ r.url.text \in Texts
  BY DEF Referrers, URLs
<1>2. s = [r EXCEPT !.url.text = text, !.url.refused = refused]
  BY DEF CutReferrer
<1> HIDE DEF text, refused, s
<1>3. s.url.text = text /\ s.url.refused = refused /\ s.url.host = r.url.host
  BY <1>1, <1>2 DEF Referrers, URLs
<1>4. ASSUME Bytes(r.url.text) <= Limits.url
      PROVE  text = Trim(r.url.text) /\ refused = r.url.refused
  <2>1. Trim(r.url.text) \in Texts /\ Bytes(Trim(r.url.text)) = Bytes(r.url.text)
    BY <1>1, TrimKeeps
  <2>2. text = Trim(r.url.text)
    BY <1>4, <2>1, CutKeepsWithin, LimitsArePositive DEF text
  <2>3. Bytes(r.url.text) \in Nat /\ Limits.url \in Nat
    <3>1. Bytes(text) \in Nat
      BY <2>1, CutKeepsWithin, LimitsArePositive DEF text
    <3> QED
      BY <2>1, <2>2, <3>1, LimitsArePositive
  <2>4. ~(Bytes(r.url.text) > Limits.url)
    BY <1>4, <2>3
  <2> QED
    BY <2>2, <2>4 DEF refused
<1> QED
  BY <1>3, <1>4 DEF s, text

\* The same source on both sides, of a referrer they read alike.
LEMMA SourceAlike ==
    ASSUME NEW r \in Referrers, PlainURL(r.url), NEW s, ~s.url.refused,
           s.url.host = r.url.host, s.url.text.len = r.url.text.len, NEW ownHost
    PROVE  ClassifyReferrer(s, ownHost) = classifyReferrer(r, ownHost)
<1>1. KNOWN_SOURCES = knownSources
  BY DEF KNOWN_SOURCES, knownSources
<1>2. IF r.url.absolute THEN r.url.host = r.url.webHost ELSE r.url.host.name = ""
  BY DEF PlainURL
<1>3. CASE ~r.url.absolute
  <2>1. classifyReferrer(r, ownHost) = "Direct"
    BY <1>3 DEF classifyReferrer
  <2>2. s.url.host.name = ""
    BY <1>2, <1>3
  <2>3. ClassifyReferrer(s, ownHost) = "Direct"
    BY <2>2 DEF ClassifyReferrer
  <2> QED
    BY <2>1, <2>3
<1>4. CASE r.url.absolute
  <2> DEFINE host == r.url.host
             hits == {i \in DOMAIN knownSources : knownSources[i][1] \in host.has}
             source == IF r.url.text.len = 0 \/ host.name \in {"", ownHost} THEN "Direct"
                       ELSE IF hits # {} THEN knownSources[Min(hits)][2] ELSE host.name
  <2>1. r.url.webHost = host
    BY <1>2, <1>4
  <2>2. classifyReferrer(r, ownHost) = source
    BY <1>1, <1>4, <2>1 DEF classifyReferrer
  <2>3. ClassifyReferrer(s, ownHost) = source
    BY DEF ClassifyReferrer
  <2> QED
    BY <2>2, <2>3
<1> QED
  BY <1>3, <1>4

\* What the ingestor may store for a tracker's beacon is within the limits, and is what
\* the schema reads when the beacon is plain and the schema accepts it; it stores that.
LEMMA RowsAgree ==
    ASSUME NEW b \in TrackerBeacons, b.u.url.text.len > 0, NEW id, NEW row \in Ingest(b, id, FALSE)
    PROVE  /\ row # None => WithinLimits(row)
           /\ id # 0 /\ visit.agent # "bot" => AsAgreed(b, row)
<1>1. /\ b.n \in Texts /\ b.u \in BeaconURLs /\ b.d \in Texts /\ b.r \in Referrers
      /\ b.m \in Seq(Properties) /\ b.bytes \in Nat /\ Limits.body \in Nat
  BY LimitsArePositive DEF TrackerBeacons
<1>2. /\ b.u.url.text \in Texts /\ b.u.utm \in Texts /\ b.r.url.text \in Texts
      /\ b.u.path \in URLPaths /\ b.u.url.absolute \in BOOLEAN
  BY <1>1 DEF BeaconURLs, Referrers, URLs
<1> DEFINE v == Validated(b)
           referrer == CutBytes(Trim(b.r.url.text), Limits.url)
<1>3. referrer \in Texts /\ Bytes(referrer) <= Limits.url
  <2>1. Trim(b.r.url.text) \in Texts /\ Limits.url \in Nat
    BY <1>2, TrimKeeps, LimitsArePositive
  <2> QED
    BY <2>1, CutKeepsWithin
<1>4. /\ v.n = Trim(b.n) /\ v.u = b.u /\ v.d = b.d /\ v.m = b.m
      /\ v.r = CutReferrer(b.r) /\ v.r.url.text = referrer
  <2>1. v = [b EXCEPT !.n = Trim(@), !.r = CutReferrer(@)]
    BY DEF Validated
  <2>2. CutReferrer(b.r).url.text = referrer
    BY <1>1, ReferrerKept
  <2> HIDE DEF v, referrer
  <2> QED
    BY <1>1, <2>1, <2>2 DEF TrackerBeacons
<1> HIDE DEF v, referrer
<1>5. ASSUME row \in BuildRows(v)
      PROVE  /\ row.name = Trim(b.n) /\ row.page = ParseURL(b.u) /\ row.referrer = referrer
             /\ row.source = ClassifyReferrer(v.r, ParseURL(b.u).host)
             /\ row.props \in NormalizeProps(b.m)
             /\ row = [name |-> row.name, page |-> row.page, referrer |-> row.referrer,
                       source |-> row.source, props |-> row.props]
  BY <1>4, <1>5 DEF BuildRows
<1>6. ASSUME Validate(b), row \in BuildRows(v)
      PROVE  WithinLimits(row)
  <2>1. Bytes(Trim(b.n)) \in 1 .. Limits.name /\ b.u.url.absolute /\ ~b.u.url.refused
    BY <1>6 DEF Validate
  <2>2. row.page.utm = IF b.u.utmOdd THEN NoText ELSE CutBytes(b.u.utm, Limits.tag)
    BY <1>5, <1>6, <2>1 DEF ParseURL
  <2>3. Bytes(row.page.utm) <= Limits.tag
    <3>1. Bytes(NoText) = 0 /\ Limits.tag \in Nat
      BY LimitsArePositive DEF Bytes, NoText
    <3>2. Bytes(CutBytes(b.u.utm, Limits.tag)) <= Limits.tag
      BY <1>2, CutKeepsWithin, LimitsArePositive
    <3>3. CASE b.u.utmOdd
      BY <2>2, <3>1, <3>3
    <3>4. CASE ~b.u.utmOdd
      BY <2>2, <3>2, <3>4
    <3> QED
      BY <3>3, <3>4
  <2>4. /\ Cardinality(row.props) <= Limits.props
        /\ \A p \in row.props : Bytes(p.key) \in 1 .. Limits.key /\ Bytes(p.value) <= Limits.value
    BY <1>1, <1>5, <1>6, PropsWithin
  <2> QED
    BY <1>3, <1>5, <1>6, <2>1, <2>3, <2>4 DEF WithinLimits
<1>7. ASSUME id # 0, visit.agent # "bot", b.bytes <= Limits.body, Plain(b), SchemaAccepts(b)
      PROVE  row = Agreed(b)
  <2>1. /\ IsASCII(b.n) /\ IsASCII(b.u.url.text) /\ IsASCII(b.u.utm) /\ IsASCII(b.d)
        /\ IsASCII(b.r.url.text) /\ ~b.u.path.escaped /\ ~b.u.utmOdd
        /\ ~b.u.url.refused /\ ~b.r.url.refused /\ PlainURL(b.r.url) /\ PlainURL(b.u.url)
        /\ \A i \in DOMAIN b.m : IsASCII(b.m[i].key) /\ PlainValue(b.m[i].value)
        /\ Cardinality({i \in DOMAIN b.m : b.m[i].key.len > 0}) <= Limits.props
    BY <1>7 DEF Plain, PlainURL
  <2>2. /\ Trim(b.n).len \in 1 .. Limits.name
        /\ b.u.url.absolute /\ b.u.url.text.len <= Limits.url
        /\ b.d.len \in 1 .. Limits.domain /\ b.r.url.text.len <= Limits.url
    BY <1>7 DEF SchemaAccepts
  <2>3. \A t \in Texts : IsASCII(t) => Bytes(t) = t.len /\ t.len \in Nat
    BY DEF IsASCII, Bytes, Texts
  <2>4. /\ Trim(b.n).len = b.n.len /\ Bytes(Trim(b.n)) = Bytes(b.n)
        /\ Trim(b.r.url.text).len = b.r.url.text.len
    BY <1>1, <1>2, TrimKeeps
  <2>5. Validate(b)
    <3>1. Bytes(b.n) = Trim(b.n).len /\ Bytes(b.d) = b.d.len
      BY <1>1, <2>1, <2>3, <2>4
    <3>2. Bytes(b.u.url.text) \in 1 .. Limits.url
      BY <1>2, <2>1, <2>2, <2>3, LimitsArePositive
    <3> QED
      BY <2>1, <2>2, <2>4, <3>1, <3>2 DEF Validate
  <2>6. row \in BuildRows(v)
    <3>1. ~(b.bytes > Limits.body)
      BY <1>1, <1>7
    <3> QED
      BY <1>7, <2>5, <3>1 DEF Ingest, v
  <2>7. v.r.url.text = Trim(b.r.url.text) /\ ~v.r.url.refused /\ v.r.url.host = b.r.url.host
    <3>1. Bytes(b.r.url.text) <= Limits.url
      BY <1>2, <2>1, <2>2, <2>3
    <3> QED
      BY <1>1, <1>4, <2>1, <3>1, ReferrerKept
  <2>8. ParseURL(b.u) = parseUrl(b.u)
    <3>1. CutBytes(b.u.utm, Limits.tag) = CutUnits(b.u.utm, Limits.tag)
      BY <1>2, <2>1, PlainCutsAlike, LimitsArePositive
    <3>2. [b.u.path EXCEPT !.escaped = FALSE] = b.u.path
      BY <1>2, <2>1 DEF URLPaths
    <3>3. b.u.url.host = b.u.url.webHost
      BY <2>1, <2>2 DEF PlainURL
    <3> QED
      BY <2>1, <2>2, <3>1, <3>2, <3>3 DEF ParseURL, parseUrl
  <2>9. ClassifyReferrer(v.r, ParseURL(b.u).host) = classifyReferrer(b.r, parseUrl(b.u).host)
    <3>1. v.r.url.text.len = b.r.url.text.len
      BY <2>4, <2>7
    <3> QED
      BY <1>1, <2>1, <2>7, <2>8, <3>1, SourceAlike
  <2>10. row.props = SchemaProps(b.m)
    BY <1>1, <1>5, <2>1, <2>6, PropsWithin
  <2> QED
    BY <1>4, <1>5, <2>6, <2>7, <2>8, <2>9, <2>10 DEF Agreed
<1>8. row # None => Validate(b) /\ row \in BuildRows(v)
  BY DEF Ingest, v
<1> QED
  BY <1>6, <1>7, <1>8 DEF AsAgreed

-----------------------------------------------------------------------------
(* The whole: the parts' invariants, and the rows that have been made *)

RowsInv ==
    \A h \in handled :
        /\ h.beacon \in TrackerBeacons /\ h.beacon.u.url.text.len > 0
        /\ h.row \in Ingest(h.beacon, h.id, FALSE)
        /\ h.row # None => h.id \in counted

OnboardingInv ==
    /\ TrackerInv /\ PagesInv /\ RowsInv
    /\ visit \in Visits /\ watching \in BOOLEAN
    /\ arrived \in 0 .. Len(tracker.sent)

LEMMA BodyIsBeacon ==
    ASSUME visit \in Visits, NEW sent \in Beacons
    PROVE  Body(sent) \in TrackerBeacons /\ Body(sent).u.url.text.len > 0
<1>1. /\ sent.path \in Paths
      /\ visit.event \in Texts /\ visit.referrer \in Referrers /\ visit.props \in Seq(Properties)
      /\ visit.bytes[sent.name] + Page(sent.path).url.text.len \in Nat
      /\ Page(sent.path) \in BeaconURLs /\ Page(sent.path).url.text.len > 0 /\ Domain \in Texts
  <2>1. /\ sent.path \in Paths /\ sent.name \in Calls
        /\ visit.event \in Texts /\ visit.referrer \in Referrers
        /\ visit.props \in Seq(Properties) /\ visit.bytes \in [Calls -> Nat]
        /\ Page(sent.path) \in BeaconURLs /\ Page(sent.path).url.text.len > 0
        /\ Domain \in Texts
    BY OnboardingAssumption DEF Beacons
  <2>2. visit.bytes[sent.name] \in Nat
    BY <2>1
  <2>3. Page(sent.path).url.text.len \in Nat
    <3>1. Page(sent.path).url.text \in Texts
      BY <2>1 DEF BeaconURLs, URLs
    <3> QED
      BY <3>1 DEF Texts
  <2> QED
    BY <2>1, <2>2, <2>3
<1>2. [len |-> 8, width |-> 1, pad |-> FALSE, id |-> Pageview] \in Texts
  <2>1. Pageview \in Words
    BY OnboardingAssumption
  <2>2. 8 \in Nat /\ 1 \in 1 .. 3 /\ FALSE \in BOOLEAN
    OBVIOUS
  <2> QED
    BY <2>1, <2>2 DEF Texts
<1>3. <<>> \in Seq(Properties)
  BY EmptySeq
<1> QED
  BY <1>1, <1>2, <1>3 DEF Body, TrackerBeacons

\* The rows stay what they are while the visitor is the same and no row is deleted.
LEMMA RowsStay ==
    ASSUME RowsInv, UNCHANGED <<handled, visit>>, counted \subseteq counted'
    PROVE  RowsInv'
BY DEF RowsInv, Ingest

LEMMA DeliverKeeps ==
    ASSUME OnboardingInv, Deliver
    PROVE  OnboardingInv'
<1>1. /\ arrived < Len(tracker.sent) /\ arrived' = arrived + 1
      /\ UNCHANGED <<trackerVars, site, recent, list, setup, checks, failures, visit, watching>>
  BY DEF Deliver
<1>0. PICK id \in ResolvesTo, over \in BOOLEAN : \E row \in Ingest(NextBeacon, id, over) :
         /\ handled' = IF over THEN handled
                       ELSE handled \cup {[beacon |-> NextBeacon, id |-> id, row |-> row]}
         /\ IF row = None THEN UNCHANGED counted ELSE StoreRow(id)
  BY DEF Deliver
<1>2. PICK row \in Ingest(NextBeacon, id, over) :
         /\ handled' = IF over THEN handled
                       ELSE handled \cup {[beacon |-> NextBeacon, id |-> id, row |-> row]}
         /\ IF row = None THEN UNCHANGED counted ELSE StoreRow(id)
  BY <1>0
<1>3. /\ tracker \in Closures /\ Len(tracker.sent) \in Nat /\ arrived \in 0 .. Len(tracker.sent)
      /\ visit \in Visits /\ TrackerInv /\ PagesInv /\ RowsInv
  BY TrackerFacts DEF OnboardingInv
<1>4. arrived + 1 \in 1 .. Len(tracker.sent)
  BY <1>1, <1>3
<1>5. tracker.sent[arrived + 1] \in Beacons
  BY <1>3, <1>4, ElementOfSeq DEF Closures
<1>6. PICK b : b = NextBeacon
  OBVIOUS
<1>7. b \in TrackerBeacons /\ b.u.url.text.len > 0 /\ row \in Ingest(b, id, over)
  BY <1>2, <1>3, <1>5, <1>6, BodyIsBeacon DEF NextBeacon
<1>8. row # None => id \in 1 .. site.inserted
  <2>1. row # None => id # 0
    BY <1>7 DEF Ingest
  <2>2. id \in 0 .. site.inserted /\ site.inserted \in Nat
    BY <1>2, <1>3, PagesFacts DEF ResolvesTo
  <2> QED
    BY <2>1, <2>2
<1>9. /\ counted \subseteq counted' /\ counted' \subseteq 1 .. site.inserted
      /\ row # None => id \in counted'
  BY <1>2, <1>3, <1>8, PagesFacts DEF StoreRow
<1>10. PagesInv'
  BY <1>1, <1>3, <1>9, CountsGrow
<1>11. TrackerInv' /\ tracker' = tracker
  BY <1>1, <1>3, TrackerSteps DEF trackerVars
<1>12. RowsInv'
  <2>1. /\ handled' = IF over THEN handled
                      ELSE handled \cup {[beacon |-> b, id |-> id, row |-> row]}
        /\ visit' = visit
    BY <1>1, <1>2, <1>6
  <2>2. ASSUME NEW h \in handled'
        PROVE  /\ h.beacon \in TrackerBeacons /\ h.beacon.u.url.text.len > 0
               /\ h.row \in Ingest(h.beacon, h.id, FALSE)
               /\ h.row # None => h.id \in counted'
    <3>1. CASE h \in handled
      BY <1>3, <1>9, <3>1 DEF RowsInv
    <3>2. CASE ~over /\ h = [beacon |-> b, id |-> id, row |-> row]
      <4>1. h.beacon = b /\ h.id = id /\ h.row = row /\ over = FALSE
        BY <3>2
      <4> QED
        BY <1>7, <1>9, <4>1
    <3> QED
      BY <2>1, <3>1, <3>2
  <2> QED
    BY <2>1, <2>2 DEF RowsInv, Ingest
<1>13. /\ visit' \in Visits /\ watching' \in BOOLEAN
       /\ arrived' \in 0 .. Len(tracker'.sent)
  BY <1>1, <1>3, <1>4, <1>11 DEF OnboardingInv
<1> QED
  BY <1>10, <1>11, <1>12, <1>13 DEF OnboardingInv

LEMMA OnboardingStarts == Init => OnboardingInv
<1> SUFFICES ASSUME Init PROVE OnboardingInv
  OBVIOUS
<1>1. /\ visit \in Visits /\ watching \in BOOLEAN /\ TrackerInit /\ PagesStart
      /\ \/ site = [id |-> 0, inserted |-> 0] \/ site = [id |-> 1, inserted |-> 1]
      /\ arrived = 0 /\ handled = {}
  BY DEF Init, PagesInit
<1>2. TrackerInv /\ PagesInv
  BY <1>1, TrackerStarts, PagesBegin, OnboardingAssumption
<1>3. arrived \in 0 .. Len(tracker.sent)
  BY <1>1, <1>2, TrackerFacts
<1> QED
  BY <1>1, <1>2, <1>3 DEF OnboardingInv, RowsInv

LEMMA OnboardingSteps == OnboardingInv /\ [Next]_vars => OnboardingInv'
<1> SUFFICES ASSUME OnboardingInv, [Next]_vars PROVE OnboardingInv'
  OBVIOUS
<1>1. /\ TrackerInv /\ PagesInv /\ RowsInv /\ Len(tracker.sent) \in Nat
      /\ visit \in Visits /\ watching \in BOOLEAN /\ arrived \in 0 .. Len(tracker.sent)
  BY TrackerFacts DEF OnboardingInv
<1>2. CASE Deliver
  BY <1>2, DeliverKeeps
\* Every other step is one of the script or none, and one of the pages or none.
<1>3. ASSUME TrackerNext \/ UNCHANGED trackerVars, PagesNext \/ UNCHANGED pagesVars,
             UNCHANGED <<visit, watching, handled>>,
             arrived' \in arrived .. Len(tracker.sent)
      PROVE  OnboardingInv'
  <2>1. TrackerInv' /\ MoreSent
    BY <1>1, <1>3, TrackerSteps
  <2>2. PagesInv' /\ counted \subseteq counted'
    BY <1>1, <1>3, PagesSteps
  <2>3. RowsInv'
    BY <1>1, <1>3, <2>2, RowsStay
  <2>4. Len(tracker'.sent) \in Nat
    <3>1. tracker' \in Closures
      BY <2>1 DEF TrackerInv, TrackerTypeOK, Closures
    <3> QED
      BY <3>1, LenProperties DEF Closures
  <2>5. arrived' \in 0 .. Len(tracker'.sent)
    BY <1>1, <1>3, <2>1, <2>4 DEF MoreSent
  <2> QED
    BY <1>1, <1>3, <2>1, <2>2, <2>3, <2>5 DEF OnboardingInv
<1>4. CASE /\ IF watching THEN RunScript ELSE TrackerNext
           /\ UNCHANGED <<pagesVars, visit, watching, arrived, handled>>
  <2>1. TrackerNext
    BY <1>4 DEF TrackerNext
  <2>2. arrived' \in arrived .. Len(tracker.sent)
    BY <1>1, <1>4
  <2> QED
    BY <1>3, <1>4, <2>1, <2>2
<1>5. CASE watching /\ PagesNext /\ UNCHANGED <<trackerVars, visit, watching, arrived, handled>>
  <2>1. arrived' \in arrived .. Len(tracker.sent)
    BY <1>1, <1>5
  <2> QED
    BY <1>3, <1>5, <2>1
<1>6. CASE Lose
  <2>1. arrived' \in arrived .. Len(tracker.sent)
    BY <1>1, <1>6 DEF Lose
  <2> QED
    BY <1>3, <1>6, <2>1 DEF Lose
<1>7. CASE UNCHANGED vars
  <2>1. arrived' \in arrived .. Len(tracker.sent)
    BY <1>1, <1>7 DEF vars
  <2> QED
    BY <1>3, <1>7, <2>1 DEF vars
<1> QED
  BY <1>2, <1>4, <1>5, <1>6, <1>7 DEF Next

\* The script's closure and its counters, the dashboard's pages and the rows in the
\* table have their shapes, for every site and visitor; what a page shows as live or
\* verified has rows (tracker.ts, +page.svelte of the sites and of the setup page).
THEOREM OnboardingTypeCorrect == Spec => []TypeOK
<1>1. OnboardingInv => TypeOK
  BY DEF OnboardingInv, TrackerInv, PagesInv, RowsInv, TypeOK
<1> QED
  BY OnboardingStarts, OnboardingSteps, <1>1, PTL DEF Spec

\* Every stay at a path is one pageview, for any paths, queued calls, moves and tabs:
\* the closure's last path is the page's exactly when the stay has been seen
\* (tracker.ts:73-77, tracker.ts:107-119).
THEOREM StaysReportedOnce == Spec => []OnePageviewPerStay
<1>1. OnboardingInv => OnePageviewPerStay
  BY DEF OnboardingInv, TrackerInv, StayInv, OnePageviewPerStay
<1> QED
  BY OnboardingStarts, OnboardingSteps, <1>1, PTL DEF Spec

\* On plain beacons the ingestor's rules are the shared schema's: texts in ASCII, addresses as
\* a browser writes them, numbers from 1e-6 to below 1e21, in a body that is not cut.  And what
\* is stored keeps the limits, whatever a script sends and whatever the limits are
\* (validate.go:10-71, url.go:21-85, events.ts:12-49, url.ts:15-77).
THEOREM RowsAreAsAgreed == Spec => []StoredAsAgreed
<1>1. OnboardingInv => StoredAsAgreed
  <2> SUFFICES ASSUME OnboardingInv, NEW h \in handled
               PROVE  /\ (/\ h.id # 0 /\ visit.agent # "bot" /\ h.beacon.bytes <= Limits.body
                          /\ Plain(h.beacon) /\ SchemaAccepts(h.beacon))
                            => h.row = Agreed(h.beacon)
                      /\ h.row # None => WithinLimits(h.row)
    BY DEF StoredAsAgreed, WithinLimits
  <2>1. /\ h.beacon \in TrackerBeacons /\ h.beacon.u.url.text.len > 0
        /\ h.row \in Ingest(h.beacon, h.id, FALSE)
    BY DEF OnboardingInv, RowsInv
  <2> QED
    BY <2>1, RowsAgree DEF AsAgreed
<1> QED
  BY OnboardingStarts, OnboardingSteps, <1>1, PTL DEF Spec
=============================================================================
