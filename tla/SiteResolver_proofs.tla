------------------------ MODULE SiteResolver_proofs ------------------------
(***************************************************************************)
(* Proof about SiteResolver, for every set of domains and requests, every  *)
(* TTL and every bound: no answer is staler than the TTL.                  *)
(***************************************************************************)
EXTENDS SiteResolver, TLAPS

\* The fields of a call to Resolve.
LEMMA CallFields ==
    ASSUME NEW c \in Call
    PROVE  c.domain \in Domains /\ c.start \in Nat /\ c.info \in Answers
BY DEF Call

\* The fields of a cache entry.
LEMMA EntryFields ==
    ASSUME NEW e \in Entry
    PROVE  e.info \in Answers /\ e.expires \in Nat
BY DEF Entry

\* The answer that the database starts with.
LEMMA ZeroAnswer == 0 \in Answers
BY ResolverAssumption DEF Answers

-----------------------------------------------------------------------------
(* Types *)

\* A new resolver is well-formed.
LEMMA InitTypeOK == Init => TypeOK
<1> SUFFICES ASSUME Init PROVE TypeOK
  OBVIOUS
<1>1. SomeDomain \in Domains
  BY ResolverAssumption DEF SomeDomain
<1>2. call \in [Requests -> Call]
  BY <1>1, ZeroAnswer DEF Init, Call
<1>3. cache \in [Domains -> Entry]
  BY ZeroAnswer DEF Init, Entry
<1>4. /\ now \in Nat /\ answer \in [Domains -> Answers]
      /\ until \in [Domains -> [Answers -> Nat]]
  BY ZeroAnswer DEF Init
<1> QED
  BY <1>2, <1>3, <1>4 DEF TypeOK

\* A request that moves on inside Resolve stays a well-formed call.
LEMMA GotoTypeOK ==
    ASSUME TypeOK, NEW r \in Requests, NEW i \in Answers,
           NEW at \in {"idle", "called", "looking", "found", "returned", "failed"},
           Goto(r, at, i)
    PROVE  call' \in [Requests -> Call]
<1>1. call[r] \in Call
  BY DEF TypeOK
<1>2. [at |-> at, domain |-> call[r].domain, start |-> call[r].start, info |-> i] \in Call
  BY <1>1, CallFields DEF Call
<1> QED
  BY <1>2 DEF TypeOK, Goto

\* Every step keeps the types.
LEMMA NextTypeOK == TypeOK /\ [Next]_vars => TypeOK'
<1> SUFFICES ASSUME TypeOK, [Next]_vars PROVE TypeOK'
  OBVIOUS
<1> USE DEF TypeOK
<1>1. ASSUME NEW r \in Requests, Resolve(r) PROVE TypeOK'
  <2>1. call[r] \in Call /\ call[r].domain \in Domains /\ call[r].start \in Nat
        /\ call[r].info \in Answers
    BY CallFields
  <2>2. CASE CacheHit(r)
    <3>1. cache[call[r].domain].info \in Answers
      BY <2>1, EntryFields
    <3>2. call' \in [Requests -> Call]
      BY <2>2, <3>1, GotoTypeOK DEF CacheHit
    <3> QED
      BY <2>2, <3>2 DEF CacheHit
  <2>3. CASE CacheMiss(r)
    <3>1. call' \in [Requests -> Call]
      BY <2>3, ZeroAnswer, GotoTypeOK DEF CacheMiss
    <3> QED
      BY <2>3, <3>1 DEF CacheMiss
  <2>4. CASE Lookup(r)
    <3>1. call' \in [Requests -> Call]
      BY <2>1, <2>4, GotoTypeOK DEF Lookup
    <3> QED
      BY <2>4, <3>1 DEF Lookup
  <2>5. CASE LookupFails(r)
    <3>1. call' \in [Requests -> Call]
      BY <2>5, ZeroAnswer, GotoTypeOK DEF LookupFails
    <3> QED
      BY <2>5, <3>1 DEF LookupFails
  <2>6. CASE Store(r)
    <3>1. call' \in [Requests -> Call]
      BY <2>1, <2>6, GotoTypeOK DEF Store
    <3>2. [info |-> call[r].info, expires |-> Expiry(r)] \in Entry
      BY <2>1, ResolverAssumption DEF Expiry, Entry
    <3>3. cache' \in [Domains -> Entry]
      BY <2>6, <3>2 DEF Store
    <3> QED
      BY <2>6, <3>1, <3>3 DEF Store
  <2> QED
    BY <1>1, <2>2, <2>3, <2>4, <2>5, <2>6 DEF Resolve
<1>2. ASSUME NEW r \in Requests, NEW d \in Domains, Begin(r, d) PROVE TypeOK'
  <2>1. [at |-> "called", domain |-> d, start |-> now, info |-> 0] \in Call
    BY ZeroAnswer DEF Call
  <2> QED
    BY <1>2, <2>1 DEF Begin
<1>3. ASSUME NEW d \in Domains, Change(d) PROVE TypeOK'
  <2>1. answer[d] \in Answers /\ answer[d] + 1 \in Answers
    <3>1. answer[d] \in Answers /\ answer[d] < MaxChanges
      BY <1>3 DEF Change
    <3> QED
      <4>1. \A n \in 0..MaxChanges : n < MaxChanges => n + 1 \in 0..MaxChanges
        BY ONLY ResolverAssumption
      <4> QED
        BY <3>1, <4>1 DEF Answers
  <2> QED
    BY <1>3, <2>1 DEF Change
<1>4. CASE Tick
  BY <1>4 DEF Tick
<1>5. CASE UNCHANGED vars
  BY <1>5 DEF vars
<1> QED
  BY <1>1, <1>2, <1>3, <1>4, <1>5 DEF Next

\* The cache and the calls keep their shape in every reachable state.
THEOREM TypeCorrect == Spec => []TypeOK
BY InitTypeOK, NextTypeOK, PTL DEF Spec

-----------------------------------------------------------------------------
(* Staleness *)

\* An entry expires at most a TTL after its answer was last known to be true,
\* however long the lookup that brought it took (resolver.go:37, 52).
EntryFresh ==
    \A d \in Domains :
        cache[d].expires > 0 => cache[d].expires <= LastTrue(d, cache[d].info) + TTL

\* What a call found was true after the call began.
FoundFresh ==
    \A r \in Requests :
        call[r].at = "found" => call[r].start <= LastTrue(call[r].domain, call[r].info)

\* The inductive invariant: entries and lookups are fresh, so answers are.
IInv ==
    /\ TypeOK
    /\ EntryFresh
    /\ FoundFresh
    /\ StaleAtMostTTL
    \* no call begins in the future
    /\ \A r \in Requests : call[r].start <= now
    /\ \A d \in Domains, a \in Answers : until[d][a] <= now

\* Time passing, and answers being replaced, never make a moment at which an
\* answer was true an earlier one.
LEMMA LastTrueGrows ==
    ASSUME IInv, TypeOK', NEW d \in Domains, NEW a \in Answers,
           \/ Tick
           \/ \E e \in Domains : Change(e)
           \/ UNCHANGED <<now, answer, until>>
    PROVE  /\ LastTrue(d, a) \in Nat /\ LastTrue(d, a)' \in Nat
           /\ LastTrue(d, a)' >= LastTrue(d, a)
<1> USE DEF IInv
<1>1. now \in Nat /\ now' \in Nat /\ until[d][a] \in Nat /\ until'[d][a] \in Nat
  BY DEF TypeOK
<1>2. CASE Tick
  BY <1>1, <1>2 DEF Tick, LastTrue
<1>3. ASSUME NEW e \in Domains, Change(e)
      PROVE  LastTrue(d, a)' >= LastTrue(d, a)
  <2>1. now' = now /\ until' = [until EXCEPT ![e][answer[e]] = now]
    BY <1>3 DEF Change
  <2>2. CASE a = answer[e] /\ d = e
    <3>1. until'[d][a] = now
      BY <2>1, <2>2 DEF TypeOK
    <3> QED
      BY <1>1, <2>1, <3>1 DEF LastTrue
  <2>3. CASE ~(a = answer[e] /\ d = e)
    <3>1. until'[d][a] = until[d][a]
      BY <2>1, <2>3 DEF TypeOK
    <3>2. a = answer[d] => a = answer'[d]
      BY <1>3, <2>3 DEF Change, TypeOK
    <3> QED
      BY <1>1, <2>1, <3>1, <3>2 DEF LastTrue
  <2> QED
    BY <2>2, <2>3
<1>4. CASE UNCHANGED <<now, answer, until>>
  BY <1>1, <1>4 DEF LastTrue
<1> QED
  BY <1>1, <1>2, <1>3, <1>4 DEF LastTrue

\* The inductive invariant holds at the start.
LEMMA InitIInv == Init => IInv
<1> SUFFICES ASSUME Init PROVE IInv
  OBVIOUS
<1>1. TypeOK
  BY InitTypeOK
<1>2. EntryFresh /\ FoundFresh /\ StaleAtMostTTL
  BY DEF Init, EntryFresh, FoundFresh, StaleAtMostTTL
<1>3. /\ \A r \in Requests : call[r].start <= now
      /\ \A d \in Domains, a \in Answers : until[d][a] <= now
  BY DEF Init
<1> QED
  BY <1>1, <1>2, <1>3 DEF IInv

\* A step of one call that leaves the cache alone keeps the invariant when the
\* call's new answer is as fresh as its place in Resolve requires.
LEMMA CallStep ==
    ASSUME IInv, TypeOK', NEW r \in Requests,
           UNCHANGED <<now, answer, until, cache>>,
           \A q \in Requests : q # r => call'[q] = call[q],
           call'[r].start <= now,
           call'[r].at = "found" =>
              call'[r].start <= LastTrue(call'[r].domain, call'[r].info),
           call'[r].at = "returned" =>
              LET t == LastTrue(call'[r].domain, call'[r].info)
              IN  call'[r].start <= t \/ call'[r].start < t + TTL
    PROVE  IInv'
<1> USE DEF IInv
<1>1. EntryFresh'
  BY DEF EntryFresh, LastTrue
<1>2. FoundFresh'
  BY DEF FoundFresh, LastTrue
<1>3. StaleAtMostTTL'
  BY DEF StaleAtMostTTL, LastTrue
<1>4. \A q \in Requests : call'[q].start <= now'
  OBVIOUS
<1> QED
  BY <1>1, <1>2, <1>3, <1>4

\* When the clock or the dashboard moves on, what was fresh stays fresh.
LEMMA WorldStep ==
    ASSUME IInv, TypeOK', Tick \/ \E e \in Domains : Change(e)
    PROVE  IInv'
<1> USE DEF IInv
<1>1. call' = call /\ cache' = cache /\ now \in Nat /\ now' \in Nat /\ now' >= now
  BY DEF Tick, Change, TypeOK
<1>2. ASSUME NEW r \in Requests
      PROVE  /\ call[r].domain \in Domains /\ call[r].start \in Nat /\ call[r].info \in Answers
  BY CallFields DEF TypeOK
<1>3. ASSUME NEW d \in Domains
      PROVE  cache[d].info \in Answers /\ cache[d].expires \in Nat
  BY EntryFields DEF TypeOK
<1>4. EntryFresh'
  <2> SUFFICES ASSUME NEW d \in Domains, NEW a \in Answers, a = cache[d].info,
                      cache[d].expires > 0
               PROVE  cache[d].expires <= LastTrue(d, a)' + TTL
    BY <1>1, <1>3 DEF EntryFresh
  <2>1. cache[d].expires <= LastTrue(d, a) + TTL
    BY DEF EntryFresh
  <2> QED
    BY <1>3, <2>1, LastTrueGrows, ResolverAssumption
<1>5. FoundFresh'
  <2> SUFFICES ASSUME NEW r \in Requests, NEW d \in Domains, NEW a \in Answers,
                      d = call[r].domain, a = call[r].info, call[r].at = "found"
               PROVE  call[r].start <= LastTrue(d, a)'
    BY <1>1, <1>2 DEF FoundFresh
  <2>1. call[r].start <= LastTrue(d, a)
    BY DEF FoundFresh
  <2> QED
    BY <1>2, <2>1, LastTrueGrows
<1>6. StaleAtMostTTL'
  <2> SUFFICES ASSUME NEW r \in Requests, NEW d \in Domains, NEW a \in Answers,
                      d = call[r].domain, a = call[r].info, call[r].at = "returned"
               PROVE  call[r].start <= LastTrue(d, a)' \/ call[r].start < LastTrue(d, a)' + TTL
    BY <1>1, <1>2 DEF StaleAtMostTTL
  <2>1. call[r].start <= LastTrue(d, a) \/ call[r].start < LastTrue(d, a) + TTL
    BY DEF StaleAtMostTTL
  <2>2. LastTrue(d, a) \in Nat /\ LastTrue(d, a)' \in Nat /\ LastTrue(d, a)' >= LastTrue(d, a)
    BY LastTrueGrows
  <2> QED
    BY <1>2, <2>1, <2>2, ResolverAssumption
<1>7. \A r \in Requests : call'[r].start <= now'
  BY <1>1, <1>2
<1>8. ASSUME NEW d \in Domains, NEW a \in Answers PROVE until'[d][a] <= now'
  BY <1>1 DEF Tick, Change, TypeOK
<1> QED
  BY <1>4, <1>5, <1>6, <1>7, <1>8

\* The steps of Resolve keep the inductive invariant.
LEMMA ResolveIInv ==
    ASSUME IInv, TypeOK', NEW r \in Requests, Resolve(r)
    PROVE  IInv'
<1> USE DEF IInv
<1> DEFINE d == call[r].domain
           e == cache[d]
<1>1. /\ d \in Domains /\ call[r].start \in Nat /\ call[r].info \in Answers
      /\ e.info \in Answers /\ e.expires \in Nat /\ now \in Nat
  BY CallFields, EntryFields DEF TypeOK
<1>2. CASE CacheHit(r)
  <2>1. /\ call'[r].at = "returned" /\ call'[r].domain = d
        /\ call'[r].start = call[r].start /\ call'[r].info = e.info
        /\ \A q \in Requests : q # r => call'[q] = call[q]
    BY <1>2 DEF CacheHit, Goto, TypeOK
  <2>2. e.expires > call[r].start
    BY <1>2 DEF CacheHit, Live
  <2>3. e.expires <= LastTrue(d, e.info) + TTL
    BY <1>1, <2>2 DEF EntryFresh
  <2>4. LastTrue(d, e.info) \in Nat
    BY <1>1 DEF LastTrue, TypeOK
  <2>5. call[r].start < LastTrue(d, e.info) + TTL
    BY <1>1, <2>2, <2>3, <2>4, ResolverAssumption
  <2>6. UNCHANGED <<now, answer, until, cache>>
    BY <1>2 DEF CacheHit
  <2> QED
    BY <2>1, <2>5, <2>6, CallStep
<1>3. CASE CacheMiss(r) \/ LookupFails(r)
  <2>1. /\ call'[r].at \in {"looking", "failed"} /\ call'[r].start = call[r].start
        /\ \A q \in Requests : q # r => call'[q] = call[q]
    BY <1>3 DEF CacheMiss, LookupFails, Goto, TypeOK
  <2>2. UNCHANGED <<now, answer, until, cache>>
    BY <1>3 DEF CacheMiss, LookupFails
  <2> QED
    BY <2>1, <2>2, CallStep
<1>4. CASE Lookup(r)
  <2>1. /\ call'[r].at = "found" /\ call'[r].domain = d
        /\ call'[r].start = call[r].start /\ call'[r].info = answer[d]
        /\ \A q \in Requests : q # r => call'[q] = call[q]
    BY <1>4 DEF Lookup, Goto, TypeOK
  <2>2. LastTrue(d, answer[d]) = now
    BY DEF LastTrue
  <2>3. UNCHANGED <<now, answer, until, cache>>
    BY <1>4 DEF Lookup
  <2> QED
    BY <2>1, <2>2, <2>3, CallStep
<1>5. CASE Store(r)
  <2>1. /\ call'[r].at = "returned" /\ call'[r].domain = d
        /\ call'[r].start = call[r].start /\ call'[r].info = call[r].info
        /\ \A q \in Requests : q # r => call'[q] = call[q]
    BY <1>5 DEF Store, Goto, TypeOK
  <2>2. cache' = [cache EXCEPT ![d] = [info |-> call[r].info,
                                       expires |-> call[r].start + TTL]]
    BY <1>5 DEF Store, Expiry
  <2>3. UNCHANGED <<now, answer, until>>
    BY <1>5 DEF Store
  <2>4. call[r].start <= LastTrue(d, call[r].info)
    BY <1>5 DEF Store, FoundFresh
  <2>5. LastTrue(d, call[r].info) \in Nat
    BY <1>1 DEF LastTrue, TypeOK
  <2>6. EntryFresh'
    <3> SUFFICES ASSUME NEW c \in Domains, NEW a \in Answers, a = cache'[c].info,
                        cache'[c].expires > 0
                 PROVE  cache'[c].expires <= LastTrue(c, a) + TTL
      <4>1. \A c \in Domains : cache'[c].info \in Answers
        BY EntryFields DEF TypeOK
      <4> QED
        BY <2>3, <4>1 DEF EntryFresh, LastTrue
    <3>1. CASE c = d
      <4>1. cache'[c].info = call[r].info /\ cache'[c].expires = call[r].start + TTL
        BY <1>1, <2>2, <3>1 DEF TypeOK
      <4> QED
        BY <1>1, <2>4, <2>5, <3>1, <4>1, ResolverAssumption
    <3>2. CASE c # d
      <4>1. cache'[c] = cache[c]
        BY <2>2, <3>2 DEF TypeOK
      <4> QED
        BY <4>1 DEF EntryFresh
    <3> QED
      BY <3>1, <3>2
  <2>7. FoundFresh'
    BY <2>1, <2>3 DEF FoundFresh, LastTrue
  <2>8. StaleAtMostTTL'
    BY <2>1, <2>3, <2>4 DEF StaleAtMostTTL, LastTrue
  <2>9. \A q \in Requests : call'[q].start <= now'
    BY <2>1, <2>3
  <2> QED
    BY <2>3, <2>6, <2>7, <2>8, <2>9
<1> QED
  BY <1>2, <1>3, <1>4, <1>5 DEF Resolve

\* Every step keeps the inductive invariant.
LEMMA NextIInv == IInv /\ [Next]_vars => IInv'
<1> SUFFICES ASSUME IInv, [Next]_vars PROVE IInv'
  OBVIOUS
<1>1. TypeOK'
  BY NextTypeOK DEF IInv
<1>2. ASSUME NEW r \in Requests, NEW d \in Domains, Begin(r, d) PROVE IInv'
  <2>1. /\ call'[r].at = "called" /\ call'[r].start = now
        /\ \A q \in Requests : q # r => call'[q] = call[q]
    BY <1>2 DEF Begin, IInv, TypeOK
  <2>2. now \in Nat /\ UNCHANGED <<now, answer, until, cache>>
    BY <1>2 DEF Begin, IInv, TypeOK
  <2> QED
    BY <1>1, <2>1, <2>2, CallStep
<1>3. CASE UNCHANGED vars
  BY <1>3 DEF vars, IInv, TypeOK, EntryFresh, FoundFresh, StaleAtMostTTL, LastTrue
<1> QED
  BY <1>1, <1>2, <1>3, ResolveIInv, WorldStep DEF Next

\* Whatever the number of requests, the speed of the lookups and the changes made
\* in the dashboard, an answer served to a beacon was true during its call or
\* less than a TTL before it.
THEOREM NeverStalerThanTTL == Spec => []StaleAtMostTTL
<1>1. Spec => []IInv
  BY InitIInv, NextIInv, PTL DEF Spec
<1> QED
  BY <1>1, PTL DEF IInv
=============================================================================
