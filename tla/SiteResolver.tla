---------------------------- MODULE SiteResolver ----------------------------
(***************************************************************************)
(* The site cache of the ingestor, apps/ingestor/internal/sites, over the  *)
(* lookup of internal/store/postgres.go.  Entries, negative ones included, *)
(* live for a TTL; the lock is not held while Postgres is asked.           *)
(*                                                                         *)
(* What a lookup answers for a domain (its site, org and monthly limit, or *)
(* "not registered") is the number of times the dashboard changed it, so   *)
(* two different answers are never taken for one another.                  *)
(***************************************************************************)
EXTENDS Integers

CONSTANTS
    Domains,      \* the reported domains
    Requests,     \* request goroutines that may be inside Resolve
    TTL,          \* lifetime of an entry, in ticks of the clock
    MaxTime,      \* bound: ticks of the clock
    MaxChanges    \* bound: changes of one domain's answer

ASSUME ResolverAssumption ==
    /\ Domains # {}
    /\ TTL \in Nat
    /\ MaxTime \in Nat
    /\ MaxChanges \in Nat

VARIABLES
    now,          \* the clock
    answer,       \* what Postgres holds for each domain
    until,        \* history: when an answer stopped being the current one
    cache,        \* Resolver.cache; an entry that expires at 0 is no entry
    call          \* what each request goroutine is doing in Resolve

vars == <<now, answer, until, cache, call>>

Answers == 0..MaxChanges
Entry == [info : Answers, expires : Nat]
Call == [at : {"idle", "called", "looking", "found", "returned", "failed"},
         domain : Domains, start : Nat, info : Answers]

\* The shape of the state (resolver.go entry, Resolver).
TypeOK ==
    /\ now \in Nat
    /\ answer \in [Domains -> Answers]
    /\ until \in [Domains -> [Answers -> Nat]]
    /\ cache \in [Domains -> Entry]
    /\ call \in [Requests -> Call]

SomeDomain == CHOOSE d \in Domains : TRUE

Init ==
    /\ now = 0
    /\ answer = [d \in Domains |-> 0]
    /\ until = [d \in Domains |-> [a \in Answers |-> 0]]
    /\ cache = [d \in Domains |-> [info |-> 0, expires |-> 0]]
    /\ call = [r \in Requests |->
                  [at |-> "idle", domain |-> SomeDomain, start |-> 0, info |-> 0]]

-----------------------------------------------------------------------------
(* Resolve *)

Goto(r, at, info) ==
    call' = [call EXCEPT ![r] =
                [at |-> at, domain |-> call[r].domain, start |-> call[r].start,
                 info |-> info]]

\* The clock is read before anything else.
Begin(r, d) ==
    /\ call[r].at \in {"idle", "returned", "failed"}
    /\ call' = [call EXCEPT ![r] =
                   [at |-> "called", domain |-> d, start |-> now, info |-> 0]]
    /\ UNCHANGED <<now, answer, until, cache>>

Live(e, t) == e.expires > t

CacheHit(r) ==
    /\ call[r].at = "called"
    /\ Live(cache[call[r].domain], call[r].start)
    /\ Goto(r, "returned", cache[call[r].domain].info)
    /\ UNCHANGED <<now, answer, until, cache>>

CacheMiss(r) ==
    /\ call[r].at = "called"
    /\ ~Live(cache[call[r].domain], call[r].start)
    /\ Goto(r, "looking", 0)
    /\ UNCHANGED <<now, answer, until, cache>>

\* Postgres answers while no lock is held.
Lookup(r) ==
    /\ call[r].at = "looking"
    /\ Goto(r, "found", answer[call[r].domain])
    /\ UNCHANGED <<now, answer, until, cache>>

\* An error is returned and not cached.
LookupFails(r) ==
    /\ call[r].at = "looking"
    /\ Goto(r, "failed", 0)
    /\ UNCHANGED <<now, answer, until, cache>>

\* Mutant of Expiry: counted from the moment of the write.
ExpiryFromNow(r) == now + TTL

\* Mutant of Expiry: the lifetime has the wrong sign.
ExpiryBefore(r) == call[r].start - TTL

\* When an entry stored by this call ends: counted from the call's start.
Expiry(r) == call[r].start + TTL

\* The answer replaces whatever entry is there, a younger one too.
Store(r) ==
    /\ call[r].at = "found"
    /\ cache' = [cache EXCEPT ![call[r].domain] =
                    [info |-> call[r].info, expires |-> Expiry(r)]]
    /\ Goto(r, "returned", call[r].info)
    /\ UNCHANGED <<now, answer, until>>

Resolve(r) == CacheHit(r) \/ CacheMiss(r) \/ Lookup(r) \/ LookupFails(r) \/ Store(r)

-----------------------------------------------------------------------------
(* The dashboard and the clock *)

\* The site is created, deleted or moved to another plan.
Change(d) ==
    /\ answer[d] < MaxChanges
    /\ answer' = [answer EXCEPT ![d] = @ + 1]
    /\ until' = [until EXCEPT ![d][answer[d]] = now]
    /\ UNCHANGED <<now, cache, call>>

Tick ==
    /\ now < MaxTime
    /\ now' = now + 1
    /\ UNCHANGED <<answer, until, cache, call>>

Next ==
    \/ \E r \in Requests : Resolve(r) \/ \E d \in Domains : Begin(r, d)
    \/ \E d \in Domains : Change(d)
    \/ Tick

Spec == Init /\ [][Next]_vars

-----------------------------------------------------------------------------
(* Properties *)

\* The last moment at which answer `a` was the current one.
LastTrue(d, a) == IF a = answer[d] THEN now ELSE until[d][a]

\* An answer given to a beacon was true during the call, or less than a TTL
\* before it: a deleted site, a new site or a changed limit is noticed within a
\* TTL, even when slow lookups overwrite younger entries (resolver.go Resolve).
StaleAtMostTTL ==
    \A r \in Requests :
        call[r].at = "returned" =>
            LET t == LastTrue(call[r].domain, call[r].info)
            IN  call[r].start <= t \/ call[r].start < t + TTL
=============================================================================
