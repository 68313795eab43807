---------------------------- MODULE UsageTracker ----------------------------
(***************************************************************************)
(* The per-org monthly event counters of the ingestor,                     *)
(* apps/ingestor/internal/usage/tracker.go, over the `usage` table of      *)
(* Postgres (internal/store/postgres.go).                                  *)
(*                                                                         *)
(* Record runs in request goroutines and drops the lock while it seeds a   *)
(* counter; one flush goroutine collects the unflushed increments under    *)
(* the lock and writes them without it.  Months stand for the period keys, *)
(* 0 for "no counter in the map".                                          *)
(***************************************************************************)
EXTENDS Integers

CONSTANTS
    Orgs,         \* org ids
    Requests,     \* request goroutines that may be inside Record
    MaxMonth,     \* bound: months the clock passes through
    MaxHits,      \* bound: no call starts once a month has this many events
    MaxFailures   \* bound: database calls that return an error

ASSUME UsageAssumption ==
    /\ Orgs # {}
    /\ MaxMonth \in Nat \ {0}
    /\ MaxHits \in Nat
    /\ MaxFailures \in Nat

VARIABLES
    counters,     \* Tracker.counters, [period, count, delta] of each org
    batch,        \* the flush goroutine's local batch, by org
    flusher,      \* where the flush goroutine is
    cancelled,    \* the context given to Start is cancelled
    call,         \* what each request goroutine is doing in Record
    month,        \* the wall clock, as a period
    usage,        \* the Postgres table: events by org and period
    failures,     \* database errors so far
    recorded,     \* history: events counted by Record, by org and period
    doubled       \* history: events credited again after a lost reply

memory == <<counters, batch, flusher, cancelled, call>>
vars == <<memory, month, usage, failures, recorded, doubled>>

Months == 1..MaxMonth
NoCounter == [period |-> 0, count |-> 0, delta |-> 0]
NoEntry == [period |-> 0, delta |-> 0, status |-> "pending"]
Idle(o) == [at |-> "idle", org |-> o, period |-> 1, val |-> 0]
SomeOrg == CHOOSE o \in Orgs : TRUE

Counter == [period : 0..MaxMonth, count : Nat, delta : Nat]
Entry == [period : 0..MaxMonth, delta : Nat, status : {"pending", "failed", "applied"}]
Call == [at : {"idle", "called", "seeding", "seeded", "returned"},
         org : Orgs, period : Months, val : Nat]
Tally == [Orgs -> [Months -> Nat]]

\* The shape of the state; an unflushed increment, in a counter or in the batch,
\* always belongs to a month (tracker.go counter, pending).
TypeOK ==
    /\ counters \in [Orgs -> Counter]
    /\ batch \in [Orgs -> Entry]
    /\ flusher \in {"loop", "flushing", "final", "done"}
    /\ cancelled \in BOOLEAN
    /\ call \in [Requests -> Call]
    /\ month \in Months
    /\ usage \in Tally
    /\ failures \in Nat
    /\ recorded \in Tally
    /\ doubled \in Tally
    \* an unflushed increment belongs to a month
    /\ \A o \in Orgs : counters[o].delta > 0 => counters[o].period \in Months
    /\ \A o \in Orgs :
          batch[o].delta > 0 \/ batch[o].status # "pending" => batch[o].period \in Months

NoCounters == [o \in Orgs |-> NoCounter]
EmptyBatch == [o \in Orgs |-> NoEntry]
NoCalls == [r \in Requests |-> Idle(SomeOrg)]

Init ==
    /\ counters = NoCounters
    /\ batch = EmptyBatch
    /\ flusher = "loop"
    /\ cancelled = FALSE
    /\ call = NoCalls
    /\ month = 1
    /\ usage = [o \in Orgs |-> [p \in Months |-> 0]]
    /\ failures = 0
    /\ recorded = [o \in Orgs |-> [p \in Months |-> 0]]
    /\ doubled = [o \in Orgs |-> [p \in Months |-> 0]]

-----------------------------------------------------------------------------
(* Record *)

\* The handler reads the clock and calls Record with it.
Begin(r, o) ==
    /\ call[r].at \in {"idle", "returned"}
    /\ recorded[o][month] < MaxHits
    /\ call' = [call EXCEPT ![r] = [at |-> "called", org |-> o, period |-> month, val |-> 0]]
    /\ UNCHANGED <<counters, batch, flusher, cancelled, month, usage, failures, recorded, doubled>>

\* Where a request is inside Record; `val` holds the seed, then the total.
Goto(r, at, val) ==
    call' = [call EXCEPT ![r] =
                [at |-> at, org |-> call[r].org, period |-> call[r].period, val |-> val]]

\* count++, delta++ and the total handed back, still under the lock.
Count(r, c) ==
    LET o == call[r].org
        p == call[r].period
    IN  /\ counters' = [counters EXCEPT ![o] =
                            [period |-> p, count |-> c.count + 1, delta |-> c.delta + 1]]
        /\ Goto(r, "returned", c.count + 1)
        /\ recorded' = [recorded EXCEPT ![o][p] = @ + 1]
        /\ UNCHANGED <<batch, flusher, cancelled, month, usage, failures, doubled>>

RecordHit(r) ==
    /\ call[r].at = "called"
    /\ counters[call[r].org].period = call[r].period
    /\ Count(r, counters[call[r].org])

\* First sight or another month: the lock is released to seed the counter.
RecordMiss(r) ==
    /\ call[r].at = "called"
    /\ counters[call[r].org].period # call[r].period
    /\ Goto(r, "seeding", 0)
    /\ UNCHANGED <<counters, batch, flusher, cancelled, month, usage, failures, recorded, doubled>>

\* GetUsage answers: the stored total, 0 when there is no row.
SeedRead(r) ==
    /\ call[r].at = "seeding"
    /\ Goto(r, "seeded", usage[call[r].org][call[r].period])
    /\ UNCHANGED <<counters, batch, flusher, cancelled, month, usage, failures, recorded, doubled>>

\* GetUsage returns an error, which is logged: the seed is 0.
SeedFails(r) ==
    /\ call[r].at = "seeding"
    /\ failures < MaxFailures
    /\ failures' = failures + 1
    /\ Goto(r, "seeded", 0)
    /\ UNCHANGED <<counters, batch, flusher, cancelled, month, usage, recorded, doubled>>

\* Mutant of Install: the seed is added to the counter that is there.
InstallOnTop(r) ==
    /\ call[r].at = "seeded"
    /\ LET c == counters[call[r].org]
       IN  Count(r, [period |-> call[r].period, delta |-> 0,
                     count |-> call[r].val
                                 + (IF c.period = call[r].period THEN c.count ELSE 0)])

\* The lock is taken again and the new counter replaces whatever is there.
Install(r) ==
    /\ call[r].at = "seeded"
    /\ Count(r, [period |-> call[r].period, count |-> call[r].val, delta |-> 0])

-----------------------------------------------------------------------------
(* The flush goroutine *)

\* Mutant of HasDelta: a single event is not worth a write.
HasDeltaOfTwo(o) == counters[o].delta > 1

HasDelta(o) == counters[o].delta > 0

\* Mutant of Collect: the counters keep the increments that go to the batch.
CollectKeepsDelta(where) ==
    /\ flusher' = where
    /\ batch' = [o \in Orgs |->
                    IF HasDelta(o)
                    THEN [period |-> counters[o].period, delta |-> counters[o].delta,
                          status |-> "pending"]
                    ELSE NoEntry]
    /\ UNCHANGED <<counters, cancelled, call, month, usage, failures, recorded, doubled>>

\* Mutant of Collect: the entries do not say which month they are of.
CollectWithoutPeriod(where) ==
    /\ flusher' = where
    /\ batch' = [o \in Orgs |-> [NoEntry EXCEPT !.delta = counters[o].delta]]
    /\ counters' = [o \in Orgs |-> [counters[o] EXCEPT !.delta = 0]]
    /\ UNCHANGED <<cancelled, call, month, usage, failures, recorded, doubled>>

\* Under the lock: unflushed increments move from the counters to the batch.
Collect(where) ==
    /\ flusher' = where
    /\ batch' = [o \in Orgs |->
                    IF HasDelta(o)
                    THEN [period |-> counters[o].period, delta |-> counters[o].delta,
                          status |-> "pending"]
                    ELSE NoEntry]
    /\ counters' = [o \in Orgs |->
                    IF HasDelta(o) THEN [counters[o] EXCEPT !.delta = 0] ELSE counters[o]]
    /\ UNCHANGED <<cancelled, call, month, usage, failures, recorded, doubled>>

FlushTick  == flusher = "loop" /\ Collect("flushing")
FlushFinal == flusher = "loop" /\ cancelled /\ Collect("final")

\* AddUsage is called for one org at a time, in the map's random order.
AtAddUsage(o) ==
    /\ flusher \in {"flushing", "final"}
    /\ batch[o].delta > 0
    /\ \A q \in Orgs : batch[q].status = "pending"

\* The upsert of AddUsage.
Upsert(o) ==
    usage' = [usage EXCEPT ![o][batch[o].period] = @ + batch[o].delta]

AddUsageOk(o) ==
    /\ AtAddUsage(o)
    /\ Upsert(o)
    /\ batch' = [batch EXCEPT ![o] = NoEntry]
    /\ UNCHANGED <<counters, flusher, cancelled, call, month, failures, recorded, doubled>>

\* An error, the row unchanged.  A context already cancelled always gives one.
AddUsageFails(o) ==
    /\ AtAddUsage(o)
    /\ \/ failures < MaxFailures /\ failures' = failures + 1
       \/ flusher = "flushing" /\ cancelled /\ UNCHANGED failures
    /\ batch' = [batch EXCEPT ![o].status = "failed"]
    /\ UNCHANGED <<counters, flusher, cancelled, call, month, usage, recorded, doubled>>

\* The statement commits and its reply is lost: an error all the same.
AddUsageReplyLost(o) ==
    /\ AtAddUsage(o)
    /\ failures < MaxFailures
    /\ failures' = failures + 1
    /\ Upsert(o)
    /\ batch' = [batch EXCEPT ![o].status = "applied"]
    /\ UNCHANGED <<counters, flusher, cancelled, call, month, recorded, doubled>>

\* Mutant of SamePeriod: a failed delta is never credited again.
NoReCredit(o) == FALSE

SamePeriod(o) == counters[o].period = batch[o].period

\* The delta goes back to the counter for the next tick, if the counter is
\* still there and of the same month.
ReCredit(o) ==
    /\ batch[o].status # "pending"
    /\ counters' = [counters EXCEPT ![o].delta =
                        IF SamePeriod(o) THEN @ + batch[o].delta ELSE @]
    /\ doubled' = [doubled EXCEPT ![o][batch[o].period] =
                        IF SamePeriod(o) /\ batch[o].status = "applied"
                        THEN @ + batch[o].delta ELSE @]
    /\ batch' = [batch EXCEPT ![o] = NoEntry]
    /\ UNCHANGED <<flusher, cancelled, call, month, usage, failures, recorded>>

\* Mutant of FlushEnd: the goroutine goes on after its final flush.
FlushEndOn ==
    /\ batch = EmptyBatch
    /\ flusher \in {"flushing", "final"}
    /\ flusher' = "loop"
    /\ UNCHANGED <<counters, batch, cancelled, call, month, usage, failures, recorded, doubled>>

FlushEnd ==
    /\ batch = EmptyBatch
    /\ \/ flusher = "flushing" /\ flusher' = "loop"
       \/ flusher = "final" /\ flusher' = "done"
    /\ UNCHANGED <<counters, batch, cancelled, call, month, usage, failures, recorded, doubled>>

-----------------------------------------------------------------------------
(* The process and the clock *)

\* main cancels the context, then waits in Stop for flusher = "done".
Cancel ==
    /\ ~cancelled
    /\ cancelled' = TRUE
    /\ UNCHANGED <<counters, batch, flusher, call, month, usage, failures, recorded, doubled>>

\* The process ends, by main's return or a crash, and starts again.
Exit ==
    /\ counters' = NoCounters
    /\ batch' = EmptyBatch
    /\ flusher' = "loop"
    /\ cancelled' = FALSE
    /\ call' = NoCalls
    /\ UNCHANGED <<month, usage, failures, recorded, doubled>>

NextMonth ==
    /\ month < MaxMonth
    /\ month' = month + 1
    /\ UNCHANGED <<memory, usage, failures, recorded, doubled>>

Record(r) == RecordHit(r) \/ RecordMiss(r) \/ SeedRead(r) \/ SeedFails(r) \/ Install(r)

AddUsage(o) == AddUsageOk(o) \/ AddUsageFails(o) \/ AddUsageReplyLost(o)

Flush == FlushEnd \/ \E o \in Orgs : AddUsage(o) \/ ReCredit(o)

Next ==
    \/ \E r \in Requests : Record(r) \/ \E o \in Orgs : Begin(r, o)
    \/ FlushTick
    \/ FlushFinal
    \/ Flush
    \/ Cancel
    \/ NextMonth
    \/ Exit

\* The ticker keeps firing and every database call returns.  Go's select picks
\* at random among ready cases, so a cancelled context is not passed over for
\* ever: strong fairness for that case.
Fairness ==
    /\ WF_vars(FlushTick)
    /\ SF_vars(FlushFinal)
    /\ WF_vars(Flush)

Spec == Init /\ [][Next]_vars
FairSpec == Spec /\ Fairness

-----------------------------------------------------------------------------
(* Properties *)

InCounter(o, p) == IF counters[o].period = p THEN counters[o].delta ELSE 0
InBatch(o, p) ==
    IF batch[o].period = p /\ batch[o].status # "applied" THEN batch[o].delta ELSE 0
Unflushed(o, p) == InCounter(o, p) + InBatch(o, p)

\* Events counted by Record that neither memory nor Postgres accounts for.
Missing(o, p) == recorded[o][p] + doubled[o][p] - usage[o][p] - Unflushed(o, p)

\* Postgres and the increments still to be flushed never exceed the events that
\* Record counted, but for deltas credited again after a lost reply: whatever
\* the order of seeds, flushes, failed writes and restarts, an org is not billed
\* for events it did not send (tracker.go flush, Record).
NeverOverbills ==
    \A o \in Orgs, p \in Months : Missing(o, p) >= 0

\* The total that limits are judged by never exceeds the events counted in its
\* month and those credited twice after a lost reply, which a later seed reads
\* back: short of a lost reply, racing seeds, stale seeds and restarts cannot make
\* an org reach its limit early (tracker.go Record, server.go:105).
CountNotAhead ==
    \A o \in Orgs :
        LET c == counters[o]
        IN  c.period # 0 => c.count <= recorded[o][c.period] + doubled[o][c.period]

\* Counted events leave the books in three ways only: the process ends; a seeded
\* counter is installed over one that still has unflushed increments; a write
\* fails after the org's counter moved to another month (tracker.go:65, 121).
LossHasCause ==
    [][\A o \in Orgs, p \in Months :
          Missing(o, p)' > Missing(o, p) =>
             \/ counters' = NoCounters
             \/ /\ counters[o].period = p
                /\ counters[o].delta > 0
                /\ \E r \in Requests :
                      call[r].at = "seeded" /\ call[r].org = o /\ call'[r].at = "returned"
             \/ /\ batch[o].period = p
                /\ batch[o].status = "failed"
                /\ counters[o].period # p]_vars

\* While the tracker is not being stopped, unflushed increments reach Postgres
\* (or go the way LossHasCause allows): a failed write is retried.
FlushesEventually ==
    \A o \in Orgs, p \in Months :
        Unflushed(o, p) > 0 /\ ~cancelled ~> Unflushed(o, p) = 0 \/ cancelled

\* Stop, which waits without a timeout for the flush goroutine, returns
\* (tracker.go:93-98), unless the process ends first.
StopReturns == cancelled ~> flusher = "done" \/ ~cancelled

\* "Record increments an org's counter for the current period and returns the
\* new month-to-date total" (tracker.go:49-50).
ReturnsMonthToDate ==
    [][\A r \in Requests :
          call[r].at # "returned" /\ call'[r].at = "returned" =>
             call'[r].val = recorded'[call[r].org][call[r].period]]_vars
=============================================================================
