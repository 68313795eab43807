--------------------------- MODULE Ingestor_proofs --------------------------
(***************************************************************************)
(* Theorems about UsageTracker, which cite nothing of the process around   *)
(* it: apart from what a lost reply credits twice, no event is billed      *)
(* twice and no total runs ahead of the events counted, for every set of   *)
(* orgs and requests and every bound.  Then theorems about Ingestor: its   *)
(* tracker and its buffer behave as their own specifications say, so all   *)
(* that is proved of them holds in the process; a month's refusals are at  *)
(* most what was counted in it over the limit, or credited twice; a        *)
(* shutdown that keeps its timeout leaves only what failed writes put      *)
(* back; and every event counted is buffered once.                         *)
(***************************************************************************)
EXTENDS Ingestor, SequenceTheorems, FiniteSetTheorems, WellFoundedInduction, TLAPS

-----------------------------------------------------------------------------
(* The tracker: the shape of its state *)

\* The fields of a counter, and a counter put together from them.
LEMMA CounterFields ==
    ASSUME NEW c \in Counter
    PROVE  c.period \in 0..MaxMonth /\ c.count \in Nat /\ c.delta \in Nat
BY DEF Counter

\* The fields of a call to Record.
LEMMA CallFields ==
    ASSUME NEW c \in Call
    PROVE  c.org \in Orgs /\ c.period \in Months /\ c.val \in Nat
BY DEF Call

\* The fields of an entry of the flush batch.
LEMMA EntryFields ==
    ASSUME NEW e \in Entry
    PROVE  /\ e.period \in 0..MaxMonth /\ e.delta \in Nat
           /\ e.status \in {"pending", "failed", "applied"}
BY DEF Entry

\* Adding to one cell of a table of events by org and month.
LEMMA TallyAdd ==
    ASSUME NEW t \in Tally, NEW o \in Orgs, NEW p \in Months, NEW n \in Nat
    PROVE  [t EXCEPT ![o][p] = @ + n] \in Tally
BY DEF Tally

\* A new tracker is well-formed.
LEMMA InitTypeOK == Init => TypeOK
<1> SUFFICES ASSUME Init PROVE TypeOK
  OBVIOUS
<1> USE UsageAssumption
<1>1. SomeOrg \in Orgs
  BY DEF SomeOrg
<1>2. 1 \in Months /\ 0 \in 0..MaxMonth
  BY DEF Months
<1>3. counters \in [Orgs -> Counter] /\ \A o \in Orgs : counters[o].delta = 0
  BY <1>2 DEF Init, NoCounters, NoCounter, Counter
<1>4. /\ batch \in [Orgs -> Entry]
      /\ \A o \in Orgs : batch[o].delta = 0 /\ batch[o].status = "pending"
  BY <1>2 DEF Init, EmptyBatch, NoEntry, Entry
<1>5. call \in [Requests -> Call]
  BY <1>1, <1>2 DEF Init, NoCalls, Idle, Call
<1>6. usage \in Tally /\ recorded \in Tally /\ doubled \in Tally
  BY DEF Init, Tally
<1>7. cancelled \in BOOLEAN
  BY DEF Init
<1>8. /\ flusher \in {"loop", "flushing", "final", "done"}
      /\ month \in Months /\ failures \in Nat
  BY <1>2 DEF Init
<1>9. /\ \A o \in Orgs : counters[o].delta > 0 => counters[o].period \in Months
      /\ \A o \in Orgs :
            batch[o].delta > 0 \/ batch[o].status # "pending" => batch[o].period \in Months
  BY <1>3, <1>4
<1> QED
  BY <1>3, <1>4, <1>5, <1>6, <1>7, <1>8, <1>9 DEF TypeOK

\* A request that moves on inside Record stays a well-formed call.
LEMMA GotoTypeOK ==
    ASSUME TypeOK, NEW r \in Requests, NEW v \in Nat,
           NEW at \in {"idle", "called", "seeding", "seeded", "returned"}, Goto(r, at, v)
    PROVE  call' \in [Requests -> Call]
<1>1. call[r] \in Call
  BY DEF TypeOK
<1>2. [at |-> at, org |-> call[r].org, period |-> call[r].period, val |-> v] \in Call
  BY <1>1, CallFields DEF Call
<1> QED
  BY <1>2 DEF TypeOK, Goto

\* The common end of RecordHit and Install.
LEMMA CountTypeOK ==
    ASSUME TypeOK, NEW r \in Requests, NEW c, c.count \in Nat, c.delta \in Nat, Count(r, c)
    PROVE  TypeOK'
<1> USE DEF TypeOK
<1>1. call[r] \in Call
  OBVIOUS
<1> DEFINE o == call[r].org
           p == call[r].period
           n == [period |-> p, count |-> c.count + 1, delta |-> c.delta + 1]
<1>2. o \in Orgs /\ p \in Months /\ p \in 0..MaxMonth
  BY <1>1, CallFields DEF Months
<1>3. n \in Counter
  BY <1>2 DEF Counter
<1>4. counters' = [counters EXCEPT ![o] = n]
  BY DEF Count
<1>5. counters' \in [Orgs -> Counter]
  BY <1>2, <1>3, <1>4
<1>6. \A q \in Orgs : counters'[q].delta > 0 => counters'[q].period \in Months
  BY <1>2, <1>4
<1>7. call' \in [Requests -> Call]
  BY <1>2, GotoTypeOK DEF Count
<1>8. recorded' \in Tally
  BY <1>2, TallyAdd DEF Count
<1> QED
  BY <1>5, <1>6, <1>7, <1>8 DEF Count

\* The steps of Record keep the types.
LEMMA RecordTypeOK ==
    ASSUME TypeOK, NEW r \in Requests, Record(r) PROVE TypeOK'
<1> USE DEF TypeOK
<1>1. call[r] \in Call /\ call[r].org \in Orgs /\ call[r].period \in Months
  BY CallFields
<1>2. CASE RecordHit(r)
  <2>1. counters[call[r].org] \in Counter
    BY <1>1
  <2> QED
    BY <1>2, <2>1, CounterFields, CountTypeOK DEF RecordHit
<1>3. CASE RecordMiss(r)
  <2>1. call' \in [Requests -> Call]
    BY <1>3, GotoTypeOK DEF RecordMiss
  <2> QED
    BY <1>3, <2>1 DEF RecordMiss
<1>4. CASE SeedRead(r)
  <2>1. usage[call[r].org][call[r].period] \in Nat
    BY <1>1 DEF Tally
  <2>2. call' \in [Requests -> Call]
    BY <1>4, <2>1, GotoTypeOK DEF SeedRead
  <2> QED
    BY <1>4, <2>2 DEF SeedRead
<1>5. CASE SeedFails(r)
  <2>1. call' \in [Requests -> Call]
    BY <1>5, GotoTypeOK DEF SeedFails
  <2> QED
    BY <1>5, <2>1 DEF SeedFails
<1>6. CASE Install(r)
  BY <1>1, <1>6, CallFields, CountTypeOK DEF Install
<1> QED
  BY <1>2, <1>3, <1>4, <1>5, <1>6 DEF Record

\* A call that begins keeps the types.
LEMMA BeginTypeOK ==
    ASSUME TypeOK, NEW r \in Requests, NEW o \in Orgs, Begin(r, o) PROVE TypeOK'
<1> USE DEF TypeOK
<1>1. [at |-> "called", org |-> o, period |-> month, val |-> 0] \in Call
  BY DEF Call
<1>2. call' \in [Requests -> Call]
  BY <1>1 DEF Begin
<1> QED
  BY <1>2 DEF Begin

\* Collecting the increments keeps the types (tracker.go:107-114).
LEMMA CollectTypeOK ==
    ASSUME TypeOK, NEW w \in {"flushing", "final"}, Collect(w) PROVE TypeOK'
<1> USE DEF TypeOK
<1>1. 0 \in 0..MaxMonth
  BY UsageAssumption
<1>2. ASSUME NEW o \in Orgs
      PROVE  /\ counters'[o] \in Counter
             /\ counters'[o].delta > 0 => counters'[o].period \in Months
             /\ batch'[o] \in Entry
             /\ batch'[o].delta > 0 \/ batch'[o].status # "pending"
                    => batch'[o].period \in Months
  <2>1. counters[o] \in Counter
    OBVIOUS
  <2>2. CASE HasDelta(o)
    <3>1. counters'[o] = [counters[o] EXCEPT !.delta = 0]
      BY <2>2 DEF Collect
    <3>2. counters'[o] \in Counter /\ counters'[o].delta = 0
      BY <2>1, <3>1 DEF Counter
    <3>3. batch'[o] = [period |-> counters[o].period, delta |-> counters[o].delta,
                       status |-> "pending"]
      BY <2>2 DEF Collect
    <3>4. batch'[o] \in Entry
      BY <2>1, <3>3, CounterFields DEF Entry
    <3> QED
      BY <2>2, <3>2, <3>3, <3>4 DEF HasDelta
  <2>3. CASE ~HasDelta(o)
    <3>1. counters'[o] = counters[o] /\ batch'[o] = NoEntry
      BY <2>3 DEF Collect
    <3>2. NoEntry \in Entry /\ NoEntry.delta = 0 /\ NoEntry.status = "pending"
      BY <1>1 DEF NoEntry, Entry
    <3> QED
      BY <2>1, <3>1, <3>2
  <2> QED
    BY <2>2, <2>3
<1>3. counters' \in [Orgs -> Counter] /\ batch' \in [Orgs -> Entry]
  BY <1>2 DEF Collect
<1> QED
  BY <1>2, <1>3 DEF Collect

\* A flush that handles one org's entry: the write, its failure, the re-credit.
LEMMA EntryTypeOK ==
    ASSUME TypeOK, NEW o \in Orgs, AddUsage(o) \/ ReCredit(o) PROVE TypeOK'
<1> USE DEF TypeOK
<1>1. 0 \in 0..MaxMonth
  BY UsageAssumption
<1>2. NoEntry \in Entry /\ NoEntry.delta = 0 /\ NoEntry.status = "pending"
  BY <1>1 DEF NoEntry, Entry
<1>3. /\ batch[o] \in Entry /\ batch[o].delta \in Nat
      /\ counters[o] \in Counter /\ counters[o].delta \in Nat
  BY EntryFields, CounterFields
<1>4. CASE AddUsageOk(o)
  <2>1. usage' \in Tally
    BY <1>3, <1>4, TallyAdd DEF AddUsageOk, AtAddUsage, Upsert
  <2> QED
    BY <1>2, <1>4, <2>1 DEF AddUsageOk
<1>5. CASE AddUsageFails(o)
  <2>1. [batch[o] EXCEPT !.status = "failed"] \in Entry
    BY <1>3 DEF Entry
  <2>2. batch' = [batch EXCEPT ![o] = [batch[o] EXCEPT !.status = "failed"]]
    BY <1>5 DEF AddUsageFails
  <2>3. \A q \in Orgs : batch'[q].delta > 0 \/ batch'[q].status # "pending"
                       => batch'[q].period \in Months
    BY <1>3, <1>5, <2>2 DEF Entry, AddUsageFails, AtAddUsage
  <2>4. failures' \in Nat
    BY <1>5 DEF AddUsageFails
  <2> QED
    BY <1>5, <2>1, <2>2, <2>3, <2>4 DEF AddUsageFails
<1>6. CASE AddUsageReplyLost(o)
  <2>1. usage' \in Tally
    BY <1>3, <1>6, TallyAdd DEF AddUsageReplyLost, AtAddUsage, Upsert
  <2>2. [batch[o] EXCEPT !.status = "applied"] \in Entry
    BY <1>3 DEF Entry
  <2>3. batch' = [batch EXCEPT ![o] = [batch[o] EXCEPT !.status = "applied"]]
    BY <1>6 DEF AddUsageReplyLost
  <2>4. \A q \in Orgs : batch'[q].delta > 0 \/ batch'[q].status # "pending"
                       => batch'[q].period \in Months
    BY <1>3, <1>6, <2>3 DEF Entry, AddUsageReplyLost, AtAddUsage
  <2> QED
    BY <1>6, <2>1, <2>2, <2>3, <2>4 DEF AddUsageReplyLost
<1>7. CASE ReCredit(o)
  <2> DEFINE d == IF SamePeriod(o) THEN counters[o].delta + batch[o].delta
                                   ELSE counters[o].delta
  <2>1. counters' = [counters EXCEPT ![o] = [counters[o] EXCEPT !.delta = d]]
    BY <1>7 DEF ReCredit
  <2>2. d \in Nat
    BY <1>3
  <2>3. [counters[o] EXCEPT !.delta = d] \in Counter
    BY <1>3, <2>2 DEF Counter
  <2>4. counters' \in [Orgs -> Counter]
    BY <2>1, <2>3
  <2>5. /\ [counters[o] EXCEPT !.delta = d].delta = d
        /\ [counters[o] EXCEPT !.delta = d].period = counters[o].period
    BY <1>3 DEF Counter
  <2>6. d > 0 => counters[o].period \in Months
    BY <1>3 DEF SamePeriod
  <2>7. \A q \in Orgs : counters'[q].delta > 0 => counters'[q].period \in Months
    BY <2>1, <2>5, <2>6
  <2>8. batch[o].period \in Months
    BY <1>7 DEF ReCredit
  <2>9. doubled' \in Tally
    BY <1>3, <1>7, <2>8 DEF ReCredit, Tally
  <2> QED
    BY <1>2, <1>7, <2>4, <2>7, <2>9 DEF ReCredit
<1> QED
  BY <1>4, <1>5, <1>6, <1>7 DEF AddUsage

\* The end of a flush, cancellation, restart and the clock keep the types.
LEMMA ProcessTypeOK ==
    ASSUME TypeOK, Cancel \/ NextMonth \/ Exit \/ FlushEnd \/ UNCHANGED vars
    PROVE  TypeOK'
<1> USE DEF TypeOK
<1>1. CASE Cancel
  <2>1. cancelled' \in BOOLEAN
    BY <1>1 DEF Cancel
  <2> QED
    BY <1>1, <2>1 DEF Cancel
<1>2. CASE NextMonth
  <2>1. month' \in Months
    BY <1>2, UsageAssumption DEF NextMonth, Months
  <2> QED
    BY <1>2, <2>1 DEF NextMonth, memory
<1>3. CASE Exit
  <2>1. SomeOrg \in Orgs
    BY UsageAssumption DEF SomeOrg
  <2>2. 1 \in Months /\ 0 \in 0..MaxMonth
    BY UsageAssumption DEF Months
  <2>3. counters' \in [Orgs -> Counter] /\ \A o \in Orgs : counters'[o].delta = 0
    BY <1>3, <2>2 DEF Exit, NoCounters, NoCounter, Counter
  <2>4. /\ batch' \in [Orgs -> Entry]
        /\ \A o \in Orgs : batch'[o].delta = 0 /\ batch'[o].status = "pending"
    BY <1>3, <2>2 DEF Exit, EmptyBatch, NoEntry, Entry
  <2>5. call' \in [Requests -> Call]
    BY <1>3, <2>1, <2>2 DEF Exit, NoCalls, Idle, Call
  <2>6. cancelled' \in BOOLEAN /\ flusher' \in {"loop", "flushing", "final", "done"}
    BY <1>3 DEF Exit
  <2>7. UNCHANGED <<month, usage, failures, recorded, doubled>>
    BY <1>3 DEF Exit
  <2> QED
    BY <2>3, <2>4, <2>5, <2>6, <2>7
<1>4. CASE FlushEnd
  <2>1. flusher' \in {"loop", "flushing", "final", "done"}
    BY <1>4 DEF FlushEnd
  <2> QED
    BY <1>4, <2>1 DEF FlushEnd
<1>5. CASE UNCHANGED vars
  BY <1>5 DEF vars, memory
<1> QED
  BY <1>1, <1>2, <1>3, <1>4, <1>5

\* Every step keeps the types.
LEMMA NextTypeOK == TypeOK /\ [Next]_vars => TypeOK'
BY BeginTypeOK, RecordTypeOK, CollectTypeOK, EntryTypeOK, ProcessTypeOK
   DEF Next, Flush, FlushTick, FlushFinal

\* Each variable keeps its shape, and unflushed increments always belong to a
\* month, in every reachable state of the tracker.
THEOREM TypeCorrect == Spec => []TypeOK
BY InitTypeOK, NextTypeOK, PTL DEF Spec

-----------------------------------------------------------------------------
(* The tracker: its inductive invariant *)

\* The batch is the flush goroutine's own: between flushes it holds nothing.
BatchEmptyBetweenFlushes ==
    flusher \notin {"flushing", "final"} => batch = EmptyBatch

\* A seed read outside the lock is never ahead of the row it was read from, so
\* a stale seed errs on the low side only (tracker.go:59-66).
SeedNotAhead ==
    \A r \in Requests :
        call[r].at = "seeded" => call[r].val <= usage[call[r].org][call[r].period]

\* The inductive invariant: the two safety properties with what keeps them, the
\* flush batch's ownership and the seeds' being on the low side.
IInv ==
    /\ TypeOK
    /\ BatchEmptyBetweenFlushes
    /\ NeverOverbills
    /\ SeedNotAhead
    /\ CountNotAhead

\* The cells that Missing adds up are natural numbers.
LEMMA Cells ==
    ASSUME TypeOK, NEW o \in Orgs, NEW p \in Months
    PROVE  /\ recorded[o][p] \in Nat /\ doubled[o][p] \in Nat /\ usage[o][p] \in Nat
           /\ InCounter(o, p) \in Nat /\ InBatch(o, p) \in Nat
<1>1. counters[o] \in Counter /\ batch[o] \in Entry
  BY DEF TypeOK
<1> QED
  BY <1>1, CounterFields, EntryFields DEF TypeOK, Tally, InCounter, InBatch

\* The same of the next state.
LEMMA CellsAfter ==
    ASSUME TypeOK', NEW o \in Orgs, NEW p \in Months
    PROVE  InCounter(o, p)' \in Nat /\ Missing(o, p)' \in Int
<1>1. counters'[o] \in Counter /\ batch'[o] \in Entry
  BY DEF TypeOK
<1>2. InCounter(o, p)' \in Nat /\ InBatch(o, p)' \in Nat
  BY <1>1, CounterFields, EntryFields DEF InCounter, InBatch
<1>3. recorded'[o][p] \in Nat /\ doubled'[o][p] \in Nat /\ usage'[o][p] \in Nat
  BY DEF TypeOK, Tally
<1> QED
  BY <1>2, <1>3 DEF Missing, Unflushed

\* What Postgres holds is bounded by what was counted.
LEMMA UsageBound ==
    ASSUME TypeOK, NeverOverbills, NEW o \in Orgs, NEW p \in Months
    PROVE  usage[o][p] <= recorded[o][p] + doubled[o][p]
BY Cells DEF NeverOverbills, Missing, Unflushed

\* A loss that LossHasCause accounts for.
Cause(o, p) ==
    \/ counters' = NoCounters
    \/ /\ counters[o].period = p
       /\ counters[o].delta > 0
       /\ \E r \in Requests :
             call[r].at = "seeded" /\ call[r].org = o /\ call'[r].at = "returned"
    \/ /\ batch[o].period = p
       /\ batch[o].status = "failed"
       /\ counters[o].period # p

\* Counting one event, in a counter `c` whose delta is at most the one it
\* replaces, loses no more than the difference.
LEMMA CountBooks ==
    ASSUME TypeOK, TypeOK', NEW r \in Requests, NEW c, c.count \in Nat, c.delta \in Nat,
           Count(r, c), c.delta <= InCounter(call[r].org, call[r].period),
           NEW o \in Orgs, NEW p \in Months
    PROVE  /\ Missing(o, p)' >= Missing(o, p)
           /\ Missing(o, p)' > Missing(o, p) =>
                 /\ o = call[r].org
                 /\ counters[o].period = p
                 /\ counters[o].delta > 0
                 /\ p = call[r].period => counters[o].delta > c.delta
<1> DEFINE org == call[r].org
           per == call[r].period
<1>1. call[r] \in Call /\ org \in Orgs /\ per \in Months /\ 0 \notin Months
  BY CallFields DEF TypeOK, Months
<1>2. /\ counters' = [counters EXCEPT ![org] =
                         [period |-> per, count |-> c.count + 1, delta |-> c.delta + 1]]
      /\ recorded' = [recorded EXCEPT ![org][per] = @ + 1]
      /\ UNCHANGED <<batch, usage, doubled>>
  BY DEF Count
<1>3. /\ recorded'[org][per] = recorded[org][per] + 1
      /\ <<o, p>> # <<org, per>> => recorded'[o][p] = recorded[o][p]
  BY <1>1, <1>2 DEF TypeOK, Tally
<1>4. InBatch(o, p)' = InBatch(o, p) /\ counters[o] \in Counter
  BY <1>2 DEF InBatch, TypeOK
<1>5. CASE o = org /\ p = per
  <2>1. InCounter(o, p)' = c.delta + 1
    BY <1>1, <1>2, <1>5 DEF InCounter, TypeOK
  <2>2. Missing(o, p)' = Missing(o, p) + (InCounter(o, p) - c.delta)
    BY <1>2, <1>3, <1>4, <1>5, <2>1, Cells DEF Missing, Unflushed
  <2>3. InCounter(o, p) > c.delta => counters[o].period = p /\ counters[o].delta > c.delta
    BY <1>4 DEF InCounter
  <2>4. Missing(o, p) \in Int /\ InCounter(o, p) \in Nat
    BY Cells DEF Missing, Unflushed
  <2> QED
    BY <1>4, <1>5, <2>2, <2>3, <2>4, CounterFields
<1>6. CASE ~(o = org /\ p = per)
  <2>1. InCounter(o, p) \in Nat /\ InCounter(o, p)' \in Nat
    BY Cells, CellsAfter
  <2>2. CASE o = org
    <3>1. InCounter(o, p)' = 0
      BY <1>1, <1>2, <1>6, <2>2 DEF InCounter, TypeOK
    <3>2. Missing(o, p)' = Missing(o, p) + InCounter(o, p)
      BY <1>2, <1>3, <1>4, <1>6, <2>1, <3>1, Cells DEF Missing, Unflushed
    <3>3. InCounter(o, p) > 0 => counters[o].period = p /\ counters[o].delta > 0
      BY DEF InCounter
    <3>4. Missing(o, p) \in Int
      BY Cells DEF Missing, Unflushed
    <3> QED
      BY <1>6, <2>1, <2>2, <3>2, <3>3, <3>4
  <2>3. CASE o # org
    <3>1. counters'[o] = counters[o]
      BY <1>2, <2>3 DEF TypeOK
    <3>2. InCounter(o, p)' = InCounter(o, p)
      BY <3>1 DEF InCounter
    <3>3. Missing(o, p)' = Missing(o, p) /\ Missing(o, p) \in Int
      BY <1>2, <1>3, <1>4, <1>6, <3>2, Cells DEF Missing, Unflushed
    <3> QED
      BY <3>3
  <2> QED
    BY <2>2, <2>3
<1> QED
  BY <1>5, <1>6

\* Collecting moves increments from the counters to an empty batch: no event
\* goes missing.
LEMMA CollectBooks ==
    ASSUME TypeOK, TypeOK', batch = EmptyBatch, NEW w, Collect(w),
           NEW o \in Orgs, NEW p \in Months
    PROVE  Missing(o, p)' = Missing(o, p)
<1>1. counters[o] \in Counter /\ counters[o].delta \in Nat
  BY CounterFields DEF TypeOK
<1>2. InBatch(o, p) = 0
  BY DEF InBatch, EmptyBatch, NoEntry
<1>3. counters'[o].period = counters[o].period
  BY <1>1 DEF Collect, TypeOK, Counter
<1>4. InCounter(o, p)' + InBatch(o, p)' = InCounter(o, p)
  <2>1. CASE HasDelta(o)
    <3>1. counters'[o] = [counters[o] EXCEPT !.delta = 0]
      BY <2>1 DEF Collect
    <3>2. batch'[o] = [period |-> counters[o].period, delta |-> counters[o].delta,
                       status |-> "pending"]
      BY <2>1 DEF Collect
    <3>3. counters'[o].delta = 0
      BY <1>1, <3>1 DEF Counter
    <3> QED
      BY <1>1, <1>3, <3>2, <3>3 DEF InCounter, InBatch
  <2>2. CASE ~HasDelta(o)
    BY <1>1, <2>2 DEF Collect, NoEntry, InCounter, InBatch
  <2> QED
    BY <2>1, <2>2
<1>5. UNCHANGED <<recorded, doubled, usage>>
  BY DEF Collect
<1> QED
  BY <1>2, <1>4, <1>5, Cells DEF Missing, Unflushed

\* Handling one entry of the batch loses its delta only if the write failed and
\* the counter has moved to another month.
LEMMA EntryBooks ==
    ASSUME TypeOK, TypeOK', NEW e \in Orgs, AddUsage(e) \/ ReCredit(e),
           NEW o \in Orgs, NEW p \in Months
    PROVE  /\ Missing(o, p)' >= Missing(o, p)
           /\ Missing(o, p)' > Missing(o, p) =>
                 /\ batch[o].period = p
                 /\ batch[o].status = "failed"
                 /\ counters[o].period # p
<1> DEFINE per == batch[e].period
           d == batch[e].delta
<1>0. Missing(o, p) \in Int /\ InBatch(o, p) \in Nat
  BY Cells DEF Missing, Unflushed
<1>1. /\ batch[e] \in Entry /\ d \in Nat
      /\ counters[e] \in Counter /\ counters[e].delta \in Nat
  BY EntryFields, CounterFields DEF TypeOK
<1>2. per \in Months
  BY DEF TypeOK, AddUsage, AddUsageOk, AddUsageFails, AddUsageReplyLost, AtAddUsage, ReCredit
<1>3. UNCHANGED recorded
  BY DEF AddUsage, AddUsageOk, AddUsageFails, AddUsageReplyLost, ReCredit
<1>4. CASE ~(o = e /\ p = per)
  <2>1. InCounter(o, p)' = InCounter(o, p)
    BY <1>1, <1>4
       DEF AddUsage, AddUsageOk, AddUsageFails, AddUsageReplyLost, ReCredit, InCounter,
           SamePeriod, TypeOK, Counter
  <2>2. InBatch(o, p)' = InBatch(o, p)
    <3>1. CASE o = e
      BY <1>1, <1>4, <3>1
         DEF AddUsage, AddUsageOk, AddUsageFails, AddUsageReplyLost, ReCredit, InBatch,
             NoEntry, TypeOK, Entry
    <3>2. CASE o # e
      <4>1. batch'[o] = batch[o]
        BY <3>2 DEF AddUsage, AddUsageOk, AddUsageFails, AddUsageReplyLost, ReCredit, TypeOK
      <4> QED
        BY <4>1 DEF InBatch
    <3> QED
      BY <3>1, <3>2
  <2>3. usage'[o][p] = usage[o][p] /\ doubled'[o][p] = doubled[o][p]
    BY <1>2, <1>4
       DEF AddUsage, AddUsageOk, AddUsageFails, AddUsageReplyLost, Upsert, ReCredit,
           TypeOK, Tally
  <2> QED
    BY <1>0, <1>3, <2>1, <2>2, <2>3 DEF Missing, Unflushed
<1>5. CASE o = e /\ p = per
  <2>1. CASE AddUsageOk(e)
    <3>1. InCounter(o, p)' = InCounter(o, p) /\ InBatch(o, p)' = 0 /\ InBatch(o, p) = d
      BY <1>5, <2>1 DEF AddUsageOk, AtAddUsage, InCounter, InBatch, NoEntry, TypeOK
    <3>2. usage'[o][p] = usage[o][p] + d /\ doubled' = doubled
      BY <1>2, <1>5, <2>1 DEF AddUsageOk, Upsert, TypeOK, Tally
    <3> QED
      BY <1>0, <1>1, <1>3, <3>1, <3>2, Cells DEF Missing, Unflushed
  <2>2. CASE AddUsageFails(e)
    <3>1. InCounter(o, p)' = InCounter(o, p)
      BY <2>2 DEF AddUsageFails, InCounter
    <3>2. InBatch(o, p)' = InBatch(o, p)
      BY <1>1, <1>5, <2>2 DEF AddUsageFails, AtAddUsage, InBatch, TypeOK, Entry
    <3> QED
      BY <1>0, <2>2, <3>1, <3>2 DEF AddUsageFails, Missing, Unflushed
  <2>3. CASE AddUsageReplyLost(e)
    <3>1. InCounter(o, p)' = InCounter(o, p)
      BY <2>3 DEF AddUsageReplyLost, InCounter
    <3>2. InBatch(o, p)' = 0 /\ InBatch(o, p) = d
      BY <1>1, <1>5, <2>3 DEF AddUsageReplyLost, AtAddUsage, InBatch, TypeOK, Entry
    <3>3. usage'[o][p] = usage[o][p] + d /\ doubled' = doubled
      BY <1>2, <1>5, <2>3 DEF AddUsageReplyLost, Upsert, TypeOK, Tally
    <3> QED
      BY <1>0, <1>1, <1>3, <3>1, <3>2, <3>3, Cells DEF Missing, Unflushed
  <2>4. CASE ReCredit(e)
    <3>1. InBatch(o, p)' = 0
      BY <1>5, <2>4 DEF ReCredit, InBatch, NoEntry, TypeOK
    <3>2. usage' = usage
      BY <2>4 DEF ReCredit
    <3>3. CASE ~SamePeriod(e)
      <4>1. InCounter(o, p)' = InCounter(o, p)
        BY <1>1, <1>5, <2>4, <3>3 DEF ReCredit, SamePeriod, InCounter, TypeOK, Counter
      <4>2. doubled'[o][p] = doubled[o][p]
        BY <1>2, <1>5, <2>4, <3>3 DEF ReCredit, TypeOK, Tally
      <4>3. Missing(o, p)' = Missing(o, p) + InBatch(o, p)
        BY <1>3, <3>1, <3>2, <4>1, <4>2, Cells DEF Missing, Unflushed
      <4>4. batch[o].status # "applied" => batch[o].status = "failed"
        BY <1>1, <1>5, <2>4 DEF ReCredit, Entry
      <4>5. InBatch(o, p) > 0 => batch[o].status # "applied"
        BY DEF InBatch
      <4> QED
        BY <1>0, <1>5, <3>3, <4>3, <4>4, <4>5 DEF SamePeriod
    <3>4. CASE SamePeriod(e)
      <4>1. InCounter(o, p)' = InCounter(o, p) + d
        BY <1>1, <1>5, <2>4, <3>4 DEF ReCredit, SamePeriod, InCounter, TypeOK, Counter
      <4>2. /\ batch[e].status = "applied" => InBatch(o, p) = 0
            /\ batch[e].status # "applied" => InBatch(o, p) = d
        BY <1>5 DEF InBatch
      <4>3. doubled'[o][p] = IF batch[e].status = "applied"
                             THEN doubled[o][p] + d ELSE doubled[o][p]
        BY <1>2, <1>5, <2>4, <3>4 DEF ReCredit, TypeOK, Tally
      <4> QED
        BY <1>0, <1>1, <1>3, <3>1, <3>2, <4>1, <4>2, <4>3, Cells DEF Missing, Unflushed
    <3> QED
      BY <3>3, <3>4
  <2> QED
    BY <2>1, <2>2, <2>3, <2>4 DEF AddUsage
<1> QED
  BY <1>4, <1>5

\* Books that only get worse stay on the right side.
LEMMA BooksKept ==
    ASSUME TypeOK, TypeOK', NeverOverbills,
           \A o \in Orgs, p \in Months : Missing(o, p)' >= Missing(o, p)
    PROVE  NeverOverbills'
<1>1. ASSUME NEW o \in Orgs, NEW p \in Months
      PROVE  Missing(o, p) \in Int /\ Missing(o, p)' \in Int /\ Missing(o, p) >= 0
  BY Cells, CellsAfter DEF NeverOverbills, Missing, Unflushed
<1> QED
  BY <1>1 DEF NeverOverbills

\* The inductive invariant holds at the start.
LEMMA InitIInv == Init => IInv
<1> SUFFICES ASSUME Init PROVE IInv
  OBVIOUS
<1>1. TypeOK
  BY InitTypeOK
<1>2. BatchEmptyBetweenFlushes
  BY DEF Init, BatchEmptyBetweenFlushes
<1>3. NeverOverbills
  <2> SUFFICES ASSUME NEW o \in Orgs, NEW p \in Months PROVE Missing(o, p) >= 0
    BY DEF NeverOverbills
  <2>1. InCounter(o, p) = 0 /\ InBatch(o, p) = 0
    BY DEF Init, NoCounters, NoCounter, EmptyBatch, NoEntry, InCounter, InBatch
  <2> QED
    BY <2>1 DEF Init, Missing, Unflushed
<1>4. SeedNotAhead
  BY DEF Init, NoCalls, Idle, SeedNotAhead
<1>5. CountNotAhead
  BY DEF Init, NoCounters, NoCounter, CountNotAhead
<1> QED
  BY <1>1, <1>2, <1>3, <1>4, <1>5 DEF IInv

\* Counting one event, in a counter `c` whose total is not ahead and whose
\* delta is at most the one it replaces, keeps the books.
LEMMA CountIInv ==
    ASSUME IInv, TypeOK', NEW r \in Requests, NEW c, c.count \in Nat, c.delta \in Nat,
           Count(r, c),
           c.delta <= InCounter(call[r].org, call[r].period),
           c.count <= recorded[call[r].org][call[r].period]
                        + doubled[call[r].org][call[r].period]
    PROVE  IInv'
<1> USE DEF IInv
<1> DEFINE org == call[r].org
           per == call[r].period
<1>1. call[r] \in Call /\ org \in Orgs /\ per \in Months /\ 0 \notin Months
  BY CallFields DEF TypeOK, Months
<1>2. /\ counters' = [counters EXCEPT ![org] =
                         [period |-> per, count |-> c.count + 1, delta |-> c.delta + 1]]
      /\ recorded' = [recorded EXCEPT ![org][per] = @ + 1]
      /\ UNCHANGED <<batch, flusher, cancelled, month, usage, failures, doubled>>
  BY DEF Count
<1>3. /\ recorded'[org][per] = recorded[org][per] + 1
      /\ \A o \in Orgs, p \in Months :
            <<o, p>> # <<org, per>> => recorded'[o][p] = recorded[o][p]
  BY <1>1, <1>2 DEF TypeOK, Tally
<1>4. NeverOverbills'
  BY CountBooks, BooksKept
<1>5. CountNotAhead'
  <2> SUFFICES ASSUME NEW o \in Orgs, counters'[o].period # 0
               PROVE  counters'[o].count <= recorded'[o][counters'[o].period]
                                              + doubled'[o][counters'[o].period]
    BY DEF CountNotAhead
  <2>1. CASE o = org
    <3>1. counters'[o].period = per /\ counters'[o].count = c.count + 1
      BY <1>1, <1>2, <2>1 DEF TypeOK
    <3> QED
      <4>1. /\ recorded[org][per] \in Nat /\ doubled[org][per] \in Nat
            /\ recorded'[o][per] = recorded[org][per] + 1 /\ doubled'[o][per] = doubled[org][per]
        BY <1>1, <1>2, <1>3, <2>1, Cells
      <4>2. c.count \in Nat /\ c.count <= recorded[org][per] + doubled[org][per]
        OBVIOUS
      <4>3. \A a, b, n \in Nat : n <= a + b => n + 1 <= (a + 1) + b
        OBVIOUS
      <4> QED
        BY <3>1, <4>1, <4>2, <4>3
  <2>2. CASE o # org
    <3>1. counters'[o] = counters[o] /\ recorded'[o] = recorded[o]
      BY <1>1, <1>2, <2>2 DEF TypeOK, Tally
    <3> QED
      BY <1>2, <3>1 DEF CountNotAhead
  <2> QED
    BY <2>1, <2>2
<1>6. SeedNotAhead'
  <2> SUFFICES ASSUME NEW q \in Requests, call'[q].at = "seeded"
               PROVE  call'[q].val <= usage'[call'[q].org][call'[q].period]
    BY DEF SeedNotAhead
  <2>1. q # r /\ call'[q] = call[q]
    BY DEF Count, Goto, TypeOK
  <2> QED
    BY <1>2, <2>1 DEF SeedNotAhead
<1>7. BatchEmptyBetweenFlushes'
  BY <1>2 DEF BatchEmptyBetweenFlushes, EmptyBatch
<1> QED
  BY <1>4, <1>5, <1>6, <1>7

\* A step that leaves the books alone and makes no call newly seeded.
LEMMA QuietIInv ==
    ASSUME IInv, TypeOK',
           UNCHANGED <<counters, batch, flusher, usage, recorded, doubled>>,
           \A q \in Requests : call'[q].at = "seeded" =>
              \/ call'[q] = call[q]
              \/ call'[q].val <= usage[call'[q].org][call'[q].period]
    PROVE  IInv'
<1> USE DEF IInv
<1>1. SeedNotAhead'
  BY DEF SeedNotAhead
<1>2. NeverOverbills' /\ CountNotAhead' /\ BatchEmptyBetweenFlushes'
  BY DEF NeverOverbills, CountNotAhead, BatchEmptyBetweenFlushes, Missing, Unflushed,
         InCounter, InBatch, EmptyBatch
<1> QED
  BY <1>1, <1>2

\* The steps of Record keep the inductive invariant.
LEMMA RecordIInv ==
    ASSUME IInv, TypeOK', NEW r \in Requests, Record(r) PROVE IInv'
<1> USE DEF IInv
<1> DEFINE org == call[r].org
           per == call[r].period
<1>1. call[r] \in Call /\ org \in Orgs /\ per \in Months /\ call[r].val \in Nat
  BY CallFields DEF TypeOK
<1>2. counters[org] \in Counter /\ 0 \notin Months
  BY <1>1 DEF TypeOK, Months
<1>3. CASE RecordHit(r)
  <2>1. counters[org].delta <= InCounter(org, per)
    BY <1>2, <1>3, CounterFields DEF RecordHit, InCounter
  <2>2. counters[org].count <= recorded[org][per] + doubled[org][per]
    BY <1>1, <1>2, <1>3 DEF RecordHit, CountNotAhead
  <2> QED
    BY <1>2, <1>3, <2>1, <2>2, CounterFields, CountIInv DEF RecordHit
<1>4. CASE RecordMiss(r)
  <2>1. \A q \in Requests : call'[q].at = "seeded" => call'[q] = call[q]
    BY <1>4 DEF RecordMiss, Goto, TypeOK
  <2> QED
    BY <1>4, <2>1, QuietIInv DEF RecordMiss
<1>5. CASE SeedRead(r)
  <2>1. usage[org][per] \in Nat
    BY <1>1, Cells
  <2>2. \A q \in Requests :
            \/ call'[q] = call[q]
            \/ call'[q].val <= usage[call'[q].org][call'[q].period]
    BY <1>5, <2>1 DEF SeedRead, Goto, TypeOK
  <2> QED
    BY <1>5, <2>2, QuietIInv DEF SeedRead
<1>6. CASE SeedFails(r)
  <2>1. usage[org][per] \in Nat
    BY <1>1, Cells
  <2>2. \A q \in Requests :
            \/ call'[q] = call[q]
            \/ call'[q].val <= usage[call'[q].org][call'[q].period]
    BY <1>6, <2>1 DEF SeedFails, Goto, TypeOK
  <2> QED
    BY <1>6, <2>2, QuietIInv DEF SeedFails
<1>7. CASE Install(r)
  <2> DEFINE c == [period |-> per, count |-> call[r].val, delta |-> 0]
  <2>1. c.count = call[r].val /\ c.delta = 0 /\ Count(r, c)
    BY <1>7 DEF Install
  <2>2. call[r].val <= usage[org][per]
    BY <1>7 DEF Install, SeedNotAhead
  <2>3. call[r].val <= recorded[org][per] + doubled[org][per]
    BY <1>1, <2>2, Cells, UsageBound
  <2>4. InCounter(org, per) \in Nat
    BY <1>1, Cells
  <2> HIDE DEF c
  <2> QED
    BY <1>1, <2>1, <2>3, <2>4, CountIInv
<1> QED
  BY <1>3, <1>4, <1>5, <1>6, <1>7 DEF Record

\* A call that begins keeps the inductive invariant.
LEMMA BeginIInv ==
    ASSUME IInv, TypeOK', NEW r \in Requests, NEW o \in Orgs, Begin(r, o) PROVE IInv'
<1>1. \A q \in Requests : call'[q].at = "seeded" => call'[q] = call[q]
  BY DEF Begin, IInv, TypeOK
<1> QED
  BY <1>1, QuietIInv DEF Begin

\* Collecting moves increments from the counters to an empty batch.
LEMMA CollectIInv ==
    ASSUME IInv, TypeOK', flusher = "loop", NEW w \in {"flushing", "final"}, Collect(w)
    PROVE  IInv'
<1> USE DEF IInv
<1>1. batch = EmptyBatch
  BY DEF BatchEmptyBetweenFlushes
<1>2. ASSUME NEW o \in Orgs
      PROVE  /\ counters'[o].period = counters[o].period
             /\ counters'[o].count = counters[o].count
  BY DEF Collect, TypeOK, Counter
<1>3. NeverOverbills'
  <2>1. ASSUME NEW o \in Orgs, NEW p \in Months
        PROVE  Missing(o, p)' >= Missing(o, p)
    <3>1. Missing(o, p) \in Int
      BY Cells DEF Missing, Unflushed
    <3> QED
      BY <1>1, <3>1, CollectBooks
  <2> QED
    BY <2>1, BooksKept
<1>4. CountNotAhead'
  BY <1>2 DEF CountNotAhead, Collect
<1>5. SeedNotAhead'
  BY DEF SeedNotAhead, Collect
<1>6. BatchEmptyBetweenFlushes'
  BY DEF BatchEmptyBetweenFlushes, Collect
<1> QED
  BY <1>3, <1>4, <1>5, <1>6

\* The flush goroutine handles one entry of its batch.
LEMMA EntryIInv ==
    ASSUME IInv, TypeOK', NEW e \in Orgs, AddUsage(e) \/ ReCredit(e)
    PROVE  IInv'
<1> USE DEF IInv
<1> DEFINE per == batch[e].period
           d == batch[e].delta
<1>1. /\ batch[e] \in Entry /\ d \in Nat
      /\ counters[e] \in Counter /\ counters[e].delta \in Nat
  BY EntryFields, CounterFields DEF TypeOK
<1>2. per \in Months
  BY DEF TypeOK, AddUsage, AddUsageOk, AddUsageFails, AddUsageReplyLost, AtAddUsage, ReCredit
<1>3. flusher \in {"flushing", "final"} /\ flusher' = flusher
  BY DEF AddUsage, AddUsageOk, AddUsageFails, AddUsageReplyLost, AtAddUsage, ReCredit,
         BatchEmptyBetweenFlushes, EmptyBatch, NoEntry
<1>4. UNCHANGED <<call, recorded>>
  BY DEF AddUsage, AddUsageOk, AddUsageFails, AddUsageReplyLost, ReCredit
<1>5. BatchEmptyBetweenFlushes'
  BY <1>3 DEF BatchEmptyBetweenFlushes
\* The row of e grows by the delta, or not at all.
<1>6. ASSUME NEW o \in Orgs, NEW p \in Months
      PROVE  usage'[o][p] >= usage[o][p] /\ doubled'[o][p] >= doubled[o][p]
  <2>1. usage[o][p] \in Nat /\ doubled[o][p] \in Nat
    BY Cells
  <2>2. ASSUME Upsert(e) PROVE usage'[o][p] >= usage[o][p]
    BY <1>1, <1>2, <2>1, <2>2 DEF Upsert, TypeOK, Tally
  <2>3. CASE AddUsage(e)
    BY <2>1, <2>2, <2>3 DEF AddUsage, AddUsageOk, AddUsageFails, AddUsageReplyLost
  <2>4. CASE ReCredit(e)
    BY <1>1, <1>2, <2>1, <2>4 DEF ReCredit, TypeOK, Tally
  <2> QED
    BY <2>3, <2>4
<1>7. SeedNotAhead'
  <2> SUFFICES ASSUME NEW q \in Requests, call[q].at = "seeded"
               PROVE  call[q].val <= usage'[call[q].org][call[q].period]
    BY <1>4 DEF SeedNotAhead
  <2>1. call[q].org \in Orgs /\ call[q].period \in Months /\ call[q].val \in Nat
    BY CallFields DEF TypeOK
  <2>2. call[q].val <= usage[call[q].org][call[q].period]
    BY DEF SeedNotAhead
  <2>3. /\ usage[call[q].org][call[q].period] \in Nat
        /\ usage'[call[q].org][call[q].period] \in Nat
    BY <2>1 DEF TypeOK, Tally
  <2> QED
    BY <1>6, <2>1, <2>2, <2>3
<1>8. CountNotAhead'
  <2> SUFFICES ASSUME NEW o \in Orgs, counters'[o].period # 0
               PROVE  counters'[o].count <= recorded[o][counters'[o].period]
                                              + doubled'[o][counters'[o].period]
    BY <1>4 DEF CountNotAhead
  <2>1. /\ counters'[o].period = counters[o].period
        /\ counters'[o].count = counters[o].count
    BY DEF AddUsage, AddUsageOk, AddUsageFails, AddUsageReplyLost, ReCredit, TypeOK, Counter
  <2>2. /\ counters[o].period \in Months
        /\ counters[o].count \in Nat
    BY <2>1, CounterFields DEF TypeOK, Months
  <2>3. counters[o].count <= recorded[o][counters[o].period]
                               + doubled[o][counters[o].period]
    BY <2>1 DEF CountNotAhead
  <2>4. /\ doubled'[o][counters[o].period] \in Nat
        /\ doubled[o][counters[o].period] \in Nat
        /\ recorded[o][counters[o].period] \in Nat
    BY <2>2 DEF TypeOK, Tally
  <2> QED
    BY <1>6, <2>1, <2>2, <2>3, <2>4
<1>9. NeverOverbills'
  BY EntryBooks, BooksKept
<1> QED
  BY <1>5, <1>7, <1>8, <1>9

\* The end of a flush, cancellation, restart and the clock keep it.
LEMMA ProcessIInv ==
    ASSUME IInv, TypeOK', Cancel \/ NextMonth \/ Exit \/ FlushEnd \/ UNCHANGED vars
    PROVE  IInv'
<1> USE DEF IInv
<1>1. CASE Cancel
  BY <1>1, QuietIInv DEF Cancel
<1>2. CASE NextMonth
  BY <1>2, QuietIInv DEF NextMonth, memory
<1>3. CASE UNCHANGED vars
  BY <1>3, QuietIInv DEF vars, memory
<1>4. CASE FlushEnd
  <2>1. SeedNotAhead' /\ CountNotAhead'
    BY <1>4 DEF FlushEnd, SeedNotAhead, CountNotAhead
  <2>2. NeverOverbills'
    BY <1>4 DEF FlushEnd, NeverOverbills, Missing, Unflushed, InCounter, InBatch
  <2>3. BatchEmptyBetweenFlushes'
    BY <1>4 DEF FlushEnd, BatchEmptyBetweenFlushes, EmptyBatch
  <2> QED
    BY <2>1, <2>2, <2>3
<1>5. CASE Exit
  <2>1. BatchEmptyBetweenFlushes'
    BY <1>5 DEF Exit, BatchEmptyBetweenFlushes, EmptyBatch
  <2>2. SeedNotAhead'
    BY <1>5 DEF Exit, NoCalls, Idle, SeedNotAhead
  <2>3. CountNotAhead'
    BY <1>5 DEF Exit, NoCounters, NoCounter, CountNotAhead
  <2>4. NeverOverbills'
    <3> SUFFICES ASSUME NEW o \in Orgs, NEW p \in Months PROVE Missing(o, p)' >= 0
      BY DEF NeverOverbills
    <3>1. InCounter(o, p)' = 0 /\ InBatch(o, p)' = 0
      BY <1>5 DEF Exit, NoCounters, NoCounter, EmptyBatch, NoEntry, InCounter, InBatch
    <3>2. Missing(o, p) >= 0
      BY DEF NeverOverbills
    <3>3. UNCHANGED <<recorded, doubled, usage>>
      BY <1>5 DEF Exit
    <3> QED
      BY <3>1, <3>2, <3>3, Cells DEF Missing, Unflushed
  <2> QED
    BY <2>1, <2>2, <2>3, <2>4
<1> QED
  BY <1>1, <1>2, <1>3, <1>4, <1>5

\* Every step keeps the inductive invariant.
LEMMA NextIInv == IInv /\ [Next]_vars => IInv'
<1> SUFFICES ASSUME IInv, [Next]_vars PROVE IInv'
  OBVIOUS
<1>1. TypeOK'
  BY NextTypeOK DEF IInv
<1> QED
  BY <1>1, BeginIInv, RecordIInv, CollectIInv, EntryIInv, ProcessIInv
     DEF Next, Flush, FlushTick, FlushFinal

\* The inductive invariant holds in every reachable state.
THEOREM Inductive == Spec => []IInv
BY InitIInv, NextIInv, PTL DEF Spec

\* No schedule of requests, flushes, database errors, month ends and restarts
\* makes Postgres hold more events of an org than Record counted, replies lost
\* after a commit apart.
THEOREM NoOverbilling == Spec => []NeverOverbills
BY Inductive, PTL DEF IInv

\* The running total is at most the events counted in its month and those that a lost
\* reply credited twice, so only the latter can make an org reach its limit early.
THEOREM TotalNotAhead == Spec => []CountNotAhead
BY Inductive, PTL DEF IInv

-----------------------------------------------------------------------------
(* Where counted events go *)

\* A step that leaves the books alone loses nothing.
LEMMA QuietBooks ==
    ASSUME TypeOK, UNCHANGED <<counters, batch, usage, recorded, doubled>>,
           NEW o \in Orgs, NEW p \in Months
    PROVE  ~(Missing(o, p)' > Missing(o, p))
<1>1. Missing(o, p)' = Missing(o, p) /\ Missing(o, p) \in Int
  BY Cells DEF Missing, Unflushed, InCounter, InBatch
<1> QED
  BY <1>1

\* Record loses increments only where a seeded counter replaces one that has some.
LEMMA RecordLoss ==
    ASSUME TypeOK, TypeOK', NEW r \in Requests, Record(r), NEW o \in Orgs, NEW p \in Months,
           Missing(o, p)' > Missing(o, p)
    PROVE  Cause(o, p)
<1> DEFINE org == call[r].org
           per == call[r].period
<1>1. call[r] \in Call /\ org \in Orgs /\ per \in Months /\ call[r].val \in Nat
  BY CallFields DEF TypeOK
<1>2. counters[org] \in Counter /\ InCounter(org, per) \in Nat
  BY <1>1, Cells DEF TypeOK
<1>3. CASE RecordHit(r)
  <2>1. counters[org].delta <= InCounter(org, per) /\ counters[org].period = per
    BY <1>2, <1>3, CounterFields DEF RecordHit, InCounter
  <2>2. /\ o = org /\ counters[o].period = p
        /\ p = per => counters[o].delta > counters[org].delta
    BY <1>2, <1>3, <2>1, CounterFields, CountBooks DEF RecordHit
  <2> QED
    BY <1>2, <2>1, <2>2, CounterFields
<1>4. CASE Install(r)
  <2> DEFINE c == [period |-> per, count |-> call[r].val, delta |-> 0]
  <2>1. c.count = call[r].val /\ c.delta = 0 /\ Count(r, c) /\ call[r].at = "seeded"
    BY <1>4 DEF Install
  <2>2. call'[r].at = "returned"
    BY <2>1 DEF Count, Goto, TypeOK
  <2> HIDE DEF c
  <2>3. o = org /\ counters[o].period = p /\ counters[o].delta > 0
    BY <1>1, <1>2, <2>1, CountBooks
  <2> QED
    BY <2>1, <2>2, <2>3 DEF Cause
<1>5. CASE RecordMiss(r) \/ SeedRead(r) \/ SeedFails(r)
  BY <1>5, QuietBooks DEF RecordMiss, SeedRead, SeedFails
<1> QED
  BY <1>3, <1>4, <1>5 DEF Record

\* Every step that loses counted events is one of those that may.
LEMMA NextLoss ==
    ASSUME IInv, TypeOK', [Next]_vars, NEW o \in Orgs, NEW p \in Months,
           Missing(o, p)' > Missing(o, p)
    PROVE  Cause(o, p)
<1> USE DEF IInv
<1>1. ASSUME NEW r \in Requests, Record(r) PROVE Cause(o, p)
  BY <1>1, RecordLoss
<1>2. ASSUME NEW r \in Requests, NEW q \in Orgs, Begin(r, q) PROVE FALSE
  BY <1>2, QuietBooks DEF Begin
<1>3. ASSUME FlushTick \/ FlushFinal PROVE FALSE
  <2>1. batch = EmptyBatch
    BY <1>3 DEF FlushTick, FlushFinal, BatchEmptyBetweenFlushes
  <2>2. Missing(o, p)' = Missing(o, p) /\ Missing(o, p) \in Int
    BY <1>3, <2>1, CollectBooks, Cells DEF FlushTick, FlushFinal, Missing, Unflushed
  <2> QED
    BY <2>2
<1>4. ASSUME NEW e \in Orgs, AddUsage(e) \/ ReCredit(e) PROVE Cause(o, p)
  BY <1>4, EntryBooks DEF Cause
<1>5. ASSUME FlushEnd \/ Cancel \/ NextMonth \/ UNCHANGED vars PROVE FALSE
  BY <1>5, QuietBooks DEF FlushEnd, Cancel, NextMonth, vars, memory
<1>6. ASSUME Exit PROVE Cause(o, p)
  BY <1>6 DEF Exit, Cause
<1> QED
  BY <1>1, <1>2, <1>3, <1>4, <1>5, <1>6 DEF Next, Flush

\* Counted events leave the books only with the process, under a seeded counter
\* that replaces one with unflushed increments, or when a write fails after its
\* org's counter moved to another month.
THEOREM LossesExplained == Spec => LossHasCause
<1>1. IInv /\ IInv' /\ [Next]_vars =>
        [\A o \in Orgs, p \in Months :
            Missing(o, p)' > Missing(o, p) =>
               \/ counters' = NoCounters
               \/ /\ counters[o].period = p
                  /\ counters[o].delta > 0
                  /\ \E r \in Requests :
                        call[r].at = "seeded" /\ call[r].org = o /\ call'[r].at = "returned"
               \/ /\ batch[o].period = p
                  /\ batch[o].status = "failed"
                  /\ counters[o].period # p]_vars
  <2> SUFFICES ASSUME IInv, IInv', [Next]_vars,
                      NEW o \in Orgs, NEW p \in Months, Missing(o, p)' > Missing(o, p)
               PROVE  Cause(o, p)
    BY DEF Cause
  <2> QED
    BY NextLoss DEF IInv
<1> QED
  BY <1>1, Inductive, PTL DEF Spec, LossHasCause

-----------------------------------------------------------------------------
(* Induction and sums over finite sets *)

\* Induction over the natural numbers, for a set of them.
LEMMA SetInduction ==
    ASSUME NEW T, 0 \in T, \A n \in Nat : n \in T => n + 1 \in T
    PROVE  Nat \subseteq T
<1> DEFINE R == OpToRel(<, Nat)
<1>1. \A n \in Nat : <<n, n + 1>> \in R
  BY DEF OpToRel
<1>2. IsWellFoundedOn(R, Nat)
  BY NatLessThanWellFounded
<1> HIDE DEF R
<1> SUFFICES ASSUME Nat \ T # {} PROVE FALSE
  OBVIOUS
<1>3. PICK x \in Nat \ T : \A y \in Nat \ T : ~(<<y, x>> \in R)
  BY <1>2, WFMin
<1>4. x # 0
  BY <1>3
<1>5. x - 1 \in Nat /\ x - 1 \notin T /\ x = (x - 1) + 1
  BY <1>4
<1> QED
  BY <1>1, <1>3, <1>5

\* The element a fold takes from a set, and the function by which SumFunction sums.
Some(s) == CHOOSE x \in s : TRUE
IsSum(iter, f, S) ==
    iter = [s \in SUBSET S |-> IF s = {} THEN 0 ELSE f[Some(s)] + iter[s \ {Some(s)}]]

\* SumFunction, by that function.
LEMMA SumDef ==
    ASSUME NEW f
    PROVE  SumFunction(f) = (CHOOSE iter : IsSum(iter, f, DOMAIN f))[DOMAIN f]
BY DEF SumFunction, SumFunctionOnSet, FoldFunctionOnSet, MapThenFoldSet, IsSum, Some

\* The recursion that SumFunction is defined by has a solution.
LEMMA SumExists ==
    ASSUME NEW f, NEW S, IsFiniteSet(S)
    PROVE  \E iter : IsSum(iter, f, S)
<1> DEFINE Small(n) == {s \in SUBSET S : Cardinality(s) <= n}
           Step(g, s) == IF s = {} THEN 0 ELSE f[Some(s)] + g[s \ {Some(s)}]
           T == {n \in Nat : \E g : g = [s \in Small(n) |-> Step(g, s)]}
<1>0. ASSUME NEW s \in SUBSET S
      PROVE /\ IsFiniteSet(s) /\ Cardinality(s) \in Nat /\ (Cardinality(s) = 0 <=> s = {})
            /\ s # {} => Some(s) \in s /\ Cardinality(s \ {Some(s)}) = Cardinality(s) - 1
                         /\ s \ {Some(s)} \in SUBSET S
  <2>1. IsFiniteSet(s)
    BY FS_Subset
  <2>2. Cardinality(s) \in Nat /\ (Cardinality(s) = 0 <=> s = {})
    BY <2>1, FS_CardinalityType, FS_EmptySet
  <2>3. ASSUME s # {} PROVE Some(s) \in s
    BY <2>3 DEF Some
  <2> QED
    BY <2>1, <2>2, <2>3, FS_RemoveElement
<1>1. 0 \in T
  <2> DEFINE g == [s \in Small(0) |-> 0]
  <2>1. ASSUME NEW s \in Small(0) PROVE s = {}
    <3>1. s \in SUBSET S /\ Cardinality(s) <= 0
      OBVIOUS
    <3>2. Cardinality(s) \in Nat /\ (Cardinality(s) = 0 <=> s = {})
      BY <1>0, <3>1
    <3> QED
      BY ONLY <3>1, <3>2
  <2>2. g = [s \in Small(0) |-> Step(g, s)]
    BY <2>1
  <2> QED
    BY <2>2
<1>2. ASSUME NEW n \in Nat, n \in T PROVE n + 1 \in T
  <2>1. PICK g : g = [s \in Small(n) |-> Step(g, s)]
    BY <1>2
  <2> DEFINE h == [s \in Small(n + 1) |-> IF s \in Small(n) THEN g[s] ELSE Step(g, s)]
  <2>2. ASSUME NEW s \in Small(n + 1) PROVE h[s] = Step(h, s)
    <3>1. CASE s = {}
      <4>1. s \in SUBSET S /\ Cardinality(s) = 0
        BY <1>0, <3>1
      <4>2. s \in Small(n)
        BY <4>1
      <4> QED
        BY <2>1, <3>1, <4>2
    <3>2. CASE s # {}
      <4>1. s \ {Some(s)} \in Small(n) /\ s \ {Some(s)} \in Small(n + 1)
        BY <3>2, <1>0
      <4>2. h[s \ {Some(s)}] = g[s \ {Some(s)}]
        BY <4>1
      <4>3. h[s] = Step(g, s)
        BY <2>1
      <4> HIDE DEF h
      <4> QED
        BY <4>2, <4>3, <3>2
    <3> QED
      BY <3>1, <3>2
  <2>3. h = [s \in Small(n + 1) |-> Step(h, s)]
    <3>1. h = [s \in Small(n + 1) |-> h[s]]
      OBVIOUS
    <3> HIDE DEF h
    <3> QED
      BY <2>2, <3>1
  <2>4. n + 1 \in Nat
    OBVIOUS
  <2> HIDE DEF h
  <2>5. \E gg : gg = [s \in Small(n + 1) |-> Step(gg, s)]
    BY <2>3
  <2> HIDE DEF Small, Step
  <2> QED
    BY <2>4, <2>5
<1>3. Nat \subseteq T
  <2> HIDE DEF T
  <2> QED
    BY <1>1, <1>2, SetInduction
<1>4. Cardinality(S) \in Nat /\ Small(Cardinality(S)) = SUBSET S
  <2>1. \A s \in SUBSET S : Cardinality(s) <= Cardinality(S)
    BY FS_Subset
  <2> QED
    BY <1>0, <2>1
<1>5. PICK g : g = [s \in Small(Cardinality(S)) |-> Step(g, s)]
  BY <1>3, <1>4
<1> QED
  BY <1>4, <1>5 DEF IsSum

\* What holds of the empty set, and of a set when of the set without its chosen
\* element, holds of every subset of a finite set.
LEMMA SubsetInduction ==
    ASSUME NEW S, IsFiniteSet(S), NEW T, {} \in T,
           \A s \in SUBSET S : s # {} /\ s \ {Some(s)} \in T => s \in T
    PROVE  SUBSET S \subseteq T
<1> DEFINE N == {n \in Nat : \A s \in SUBSET S : Cardinality(s) <= n => s \in T}
<1>1. ASSUME NEW s \in SUBSET S
      PROVE  /\ Cardinality(s) \in Nat /\ (Cardinality(s) = 0 <=> s = {})
             /\ s # {} => /\ Cardinality(s \ {Some(s)}) = Cardinality(s) - 1
                          /\ s \ {Some(s)} \in SUBSET S
  <2>1. IsFiniteSet(s)
    BY FS_Subset
  <2>2. s # {} => Some(s) \in s
    BY DEF Some
  <2> QED
    BY <2>1, <2>2, FS_CardinalityType, FS_EmptySet, FS_RemoveElement
<1>2. 0 \in N
  <2> SUFFICES ASSUME NEW s \in SUBSET S, Cardinality(s) <= 0 PROVE s \in T
    OBVIOUS
  <2>1. Cardinality(s) \in Nat /\ (Cardinality(s) = 0 <=> s = {})
    BY <1>1
  <2>2. s = {}
    BY ONLY <2>1, Cardinality(s) <= 0
  <2> QED
    BY <2>2
<1>3. ASSUME NEW n \in Nat, n \in N PROVE n + 1 \in N
  <2> SUFFICES ASSUME NEW s \in SUBSET S, Cardinality(s) <= n + 1 PROVE s \in T
    OBVIOUS
  <2>1. CASE s # {}
    <3>1. s \ {Some(s)} \in SUBSET S /\ Cardinality(s \ {Some(s)}) <= n
      BY <1>1, <2>1
    <3> QED
      BY <1>3, <2>1, <3>1
  <2> QED
    BY <2>1
<1>4. Nat \subseteq N
  <2> HIDE DEF N
  <2> QED
    BY <1>2, <1>3, SetInduction
<1> SUFFICES ASSUME NEW s \in SUBSET S PROVE s \in T
  OBVIOUS
<1>5. Cardinality(s) \in Nat /\ Cardinality(s) \in N
  BY <1>1, <1>4
<1> QED
  BY <1>5

\* The sum of zeros.
LEMMA SumZero ==
    ASSUME NEW S, IsFiniteSet(S), NEW f \in [S -> {0}]
    PROVE  SumFunction(f) = 0
<1> DEFINE F == CHOOSE iter : IsSum(iter, f, S)
           T == {s \in SUBSET S : F[s] = 0}
<1>1. IsSum(F, f, S) /\ SumFunction(f) = F[S]
  BY SumExists, SumDef
<1> HIDE DEF F
<1>2. {} \in T
  BY <1>1 DEF IsSum
<1>3. ASSUME NEW s \in SUBSET S, s # {}, s \ {Some(s)} \in T PROVE s \in T
  <2>1. Some(s) \in S
    BY <1>3 DEF Some
  <2>2. F[s] = f[Some(s)] + F[s \ {Some(s)}]
    BY <1>1, <1>3 DEF IsSum
  <2> QED
    BY <1>3, <2>1, <2>2
<1>4. SUBSET S \subseteq T
  <2> HIDE DEF T
  <2> QED
    BY <1>2, <1>3, SubsetInduction
<1> QED
  BY <1>1, <1>4

\* Changing one value of a function changes its sum by as much.
LEMMA SumStep ==
    ASSUME NEW S, IsFiniteSet(S), NEW f \in [S -> Nat], NEW g \in [S -> Nat],
           NEW a \in S, NEW d \in Int, g[a] = f[a] + d, \A x \in S \ {a} : g[x] = f[x]
    PROVE  SumFunction(g) = SumFunction(f) + d /\ SumFunction(f) \in Nat
<1> DEFINE F == CHOOSE iter : IsSum(iter, f, S)
           G == CHOOSE iter : IsSum(iter, g, S)
           T == {s \in SUBSET S :
                    F[s] \in Nat /\ G[s] = F[s] + (IF a \in s THEN d ELSE 0)}
<1>1. IsSum(F, f, S) /\ SumFunction(f) = F[S]
  BY SumExists, SumDef
<1>2. IsSum(G, g, S) /\ SumFunction(g) = G[S]
  BY SumExists, SumDef
<1> HIDE DEF F, G
<1>3. {} \in T
  BY <1>1, <1>2 DEF IsSum
<1>4. ASSUME NEW s \in SUBSET S, s # {}, s \ {Some(s)} \in T PROVE s \in T
  <2> DEFINE x == Some(s)
             t == s \ {Some(s)}
  <2>1. x \in s /\ x \in S
    BY <1>4 DEF Some
  <2>2. F[t] \in Nat /\ G[t] = F[t] + (IF a \in t THEN d ELSE 0)
    BY <1>4
  <2>3. F[s] = f[x] + F[t] /\ G[s] = g[x] + G[t]
    BY <1>1, <1>2, <1>4 DEF IsSum
  <2>4. f[x] \in Nat /\ g[x] = f[x] + (IF x = a THEN d ELSE 0)
    BY <2>1
  <2>5. (a \in s <=> a \in t \/ a = x) /\ x \notin t
    BY <2>1
  <2> HIDE DEF x, t
  <2>6. F[s] \in Nat /\ G[s] = F[s] + (IF a \in s THEN d ELSE 0)
    BY <2>2, <2>3, <2>4, <2>5
  <2> QED
    BY <2>6
<1>5. SUBSET S \subseteq T
  <2> HIDE DEF T
  <2> QED
    BY <1>3, <1>4, SubsetInduction
<1>6. F[S] \in Nat /\ G[S] = F[S] + d
  BY <1>5
<1> QED
  BY <1>1, <1>2, <1>6

-----------------------------------------------------------------------------
(* The process runs its tracker and its buffer as they are specified *)

\* Every step of the process is a step of the tracker, or none of it.
LEMMA StepOfTracker ==
    ASSUME TypeOK, [IngestorNext]_ingestorVars
    PROVE  [Next]_vars
<1>1. CASE \E r \in Requests : Arrive(r) \/ Handle(r)
  BY <1>1 DEF Arrive, Handle, Reject, Resolved, RecordStep, BlockEvent, BufferEvent, Next
<1>2. CASE FlushUsage \/ FlushUsageFinal
  BY <1>2 DEF FlushUsage, FlushUsageFinal, Flush, Next
<1>3. CASE RunBuffer \/ UNCHANGED ingestorVars
  BY <1>3 DEF RunBuffer, ingestorVars
<1>4. CASE StopBuf
  <2>1. CASE cancelled
    BY <1>4, <2>1 DEF StopBuf, TypeOK, vars, memory
  <2>2. CASE ~cancelled
    BY <1>4, <2>2 DEF StopBuf, Cancel, Next
  <2> QED
    BY <2>1, <2>2
<1>5. CASE ListenFails \/ Signal \/ Expire \/ TrackerStopped \/ Return
  BY <1>5 DEF ListenFails, Signal, Expire, TrackerStopped, Return
<1>6. CASE MonthPasses
  BY <1>6 DEF MonthPasses, Next
<1> QED
  BY <1>1, <1>2, <1>3, <1>4, <1>5, <1>6 DEF IngestorNext, Main

\* The tracker's inductive invariant holds in the process.
LEMMA TrackerInv == IngestorSpec => []IInv
<1>1. Boot => IInv
  BY InitIInv DEF Boot
<1>2. IInv /\ [IngestorNext]_ingestorVars => IInv'
  BY StepOfTracker, NextIInv DEF IInv
<1> QED
  BY <1>1, <1>2, PTL DEF IngestorSpec

\* The process runs the tracker as UsageTracker specifies it, so what is proved of
\* the tracker holds in the process (main.go:58-59, server.go:104).
THEOREM IngestorRunsTracker == IngestorSpec => Spec
<1>1. Boot => Init
  BY DEF Boot
<1>2. IInv /\ [IngestorNext]_ingestorVars => [Next]_vars
  BY StepOfTracker DEF IInv
<1> QED
  BY <1>1, <1>2, TrackerInv, PTL DEF IngestorSpec, Spec

\* What a step of the process does to the buffer.
LEMMA StepOfBuffer ==
    ASSUME stopping \in BOOLEAN, [IngestorNext]_ingestorVars
    PROVE  [Buffer!Next]_Buffer!vars
<1>1. CASE \E r \in Requests : Arrive(r) \/ Handle(r)
  BY <1>1 DEF Arrive, Handle, Reject, Resolved, RecordStep, BlockEvent, BufferEvent,
     Buffer!Next, bufferVars, Buffer!vars
<1>2. CASE FlushUsage \/ FlushUsageFinal \/ UNCHANGED ingestorVars
  BY <1>2 DEF FlushUsage, FlushUsageFinal, ingestorVars, bufferVars, Buffer!vars
<1>3. CASE RunBuffer
  BY <1>3 DEF RunBuffer, Buffer!Next
<1>4. CASE StopBuf
  <2>1. CASE stopping
    BY <1>4, <2>1 DEF StopBuf, Buffer!vars
  <2>2. CASE ~stopping
    BY <1>4, <2>2 DEF StopBuf, Buffer!Stop, Buffer!Next
  <2> QED
    BY <2>1, <2>2
<1>5. CASE ListenFails \/ Signal \/ Expire \/ TrackerStopped \/ Return \/ MonthPasses
  BY <1>5 DEF ListenFails, Signal, Expire, TrackerStopped, Return, MonthPasses,
     bufferVars, Buffer!vars
<1> QED
  BY <1>1, <1>2, <1>3, <1>4, <1>5 DEF IngestorNext, Main

\* The process runs the buffer as EventBuffer specifies it, so what is proved of the
\* buffer holds in the process (main.go:53-56, server.go:117).
THEOREM IngestorRunsBuffer == IngestorSpec => Buffer!Spec
<1>1. Boot => Buffer!Init /\ stopping \in BOOLEAN
  BY DEF Boot, Buffer!Init
<1>2. stopping \in BOOLEAN /\ [IngestorNext]_ingestorVars => [Buffer!Next]_Buffer!vars
  BY StepOfBuffer
<1>3. stopping \in BOOLEAN /\ [Buffer!Next]_Buffer!vars => (stopping \in BOOLEAN)'
  BY DEF Buffer!Next, Buffer!vars, Buffer!Add, Buffer!Enqueue, Buffer!Drop, Buffer!Run,
     Buffer!Receive, Buffer!Take, Buffer!Tick, Buffer!StartDrain, Buffer!Drain,
     Buffer!EndDrain, Buffer!EndFlush, Buffer!InsertStores, Buffer!InsertFails,
     Buffer!Stop, Buffer!Exit
<1> QED
  BY <1>1, <1>2, <1>3, PTL DEF IngestorSpec, Buffer!Spec

-----------------------------------------------------------------------------
(* The process: the shape of its state *)

\* The buffer, as EventBuffer has it, keeps its types.
LEMMA BufferTypes ==
    /\ Boot => Buffer!TypeOK
    /\ Buffer!TypeOK /\ [IngestorNext]_ingestorVars => Buffer!TypeOK'
<1> USE IngestorAssumption
<1>1. Boot => Buffer!TypeOK
  <2> SUFFICES ASSUME Boot PROVE Buffer!TypeOK
    OBVIOUS
  <2>1. /\ queue \in Seq(Buffer!Rows) /\ rows \in Seq(Buffer!Rows)
        /\ stored \in Seq(Buffer!Rows) /\ Len(queue) = 0
    BY EmptySeq DEF Boot, Buffer!Init
  <2>2. Len(queue) <= Buffer!QueueCap /\ added \in 0..MaxRows
    BY <2>1 DEF Boot, Buffer!Init, Buffer!QueueCap
  <2> QED
    BY <2>1, <2>2 DEF Boot, Buffer!Init, Buffer!TypeOK
<1>2. Buffer!TypeOK /\ [Buffer!Next]_Buffer!vars => Buffer!TypeOK'
  <2> SUFFICES ASSUME Buffer!TypeOK, [Buffer!Next]_Buffer!vars PROVE Buffer!TypeOK'
    OBVIOUS
  <2> USE DEF Buffer!TypeOK
  <2>1. CASE Buffer!Enqueue
    <3>1. /\ queue' = Append(queue, added + 1) /\ Len(queue) < Buffer!QueueCap
          /\ added' = added + 1 /\ UNCHANGED <<rows, run, stopping, stored, lost, dropped>>
      BY <2>1 DEF Buffer!Enqueue
    <3>2. added + 1 \in Buffer!Rows /\ added' \in 0..MaxRows
      BY <2>1 DEF Buffer!Enqueue, Buffer!Rows
    <3>3. queue' \in Seq(Buffer!Rows) /\ Len(queue') = Len(queue) + 1
      BY <3>1, <3>2, AppendProperties
    <3>4. Len(queue') <= Buffer!QueueCap
      BY <3>1, <3>3, LenProperties DEF Buffer!QueueCap
    <3> QED
      BY <3>1, <3>2, <3>3, <3>4
  <2>2. CASE Buffer!Drop
    BY <2>2 DEF Buffer!Drop, Buffer!Rows
  <2>3. ASSUME NEW where, where \in {"loop", "flushing", "draining"}, Buffer!Take(where)
        PROVE  Buffer!TypeOK'
    <3>1. /\ queue # <<>> /\ rows' = Append(rows, Head(queue)) /\ queue' = Tail(queue)
          /\ run' = where /\ UNCHANGED <<stopping, added, stored, lost, dropped>>
      BY <2>3 DEF Buffer!Take
    <3>2. /\ Head(queue) \in Buffer!Rows /\ queue' \in Seq(Buffer!Rows)
          /\ Len(queue') = Len(queue) - 1
      BY <3>1, HeadTailProperties
    <3>3. rows' \in Seq(Buffer!Rows)
      BY <3>1, <3>2, AppendProperties
    <3>4. Len(queue') <= Buffer!QueueCap
      BY <3>2, LenProperties DEF Buffer!QueueCap
    <3> QED
      BY <2>3, <3>1, <3>2, <3>3, <3>4
  <2>4. CASE Buffer!Receive \/ Buffer!Drain
    BY <2>3, <2>4 DEF Buffer!Receive, Buffer!Drain
  <2>5. CASE \/ Buffer!Tick \/ Buffer!StartDrain \/ Buffer!EndDrain \/ Buffer!Stop
             \/ UNCHANGED Buffer!vars
    BY <2>5 DEF Buffer!Tick, Buffer!StartDrain, Buffer!EndDrain, Buffer!Stop, Buffer!vars
  <2>6. Buffer!RowsOf(rows) \subseteq Buffer!Rows /\ Buffer!RowsOf(queue) \subseteq Buffer!Rows
    BY LenProperties, ElementOfSeq DEF Buffer!RowsOf
  <2>7. CASE Buffer!InsertStores \/ Buffer!InsertFails
    <3>1. /\ rows' = <<>> /\ run' \in {"loop", "done"}
          /\ UNCHANGED <<queue, stopping, added, dropped>>
      BY <2>7 DEF Buffer!InsertStores, Buffer!InsertFails, Buffer!EndFlush
    <3>2. \/ stored' = stored \o rows /\ lost' = lost
          \/ stored' = stored /\ lost' = lost \cup Buffer!RowsOf(rows)
      BY <2>7 DEF Buffer!InsertStores, Buffer!InsertFails
    <3>3. stored \o rows \in Seq(Buffer!Rows)
      BY ConcatProperties
    <3>4. stored' \in Seq(Buffer!Rows) /\ lost' \subseteq Buffer!Rows
      BY <2>6, <3>2, <3>3
    <3> QED
      BY <3>1, <3>4, EmptySeq
  <2>8. CASE Buffer!Exit
    <3>1. queue' \in Seq(Buffer!Rows) /\ rows' \in Seq(Buffer!Rows) /\ Len(queue') = 0
      BY <2>8, EmptySeq DEF Buffer!Exit
    <3>2. Len(queue') <= Buffer!QueueCap
      BY <3>1 DEF Buffer!QueueCap
    <3> QED
      BY <2>6, <2>8, <3>1, <3>2 DEF Buffer!Exit
  <2> QED
    BY <2>1, <2>2, <2>4, <2>5, <2>7, <2>8 DEF Buffer!Next, Buffer!Add, Buffer!Run
<1> QED
  BY <1>1, <1>2, StepOfBuffer DEF Buffer!TypeOK

\* The process starts in that shape.
LEMMA InitIngestorOK == Boot => IngestorOK
<1> SUFFICES ASSUME Boot PROVE IngestorOK
  OBVIOUS
<1>1. TypeOK /\ Buffer!TypeOK
  BY InitTypeOK, BufferTypes DEF Boot
<1>2. /\ handler = [r \in Requests |-> "idle"] /\ main = "serving"
      /\ expired = FALSE
  BY DEF Boot
<1>3. blocked \in Tally /\ unwritten \in Tally
  BY DEF Boot, Tally
<1> QED
  BY <1>1, <1>2, <1>3 DEF IngestorOK

\* Every step of the process keeps the shape of its state.
LEMMA NextIngestorOK == IngestorOK /\ [IngestorNext]_ingestorVars => IngestorOK'
<1> SUFFICES ASSUME IngestorOK, [IngestorNext]_ingestorVars PROVE IngestorOK'
  OBVIOUS
<1>1. TypeOK' /\ Buffer!TypeOK'
  BY StepOfTracker, NextTypeOK, BufferTypes DEF IngestorOK
<1> DEFINE Own == /\ handler \in [Requests -> {"idle", "resolving", "recording"}]
                  /\ main \in {"serving", "shutdown", "cancelled", "waiting", "exited",
                               "failed"}
                  /\ expired \in BOOLEAN
                  /\ expired => main \notin {"serving", "failed"}
                  /\ blocked \in Tally
                  /\ unwritten \in Tally
<1>2. Own
  BY DEF IngestorOK
<1>3. ASSUME NEW r \in Requests, Arrive(r) \/ Handle(r) PROVE Own'
  <2>1. CASE BlockEvent(r)
    <3>1. call[r].org \in Orgs /\ call[r].period \in Months
      BY CallFields DEF IngestorOK, TypeOK
    <3>2. blocked' \in Tally
      BY <1>2, <2>1, <3>1 DEF BlockEvent, Tally
    <3> QED
      BY <1>2, <2>1, <3>2 DEF BlockEvent
  <2> QED
    BY <1>2, <1>3, <2>1 DEF Arrive, Handle, Reject, Resolved, RecordStep, BufferEvent
<1>4. ASSUME FlushUsage \/ FlushUsageFinal \/ RunBuffer \/ MonthPasses
             \/ UNCHANGED ingestorVars
      PROVE  Own'
  <2>1. UNCHANGED <<handler, main, expired, blocked>>
    BY <1>4 DEF FlushUsage, FlushUsageFinal, RunBuffer, MonthPasses, ingestorVars
  <2>2. ASSUME NEW o \in Orgs, ReCredit(o), flusher = "final",
               unwritten' = [unwritten EXCEPT ![o][batch[o].period] = @ + batch[o].delta]
        PROVE  unwritten' \in Tally
    <3>1. batch[o].period \in Months /\ batch[o].delta \in Nat
      BY <2>2, EntryFields DEF IngestorOK, TypeOK, ReCredit
    <3> QED
      BY <1>2, <2>2, <3>1, TallyAdd
  <2>3. unwritten' \in Tally
    BY <1>2, <1>4, <2>2 DEF FlushUsage, FlushUsageFinal, RunBuffer, MonthPasses, ingestorVars
  <2> QED
    BY <1>2, <2>1, <2>3
<1>5. ASSUME Main PROVE Own'
  <2>1. UNCHANGED <<handler, blocked, unwritten>>
    BY <1>5 DEF Main, ListenFails, Signal, Expire, StopBuf, TrackerStopped, Return
  <2>2. CASE Expire
    BY <1>2, <2>1, <2>2 DEF Expire
  <2>3. CASE ListenFails \/ Signal
    BY <1>2, <2>1, <2>3 DEF ListenFails, Signal
  <2>4. CASE StopBuf \/ TrackerStopped \/ Return
    <3>1. expired' = expired /\ main' \in {"cancelled", "waiting", "exited"}
      BY <2>4 DEF StopBuf, TrackerStopped, Return
    <3> QED
      BY <1>2, <2>1, <3>1
  <2> QED
    BY <1>5, <2>2, <2>3, <2>4 DEF Main
<1>6. Own'
  <2> HIDE DEF Own
  <2> QED
    BY <1>3, <1>4, <1>5 DEF IngestorNext
<1> QED
  BY <1>1, <1>6 DEF IngestorOK

\* Tracker, buffer, handlers and main keep the shape of their state, and the
\* shutdown timeout runs only once a signal has come.
THEOREM IngestorTypeCorrect == IngestorSpec => []IngestorOK
<1> QED
  BY InitIngestorOK, NextIngestorOK, PTL DEF IngestorSpec

-----------------------------------------------------------------------------
(* Blocking *)

\* The history of a month's events only grows.
LEMMA TalliesGrow ==
    ASSUME TypeOK, [Next]_vars, NEW o \in Orgs, NEW p \in Months
    PROVE  /\ recorded'[o][p] \in Nat /\ recorded'[o][p] >= recorded[o][p]
           /\ doubled'[o][p] \in Nat /\ doubled'[o][p] >= doubled[o][p]
<1>1. TypeOK'
  BY NextTypeOK
<1>2. /\ recorded'[o][p] \in Nat /\ doubled'[o][p] \in Nat
      /\ recorded[o][p] \in Nat /\ doubled[o][p] \in Nat
  BY <1>1 DEF TypeOK, Tally
<1>3. ASSUME NEW r \in Requests, NEW c, Count(r, c)
      PROVE  recorded'[o][p] >= recorded[o][p]
  <2>1. call[r].org \in Orgs /\ call[r].period \in Months
    BY CallFields DEF TypeOK
  <2> QED
    BY <1>2, <1>3, <2>1 DEF Count, TypeOK, Tally
<1>4. ASSUME NEW r \in Requests, Record(r) \/ \E q \in Orgs : Begin(r, q)
      PROVE  recorded'[o][p] >= recorded[o][p] /\ doubled' = doubled
  <2>1. CASE RecordHit(r) \/ Install(r)
    BY <1>3, <2>1 DEF RecordHit, Install, Count
  <2> QED
    BY <1>2, <1>4, <2>1 DEF Record, RecordMiss, SeedRead, SeedFails, Begin
<1>5. ASSUME NEW e \in Orgs, ReCredit(e)
      PROVE  doubled'[o][p] >= doubled[o][p] /\ recorded' = recorded
  <2>1. batch[e].delta \in Nat /\ batch[e].period \in Months
    BY <1>5, EntryFields DEF TypeOK, ReCredit
  <2> QED
    BY <1>2, <1>5, <2>1 DEF ReCredit, TypeOK, Tally
<1>6. ASSUME \/ FlushTick \/ FlushFinal \/ FlushEnd \/ Cancel \/ NextMonth \/ Exit
             \/ UNCHANGED vars \/ \E e \in Orgs : AddUsage(e)
      PROVE  recorded' = recorded /\ doubled' = doubled
  BY <1>6 DEF FlushTick, FlushFinal, Collect, FlushEnd, Cancel, NextMonth, Exit, vars, memory,
     AddUsage, AddUsageOk, AddUsageFails, AddUsageReplyLost
<1> QED
  BY <1>2, <1>4, <1>5, <1>6 DEF Next, Flush

\* Requests that hold an answer over their org's limit, for one month.
Refusable(o, p) == {r \in Requests :
                       /\ handler[r] = "recording"
                       /\ call[r].at = "returned" /\ call[r].org = o /\ call[r].period = p
                       /\ call[r].val > Limit[o]}

\* The events refused and about to be refused are within those over the limit.
Refused(o, p) == blocked[o][p] + Cardinality(Refusable(o, p))
Over(o, p) == recorded[o][p] + doubled[o][p] - Limit[o]
RefusedOver(o, p) == Refused(o, p) > 0 => Refused(o, p) <= Over(o, p)

\* They are numbers.
LEMMA RefusedTypes ==
    ASSUME IngestorOK, NEW o \in Orgs, NEW p \in Months
    PROVE  /\ IsFiniteSet(Refusable(o, p)) /\ Cardinality(Refusable(o, p)) \in Nat
           /\ blocked[o][p] \in Nat /\ Refused(o, p) \in Nat /\ Over(o, p) \in Int
           /\ recorded[o][p] \in Nat /\ doubled[o][p] \in Nat /\ Limit[o] \in Nat
<1> USE IngestorAssumption
<1>1. Refusable(o, p) \in SUBSET Requests
  BY DEF Refusable
<1>2. IsFiniteSet(Refusable(o, p)) /\ Cardinality(Refusable(o, p)) \in Nat
  BY <1>1, FS_Subset, FS_CardinalityType
<1>3. /\ blocked[o][p] \in Nat /\ recorded[o][p] \in Nat /\ doubled[o][p] \in Nat
      /\ Limit[o] \in Nat
  BY DEF IngestorOK, TypeOK, Tally
<1> QED
  BY <1>2, <1>3 DEF Refused, Over

\* Nobody new is to be refused and no event is forgotten.
LEMMA RefusedShrinks ==
    ASSUME IngestorOK, IngestorOK', NEW o \in Orgs, NEW p \in Months, RefusedOver(o, p),
           blocked'[o][p] = blocked[o][p], Over(o, p)' >= Over(o, p),
           Refusable(o, p)' \subseteq Refusable(o, p)
    PROVE  RefusedOver(o, p)'
<1>1. /\ Refused(o, p) \in Nat /\ Refused(o, p)' = blocked[o][p] + Cardinality(Refusable(o, p)')
      /\ Refused(o, p) = blocked[o][p] + Cardinality(Refusable(o, p))
      /\ Over(o, p) \in Int
  BY RefusedTypes DEF Refused
<1>0. Over(o, p)' \in Int
  <2>1. recorded'[o][p] \in Nat /\ doubled'[o][p] \in Nat
    BY DEF IngestorOK, TypeOK, Tally
  <2> QED
    BY <2>1, RefusedTypes DEF Over
<1>2. /\ Cardinality(Refusable(o, p)') <= Cardinality(Refusable(o, p))
      /\ Cardinality(Refusable(o, p)') \in Nat
  BY RefusedTypes, FS_Subset, FS_CardinalityType
<1>3. blocked[o][p] \in Nat /\ Cardinality(Refusable(o, p)) \in Nat
  BY RefusedTypes
<1>4. RefusedOver(o, p)' = (Refused(o, p)' > 0 => Refused(o, p)' <= Over(o, p)')
  BY DEF RefusedOver
<1> QED
  BY <1>0, <1>1, <1>2, <1>3, <1>4 DEF RefusedOver

\* An event is counted: it may be over the limit, and then its month is.
LEMMA RefusedCounts ==
    ASSUME IngestorOK, IngestorOK', IInv', NEW r \in Requests, NEW c, Count(r, c),
           handler[r] = "recording", call[r].at # "returned", UNCHANGED <<handler, blocked>>,
           NEW o \in Orgs, NEW p \in Months, RefusedOver(o, p)
    PROVE  RefusedOver(o, p)'
<1>0. call[r].org \in Orgs /\ call[r].period \in Months /\ call[r].period # 0
  BY CallFields DEF IngestorOK, TypeOK, Months
<1>1. /\ recorded' = [recorded EXCEPT ![call[r].org][call[r].period] = @ + 1]
      /\ doubled' = doubled
      /\ call' = [call EXCEPT ![r] = [at |-> "returned", org |-> call[r].org,
                                      period |-> call[r].period, val |-> c.count + 1]]
  BY DEF Count, Goto
<1>2. \A q \in Requests \ {r} : q \in Refusable(o, p)' <=> q \in Refusable(o, p)
  BY <1>1 DEF Refusable, IngestorOK, TypeOK
<1>3. r \notin Refusable(o, p)
  BY DEF Refusable
<1>4. CASE r \notin Refusable(o, p)'
  <2>1. Refusable(o, p)' \subseteq Refusable(o, p)
    BY <1>2, <1>4 DEF Refusable
  <2>2. Over(o, p)' >= Over(o, p)
    <3>1. recorded'[o][p] >= recorded[o][p]
      BY <1>0, <1>1, RefusedTypes DEF IngestorOK, TypeOK, Tally
    <3> QED
      BY <1>1, <3>1, RefusedTypes DEF Over
  <2> QED
    BY <2>1, <2>2, RefusedShrinks
<1>5. CASE r \in Refusable(o, p)'
  <2>1. o = call[r].org /\ p = call[r].period /\ c.count + 1 > Limit[o]
    BY <1>1, <1>5 DEF Refusable, IngestorOK, TypeOK
  <2>2. recorded'[o][p] = recorded[o][p] + 1
    BY <1>1, <2>1 DEF IngestorOK, TypeOK, Tally
  <2>3. c.count + 1 <= recorded'[o][p] + doubled'[o][p]
    <3>1. /\ counters'[call[r].org].period = call[r].period
          /\ counters'[call[r].org].count = c.count + 1
      BY <1>0 DEF Count, IngestorOK, TypeOK
    <3> QED
      BY <1>0, <2>1, <3>1 DEF IInv, CountNotAhead
  <2>4. Refusable(o, p)' = Refusable(o, p) \cup {r}
    BY <1>2, <1>5 DEF Refusable
  <2>5. Cardinality(Refusable(o, p)') = Cardinality(Refusable(o, p)) + 1
    <3>1. IsFiniteSet(Refusable(o, p))
      BY RefusedTypes
    <3> QED
      BY <1>3, <2>4, <3>1, FS_AddElement
  <2>6. counters'[o].count \in Nat /\ c.count + 1 = counters'[o].count
    <3>1. counters' \in [Orgs -> Counter] /\ counters'[o] \in Counter
      BY DEF IngestorOK, TypeOK
    <3> QED
      BY <2>1, <3>1, CounterFields DEF Count, IngestorOK, TypeOK
  <2>7. /\ Over(o, p)' = Over(o, p) + 1 /\ Over(o, p)' >= 1
    <3>1. counters'[o].count > Limit[o] /\ counters'[o].count <= recorded[o][p] + 1 + doubled[o][p]
      BY <1>1, <2>1, <2>2, <2>3, <2>6
    <3>2. Over(o, p)' = recorded[o][p] + 1 + doubled[o][p] - Limit[o]
      BY <1>1, <2>2 DEF Over
    <3> QED
      BY <2>6, <3>1, <3>2, RefusedTypes DEF Over
  <2>8. Refused(o, p)' = Refused(o, p) + 1
    BY <2>5, RefusedTypes DEF Refused
  <2>9. RefusedOver(o, p)' = (Refused(o, p)' > 0 => Refused(o, p)' <= Over(o, p)')
    BY DEF RefusedOver
  <2> QED
    BY <2>7, <2>8, <2>9, RefusedTypes DEF RefusedOver
<1> QED
  BY <1>4, <1>5

\* An event over the limit is refused.
LEMMA RefusedBlocks ==
    ASSUME IngestorOK, IngestorOK', NEW r \in Requests, BlockEvent(r),
           NEW o \in Orgs, NEW p \in Months, RefusedOver(o, p)
    PROVE  RefusedOver(o, p)'
<1>0. call[r].org \in Orgs /\ call[r].period \in Months
  BY CallFields DEF IngestorOK, TypeOK
<1>1. /\ handler' = [handler EXCEPT ![r] = "idle"] /\ UNCHANGED <<call, recorded, doubled>>
      /\ handler[r] = "recording" /\ call[r].at = "returned"
      /\ call[r].val > Limit[call[r].org]
      /\ blocked' = [blocked EXCEPT ![call[r].org][call[r].period] = @ + 1]
  BY DEF BlockEvent, Counted, OverLimit, vars, memory
<1>2. Over(o, p)' = Over(o, p)
  BY <1>1 DEF Over
<1>3. \A q \in Requests \ {r} : q \in Refusable(o, p)' <=> q \in Refusable(o, p)
  BY <1>1 DEF Refusable, IngestorOK
<1>4. r \notin Refusable(o, p)'
  BY <1>1 DEF Refusable, IngestorOK
<1>5. CASE o = call[r].org /\ p = call[r].period
  <2>1. r \in Refusable(o, p) /\ blocked'[o][p] = blocked[o][p] + 1
    BY <1>1, <1>5 DEF Refusable, IngestorOK, Tally
  <2>2. Refusable(o, p)' = Refusable(o, p) \ {r}
    BY <1>3, <1>4 DEF Refusable
  <2>3. Cardinality(Refusable(o, p)') = Cardinality(Refusable(o, p)) - 1
    <3>1. IsFiniteSet(Refusable(o, p))
      BY RefusedTypes
    <3> QED
      BY <2>1, <2>2, <3>1, FS_RemoveElement
  <2>4. Refused(o, p)' = Refused(o, p)
    BY <2>1, <2>3, RefusedTypes DEF Refused
  <2> QED
    BY <1>2, <2>4 DEF RefusedOver
<1>6. CASE ~(o = call[r].org /\ p = call[r].period)
  <2>1. blocked'[o][p] = blocked[o][p]
    BY <1>0, <1>1, <1>6 DEF IngestorOK, Tally
  <2>2. Refusable(o, p)' \subseteq Refusable(o, p)
    BY <1>3, <1>4 DEF Refusable
  <2> QED
    BY <1>2, <2>1, <2>2, RefusedShrinks, RefusedTypes
<1> QED
  BY <1>5, <1>6

\* In block mode the events refused in a month are at most those counted in it over
\* the limit, and those credited twice after a lost reply, whatever requests, seeds
\* and flushes overlap (server.go:104-108).
THEOREM BlockingIsJust == IngestorSpec => []BlockedOnlyOverLimit
<1> DEFINE JInv == /\ IngestorOK /\ IInv
                   /\ \A o \in Orgs, p \in Months : RefusedOver(o, p)
<1>1. Boot => JInv
  <2> SUFFICES ASSUME Boot PROVE JInv
    OBVIOUS
  <2>1. IngestorOK /\ IInv
    BY InitIngestorOK, InitIInv DEF Boot
  <2>2. ASSUME NEW o \in Orgs, NEW p \in Months PROVE Refused(o, p) = 0
    <3>1. Refusable(o, p) = {} /\ blocked[o][p] = 0
      BY DEF Boot, Refusable
    <3> QED
      BY <3>1, FS_EmptySet DEF Refused
  <2> QED
    BY <2>1, <2>2 DEF RefusedOver
<1>2. JInv /\ [IngestorNext]_ingestorVars => JInv'
  <2> SUFFICES ASSUME JInv, [IngestorNext]_ingestorVars PROVE JInv'
    OBVIOUS
  <2>1. [Next]_vars /\ TypeOK
    BY StepOfTracker DEF IInv
  <2>2. IngestorOK' /\ IInv'
    BY <2>1, NextIngestorOK, NextIInv
  <2> SUFFICES ASSUME NEW o \in Orgs, NEW p \in Months PROVE RefusedOver(o, p)'
    BY <2>2
  <2> HIDE DEF JInv
  <2>3. IngestorOK /\ IInv /\ RefusedOver(o, p)
    BY DEF JInv
  <2>4. Over(o, p)' >= Over(o, p)
    BY <2>1, <2>3, TalliesGrow, RefusedTypes DEF Over
  <2>5. CASE \E r \in Requests : BlockEvent(r)
    BY <2>2, <2>3, <2>5, RefusedBlocks
  <2>6. CASE \E r \in Requests : RecordStep(r)
    <3>1. PICK r \in Requests : RecordStep(r)
      BY <2>6
    <3>2. handler[r] = "recording" /\ UNCHANGED <<handler, blocked>>
      BY <3>1 DEF RecordStep
    <3>3. CASE RecordHit(r) \/ Install(r)
      <4>1. PICK c : Count(r, c)
        BY <3>3 DEF RecordHit, Install
      <4>2. call[r].at # "returned"
        BY <3>3 DEF RecordHit, Install
      <4> QED
        BY <2>2, <2>3, <3>2, <4>1, <4>2, RefusedCounts
    <3>4. CASE RecordMiss(r) \/ SeedRead(r) \/ SeedFails(r)
      <4>1. PICK at \in {"seeding", "seeded"} : \E v : Goto(r, at, v)
        BY <3>4 DEF RecordMiss, SeedRead, SeedFails
      <4>2. \A q \in Requests \ {r} : call'[q] = call[q]
        BY <2>3, <4>1 DEF Goto, IngestorOK, TypeOK
      <4>3. call'[r].at # "returned"
        BY <2>3, <4>1 DEF Goto, IngestorOK, TypeOK
      <4>4. Refusable(o, p)' \subseteq Refusable(o, p)
        BY <3>2, <4>2, <4>3 DEF Refusable
      <4> QED
        BY <2>2, <2>3, <2>4, <3>2, <4>4, RefusedShrinks
    <3> QED
      BY <3>1, <3>3, <3>4 DEF RecordStep, Record
  <2>7. CASE \E r \in Requests : \/ Arrive(r) \/ Reject(r) \/ BufferEvent(r)
                                 \/ \E q \in Orgs : Resolved(r, q)
    <3>1. PICK r \in Requests : \/ Arrive(r) \/ Reject(r) \/ BufferEvent(r)
                               \/ \E q \in Orgs : Resolved(r, q)
      BY <2>7
    <3>2. blocked' = blocked
      BY <3>1 DEF Arrive, Reject, BufferEvent, Resolved
    <3>3. \A q \in Requests \ {r} : handler'[q] = handler[q] /\ call'[q] = call[q]
      BY <2>3, <3>1 DEF Arrive, Reject, BufferEvent, Resolved, Begin, vars, memory, IngestorOK,
         TypeOK
    <3>4. handler'[r] = "recording" => call'[r].at = "called"
      BY <2>3, <3>1 DEF Arrive, Reject, BufferEvent, Resolved, Begin, IngestorOK, TypeOK
    <3>5. Refusable(o, p)' \subseteq Refusable(o, p)
      BY <3>3, <3>4 DEF Refusable
    <3> QED
      BY <2>2, <2>3, <2>4, <3>2, <3>5, RefusedShrinks
  <2>8. CASE \/ FlushUsage \/ FlushUsageFinal \/ RunBuffer \/ MonthPasses \/ Main
             \/ UNCHANGED ingestorVars
    <3>1. UNCHANGED <<handler, blocked>>
      BY <2>8 DEF FlushUsage, FlushUsageFinal, RunBuffer, MonthPasses, Main, ListenFails,
         Signal, Expire, StopBuf, TrackerStopped, Return, ingestorVars
    <3>2. call' = call
      <4>1. CASE FlushUsage \/ FlushUsageFinal \/ MonthPasses
        BY <4>1 DEF FlushUsage, FlushUsageFinal, MonthPasses, FlushTick, FlushFinal, Collect,
           FlushEnd, AddUsage, AddUsageOk, AddUsageFails, AddUsageReplyLost, ReCredit,
           NextMonth, memory
      <4>2. CASE RunBuffer \/ Main \/ UNCHANGED ingestorVars
        BY <4>2 DEF RunBuffer, Main, ListenFails, Signal, Expire, StopBuf, TrackerStopped,
           Return, ingestorVars, vars, memory
      <4> QED
        BY <2>8, <4>1, <4>2
    <3>3. Refusable(o, p)' \subseteq Refusable(o, p)
      BY <3>1, <3>2 DEF Refusable
    <3> QED
      BY <2>2, <2>3, <2>4, <3>1, <3>3, RefusedShrinks
  <2> QED
    BY <2>5, <2>6, <2>7, <2>8 DEF IngestorNext, Handle
<1>3. JInv => BlockedOnlyOverLimit
  <2> SUFFICES ASSUME JInv, NEW o \in Orgs, NEW p \in Months, blocked[o][p] > 0
               PROVE  blocked[o][p] <= recorded[o][p] + doubled[o][p] - Limit[o]
    BY DEF BlockedOnlyOverLimit
  <2>1. RefusedOver(o, p)
    OBVIOUS
  <2> QED
    BY <2>1, RefusedTypes DEF RefusedOver, Refused, Over
<1> QED
  BY <1>1, <1>2, <1>3, PTL DEF IngestorSpec

-----------------------------------------------------------------------------
(* Shutdown *)

\* What main has cancelled, and that once it has, no request is active unless the
\* timeout has passed.
Ending == {"cancelled", "waiting", "exited"}
MainInv ==
    /\ cancelled = (main \in Ending)
    /\ stopping = (main \in Ending)
    /\ main \in Ending /\ ~expired => Quiet

\* The tracker's goroutine makes its final flush after cancellation only, main waits
\* for it, and from the final flush on nothing is counted any more: what a counter
\* holds then is what a failed write put back, into the month it came from.
FinalFlush ==
    /\ flusher \in {"final", "done"} => cancelled
    /\ main \in {"waiting", "exited"} => flusher = "done"
    /\ flusher \notin {"final", "done"} =>
          \A o \in Orgs, p \in Months : unwritten[o][p] = 0
    /\ flusher \in {"final", "done"} /\ ~expired =>
          \A o \in Orgs : /\ batch[o].delta > 0 => SamePeriod(o)
                         /\ \A p \in Months : InCounter(o, p) = unwritten[o][p]

\* The buffer drains after cancellation only, nothing is added behind its back, and
\* main waits for it.
FinalDrain ==
    /\ run \in {"draining", "final", "done"} => stopping
    /\ run \in {"final", "done"} /\ ~expired => queue = <<>>
    /\ run = "done" => rows = <<>>
    /\ main = "exited" /\ ~expired => run = "done"

ShutdownInv == MainInv /\ FinalFlush /\ FinalDrain

\* Requests do nothing to main, and after cancellation do nothing in time.
LEMMA RequestsAtShutdown ==
    ASSUME MainInv, NEW r \in Requests, Arrive(r) \/ Handle(r)
    PROVE  /\ UNCHANGED <<main, expired, cancelled, stopping, flusher, run, rows, batch,
                          unwritten>>
           /\ main \notin Ending \/ expired
<1>1. UNCHANGED <<main, expired, cancelled, stopping, flusher, run, rows, batch, unwritten>>
  BY DEF Arrive, Handle, Reject, Resolved, RecordStep, BlockEvent, BufferEvent, Begin, Record,
     RecordHit, RecordMiss, SeedRead, SeedFails, Install, Count, vars, memory, bufferVars,
     Buffer!Add, Buffer!Enqueue, Buffer!Drop
<1>2. main = "serving" \/ handler[r] # "idle"
  BY DEF Arrive, Handle, Reject, Resolved, RecordStep, BlockEvent, BufferEvent, Counted
<1> QED
  BY <1>1, <1>2 DEF MainInv, Quiet, Ending

\* What the tracker's goroutine and the clock leave alone.
LEMMA FlushAtShutdown ==
    ASSUME FlushUsage \/ FlushUsageFinal \/ MonthPasses
    PROVE  UNCHANGED <<main, expired, cancelled, stopping, handler, run, rows, queue>>
BY DEF FlushUsage, FlushUsageFinal, MonthPasses, FlushTick, FlushFinal, Collect, FlushEnd,
   AddUsage, AddUsageOk, AddUsageFails, AddUsageReplyLost, ReCredit, NextMonth, memory, bufferVars

\* What the buffer's goroutine leaves alone.
LEMMA RunAtShutdown ==
    ASSUME RunBuffer
    PROVE  UNCHANGED <<main, expired, cancelled, stopping, handler, flusher, counters, batch,
                       unwritten>>
BY DEF RunBuffer, Buffer!Run, Buffer!Receive, Buffer!Take, Buffer!Tick, Buffer!StartDrain,
   Buffer!Drain, Buffer!EndDrain, Buffer!EndFlush, Buffer!InsertStores, Buffer!InsertFails,
   vars, memory

\* Main's own part.
LEMMA NextMainInv == MainInv /\ [IngestorNext]_ingestorVars => MainInv'
<1> SUFFICES ASSUME MainInv, [IngestorNext]_ingestorVars PROVE MainInv'
  OBVIOUS
<1>1. CASE \E r \in Requests : Arrive(r) \/ Handle(r)
  BY <1>1, RequestsAtShutdown DEF MainInv
<1>2. CASE FlushUsage \/ FlushUsageFinal \/ RunBuffer \/ MonthPasses \/ UNCHANGED ingestorVars
  <2>1. UNCHANGED <<main, expired, cancelled, stopping, handler>>
    BY <1>2, FlushAtShutdown, RunAtShutdown DEF ingestorVars, vars, memory, bufferVars
  <2> QED
    BY <2>1 DEF MainInv, Quiet
<1>3. CASE StopBuf
  BY <1>3 DEF StopBuf, MainInv, Quiet, Ending
<1>4. CASE ListenFails \/ Signal \/ Expire \/ TrackerStopped \/ Return
  BY <1>4 DEF ListenFails, Signal, Expire, TrackerStopped, Return, MainInv, Quiet, Ending, vars,
     memory, bufferVars
<1> QED
  BY <1>1, <1>2, <1>3, <1>4 DEF IngestorNext, Main

\* The tracker's part.
LEMMA NextFinalFlush ==
    ASSUME IngestorOK, IInv, MainInv, FinalFlush, [IngestorNext]_ingestorVars
    PROVE  FinalFlush'
<1>1. CASE \E r \in Requests : Arrive(r) \/ Handle(r)
  <2>1. PICK r \in Requests : Arrive(r) \/ Handle(r)
    BY <1>1
  <2>2. cancelled => expired
    BY <2>1, RequestsAtShutdown DEF MainInv
  <2>3. UNCHANGED <<main, expired, cancelled, flusher, unwritten>>
    BY <2>1, RequestsAtShutdown
  <2> QED
    BY <2>2, <2>3 DEF FinalFlush
<1>2. CASE FlushUsage \/ FlushUsageFinal
  <2>1. UNCHANGED <<main, expired, cancelled>>
    BY <1>2, FlushAtShutdown
  <2>2. CASE (FlushTick \/ FlushFinal) /\ UNCHANGED unwritten
    <3>1. ASSUME NEW o \in Orgs
          PROVE  counters'[o].delta = 0 /\ (batch'[o].delta > 0 => SamePeriod(o)')
      <4>1. counters[o] \in Counter /\ counters[o].delta \in Nat
        BY CounterFields DEF IngestorOK, TypeOK
      <4>2. CASE HasDelta(o)
        <5>1. /\ counters'[o] = [counters[o] EXCEPT !.delta = 0]
              /\ batch'[o] = [period |-> counters[o].period, delta |-> counters[o].delta,
                              status |-> "pending"]
          BY <2>2, <4>2 DEF FlushTick, FlushFinal, Collect
        <5> QED
          BY <4>1, <5>1 DEF Counter, SamePeriod
      <4>3. CASE ~HasDelta(o)
        BY <2>2, <4>1, <4>3 DEF FlushTick, FlushFinal, Collect, NoEntry, HasDelta
      <4> QED
        BY <4>2, <4>3
    <3>2. /\ flusher = "loop"
          /\ flusher' = "flushing" \/ (flusher' = "final" /\ cancelled)
      BY <2>2 DEF FlushTick, FlushFinal, Collect
    <3>3. \A o \in Orgs, p \in Months : unwritten'[o][p] = 0 /\ InCounter(o, p)' = 0
      BY <2>2, <3>1, <3>2 DEF FinalFlush, InCounter
    <3>4. main' \notin {"waiting", "exited"}
      BY <2>1, <3>2 DEF FinalFlush
    <3> QED
      BY <2>1, <3>1, <3>2, <3>3, <3>4 DEF FinalFlush
  <2>3. CASE FlushEnd /\ UNCHANGED unwritten
    <3>1. /\ counters' = counters /\ batch' = batch
          /\ \/ flusher = "flushing" /\ flusher' = "loop"
             \/ flusher = "final" /\ flusher' = "done"
      BY <2>3 DEF FlushEnd
    <3> QED
      BY <2>1, <2>3, <3>1 DEF FinalFlush, SamePeriod, InCounter
  <2>4. ASSUME NEW e \in Orgs, AddUsage(e), UNCHANGED unwritten
        PROVE  FinalFlush'
    <3>1. flusher' = flusher /\ counters' = counters
      BY <2>4 DEF AddUsage, AddUsageOk, AddUsageFails, AddUsageReplyLost
    <3>2. ASSUME NEW o \in Orgs
          PROVE  batch'[o].delta > 0 => batch[o].delta > 0 /\ batch'[o].period = batch[o].period
      <4>0. batch \in [Orgs -> Entry]
        BY DEF IngestorOK, TypeOK
      <4>1. CASE AddUsageOk(e)
        BY <4>0, <4>1 DEF AddUsageOk, NoEntry
      <4>2. CASE AddUsageFails(e) \/ AddUsageReplyLost(e)
        BY <4>0, <4>2 DEF AddUsageFails, AddUsageReplyLost, Entry
      <4> QED
        BY <2>4, <4>1, <4>2 DEF AddUsage
    <3> QED
      BY <2>1, <2>4, <3>1, <3>2 DEF FinalFlush, SamePeriod, InCounter
  <2>5. ASSUME NEW e \in Orgs, ReCredit(e),
               unwritten' = IF flusher = "final"
                            THEN [unwritten EXCEPT ![e][batch[e].period] = @ + batch[e].delta]
                            ELSE unwritten
        PROVE  FinalFlush'
    <3>1. /\ flusher' = flusher /\ batch' = [batch EXCEPT ![e] = NoEntry]
          /\ counters' = [counters EXCEPT ![e].delta =
                              IF SamePeriod(e) THEN @ + batch[e].delta ELSE @]
      BY <2>5 DEF ReCredit
    <3>2. /\ batch[e].delta \in Nat /\ batch[e].period \in Months
          /\ \A o \in Orgs : counters[o] \in Counter /\ counters[o].delta \in Nat
      BY <2>5, EntryFields, CounterFields DEF IngestorOK, TypeOK, ReCredit
    <3>3. /\ \A o \in Orgs : counters'[o].period = counters[o].period
          /\ \A o \in Orgs \ {e} : counters'[o].delta = counters[o].delta
          /\ counters'[e].delta = IF SamePeriod(e) THEN counters[e].delta + batch[e].delta
                                                   ELSE counters[e].delta
      BY <3>1, <3>2 DEF IngestorOK, TypeOK, Counter
    <3>4. /\ batch'[e].delta = 0
          /\ \A o \in Orgs \ {e} : batch'[o] = batch[o]
      BY <3>1 DEF NoEntry, IngestorOK, TypeOK
    <3>5. flusher # "done"
      <4>1. flusher = "done" => batch[e].status = "pending"
        BY DEF IInv, BatchEmptyBetweenFlushes, EmptyBatch, NoEntry
      <4> QED
        BY <2>5, <4>1 DEF ReCredit
    <3>6. CASE flusher # "final"
      BY <2>1, <2>5, <3>1, <3>5, <3>6 DEF FinalFlush
    <3>7. ASSUME flusher = "final", ~expired, NEW o \in Orgs, NEW p \in Months
          PROVE  InCounter(o, p)' = unwritten'[o][p]
      <4>1. /\ InCounter(o, p) = unwritten[o][p] /\ unwritten[o][p] \in Nat
            /\ batch[e].delta > 0 => SamePeriod(e)
        BY <3>7 DEF FinalFlush, IngestorOK, Tally
      <4>2. unwritten'[o][p] = IF o = e /\ p = batch[e].period
                               THEN unwritten[o][p] + batch[e].delta ELSE unwritten[o][p]
        BY <2>5, <3>2, <3>7 DEF IngestorOK, Tally
      <4>3. /\ InCounter(o, p) = IF counters[o].period = p THEN counters[o].delta ELSE 0
            /\ InCounter(o, p)' = IF counters'[o].period = p THEN counters'[o].delta ELSE 0
        BY DEF InCounter
      <4>4. CASE o # e
        BY <3>3, <4>1, <4>2, <4>3, <4>4
      <4>5. CASE o = e /\ ~SamePeriod(e)
        BY <3>2, <3>3, <4>1, <4>2, <4>3, <4>5
      <4>6. CASE o = e /\ SamePeriod(e)
        BY <3>2, <3>3, <4>1, <4>2, <4>3, <4>6 DEF SamePeriod
      <4> QED
        BY <4>4, <4>5, <4>6
    <3>8. ASSUME flusher = "final", ~expired, NEW o \in Orgs, batch'[o].delta > 0
          PROVE  SamePeriod(o)'
      BY <3>3, <3>4, <3>8 DEF FinalFlush, SamePeriod
    <3>9. CASE flusher = "final"
      BY <2>1, <3>1, <3>7, <3>8, <3>9 DEF FinalFlush
    <3> QED
      BY <3>6, <3>9
  <2> QED
    BY <1>2, <2>2, <2>3, <2>4, <2>5 DEF FlushUsage, FlushUsageFinal
<1>3. CASE RunBuffer
  BY <1>3, RunAtShutdown DEF FinalFlush, SamePeriod, InCounter
<1>4. CASE Main
  <2>1. UNCHANGED <<counters, batch, flusher, unwritten>>
    BY <1>4 DEF Main, ListenFails, Signal, Expire, StopBuf, TrackerStopped, Return, vars, memory
  <2>2. cancelled => cancelled'
    BY <1>4 DEF Main, ListenFails, Signal, Expire, StopBuf, TrackerStopped, Return, vars, memory
  <2>3. ~expired' => ~expired
    BY <1>4 DEF Main, ListenFails, Signal, Expire, StopBuf, TrackerStopped, Return
  <2>4. main' \in {"waiting", "exited"} => flusher = "done"
    BY <1>4 DEF Main, ListenFails, Signal, Expire, StopBuf, TrackerStopped, Return, FinalFlush
  <2> QED
    BY <2>1, <2>2, <2>3, <2>4 DEF FinalFlush, SamePeriod, InCounter
<1>5. CASE MonthPasses \/ UNCHANGED ingestorVars
  BY <1>5 DEF MonthPasses, NextMonth, ingestorVars, vars, memory, FinalFlush, SamePeriod,
     InCounter
<1> QED
  BY <1>1, <1>2, <1>3, <1>4, <1>5 DEF IngestorNext

\* The buffer's part.
LEMMA NextFinalDrain ==
    ASSUME MainInv, FinalDrain, [IngestorNext]_ingestorVars
    PROVE  FinalDrain'
<1>1. CASE \E r \in Requests : Arrive(r) \/ Handle(r)
  <2>1. PICK r \in Requests : Arrive(r) \/ Handle(r)
    BY <1>1
  <2>2. stopping => expired
    BY <2>1, RequestsAtShutdown DEF MainInv
  <2>3. UNCHANGED <<main, expired, stopping, run, rows>>
    BY <2>1, RequestsAtShutdown
  <2> QED
    BY <2>2, <2>3 DEF FinalDrain
<1>2. CASE FlushUsage \/ FlushUsageFinal \/ MonthPasses
  BY <1>2, FlushAtShutdown DEF FinalDrain
<1>3. CASE RunBuffer
  <2>1. UNCHANGED <<main, expired, stopping>>
    BY <1>3, RunAtShutdown
  <2>2. CASE Buffer!Receive \/ Buffer!Drain
    BY <2>1, <2>2 DEF Buffer!Receive, Buffer!Drain, Buffer!Take, FinalDrain
  <2>3. CASE Buffer!Tick \/ Buffer!StartDrain \/ Buffer!EndDrain
    BY <2>1, <2>3 DEF Buffer!Tick, Buffer!StartDrain, Buffer!EndDrain, FinalDrain
  <2>4. CASE Buffer!InsertStores \/ Buffer!InsertFails
    BY <2>1, <2>4 DEF Buffer!InsertStores, Buffer!InsertFails, Buffer!EndFlush, FinalDrain
  <2> QED
    BY <1>3, <2>2, <2>3, <2>4 DEF RunBuffer, Buffer!Run
<1>4. CASE Main
  <2>1. UNCHANGED <<queue, rows, run>>
    BY <1>4 DEF Main, ListenFails, Signal, Expire, StopBuf, TrackerStopped, Return, bufferVars
  <2>2. stopping => stopping'
    BY <1>4 DEF Main, ListenFails, Signal, Expire, StopBuf, TrackerStopped, Return, bufferVars
  <2>3. ~expired' => ~expired
    BY <1>4 DEF Main, ListenFails, Signal, Expire, StopBuf, TrackerStopped, Return
  <2>4. main' = "exited" /\ ~expired' => run = "done"
    BY <1>4 DEF Main, ListenFails, Signal, Expire, StopBuf, TrackerStopped, Return, FinalDrain
  <2> QED
    BY <2>1, <2>2, <2>3, <2>4 DEF FinalDrain
<1>5. CASE UNCHANGED ingestorVars
  BY <1>5 DEF ingestorVars, bufferVars, FinalDrain
<1> QED
  BY <1>1, <1>2, <1>3, <1>4, <1>5 DEF IngestorNext

\* A shutdown that keeps its timeout cuts no handler off and leaves nothing in the
\* buffer, and in the tracker exactly what failed writes of the final flush put back
\* (main.go:93-105).
THEOREM ShutdownDrains == IngestorSpec => []CleanExitDrains
<1>1. Boot => ShutdownInv
  <2> SUFFICES ASSUME Boot PROVE ShutdownInv
    OBVIOUS
  <2>1. /\ main = "serving" /\ cancelled = FALSE /\ stopping = FALSE
        /\ flusher = "loop" /\ run = "loop"
        /\ \A o \in Orgs, p \in Months : unwritten[o][p] = 0
    BY DEF Boot, Init, Buffer!Init
  <2>2. (main \in Ending) = FALSE
    BY <2>1 DEF Ending
  <2>3. MainInv
    BY <2>1, <2>2, Zenon DEF MainInv
  <2>4. FinalFlush /\ FinalDrain
    BY <2>1 DEF FinalFlush, FinalDrain
  <2> QED
    BY <2>3, <2>4 DEF ShutdownInv
<1>2. ShutdownInv /\ IngestorOK /\ IInv /\ [IngestorNext]_ingestorVars => ShutdownInv'
  BY NextMainInv, NextFinalFlush, NextFinalDrain DEF ShutdownInv
<1>3. ShutdownInv /\ IngestorOK /\ IInv => CleanExitDrains
  <2> SUFFICES ASSUME ShutdownInv, IngestorOK, IInv, main = "exited", ~expired
               PROVE  /\ Quiet
                      /\ Buffer!Pending = <<>>
                      /\ \A o \in Orgs, p \in Months : Unflushed(o, p) = unwritten[o][p]
    BY DEF CleanExitDrains
  <2>1. rows = <<>> /\ queue = <<>>
    BY DEF ShutdownInv, FinalDrain
  <2>2. flusher = "done" /\ batch = EmptyBatch
    BY DEF ShutdownInv, FinalFlush, IInv, BatchEmptyBetweenFlushes
  <2>3. ASSUME NEW o \in Orgs, NEW p \in Months PROVE Unflushed(o, p) = unwritten[o][p]
    <3>1. InCounter(o, p) = unwritten[o][p] /\ unwritten[o][p] \in Nat
      BY <2>2 DEF ShutdownInv, FinalFlush, IngestorOK, Tally
    <3>2. InBatch(o, p) = 0
      BY <2>2 DEF InBatch, EmptyBatch, NoEntry
    <3> QED
      BY <3>1, <3>2 DEF Unflushed
  <2>4. Quiet
    BY DEF ShutdownInv, MainInv, Ending
  <2> QED
    BY <2>1, <2>3, <2>4, ConcatEmptySeq, EmptySeq DEF Buffer!Pending
<1> QED
  BY <1>1, <1>2, <1>3, IngestorTypeCorrect, TrackerInv, PTL DEF IngestorSpec

-----------------------------------------------------------------------------
(* Counted once, buffered once *)

\* The events that handlers of org o have counted and not dealt with yet.
Waiting(o) == {r \in Requests :
                  handler[r] = "recording" /\ call[r].at = "returned" /\ call[r].org = o}

\* The two sides of CountedOnceBufferedOnce.
RecordedTotals == [o \in Orgs |-> SumFunction(recorded[o])]
SettledTotals == [o \in Orgs |-> SumFunction(blocked[o]) + InHandler(o)]

\* There are finitely many months.
LEMMA MonthsFinite == IsFiniteSet(Months) /\ 1 \in Months
BY UsageAssumption, FS_Interval DEF Months

\* A table of natural numbers by month has a natural sum.
LEMMA MonthSums ==
    ASSUME NEW t \in [Months -> Nat] PROVE SumFunction(t) \in Nat
<1>1. IsFiniteSet(Months) /\ 1 \in Months
  BY MonthsFinite
<1>2. t[1] = t[1] + 0
  BY <1>1
<1> QED
  BY <1>1, <1>2, SumStep

\* They are tables of natural numbers.
LEMMA TotalsType ==
    ASSUME IngestorOK
    PROVE  /\ RecordedTotals \in [Orgs -> Nat]
           /\ SettledTotals \in [Orgs -> Nat]
           /\ \A o \in Orgs : /\ IsFiniteSet(Waiting(o)) /\ InHandler(o) \in Nat
                              /\ SumFunction(blocked[o]) \in Nat
                              /\ InHandler(o) = Cardinality(Waiting(o))
<1> USE IngestorAssumption
<1>1. ASSUME NEW o \in Orgs
      PROVE  SumFunction(recorded[o]) \in Nat /\ SumFunction(blocked[o]) \in Nat
  <2>1. recorded[o] \in [Months -> Nat] /\ blocked[o] \in [Months -> Nat]
    BY DEF IngestorOK, TypeOK, Tally
  <2> QED
    BY <2>1, MonthSums
<1>2. ASSUME NEW o \in Orgs
      PROVE  /\ IsFiniteSet(Waiting(o)) /\ InHandler(o) \in Nat
             /\ InHandler(o) = Cardinality(Waiting(o))
  <2>1. Waiting(o) \in SUBSET Requests
    BY DEF Waiting
  <2>2. IsFiniteSet(Waiting(o))
    BY <2>1, FS_Subset
  <2> QED
    BY <2>2, FS_CardinalityType DEF InHandler, Waiting
<1> QED
  BY <1>1, <1>2 DEF IngestorOK, RecordedTotals, SettledTotals

\* What one request deals with changes its org's number by one.
LEMMA WaitingStep ==
    ASSUME IngestorOK, NEW r \in Requests, NEW o \in Orgs
    PROVE  /\ Waiting(o)' = Waiting(o) => InHandler(o)' = InHandler(o)
           /\ r \notin Waiting(o) /\ Waiting(o)' = Waiting(o) \cup {r} =>
                 InHandler(o)' = InHandler(o) + 1
           /\ r \in Waiting(o) /\ Waiting(o)' = Waiting(o) \ {r} =>
                 InHandler(o)' = InHandler(o) - 1
<1>1. InHandler(o)' = Cardinality(Waiting(o)') /\ InHandler(o) = Cardinality(Waiting(o))
  BY DEF InHandler, Waiting
<1> QED
  BY <1>1, TotalsType, FS_AddElement, FS_RemoveElement

\* Counting an event, for a request that is in its handler.
LEMMA CountedOnce ==
    ASSUME IngestorOK, IngestorOK', NEW r \in Requests, NEW c, Count(r, c),
           handler[r] = "recording", call[r].at # "returned", UNCHANGED <<handler, blocked>>
    PROVE  /\ SumFunction(RecordedTotals') = SumFunction(RecordedTotals) + 1
           /\ SumFunction(SettledTotals') = SumFunction(SettledTotals) + 1
           /\ SumFunction(SettledTotals) \in Nat
<1> IsFiniteSet(Orgs)
  BY IngestorAssumption
<1>0. call[r].org \in Orgs /\ call[r].period \in Months
  BY CallFields DEF IngestorOK, TypeOK
<1>1. PICK org \in Orgs, per \in Months : org = call[r].org /\ per = call[r].period
  BY <1>0
<1>2. /\ call' = [call EXCEPT ![r] = [at |-> "returned", org |-> org, period |-> per,
                                      val |-> c.count + 1]]
      /\ recorded' = [recorded EXCEPT ![org][per] = recorded[org][per] + 1]
  BY <1>1 DEF Count, Goto
<1>3. \A o \in Orgs : recorded[o] \in [Months -> Nat] /\ recorded'[o] \in [Months -> Nat]
  BY DEF IngestorOK, TypeOK, Tally
<1>4. /\ RecordedTotals \in [Orgs -> Nat] /\ SettledTotals \in [Orgs -> Nat]
      /\ \A o \in Orgs : InHandler(o) \in Nat /\ SumFunction(blocked[o]) \in Nat
  BY TotalsType DEF IngestorOK
<1>5. /\ recorded'[org][per] = recorded[org][per] + 1
      /\ \A p \in Months \ {per} : recorded'[org][p] = recorded[org][p]
      /\ \A o \in Orgs \ {org} : recorded'[o] = recorded[o]
  BY <1>1, <1>2 DEF IngestorOK, TypeOK, Tally
<1>6. SumFunction(recorded'[org]) = SumFunction(recorded[org]) + 1
  <2>1. IsFiniteSet(Months)
    BY MonthsFinite
  <2> QED
    BY <1>1, <1>3, <1>5, <2>1, SumStep
<1>7. SumFunction(RecordedTotals') = SumFunction(RecordedTotals) + 1
  <2>1. /\ RecordedTotals'[org] = RecordedTotals[org] + 1
        /\ \A o \in Orgs \ {org} : RecordedTotals'[o] = RecordedTotals[o]
    BY <1>1, <1>5, <1>6 DEF RecordedTotals
  <2>2. RecordedTotals' = [o \in Orgs |-> RecordedTotals'[o]]
    BY DEF RecordedTotals
  <2>3. RecordedTotals' \in [Orgs -> Nat]
    BY <1>1, <1>4, <2>1, <2>2
  <2> QED
    BY <1>1, <1>4, <2>1, <2>3, SumStep
<1>8. ASSUME NEW o \in Orgs \ {org} PROVE Waiting(o)' = Waiting(o)
  BY <1>1, <1>2 DEF Waiting, IngestorOK, TypeOK
<1>9. r \notin Waiting(org) /\ Waiting(org)' = Waiting(org) \cup {r}
  BY <1>1, <1>2 DEF Waiting, IngestorOK, TypeOK
<1>10. /\ SumFunction(SettledTotals') = SumFunction(SettledTotals) + 1
       /\ SumFunction(SettledTotals) \in Nat
  <2>0. /\ InHandler(org)' = InHandler(org) + 1
        /\ \A o \in Orgs \ {org} : InHandler(o)' = InHandler(o)
    BY <1>8, <1>9, WaitingStep
  <2>1. /\ SettledTotals'[org] = SettledTotals[org] + 1
        /\ \A o \in Orgs \ {org} : SettledTotals'[o] = SettledTotals[o]
    BY <1>4, <2>0 DEF SettledTotals
  <2>2. SettledTotals' = [o \in Orgs |-> SettledTotals'[o]]
    BY DEF SettledTotals
  <2>3. SettledTotals' \in [Orgs -> Nat]
    BY <1>1, <1>4, <2>1, <2>2
  <2>4. SettledTotals \in [Orgs -> Nat]
    BY <1>4
  <2> QED
    BY <1>1, <2>1, <2>3, <2>4, SumStep
<1> QED
  BY <1>7, <1>10

\* Dealing with a counted event: it is blocked, or handed to the buffer.
LEMMA SettledOnce ==
    ASSUME IngestorOK, IngestorOK', NEW r \in Requests, BlockEvent(r) \/ BufferEvent(r)
    PROVE  /\ RecordedTotals' = RecordedTotals
           /\ BlockEvent(r) => /\ SumFunction(SettledTotals') = SumFunction(SettledTotals)
                               /\ added' = added
           /\ BufferEvent(r) => /\ SumFunction(SettledTotals') = SumFunction(SettledTotals) - 1
                                /\ added' = added + 1
           /\ SumFunction(SettledTotals) \in Nat
<1> IsFiniteSet(Orgs)
  BY IngestorAssumption
<1>0. call[r].org \in Orgs
  BY CallFields DEF IngestorOK, TypeOK
<1>1. PICK org \in Orgs : org = call[r].org
  BY <1>0
<1>2. /\ handler' = [handler EXCEPT ![r] = "idle"] /\ call' = call /\ recorded' = recorded
      /\ handler[r] = "recording" /\ call[r].at = "returned"
  BY DEF BlockEvent, BufferEvent, Counted, vars, memory
<1>3. /\ SettledTotals \in [Orgs -> Nat]
      /\ \A o \in Orgs : InHandler(o) \in Nat /\ SumFunction(blocked[o]) \in Nat
  BY TotalsType DEF IngestorOK
<1>4. ASSUME NEW o \in Orgs \ {org} PROVE Waiting(o)' = Waiting(o)
  BY <1>1, <1>2 DEF Waiting, IngestorOK
<1>5. r \in Waiting(org) /\ Waiting(org)' = Waiting(org) \ {r}
  BY <1>1, <1>2 DEF Waiting, IngestorOK
<1>6. /\ InHandler(org)' = InHandler(org) - 1
      /\ \A o \in Orgs \ {org} : InHandler(o)' = InHandler(o)
  BY <1>1, <1>4, <1>5, WaitingStep
<1>7. SettledTotals' \in [Orgs -> Nat]
  <2>1. InHandler(org)' \in Nat
    <3>1. /\ InHandler(org)' = Cardinality(Waiting(org)')
      BY DEF InHandler, Waiting
    <3>2. IsFiniteSet(Waiting(org)')
      BY <1>1, <1>5, TotalsType, FS_RemoveElement
    <3> QED
      BY <3>1, <3>2, FS_CardinalityType
  <2>2. \A o \in Orgs : SumFunction(blocked'[o]) \in Nat
    <3>1. \A o \in Orgs : blocked'[o] \in [Months -> Nat]
      BY DEF IngestorOK, Tally
    <3> QED
      BY <3>1, MonthSums
  <2> QED
    BY <1>3, <1>6, <2>1, <2>2 DEF SettledTotals
<1>8. ASSUME BlockEvent(r)
      PROVE  SumFunction(SettledTotals') = SumFunction(SettledTotals) /\ added' = added
  <2>1. call[r].period \in Months
    BY CallFields DEF IngestorOK, TypeOK
  <2>2. PICK per \in Months : per = call[r].period
    BY <2>1
  <2>3. /\ blocked'[org][per] = blocked[org][per] + 1
        /\ \A p \in Months \ {per} : blocked'[org][p] = blocked[org][p]
        /\ \A o \in Orgs \ {org} : blocked'[o] = blocked[o]
    BY <1>1, <1>8, <2>2 DEF BlockEvent, IngestorOK, Tally
  <2>4. blocked[org] \in [Months -> Nat] /\ blocked'[org] \in [Months -> Nat]
    BY <1>1 DEF IngestorOK, Tally
  <2>5. SumFunction(blocked'[org]) = SumFunction(blocked[org]) + 1
    <3>1. IsFiniteSet(Months)
      BY MonthsFinite
    <3>2. /\ blocked'[org][per] = blocked[org][per] + 1
          /\ \A p \in Months \ {per} : blocked'[org][p] = blocked[org][p]
      BY <2>3
    <3> QED
      BY <2>2, <2>4, <3>1, <3>2, SumStep
  <2>6. \A o \in Orgs : SettledTotals'[o] = SettledTotals[o]
    BY <1>1, <1>3, <1>6, <2>3, <2>5 DEF SettledTotals
  <2>7. SettledTotals' = SettledTotals
    BY <1>3, <1>7, <2>6
  <2> QED
    BY <1>8, <2>7 DEF BlockEvent, bufferVars
<1>9. ASSUME BufferEvent(r)
      PROVE  SumFunction(SettledTotals') = SumFunction(SettledTotals) - 1 /\ added' = added + 1
  <2>1. blocked' = blocked /\ added' = added + 1
    BY <1>9 DEF BufferEvent, Buffer!Add, Buffer!Enqueue, Buffer!Drop
  <2>2. /\ SettledTotals'[org] = SettledTotals[org] + (-1)
        /\ \A o \in Orgs \ {org} : SettledTotals'[o] = SettledTotals[o]
    BY <1>1, <1>3, <1>6, <2>1 DEF SettledTotals
  <2>3. SettledTotals[org] = SettledTotals'[org] + 1
    BY <1>1, <1>3, <2>2
  <2>4. /\ SumFunction(SettledTotals) = SumFunction(SettledTotals') + 1
        /\ SumFunction(SettledTotals') \in Nat
    BY <1>1, <1>3, <1>7, <2>2, <2>3, SumStep
  <2> QED
    BY <2>1, <2>4
<1>10. SumFunction(SettledTotals) \in Nat
  <2>1. SettledTotals[org] = SettledTotals[org] + 0
    BY <1>1, <1>3
  <2> QED
    BY <1>1, <1>3, <2>1, SumStep
<1>11. RecordedTotals' = RecordedTotals
  BY <1>2 DEF RecordedTotals
<1> QED
  BY <1>8, <1>9, <1>10, <1>11

\* What leaves the events of handlers alone.
LEMMA NothingCounted ==
    ASSUME UNCHANGED <<recorded, blocked, added>>, \A o \in Orgs : Waiting(o)' = Waiting(o),
           CountedOnceBufferedOnce
    PROVE  CountedOnceBufferedOnce'
<1>1. \A o \in Orgs : InHandler(o)' = InHandler(o)
  BY DEF InHandler, Waiting
<1>2. RecordedTotals' = RecordedTotals /\ SettledTotals' = SettledTotals
  BY <1>1 DEF RecordedTotals, SettledTotals
<1> QED
  BY <1>2 DEF CountedOnceBufferedOnce, RecordedTotals, SettledTotals

\* Every event counted is handed to the buffer exactly once, unless it is blocked or
\* its handler is still on the way; none reaches the buffer uncounted
\* (server.go:104-117).
THEOREM UsageAgreesWithAnalytics == IngestorSpec => []CountedOnceBufferedOnce
<1>1. Boot => CountedOnceBufferedOnce
  <2> SUFFICES ASSUME Boot PROVE CountedOnceBufferedOnce
    OBVIOUS
  <2>1. /\ recorded = [o \in Orgs |-> [p \in Months |-> 0]] /\ added = 0
        /\ blocked = [o \in Orgs |-> [p \in Months |-> 0]]
        /\ handler = [r \in Requests |-> "idle"]
    BY DEF Boot, Init, Buffer!Init
  <2>2. \A o \in Orgs : SumFunction(recorded[o]) = 0 /\ SumFunction(blocked[o]) = 0
    <3>1. IsFiniteSet(Months)
      BY MonthsFinite
    <3>2. \A o \in Orgs : recorded[o] \in [Months -> {0}] /\ blocked[o] \in [Months -> {0}]
      BY <2>1
    <3> QED
      BY <3>1, <3>2, SumZero
  <2>3. \A o \in Orgs : InHandler(o) = 0
    <3>1. \A o \in Orgs : Waiting(o) = {}
      BY <2>1 DEF Waiting
    <3> QED
      BY <3>1, FS_EmptySet DEF InHandler, Waiting
  <2>4. RecordedTotals \in [Orgs -> {0}] /\ SettledTotals \in [Orgs -> {0}]
    BY <2>1, <2>2, <2>3 DEF RecordedTotals, SettledTotals
  <2>5. IsFiniteSet(Orgs)
    BY IngestorAssumption
  <2>6. SumFunction(RecordedTotals) = 0 /\ SumFunction(SettledTotals) = 0
    BY <2>4, <2>5, SumZero
  <2> QED
    BY <2>1, <2>6 DEF CountedOnceBufferedOnce, RecordedTotals, SettledTotals
<1>2. CountedOnceBufferedOnce /\ IngestorOK /\ IngestorOK' /\ [IngestorNext]_ingestorVars
        => CountedOnceBufferedOnce'
  <2> SUFFICES ASSUME CountedOnceBufferedOnce, IngestorOK, IngestorOK',
                      [IngestorNext]_ingestorVars
               PROVE  CountedOnceBufferedOnce'
    OBVIOUS
  <2>1. SumFunction(RecordedTotals) = added + SumFunction(SettledTotals)
    BY DEF CountedOnceBufferedOnce, RecordedTotals, SettledTotals
  <2>2. ASSUME SumFunction(RecordedTotals') = added' + SumFunction(SettledTotals')
        PROVE  CountedOnceBufferedOnce'
    BY <2>2 DEF CountedOnceBufferedOnce, RecordedTotals, SettledTotals
  <2>3. ASSUME NEW r \in Requests, BlockEvent(r) \/ BufferEvent(r)
        PROVE  CountedOnceBufferedOnce'
    <3>1. added \in Nat /\ SumFunction(SettledTotals) \in Nat
      BY <2>3, SettledOnce, IngestorAssumption DEF IngestorOK, Buffer!TypeOK
    <3>2. SumFunction(RecordedTotals') = added' + SumFunction(SettledTotals')
      BY <2>1, <2>3, <3>1, SettledOnce
    <3> QED
      BY <2>2, <3>2
  <2>4. ASSUME NEW r \in Requests, Arrive(r) \/ Reject(r) \/ \E o \in Orgs : Resolved(r, o)
        PROVE  CountedOnceBufferedOnce'
    <3>1. UNCHANGED <<recorded, blocked, added>>
      BY <2>4 DEF Arrive, Reject, Resolved, Begin, vars, memory, bufferVars
    <3>2. ASSUME NEW o \in Orgs PROVE Waiting(o)' = Waiting(o)
      <4>1. \A q \in Requests \ {r} : handler'[q] = handler[q] /\ call'[q] = call[q]
        BY <2>4 DEF Arrive, Reject, Resolved, Begin, vars, memory, IngestorOK, TypeOK
      <4>2. r \notin Waiting(o)
        BY <2>4 DEF Arrive, Reject, Resolved, Waiting
      <4>3. handler'[r] = "recording" => call'[r].at = "called"
        BY <2>4 DEF Arrive, Reject, Resolved, Begin, IngestorOK, TypeOK
      <4> QED
        BY <4>1, <4>2, <4>3 DEF Waiting
    <3> QED
      BY <3>1, <3>2, NothingCounted
  <2>5. ASSUME NEW r \in Requests, RecordStep(r) PROVE CountedOnceBufferedOnce'
    <3>1. handler[r] = "recording" /\ UNCHANGED <<handler, blocked, added>>
      BY <2>5 DEF RecordStep, bufferVars
    <3>2. CASE RecordHit(r) \/ Install(r)
      <4>1. PICK c : Count(r, c)
        BY <3>2 DEF RecordHit, Install
      <4>2. call[r].at # "returned"
        BY <3>2 DEF RecordHit, Install
      <4>3. /\ SumFunction(RecordedTotals') = SumFunction(RecordedTotals) + 1
            /\ SumFunction(SettledTotals') = SumFunction(SettledTotals) + 1
            /\ SumFunction(SettledTotals) \in Nat
        BY <3>1, <4>1, <4>2, CountedOnce
      <4>4. added \in Nat
        BY IngestorAssumption DEF IngestorOK, Buffer!TypeOK
      <4>5. SumFunction(RecordedTotals') = added' + SumFunction(SettledTotals')
        BY <2>1, <3>1, <4>3, <4>4
      <4> QED
        BY <2>2, <4>5
    <3>3. CASE RecordMiss(r) \/ SeedRead(r) \/ SeedFails(r)
      <4>1. recorded' = recorded
        BY <3>3 DEF RecordMiss, SeedRead, SeedFails
      <4>2. PICK at \in {"seeding", "seeded"} : \E v : Goto(r, at, v)
        BY <3>3 DEF RecordMiss, SeedRead, SeedFails
      <4>3. ASSUME NEW o \in Orgs PROVE Waiting(o)' = Waiting(o)
        <5>1. \A q \in Requests \ {r} : call'[q] = call[q]
          BY <4>2 DEF Goto, IngestorOK, TypeOK
        <5>2. call[r].at # "returned" /\ call'[r].at # "returned"
          BY <3>3, <4>2 DEF RecordMiss, SeedRead, SeedFails, Goto, IngestorOK, TypeOK
        <5> QED
          BY <3>1, <5>1, <5>2 DEF Waiting
      <4> QED
        BY <3>1, <4>1, <4>3, NothingCounted
    <3> QED
      BY <2>5, <3>2, <3>3 DEF RecordStep, Record
  <2>6. ASSUME FlushUsage \/ FlushUsageFinal \/ RunBuffer \/ MonthPasses \/ Main
               \/ UNCHANGED ingestorVars
        PROVE  CountedOnceBufferedOnce'
    <3>1. CASE FlushUsage \/ FlushUsageFinal \/ MonthPasses
      <4>1. UNCHANGED <<recorded, blocked, added, handler, call>>
        BY <3>1 DEF FlushUsage, FlushUsageFinal, MonthPasses, FlushTick, FlushFinal, Collect,
           FlushEnd, AddUsage, AddUsageOk, AddUsageFails, AddUsageReplyLost, ReCredit,
           NextMonth, memory, bufferVars
      <4> QED
        BY <4>1, NothingCounted DEF Waiting
    <3>2. CASE RunBuffer
      <4>1. UNCHANGED <<recorded, blocked, added, handler, call>>
        BY <3>2 DEF RunBuffer, Buffer!Run, Buffer!Receive, Buffer!Take, Buffer!Tick,
           Buffer!StartDrain, Buffer!Drain, Buffer!EndDrain, Buffer!EndFlush,
           Buffer!InsertStores, Buffer!InsertFails, vars, memory
      <4> QED
        BY <4>1, NothingCounted DEF Waiting
    <3>3. CASE Main \/ UNCHANGED ingestorVars
      <4>1. UNCHANGED <<recorded, blocked, added, handler, call>>
        BY <3>3 DEF Main, ListenFails, Signal, Expire, StopBuf, TrackerStopped, Return,
           ingestorVars, vars, memory, bufferVars
      <4> QED
        BY <4>1, NothingCounted DEF Waiting
    <3> QED
      BY <2>6, <3>1, <3>2, <3>3
  <2> QED
    BY <2>3, <2>4, <2>5, <2>6 DEF IngestorNext, Handle
<1> QED
  BY <1>1, <1>2, IngestorTypeCorrect, PTL DEF IngestorSpec
=============================================================================
