------------------------------- MODULE Ingestor ------------------------------
(***************************************************************************)
(* The ingestor process: request goroutines running handleIngest           *)
(* (internal/server/server.go) over the usage tracker, which this module   *)
(* extends, and an instance of the event buffer, and main's startup and    *)
(* shutdown (cmd/ingestor/main.go).  The site cache is SiteResolver's      *)
(* subject; here a beacon resolves to an org, whose monthly limit is       *)
(* fixed, or to nothing.                                                   *)
(***************************************************************************)
EXTENDS UsageTracker, Sequences, FiniteSets, Functions

CONSTANTS
    FlushSize, MaxRows,   \* as in EventBuffer
    Limit,        \* monthly event limit of each org, 0 for none
    Block         \* OVER_LIMIT_MODE is "block"

ASSUME IngestorAssumption ==
    /\ IsFiniteSet(Orgs) /\ IsFiniteSet(Requests)
    /\ FlushSize \in Nat \ {0} /\ MaxRows \in Nat
    /\ Limit \in [Orgs -> Nat]
    /\ Block \in BOOLEAN

VARIABLES
    queue, rows, run, stopping, added, stored, lost, dropped,  \* as in EventBuffer
    handler,      \* where each request goroutine is in handleIngest
    main,         \* where main is
    expired,      \* shutdownCtx has timed out
    blocked,      \* history: events counted and then blocked, by org and month
    unwritten     \* history: increments the final flush failed to write, likewise

Buffer == INSTANCE EventBuffer WITH batch <- rows

bufferVars == <<queue, rows, run, stopping, added, stored, lost, dropped>>
ingestorVars == <<vars, bufferVars, handler, main, expired, blocked, unwritten>>

\* The shape of the state; the shutdown timeout runs only once a signal has come
\* (main.go:94).
IngestorOK ==
    /\ TypeOK
    /\ Buffer!TypeOK
    /\ handler \in [Requests -> {"idle", "resolving", "recording"}]
    /\ main \in {"serving", "shutdown", "cancelled", "waiting", "exited", "failed"}
    /\ expired \in BOOLEAN
    /\ expired => main \notin {"serving", "failed"}
    /\ blocked \in Tally
    /\ unwritten \in Tally

Boot ==
    /\ Init
    /\ Buffer!Init
    /\ handler = [r \in Requests |-> "idle"]
    /\ main = "serving"
    /\ expired = FALSE
    /\ blocked = [o \in Orgs |-> [p \in Months |-> 0]]
    /\ unwritten = [o \in Orgs |-> [p \in Months |-> 0]]

Alive == main \notin {"exited", "failed"}

-----------------------------------------------------------------------------
(* handleIngest *)

\* A beacon arrives; the server takes none once Shutdown has begun.
Arrive(r) ==
    /\ main = "serving"
    /\ handler[r] = "idle"
    /\ handler' = [handler EXCEPT ![r] = "resolving"]
    /\ UNCHANGED <<vars, bufferVars, main, expired, blocked, unwritten>>

\* A bot, an invalid body, an unknown domain or a failed lookup: nothing is kept.
Reject(r) ==
    /\ Alive
    /\ handler[r] = "resolving"
    /\ handler' = [handler EXCEPT ![r] = "idle"]
    /\ UNCHANGED <<vars, bufferVars, main, expired, blocked, unwritten>>

\* The domain belongs to org o: the clock is read and Record called.
Resolved(r, o) ==
    /\ Alive
    /\ handler[r] = "resolving"
    /\ Begin(r, o)
    /\ handler' = [handler EXCEPT ![r] = "recording"]
    /\ UNCHANGED <<bufferVars, main, expired, blocked, unwritten>>

RecordStep(r) ==
    /\ Alive
    /\ handler[r] = "recording"
    /\ Record(r)
    /\ UNCHANGED <<bufferVars, handler, main, expired, blocked, unwritten>>

\* Mutant of OverLimit: the event that reaches the limit counts as over it.
AtLimit(o, count) == Limit[o] > 0 /\ count >= Limit[o]

OverLimit(o, count) == Limit[o] > 0 /\ count > Limit[o]

\* Record has returned and the handler acts on the total.
Counted(r) == Alive /\ handler[r] = "recording" /\ call[r].at = "returned"

\* Mutant of BlockEvent: the event is refused and buffered all the same.
BlockAndBuffer(r) ==
    /\ Counted(r)
    /\ Block /\ OverLimit(call[r].org, call[r].val)
    /\ blocked' = [blocked EXCEPT ![call[r].org][call[r].period] = @ + 1]
    /\ Buffer!Add
    /\ handler' = [handler EXCEPT ![r] = "idle"]
    /\ UNCHANGED <<vars, main, expired, unwritten>>

BlockEvent(r) ==
    /\ Counted(r)
    /\ Block /\ OverLimit(call[r].org, call[r].val)
    /\ blocked' = [blocked EXCEPT ![call[r].org][call[r].period] = @ + 1]
    /\ handler' = [handler EXCEPT ![r] = "idle"]
    /\ UNCHANGED <<vars, bufferVars, main, expired, unwritten>>

BufferEvent(r) ==
    /\ Counted(r)
    /\ ~(Block /\ OverLimit(call[r].org, call[r].val))
    /\ Buffer!Add
    /\ handler' = [handler EXCEPT ![r] = "idle"]
    /\ UNCHANGED <<vars, main, expired, blocked, unwritten>>

Handle(r) ==
    \/ Reject(r)
    \/ \E o \in Orgs : Resolved(r, o)
    \/ RecordStep(r)
    \/ BlockEvent(r)
    \/ BufferEvent(r)

-----------------------------------------------------------------------------
(* The two background goroutines *)

\* The final flush has no tick after it: what its AddUsage calls return an error
\* for stays in memory.
FlushUsage ==
    /\ Alive
    /\ \/ /\ FlushTick \/ FlushEnd \/ \E o \in Orgs : AddUsage(o)
          /\ UNCHANGED unwritten
       \/ \E o \in Orgs :
             /\ ReCredit(o)
             /\ unwritten' = IF flusher = "final"
                             THEN [unwritten EXCEPT ![o][batch[o].period] = @ + batch[o].delta]
                             ELSE unwritten
    /\ UNCHANGED <<bufferVars, handler, main, expired, blocked>>

FlushUsageFinal ==
    /\ Alive
    /\ FlushFinal
    /\ UNCHANGED <<bufferVars, handler, main, expired, blocked, unwritten>>

RunBuffer ==
    /\ Alive
    /\ Buffer!Run
    /\ UNCHANGED <<vars, handler, main, expired, blocked, unwritten>>

-----------------------------------------------------------------------------
(* main *)

\* The listener fails: run returns the error and the process ends undrained.
ListenFails ==
    /\ main = "serving"
    /\ main' = "failed"
    /\ UNCHANGED <<vars, bufferVars, handler, expired, blocked, unwritten>>

\* SIGINT or SIGTERM: the shutdown timeout starts and Shutdown is called.
Signal ==
    /\ main = "serving"
    /\ main' = "shutdown"
    /\ UNCHANGED <<vars, bufferVars, handler, expired, blocked, unwritten>>

\* Mutant of Expire: the timeout starts with the process.
ExpireFromStart ==
    /\ Alive
    /\ ~expired
    /\ expired' = TRUE
    /\ UNCHANGED <<vars, bufferVars, handler, main, blocked, unwritten>>

Expire ==
    /\ main \in {"shutdown", "cancelled", "waiting"}
    /\ ~expired
    /\ expired' = TRUE
    /\ UNCHANGED <<vars, bufferVars, handler, main, blocked, unwritten>>

\* The wall clock passes into another month while the process is there.
MonthPasses ==
    /\ Alive
    /\ NextMonth
    /\ UNCHANGED <<bufferVars, handler, main, expired, blocked, unwritten>>

Quiet == \A r \in Requests : handler[r] = "idle"

\* Mutant of StopBuf: the tracker has a context of its own, which is not cancelled.
StopBufferOnly ==
    /\ main = "shutdown"
    /\ Quiet \/ expired
    /\ main' = "cancelled"
    /\ stopping' = TRUE
    /\ UNCHANGED <<vars, handler, expired, blocked, unwritten>>
    /\ UNCHANGED <<queue, rows, run, added, stored, lost, dropped>>

\* Shutdown returns when no request is active or its context is done; then
\* stopBuf cancels the context of both goroutines.
StopBuf ==
    /\ main = "shutdown"
    /\ Quiet \/ expired
    /\ main' = "cancelled"
    /\ cancelled' = TRUE
    /\ stopping' = TRUE
    /\ UNCHANGED <<counters, batch, flusher, call, month, usage, failures, recorded, doubled>>
    /\ UNCHANGED <<queue, rows, run, added, stored, lost, dropped>>
    /\ UNCHANGED <<handler, expired, blocked, unwritten>>

\* tracker.Stop returns after the final flush; it has no timeout.
TrackerStopped ==
    /\ main = "cancelled"
    /\ flusher = "done"
    /\ main' = "waiting"
    /\ UNCHANGED <<vars, bufferVars, handler, expired, blocked, unwritten>>

\* Mutant of Return: the buffer is not waited for.
ReturnAtOnce ==
    /\ main = "waiting"
    /\ main' = "exited"
    /\ UNCHANGED <<vars, bufferVars, handler, expired, blocked, unwritten>>

\* The last select: the buffer is drained, or the timeout has passed.
Return ==
    /\ main = "waiting"
    /\ run = "done" \/ expired
    /\ main' = "exited"
    /\ UNCHANGED <<vars, bufferVars, handler, expired, blocked, unwritten>>

Main == ListenFails \/ Signal \/ Expire \/ StopBuf \/ TrackerStopped \/ Return

IngestorNext ==
    \/ \E r \in Requests : Arrive(r) \/ Handle(r)
    \/ FlushUsage
    \/ FlushUsageFinal
    \/ RunBuffer
    \/ Main
    \/ MonthPasses

\* The tracker's goroutine and main keep going, and the timeout elapses; requests and
\* the insert into ClickHouse may hang.
IngestorFairness ==
    /\ WF_ingestorVars(FlushUsage)
    /\ SF_ingestorVars(FlushUsageFinal)
    /\ WF_ingestorVars(Expire \/ StopBuf \/ TrackerStopped \/ Return)

IngestorSpec == Boot /\ [][IngestorNext]_ingestorVars
IngestorFairSpec == IngestorSpec /\ IngestorFairness

-----------------------------------------------------------------------------
(* Properties *)

\* A shutdown that keeps its timeout leaves nothing behind but what Postgres did
\* not take: no handler is cut off between counting its event and buffering it,
\* nothing is queued or batched, and the increments still in memory are exactly
\* those whose write failed in the final flush (main.go:93-105).
CleanExitDrains ==
    main = "exited" /\ ~expired =>
        /\ Quiet
        /\ Buffer!Pending = <<>>
        /\ \A o \in Orgs, p \in Months : Unflushed(o, p) = unwritten[o][p]

\* In block mode, lost replies apart, an org gets at least the events of its plan
\* through in each month: the events refused in a month are at most those counted
\* in that month over the limit, whatever seeds, flushes and other requests do
\* meanwhile.  Events credited twice after a lost reply count here, as they do for
\* the code: only they can refuse an event within the plan (server.go:104-108).
BlockedOnlyOverLimit ==
    \A o \in Orgs, p \in Months :
        blocked[o][p] > 0 =>
            blocked[o][p] <= recorded[o][p] + doubled[o][p] - Limit[o]

\* Events counted by Record and not yet dealt with by their handler.
InHandler(o) ==
    Cardinality({r \in Requests :
        handler[r] = "recording" /\ call[r].at = "returned" /\ call[r].org = o})

\* Usage and analytics agree: every event counted is handed to the buffer exactly
\* once, unless it is blocked or its handler is still on the way; none reaches
\* the buffer uncounted.
CountedOnceBufferedOnce ==
    SumFunction([o \in Orgs |-> SumFunction(recorded[o])])
        = added + SumFunction([o \in Orgs |-> SumFunction(blocked[o]) + InHandler(o)])

\* A process told to stop exits, even when requests or ClickHouse hang.
ShutdownCompletes == main = "shutdown" ~> main = "exited"
=============================================================================
