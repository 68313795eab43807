----------------------------- MODULE EventBuffer ----------------------------
(***************************************************************************)
(* The event buffer of the ingestor, apps/ingestor/internal/buffer: Add    *)
(* runs in request goroutines, Run is the one goroutine that owns the      *)
(* batch and inserts it into ClickHouse (internal/store/clickhouse.go).    *)
(* A row is the number of the Add call that brought it.                    *)
(***************************************************************************)
EXTENDS Naturals, Sequences, FiniteSets

CONSTANTS
    FlushSize,    \* rows that make a batch full
    MaxRows       \* bound: rows ever added

ASSUME BufferAssumption == FlushSize \in Nat \ {0} /\ MaxRows \in Nat

VARIABLES
    queue,        \* Buffer.in, the buffered channel
    batch,        \* Run's batch
    run,          \* where Run is
    stopping,     \* the context given to Run is cancelled
    added,        \* history: Add calls so far
    stored,       \* the ClickHouse table, in order of insertion
    lost,         \* history: accepted rows that will never be inserted
    dropped       \* the rows that Buffer.dropped counts

vars == <<queue, batch, run, stopping, added, stored, lost, dropped>>

QueueCap == 4 * FlushSize

RowsOf(s) == {s[i] : i \in DOMAIN s}
Rows == 1..MaxRows

\* The shape of the state; the channel never holds more rows than New made room
\* for (buffer.go:36).
TypeOK ==
    /\ queue \in Seq(Rows) /\ Len(queue) <= QueueCap
    /\ batch \in Seq(Rows)
    /\ run \in {"loop", "flushing", "draining", "final", "done"}
    /\ stopping \in BOOLEAN
    /\ added \in 0..MaxRows
    /\ stored \in Seq(Rows)
    /\ lost \subseteq Rows
    /\ dropped \subseteq Rows

Init ==
    /\ queue = <<>>
    /\ batch = <<>>
    /\ run = "loop"
    /\ stopping = FALSE
    /\ added = 0
    /\ stored = <<>>
    /\ lost = {}
    /\ dropped = {}

-----------------------------------------------------------------------------
(* Add, which never blocks *)

\* Mutant of Enqueue: a full channel takes the row all the same.
EnqueueUnbounded ==
    /\ added < MaxRows
    /\ added' = added + 1
    /\ queue' = Append(queue, added + 1)
    /\ UNCHANGED <<batch, run, stopping, stored, lost, dropped>>

Enqueue ==
    /\ added < MaxRows
    /\ Len(queue) < QueueCap
    /\ added' = added + 1
    /\ queue' = Append(queue, added + 1)
    /\ UNCHANGED <<batch, run, stopping, stored, lost, dropped>>

\* Mutant of Drop: rows are shed from a batch's worth on.
DropEarly ==
    /\ added < MaxRows
    /\ Len(queue) >= FlushSize
    /\ added' = added + 1
    /\ dropped' = dropped \cup {added + 1}
    /\ UNCHANGED <<queue, batch, run, stopping, stored, lost>>

Drop ==
    /\ added < MaxRows
    /\ Len(queue) >= QueueCap
    /\ added' = added + 1
    /\ dropped' = dropped \cup {added + 1}
    /\ UNCHANGED <<queue, batch, run, stopping, stored, lost>>

Add == Enqueue \/ Drop

-----------------------------------------------------------------------------
(* Run *)

\* Mutant of Full: one row too late.
FullAbove(b) == Len(b) > FlushSize

Full(b) == Len(b) >= FlushSize

\* Mutant of Take: the newest row goes to the front of the batch.
TakeToFront(where) ==
    /\ queue # <<>>
    /\ batch' = <<Head(queue)>> \o batch
    /\ queue' = Tail(queue)
    /\ run' = where
    /\ UNCHANGED <<stopping, added, stored, lost, dropped>>

\* The goroutine receives one row and appends it.
Take(where) ==
    /\ queue # <<>>
    /\ batch' = Append(batch, Head(queue))
    /\ queue' = Tail(queue)
    /\ run' = where
    /\ UNCHANGED <<stopping, added, stored, lost, dropped>>

Receive ==
    /\ run = "loop"
    /\ Take(IF Full(Append(batch, Head(queue))) THEN "flushing" ELSE "loop")

\* Mutant of Tick: the ticker flushes full batches only.
TickWhenFull ==
    /\ run = "loop"
    /\ Full(batch)
    /\ run' = "flushing"
    /\ UNCHANGED <<queue, batch, stopping, added, stored, lost, dropped>>

\* The ticker's case; flush returns at once when the batch is empty.
Tick ==
    /\ run = "loop"
    /\ batch # <<>>
    /\ run' = "flushing"
    /\ UNCHANGED <<queue, batch, stopping, added, stored, lost, dropped>>

\* The ctx.Done case: from here on only what is queued is taken.
StartDrain ==
    /\ run = "loop"
    /\ stopping
    /\ run' = "draining"
    /\ UNCHANGED <<queue, batch, stopping, added, stored, lost, dropped>>

Drain == run = "draining" /\ Take("draining")

\* Mutant of EndDrain: leaves the inner loop, not the goroutine.
EndDrainToLoop ==
    /\ run = "draining"
    /\ queue = <<>>
    /\ run' = "loop"
    /\ UNCHANGED <<queue, batch, stopping, added, stored, lost, dropped>>

\* The inner select's default case: the queue is empty now.
EndDrain ==
    /\ run = "draining"
    /\ queue = <<>>
    /\ run' = IF batch = <<>> THEN "done" ELSE "final"
    /\ UNCHANGED <<queue, batch, stopping, added, stored, lost, dropped>>

\* Mutant of EndFlush: the batch is not emptied.
EndFlushKeepsBatch ==
    /\ \/ run = "flushing" /\ run' = "loop"
       \/ run = "final" /\ run' = "done"
    /\ UNCHANGED <<queue, batch, stopping, added, dropped>>

\* InsertEvents returns and the batch is emptied whatever it returned.
EndFlush ==
    /\ \/ run = "flushing" /\ run' = "loop"
       \/ run = "final" /\ run' = "done"
    /\ batch' = <<>>
    /\ UNCHANGED <<queue, stopping, added, dropped>>

\* The block of rows is in the table, with or without an error for the client
\* (a reply that is lost or late).
InsertStores ==
    /\ EndFlush
    /\ stored' = stored \o batch
    /\ UNCHANGED lost

\* An error and nothing inserted; it is logged, the rows are not kept.
InsertFails ==
    /\ EndFlush
    /\ lost' = lost \cup RowsOf(batch)
    /\ UNCHANGED stored

Run == Receive \/ Tick \/ StartDrain \/ Drain \/ EndDrain \/ InsertStores \/ InsertFails

-----------------------------------------------------------------------------
(* The process *)

\* main's stopBuf.
Stop ==
    /\ ~stopping
    /\ stopping' = TRUE
    /\ UNCHANGED <<queue, batch, run, added, stored, lost, dropped>>

\* The process ends, by main's return or a crash, and starts again.
Exit ==
    /\ lost' = lost \cup RowsOf(batch) \cup RowsOf(queue)
    /\ queue' = <<>>
    /\ batch' = <<>>
    /\ run' = "loop"
    /\ stopping' = FALSE
    /\ UNCHANGED <<added, stored, dropped>>

Next == Add \/ Run \/ Stop \/ Exit

\* InsertEvents returns (its context has a 30 s timeout), the ticker fires, and
\* Go's select picks at random among ready cases.
Fairness == WF_vars(Run) /\ SF_vars(StartDrain)

Spec == Init /\ [][Next]_vars
FairSpec == Spec /\ Fairness

-----------------------------------------------------------------------------
(* Properties *)

\* Rows that Run has not settled yet, oldest first.
Pending == batch \o queue

Sink == INSTANCE EventSink
            WITH Capacity <- QueueCap, pending <- Pending, delivered <- stored,
                 shed <- dropped

\* The buffer implements EventSink: FIFO, at most once, all rows of a batch
\* settled alike, shedding only at capacity (buffer.go Add, Run).
ImplementsSink == Sink!Spec

\* Every row is in exactly one place: waiting, stored, lost or dropped.  A batch
\* not reset after a flush, or a drain that forgets the batch, breaks it.
EachRowOnce ==
    /\ Len(Pending) + Len(stored) + Cardinality(lost) + Cardinality(dropped) = added
    /\ RowsOf(Pending) \cup RowsOf(stored) \cup lost \cup dropped = 1..added

\* Rows are inserted in the order of the Add calls, and those still waiting are
\* younger than every stored one, so restarts and failed flushes make gaps but
\* never a duplicate or an inversion.
StoredInOrder == Sink!InOrder

\* The batch never outgrows the flush size but in the drain at shutdown, and is
\* never full while Run waits in its select (buffer.go:76-80).
BatchBound ==
    /\ run = "loop" => Len(batch) < FlushSize
    /\ run = "flushing" => Len(batch) \in 1..FlushSize

\* After cancellation Run drains and closes Done, unless the process ends.
DrainCompletes == stopping ~> run = "done" \/ ~stopping

\* While the buffer is not being stopped no accepted row waits for ever, even
\* one that never fills a batch: the ticker flushes it.
RowsSettle ==
    \A k \in Rows :
        k \in RowsOf(Pending) /\ ~stopping ~> k \notin RowsOf(Pending) \/ stopping
=============================================================================
