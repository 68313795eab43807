------------------------------ MODULE EventSink -----------------------------
(***************************************************************************)
(* What the event buffer of the ingestor promises its callers, without the *)
(* queue, the batch and the flush goroutine: rows leave in the order they  *)
(* were added, a run of them at a time, each one delivered at most once.   *)
(* Rows are numbered in the order of the Add calls.                        *)
(***************************************************************************)
EXTENDS Naturals, Sequences

CONSTANTS
    Capacity,   \* rows that may wait before any is shed
    MaxRows     \* bound: rows ever added

VARIABLES
    added,      \* rows added so far
    pending,    \* accepted rows whose fate is open, oldest first
    delivered,  \* rows inserted, in order of insertion
    lost,       \* accepted rows that were not inserted
    shed        \* rows refused because too many were pending

vars == <<added, pending, delivered, lost, shed>>

RowsOf(s) == {s[i] : i \in DOMAIN s}

Init ==
    /\ added = 0
    /\ pending = <<>>
    /\ delivered = <<>>
    /\ lost = {}
    /\ shed = {}

Accept ==
    /\ added < MaxRows
    /\ added' = added + 1
    /\ pending' = Append(pending, added + 1)
    /\ UNCHANGED <<delivered, lost, shed>>

Shed ==
    /\ added < MaxRows
    /\ Len(pending) >= Capacity
    /\ added' = added + 1
    /\ shed' = shed \cup {added + 1}
    /\ UNCHANGED <<pending, delivered, lost>>

\* The oldest n rows are settled, all of them the same way.
Settle(n) ==
    /\ n \in 1..Len(pending)
    /\ pending' = SubSeq(pending, n + 1, Len(pending))
    /\ UNCHANGED <<added, shed>>

Deliver(n) ==
    /\ Settle(n)
    /\ delivered' = delivered \o SubSeq(pending, 1, n)
    /\ UNCHANGED lost

Lose(n) ==
    /\ Settle(n)
    /\ lost' = lost \cup RowsOf(SubSeq(pending, 1, n))
    /\ UNCHANGED delivered

Next ==
    \/ Accept
    \/ Shed
    \/ \E n \in 1..Len(pending) : Deliver(n) \/ Lose(n)

Spec == Init /\ [][Next]_vars

-----------------------------------------------------------------------------

Increasing(s) == \A i, j \in 1..Len(s) : i < j => s[i] < s[j]

\* Delivered rows come in the order in which they were added, before every row
\* that still waits: a row is delivered at most once and never overtaken.
InOrder == Increasing(delivered \o pending)
=============================================================================
