-------------------------- MODULE EventBuffer_proofs ------------------------
(***************************************************************************)
(* Theorems about EventBuffer: with its queue, its batch and its flush     *)
(* goroutine it implements EventSink, and so keeps what is proved here of  *)
(* the sink: rows are stored in order, each once, and every row is         *)
(* accounted for.                                                          *)
(***************************************************************************)
EXTENDS EventBuffer, SequenceTheorems, FiniteSetTheorems, TLAPS

\* The channel, the batch and the table hold rows that were added, and the channel no
\* more of them than it has room for (buffer.go New, Add).
THEOREM TypeCorrect == Spec => []TypeOK
<1>1. Init => TypeOK
  <2> SUFFICES ASSUME Init PROVE TypeOK
    OBVIOUS
  <2>1. queue \in Seq(Rows) /\ batch \in Seq(Rows) /\ stored \in Seq(Rows) /\ Len(queue) = 0
    BY EmptySeq DEF Init
  <2>2. Len(queue) <= QueueCap
    BY <2>1, BufferAssumption DEF QueueCap
  <2>3. added \in 0..MaxRows
    BY BufferAssumption DEF Init
  <2> QED
    BY <2>1, <2>2, <2>3 DEF Init, TypeOK
<1>2. TypeOK /\ [Next]_vars => TypeOK'
  <2> SUFFICES ASSUME TypeOK, [Next]_vars PROVE TypeOK'
    OBVIOUS
  <2> USE BufferAssumption DEF TypeOK
  <2>1. CASE Enqueue
    <3>1. queue' = Append(queue, added + 1) /\ Len(queue) < QueueCap /\ added' = added + 1
          /\ UNCHANGED <<batch, run, stopping, stored, lost, dropped>>
      BY <2>1 DEF Enqueue
    <3>2. added + 1 \in Rows /\ added' \in 0..MaxRows
      BY <2>1 DEF Enqueue, Rows
    <3>3. queue' \in Seq(Rows) /\ Len(queue') = Len(queue) + 1
      BY <3>1, <3>2, AppendProperties
    <3>4. Len(queue') <= QueueCap
      BY <3>1, <3>3, LenProperties DEF QueueCap
    <3> QED
      BY <3>1, <3>2, <3>3, <3>4
  <2>2. CASE Drop
    BY <2>2 DEF Drop, Rows
  <2>3. ASSUME NEW where, where \in {"loop", "flushing", "draining"}, Take(where)
        PROVE  TypeOK'
    <3>1. queue # <<>> /\ batch' = Append(batch, Head(queue)) /\ queue' = Tail(queue)
          /\ run' = where /\ UNCHANGED <<stopping, added, stored, lost, dropped>>
      BY <2>3 DEF Take
    <3>2. Head(queue) \in Rows /\ queue' \in Seq(Rows) /\ Len(queue') = Len(queue) - 1
      BY <3>1, HeadTailProperties
    <3>3. batch' \in Seq(Rows)
      BY <3>1, <3>2, AppendProperties
    <3>4. Len(queue') <= QueueCap
      BY <3>2, LenProperties DEF QueueCap
    <3> QED
      BY <2>3, <3>1, <3>2, <3>3, <3>4
  <2>4. CASE Receive \/ Drain
    BY <2>3, <2>4 DEF Receive, Drain
  <2>5. CASE Tick \/ StartDrain \/ EndDrain \/ Stop \/ UNCHANGED vars
    BY <2>5 DEF Tick, StartDrain, EndDrain, Stop, vars
  <2>6. RowsOf(batch) \subseteq Rows /\ RowsOf(queue) \subseteq Rows
    BY LenProperties, ElementOfSeq DEF RowsOf
  <2>7. CASE InsertStores \/ InsertFails
    <3>1. batch' = <<>> /\ run' \in {"loop", "done"}
          /\ UNCHANGED <<queue, stopping, added, dropped>>
      BY <2>7 DEF InsertStores, InsertFails, EndFlush
    <3>2. stored' \in Seq(Rows) /\ lost' \subseteq Rows
      BY <2>6, <2>7, ConcatProperties DEF InsertStores, InsertFails
    <3> QED
      BY <3>1, <3>2, EmptySeq
  <2>8. CASE Exit
    <3>1. queue' \in Seq(Rows) /\ batch' \in Seq(Rows) /\ Len(queue') = 0
      BY <2>8, EmptySeq DEF Exit
    <3>2. Len(queue') <= QueueCap
      BY <3>1 DEF QueueCap
    <3> QED
      BY <2>6, <2>8, <3>1, <3>2 DEF Exit
  <2> QED
    BY <2>1, <2>2, <2>4, <2>5, <2>7, <2>8 DEF Next, Add, Run
<1> QED
  BY <1>1, <1>2, PTL DEF Spec

\* What the steps of the refinement need to know of the state.
SeqsOK ==
    /\ queue \in Seq(Nat)
    /\ batch \in Seq(Nat)
    /\ added \in Nat

LEMMA SeqsInvariant == Spec => []SeqsOK
<1>1. TypeOK => SeqsOK
  <2>1. Rows \subseteq Nat
    BY DEF Rows
  <2>2. \A s \in Seq(Rows) : s \in Seq(Nat)
    BY <2>1, SeqMonotonic
  <2> QED
    BY <2>2 DEF TypeOK, SeqsOK
<1> QED
  BY <1>1, TypeCorrect, PTL

-----------------------------------------------------------------------------
(* Sequences of rows *)

LEMMA ConcatShape ==
    ASSUME NEW x \in Seq(Nat), NEW y \in Seq(Nat)
    PROVE  /\ x \o y \in Seq(Nat) /\ Len(x) \in Nat /\ Len(y) \in Nat
           /\ Len(x \o y) = Len(x) + Len(y)
           /\ DOMAIN (x \o y) = 1 .. (Len(x) + Len(y))
           /\ DOMAIN x = 1 .. Len(x) /\ DOMAIN y = 1 .. Len(y)
           /\ \A i \in 1..Len(x) : i \in 1 .. (Len(x) + Len(y)) /\ (x \o y)[i] = x[i]
           /\ \A i \in 1..Len(y) : Len(x) + i \in 1 .. (Len(x) + Len(y))
                                   /\ (x \o y)[Len(x) + i] = y[i]
           /\ \A i \in 1 .. (Len(x) + Len(y)) :
                 i \in 1..Len(x) \/ \E j \in 1..Len(y) : i = Len(x) + j
<1>1. /\ x \o y \in Seq(Nat) /\ Len(x \o y) = Len(x) + Len(y)
      /\ \A i \in 1 .. Len(x) + Len(y) :
            (x \o y)[i] = IF i <= Len(x) THEN x[i] ELSE y[i - Len(x)]
  BY ConcatProperties
<1>2. /\ Len(x) \in Nat /\ Len(y) \in Nat
      /\ DOMAIN x = 1 .. Len(x) /\ DOMAIN y = 1 .. Len(y)
      /\ DOMAIN (x \o y) = 1 .. Len(x \o y)
  BY <1>1, LenProperties
<1>3. ASSUME NEW i \in 1..Len(y)
      PROVE  Len(x) + i \in 1 .. (Len(x) + Len(y)) /\ (x \o y)[Len(x) + i] = y[i]
  <2>1. /\ Len(x) + i \in 1 .. (Len(x) + Len(y)) /\ ~(Len(x) + i <= Len(x))
        /\ (Len(x) + i) - Len(x) = i
    BY <1>2
  <2> QED
    BY <1>1, <2>1
<1>4. ASSUME NEW i \in 1 .. (Len(x) + Len(y)), i \notin 1..Len(x)
      PROVE  \E j \in 1..Len(y) : i = Len(x) + j
  <2>1. i - Len(x) \in 1..Len(y) /\ i = Len(x) + (i - Len(x))
    BY <1>2, <1>4
  <2> QED
    BY <2>1
<1>5. \A i \in 1..Len(x) : i \in 1 .. (Len(x) + Len(y)) /\ (x \o y)[i] = x[i]
  BY <1>1, <1>2
<1> QED
  BY <1>1, <1>2, <1>3, <1>4, <1>5

LEMMA RowsOfConcat ==
    ASSUME NEW x \in Seq(Nat), NEW y \in Seq(Nat)
    PROVE  RowsOf(x \o y) = RowsOf(x) \cup RowsOf(y)
<1>1. /\ Len(x) \in Nat /\ Len(y) \in Nat
      /\ DOMAIN (x \o y) = 1 .. (Len(x) + Len(y))
      /\ DOMAIN x = 1 .. Len(x) /\ DOMAIN y = 1 .. Len(y)
      /\ \A i \in 1..Len(x) : i \in 1 .. (Len(x) + Len(y)) /\ (x \o y)[i] = x[i]
      /\ \A i \in 1..Len(y) : Len(x) + i \in 1 .. (Len(x) + Len(y))
                              /\ (x \o y)[Len(x) + i] = y[i]
      /\ \A i \in 1 .. (Len(x) + Len(y)) :
            i \in 1..Len(x) \/ \E j \in 1..Len(y) : i = Len(x) + j
  BY ConcatShape
<1>2. RowsOf(x) \subseteq RowsOf(x \o y)
  BY <1>1 DEF RowsOf
<1>3. RowsOf(y) \subseteq RowsOf(x \o y)
  BY <1>1 DEF RowsOf
<1>4. ASSUME NEW i \in 1 .. (Len(x) + Len(y)) PROVE (x \o y)[i] \in RowsOf(x) \cup RowsOf(y)
  BY <1>1 DEF RowsOf
<1> QED
  BY <1>1, <1>2, <1>3, <1>4 DEF RowsOf

\* Two sequences are in order one after the other when each of them is and every row
\* of the first is older than every row of the second.
LEMMA IncreasingConcat ==
    ASSUME NEW x \in Seq(Nat), NEW y \in Seq(Nat)
    PROVE  Sink!Increasing(x \o y) <=>
              /\ Sink!Increasing(x) /\ Sink!Increasing(y)
              /\ \A a \in RowsOf(x), b \in RowsOf(y) : a < b
<1> USE DEF Sink!Increasing, RowsOf
<1>0. /\ Len(x) \in Nat /\ Len(y) \in Nat /\ Len(x \o y) = Len(x) + Len(y)
      /\ DOMAIN x = 1 .. Len(x) /\ DOMAIN y = 1 .. Len(y)
      /\ \A i \in 1..Len(x) : i \in 1 .. (Len(x) + Len(y)) /\ (x \o y)[i] = x[i]
      /\ \A i \in 1..Len(y) : Len(x) + i \in 1 .. (Len(x) + Len(y))
                              /\ (x \o y)[Len(x) + i] = y[i]
      /\ \A i \in 1 .. (Len(x) + Len(y)) :
            i \in 1..Len(x) \/ \E j \in 1..Len(y) : i = Len(x) + j
  BY ConcatShape
<1> USE <1>0
<1>1. ASSUME Sink!Increasing(x \o y)
      PROVE  /\ Sink!Increasing(x) /\ Sink!Increasing(y)
             /\ \A a \in RowsOf(x), b \in RowsOf(y) : a < b
  <2>1. Sink!Increasing(x)
    BY <1>1
  <2>2. ASSUME NEW i \in 1..Len(y), NEW j \in 1..Len(y), i < j PROVE y[i] < y[j]
    <3>1. /\ Len(x) + i \in 1..Len(x \o y) /\ Len(x) + j \in 1..Len(x \o y)
          /\ Len(x) + i < Len(x) + j
      BY <2>2
    <3>2. (x \o y)[Len(x) + i] < (x \o y)[Len(x) + j]
      BY <1>1, <3>1
    <3> QED
      BY <3>2
  <2>3. ASSUME NEW i \in 1..Len(x), NEW j \in 1..Len(y) PROVE x[i] < y[j]
    <3>1. i < Len(x) + j /\ i \in 1 .. (Len(x) + Len(y))
      OBVIOUS
    <3> QED
      BY <1>1, <3>1
  <2> QED
    BY <2>1, <2>2, <2>3
<1>2. ASSUME Sink!Increasing(x), Sink!Increasing(y), \A a \in RowsOf(x), b \in RowsOf(y) : a < b,
             NEW i \in 1 .. (Len(x) + Len(y)), NEW j \in 1 .. (Len(x) + Len(y)), i < j
      PROVE  (x \o y)[i] < (x \o y)[j]
  <2>1. CASE j \in 1..Len(x)
    BY <1>2, <2>1
  <2>2. ASSUME NEW k \in 1..Len(y), j = Len(x) + k PROVE (x \o y)[i] < (x \o y)[j]
    <3>1. CASE i \in 1..Len(x)
      <4>1. x[i] \in RowsOf(x) /\ y[k] \in RowsOf(y)
        BY <3>1
      <4>2. x[i] < y[k]
        BY <1>2, <4>1
      <4> QED
        BY <2>2, <3>1, <4>2
    <3>2. ASSUME NEW m \in 1..Len(y), i = Len(x) + m PROVE (x \o y)[i] < (x \o y)[j]
      <4>1. m < k
        BY <1>2, <2>2, <3>2
      <4> QED
        BY <1>2, <2>2, <3>2, <4>1
    <3> QED
      BY <3>1, <3>2
  <2> QED
    BY <2>1, <2>2
<1> QED
  BY <1>1, <1>2

\* Rows in order are all different.
LEMMA IncreasingCounts ==
    ASSUME NEW s \in Seq(Nat), Sink!Increasing(s)
    PROVE  IsFiniteSet(RowsOf(s)) /\ Cardinality(RowsOf(s)) = Len(s)
<1>1. Len(s) \in Nat /\ DOMAIN s = 1..Len(s) /\ s \in [1..Len(s) -> RowsOf(s)]
      /\ \A i \in 1..Len(s) : s[i] \in Nat
  BY LenProperties, ElementOfSeq DEF RowsOf
<1>2. \A i, j \in 1..Len(s) : s[i] = s[j] => i = j
  <2> SUFFICES ASSUME NEW i \in 1..Len(s), NEW j \in 1..Len(s), s[i] = s[j], i # j PROVE FALSE
    OBVIOUS
  <2>1. i < j \/ j < i
    OBVIOUS
  <2> QED
    BY <1>1, <2>1 DEF Sink!Increasing
<1>3. s \in Bijection(1..Len(s), RowsOf(s))
  BY <1>1, <1>2 DEF Bijection, Injection, Surjection, IsInjective, RowsOf
<1>4. ExistsBijection(1..Len(s), RowsOf(s))
  BY <1>3 DEF ExistsBijection
<1>5. IsFiniteSet(1..Len(s)) /\ Cardinality(1..Len(s)) = Len(s)
  <2>1. 1 \in Int /\ Len(s) \in Int /\ (IF 1 > Len(s) THEN 0 ELSE Len(s) - 1 + 1) = Len(s)
    BY <1>1
  <2> QED
    BY <2>1, FS_Interval
<1> QED
  BY <1>4, <1>5, FS_Bijection

\* What is left when rows are taken out of the middle.
LEMMA ThreeParts ==
    ASSUME NEW x \in Seq(Nat), NEW y \in Seq(Nat), NEW z \in Seq(Nat),
           Sink!Increasing(x \o (y \o z))
    PROVE  /\ x \o (y \o z) = (x \o y) \o z /\ x \o y \in Seq(Nat)
           /\ RowsOf(x \o (y \o z)) = RowsOf(x) \cup RowsOf(y) \cup RowsOf(z)
           /\ RowsOf(x \o z) = RowsOf(x) \cup RowsOf(z)
           /\ Sink!Increasing(x \o z)
           /\ RowsOf(y) \cap (RowsOf(x) \cup RowsOf(z)) = {}
<1>1. /\ x \o y \in Seq(Nat) /\ y \o z \in Seq(Nat)
      /\ x \o (y \o z) = (x \o y) \o z
  <2>1. (x \o y) \o z = x \o (y \o z)
    BY ONLY ConcatAssociative, SMTT(60)
  <2> QED
    BY <2>1, ConcatProperties
<1>2. RowsOf(x \o y) = RowsOf(x) \cup RowsOf(y) /\ RowsOf(y \o z) = RowsOf(y) \cup RowsOf(z)
  BY RowsOfConcat
<1>3. RowsOf(x \o (y \o z)) = RowsOf(x) \cup RowsOf(y) \cup RowsOf(z)
  BY <1>1, <1>2, RowsOfConcat
<1>4. /\ Sink!Increasing(x) /\ Sink!Increasing(y \o z)
      /\ \A a \in RowsOf(x), b \in RowsOf(y \o z) : a < b
  BY <1>1, IncreasingConcat
<1>5. Sink!Increasing(z) /\ \A a \in RowsOf(y), b \in RowsOf(z) : a < b
  BY <1>4, IncreasingConcat
<1>6. Sink!Increasing(x \o z)
  BY <1>2, <1>4, <1>5, IncreasingConcat
<1>7. \A s \in Seq(Nat) : RowsOf(s) \subseteq Nat
  BY LenProperties, ElementOfSeq DEF RowsOf
<1>8. RowsOf(y) \cap (RowsOf(x) \cup RowsOf(z)) = {}
  BY <1>2, <1>4, <1>5, <1>7
<1>9. RowsOf(x \o z) = RowsOf(x) \cup RowsOf(z)
  BY RowsOfConcat
<1> QED
  BY <1>1, <1>3, <1>6, <1>8, <1>9

-----------------------------------------------------------------------------
(* What holds of the sink holds of the buffer: Pending stays folded here *)

\* The rows stored and waiting are in order, and every row added is one of them, lost
\* or dropped, only once.
SinkInv ==
    /\ added \in Nat /\ Pending \in Seq(Nat) /\ stored \in Seq(Nat)
    /\ Sink!InOrder
    /\ lost \cap dropped = {} /\ RowsOf(stored \o Pending) \cap (lost \cup dropped) = {}
    /\ RowsOf(stored \o Pending) \cup lost \cup dropped = 1..added

\* The oldest n rows that wait, and the others.
LEMMA Cut ==
    ASSUME NEW p \in Seq(Nat), NEW n \in 1..Len(p)
    PROVE  /\ SubSeq(p, 1, n) \in Seq(Nat) /\ SubSeq(p, n + 1, Len(p)) \in Seq(Nat)
           /\ SubSeq(p, 1, n) \o SubSeq(p, n + 1, Len(p)) = p
<1>1. Len(p) \in Nat /\ \A i \in 1..Len(p) : p[i] \in Nat
  BY LenProperties, ElementOfSeq
<1>2. SubSeq(p, 1, n) \in Seq(Nat) /\ SubSeq(p, n + 1, Len(p)) \in Seq(Nat)
  BY <1>1, SubSeqProperties
<1>3. /\ 1 \in 1..(Len(p) + 1) /\ n \in (1 - 1)..Len(p) /\ Len(p) \in n..Len(p)
  BY <1>1
<1>4. SubSeq(p, 1, n) \o SubSeq(p, n + 1, Len(p)) = SubSeq(p, 1, Len(p))
  BY <1>3, ConcatAdjacentSubSeq
<1> QED
  BY <1>2, <1>4, SubSeqFull

\* A row is added at the end of those that wait.
LEMMA AcceptKeeps == ASSUME SinkInv, Sink!Accept PROVE SinkInv'
<1> DEFINE s == stored \o Pending
           new == <<added + 1>>
<1>1. /\ Pending' = Append(Pending, added + 1) /\ added' = added + 1
      /\ UNCHANGED <<stored, lost, dropped>> /\ added \in Nat
  BY DEF SinkInv, Sink!Accept
<1>2. new \in Seq(Nat) /\ Len(new) = 1 /\ new[1] = added + 1 /\ s \in Seq(Nat)
  BY <1>1, ConcatProperties DEF SinkInv
<1>3. Pending' = Pending \o new
  BY <1>1, AppendIsConcat DEF SinkInv
<1>4. Pending' \in Seq(Nat)
  BY <1>2, <1>3, ConcatProperties DEF SinkInv
<1>5. (stored \o Pending)' = s \o new
  <2>1. stored \o (Pending \o new) = (stored \o Pending) \o new
    BY <1>2, ConcatAssociative, SMTT(60) DEF SinkInv
  <2> QED
    BY <1>1, <1>3, <2>1
<1>6. RowsOf(new) = {added + 1} /\ Sink!Increasing(new)
  BY <1>2 DEF RowsOf, Sink!Increasing
<1> HIDE DEF s, new
<1>7. RowsOf(s \o new) = RowsOf(s) \cup {added + 1}
  BY <1>2, <1>6, RowsOfConcat
<1>8. RowsOf(s) \subseteq 1..added /\ lost \subseteq 1..added /\ dropped \subseteq 1..added
  BY DEF SinkInv, s
<1>9. Sink!Increasing(s \o new)
  <2>1. Sink!Increasing(s) /\ \A a \in RowsOf(s), b \in RowsOf(new) : a < b
    BY <1>1, <1>6, <1>8 DEF SinkInv, Sink!InOrder, s
  <2> QED
    BY <1>2, <1>6, <2>1, IncreasingConcat
<1>10. RowsOf(s) \cup lost \cup dropped = 1..added
       /\ lost \cap dropped = {} /\ RowsOf(s) \cap (lost \cup dropped) = {}
  BY DEF SinkInv, s
<1>11. (1..added) \cup {added + 1} = 1..(added + 1) /\ added + 1 \notin 1..added
  BY <1>1
<1>12. /\ (RowsOf(s) \cup {added + 1}) \cup lost \cup dropped = 1..(added + 1)
       /\ (RowsOf(s) \cup {added + 1}) \cap (lost \cup dropped) = {}
  BY <1>8, <1>10, <1>11
<1>13. stored' \in Seq(Nat) /\ added' \in Nat
  BY <1>1 DEF SinkInv
<1>14. Sink!InOrder'
  BY <1>5, <1>9 DEF Sink!InOrder
<1> QED
  BY <1>1, <1>4, <1>5, <1>7, <1>10, <1>12, <1>13, <1>14 DEF SinkInv

LEMMA ShedKeeps == ASSUME SinkInv, Sink!Shed PROVE SinkInv'
<1>1. /\ added' = added + 1 /\ dropped' = dropped \cup {added + 1}
      /\ UNCHANGED <<Pending, stored, lost>> /\ added \in Nat
  BY DEF SinkInv, Sink!Shed
<1> DEFINE S == RowsOf(stored \o Pending)
<1>2. /\ S \cup lost \cup dropped = 1..added
      /\ lost \cap dropped = {} /\ S \cap (lost \cup dropped) = {}
  BY DEF SinkInv
<1>3. S' = S /\ Sink!InOrder' /\ Pending' \in Seq(Nat) /\ stored' \in Seq(Nat)
  BY <1>1 DEF SinkInv, Sink!InOrder
<1> HIDE DEF S
<1>4. (1..added) \cup {added + 1} = 1..(added + 1) /\ added + 1 \notin 1..added
  BY <1>1
<1>5. /\ S \cup lost \cup (dropped \cup {added + 1}) = 1..(added + 1)
      /\ lost \cap (dropped \cup {added + 1}) = {}
      /\ S \cap (lost \cup (dropped \cup {added + 1})) = {}
  BY <1>2, <1>4
<1> QED
  BY <1>1, <1>3, <1>5 DEF SinkInv, S

\* Rows that are settled are stored after those before them, or taken out from between
\* those before and those after them.
LEMMA SettleKeeps ==
    ASSUME SinkInv, NEW n \in 1..Len(Pending), Sink!Deliver(n) \/ Sink!Lose(n) PROVE SinkInv'
<1> DEFINE a == SubSeq(Pending, 1, n)
           b == SubSeq(Pending, n + 1, Len(Pending))
<1>1. a \in Seq(Nat) /\ b \in Seq(Nat) /\ a \o b = Pending /\ stored \in Seq(Nat)
  BY Cut DEF SinkInv
<1>2. Pending' = b /\ UNCHANGED <<added, dropped>>
  BY DEF Sink!Deliver, Sink!Lose, Sink!Settle
<1>3. \/ stored' = stored \o a /\ lost' = lost
      \/ stored' = stored /\ lost' = lost \cup RowsOf(a)
  BY DEF Sink!Deliver, Sink!Lose, RowsOf, Sink!RowsOf
<1> HIDE DEF a, b
<1>4. Sink!Increasing(stored \o (a \o b))
  BY <1>1 DEF SinkInv, Sink!InOrder
<1>5. /\ stored \o (a \o b) = (stored \o a) \o b /\ stored \o a \in Seq(Nat)
      /\ RowsOf(stored \o (a \o b)) = RowsOf(stored) \cup RowsOf(a) \cup RowsOf(b)
      /\ RowsOf(stored \o b) = RowsOf(stored) \cup RowsOf(b)
      /\ Sink!Increasing(stored \o b)
      /\ RowsOf(a) \cap (RowsOf(stored) \cup RowsOf(b)) = {}
  BY <1>1, <1>4, ThreeParts
<1>6. stored \o Pending = stored \o (a \o b)
  BY <1>1
<1>7. CASE stored' = stored \o a /\ lost' = lost
  <2>1. (stored \o Pending)' = stored \o Pending
    BY <1>2, <1>5, <1>6, <1>7
  <2> QED
    BY <1>1, <1>2, <1>5, <1>7, <2>1 DEF SinkInv, Sink!InOrder
<1>8. CASE stored' = stored /\ lost' = lost \cup RowsOf(a)
  <2>1. (stored \o Pending)' = stored \o b
    BY <1>2, <1>8
  <2>2. Sink!InOrder'
    BY <1>5, <2>1 DEF Sink!InOrder
  <2>3. /\ (RowsOf(stored) \cup RowsOf(a) \cup RowsOf(b)) \cup lost \cup dropped = 1..added
        /\ lost \cap dropped = {}
        /\ (RowsOf(stored) \cup RowsOf(a) \cup RowsOf(b)) \cap (lost \cup dropped) = {}
    BY <1>5, <1>6 DEF SinkInv
  <2>4. /\ (RowsOf(stored) \cup RowsOf(b)) \cup (lost \cup RowsOf(a)) \cup dropped = 1..added
        /\ (lost \cup RowsOf(a)) \cap dropped = {}
        /\ (RowsOf(stored) \cup RowsOf(b)) \cap ((lost \cup RowsOf(a)) \cup dropped) = {}
    BY <1>5, <2>3
  <2> QED
    BY <1>1, <1>2, <1>5, <1>8, <2>1, <2>2, <2>4 DEF SinkInv
<1> QED
  BY <1>3, <1>7, <1>8

LEMMA SinkInvariance == Sink!Spec => []SinkInv
<1>1. Sink!Init => SinkInv
  <2> SUFFICES ASSUME Sink!Init PROVE SinkInv
    OBVIOUS
  <2>1. stored \o Pending = <<>> /\ Len(<<>>) = 0 /\ Pending \in Seq(Nat) /\ stored \in Seq(Nat)
    BY ConcatEmptySeq, EmptySeq DEF Sink!Init
  <2>2. RowsOf(<<>>) = {} /\ 1..0 = {}
    BY DEF RowsOf
  <2> QED
    BY <2>1, <2>2 DEF Sink!Init, SinkInv, Sink!InOrder, Sink!Increasing
<1>2. SinkInv /\ [Sink!Next]_(Sink!vars) => SinkInv'
  <2>1. ASSUME SinkInv, UNCHANGED Sink!vars PROVE SinkInv'
    <3>1. UNCHANGED <<added, Pending, stored, lost, dropped>>
      BY <2>1 DEF Sink!vars
    <3> QED
      BY <2>1, <3>1 DEF SinkInv, Sink!InOrder
  <2> QED
    BY <2>1, AcceptKeeps, ShedKeeps, SettleKeeps DEF Sink!Next
<1> QED
  BY <1>1, <1>2, PTL DEF Sink!Spec
\* The batch is flushed as soon as it is full: it never outgrows FlushSize but in
\* the drain at shutdown (buffer.go Run).
THEOREM BatchBounded == Spec => []BatchBound
<1>1. Init => BatchBound
  BY BufferAssumption, EmptySeq DEF Init, BatchBound
<1>2. SeqsOK /\ BatchBound /\ [Next]_vars => BatchBound'
  <2> SUFFICES ASSUME SeqsOK, BatchBound, [Next]_vars PROVE BatchBound'
    OBVIOUS
  <2> USE BufferAssumption DEF SeqsOK, BatchBound
  <2>1. Len(batch) \in Nat /\ Len(<<>>) = 0
    BY LenProperties, EmptySeq
  <2>2. CASE Add
    BY <2>2 DEF Add, Enqueue, Drop
  <2>3. CASE Receive
    <3> DEFINE b == Append(batch, Head(queue))
    <3>1. queue # <<>> /\ batch' = b /\ run = "loop"
          /\ run' = IF Full(b) THEN "flushing" ELSE "loop"
      BY <2>3 DEF Receive, Take
    <3>2. Len(b) = Len(batch) + 1
      BY <3>1, HeadTailProperties, AppendProperties
    <3> HIDE DEF b
    <3> QED
      BY <2>1, <3>1, <3>2 DEF Full
  <2>4. CASE Tick
    <3>1. Len(batch) # 0
      BY <2>4, EmptySeq DEF Tick
    <3> QED
      BY <2>1, <2>4, <3>1 DEF Tick
  <2>5. CASE StartDrain \/ Drain \/ EndDrain
    BY <2>5 DEF StartDrain, Drain, EndDrain, Take
  <2>6. CASE InsertStores \/ InsertFails
    BY <2>1, <2>6 DEF InsertStores, InsertFails, EndFlush
  <2>7. CASE Stop \/ UNCHANGED vars
    BY <2>7 DEF Stop, vars
  <2>8. CASE Exit
    BY <2>1, <2>8 DEF Exit
  <2> QED
    BY <2>2, <2>3, <2>4, <2>5, <2>6, <2>7, <2>8 DEF Next, Run
<1> QED
  BY <1>1, <1>2, SeqsInvariant, PTL DEF Spec

-----------------------------------------------------------------------------
(* How the batch and the channel make up the pending rows *)

\* A row enqueued is the youngest of the pending ones.
LEMMA EnqueuePending ==
    ASSUME NEW b \in Seq(Nat), NEW q \in Seq(Nat), NEW x \in Nat
    PROVE  b \o Append(q, x) = Append(b \o q, x)
<1>1. <<x>> \in Seq(Nat) /\ b \o q \in Seq(Nat)
  BY ConcatProperties
<1>2. Append(q, x) = q \o <<x>> /\ Append(b \o q, x) = (b \o q) \o <<x>>
  BY <1>1, AppendIsConcat
<1>3. (b \o q) \o <<x>> = b \o (q \o <<x>>)
  BY <1>1, ConcatAssociative, SMTT(60)
<1> QED
  BY <1>2, <1>3

\* A row that moves from the channel to the batch keeps its place.
LEMMA TakePending ==
    ASSUME NEW b \in Seq(Nat), NEW q \in Seq(Nat), q # <<>>
    PROVE  Append(b, Head(q)) \o Tail(q) = b \o q
<1>1. Head(q) \in Nat /\ Tail(q) \in Seq(Nat) /\ q = <<Head(q)>> \o Tail(q)
  BY HeadTailProperties, ConcatProperties
<1>2. <<Head(q)>> \in Seq(Nat) /\ Append(b, Head(q)) = b \o <<Head(q)>>
  BY <1>1, AppendIsConcat
<1>3. (b \o <<Head(q)>>) \o Tail(q) = b \o (<<Head(q)>> \o Tail(q))
  BY <1>1, <1>2, ConcatAssociative, SMTT(60)
<1> QED
  BY <1>1, <1>2, <1>3

\* The batch is the oldest part of the pending rows, the channel the rest.
LEMMA SplitPending ==
    ASSUME NEW b \in Seq(Nat), NEW q \in Seq(Nat)
    PROVE  /\ Len(b \o q) = Len(b) + Len(q)
           /\ SubSeq(b \o q, 1, Len(b)) = b
           /\ SubSeq(b \o q, Len(b) + 1, Len(b \o q)) = q
           /\ SubSeq(b \o q, 1, Len(b \o q)) = b \o q
           /\ SubSeq(b \o q, Len(b \o q) + 1, Len(b \o q)) = <<>>
           /\ RowsOf(b \o q) = RowsOf(b) \cup RowsOf(q)
<1>1. Len(b) \in Nat /\ Len(q) \in Nat /\ b \o q \in Seq(Nat) /\ Len(b \o q) = Len(b) + Len(q)
  BY LenProperties, ConcatProperties
<1>2. SubSeq(b \o q, 1, Len(b)) = b
  BY <1>1, SubSeqOfConcat1, SubSeqFull
<1>3. SubSeq(b \o q, Len(b) + 1, Len(b \o q)) = q
  BY <1>1, SubSeqOfConcat2, SubSeqFull
<1>4. SubSeq(b \o q, 1, Len(b \o q)) = b \o q
  BY <1>1, SubSeqFull
<1>5. SubSeq(b \o q, Len(b \o q) + 1, Len(b \o q)) = <<>>
  BY <1>1, SubSeqEmpty
<1>6. RowsOf(b \o q) = RowsOf(b) \cup RowsOf(q)
  BY RowsOfConcat
<1> QED
  BY <1>1, <1>2, <1>3, <1>4, <1>5, <1>6

-----------------------------------------------------------------------------
(* Every step of the buffer is a step of the sink or none *)

\* A step of the goroutine or the process that settles no row.
LEMMA QuietSteps ==
    ASSUME SeqsOK, Take("loop") \/ Take("flushing") \/ Take("draining")
                   \/ Tick \/ StartDrain \/ EndDrain \/ Stop \/ UNCHANGED vars
    PROVE  UNCHANGED Sink!vars
<1> USE DEF SeqsOK, Sink!vars, Pending
<1>1. ASSUME NEW where, Take(where) PROVE UNCHANGED Sink!vars
  BY <1>1, TakePending DEF Take
<1>2. CASE Tick \/ StartDrain \/ EndDrain \/ Stop \/ UNCHANGED vars
  BY <1>2 DEF Tick, StartDrain, EndDrain, Stop, vars
<1> QED
  BY <1>1, <1>2

\* A flush settles the rows of the batch, all of them the same way.
LEMMA FlushSteps ==
    ASSUME SeqsOK, InsertStores \/ InsertFails
    PROVE  [Sink!Next]_(Sink!vars)
<1> USE DEF SeqsOK
<1>1. /\ Len(batch) \in Nat /\ Len(queue) \in Nat
      /\ Len(Pending) = Len(batch) + Len(queue)
      /\ SubSeq(Pending, 1, Len(batch)) = batch
      /\ SubSeq(Pending, Len(batch) + 1, Len(Pending)) = queue
  BY SplitPending, LenProperties DEF Pending
<1>2. /\ batch' = <<>> /\ queue' = queue /\ added' = added /\ dropped' = dropped
      /\ Pending' = queue
  BY ConcatEmptySeq DEF InsertStores, InsertFails, EndFlush, Pending
<1>3. CASE batch = <<>>
  <2>1. Pending' = Pending
    BY <1>2, <1>3, ConcatEmptySeq DEF Pending
  <2>2. stored' = stored /\ lost' = lost
    <3>1. RowsOf(<<>>) = {}
      BY DEF RowsOf
    <3>2. CASE InsertFails
      BY <1>3, <3>1, <3>2 DEF InsertFails
    <3>3. CASE InsertStores
      BY <1>3, <3>3, ConcatEmptySeq DEF InsertStores
    <3> QED
      BY <3>2, <3>3
  <2> QED
    BY <1>2, <2>1, <2>2 DEF Sink!vars
<1>4. CASE batch # <<>>
  <2>1. Len(batch) \in 1..Len(Pending)
    BY <1>1, <1>4, EmptySeq
  <2>2. Sink!Settle(Len(batch))
    BY <1>1, <1>2, <2>1 DEF Sink!Settle
  <2>3. CASE InsertStores
    BY <1>1, <2>1, <2>2, <2>3 DEF InsertStores, Sink!Deliver, Sink!Next
  <2>4. CASE InsertFails
    BY <1>1, <2>1, <2>2, <2>4 DEF InsertFails, Sink!Lose, Sink!Next, RowsOf, Sink!RowsOf
  <2> QED
    BY <2>3, <2>4
<1> QED
  BY <1>3, <1>4

\* An end of the process loses every pending row.
LEMMA ExitSteps ==
    ASSUME SeqsOK, Exit
    PROVE  [Sink!Next]_(Sink!vars)
<1> USE DEF SeqsOK
<1>1. /\ Len(Pending) \in Nat
      /\ SubSeq(Pending, 1, Len(Pending)) = Pending
      /\ SubSeq(Pending, Len(Pending) + 1, Len(Pending)) = <<>>
      /\ RowsOf(Pending) = RowsOf(batch) \cup RowsOf(queue)
  <2>1. /\ SubSeq(Pending, 1, Len(Pending)) = Pending
        /\ SubSeq(Pending, Len(Pending) + 1, Len(Pending)) = <<>>
        /\ RowsOf(Pending) = RowsOf(batch) \cup RowsOf(queue)
    BY SplitPending DEF Pending
  <2>2. Len(Pending) \in Nat
    BY ConcatProperties, LenProperties DEF Pending
  <2> QED
    BY <2>1, <2>2
<1>2. /\ Pending' = <<>> /\ lost' = lost \cup RowsOf(Pending)
      /\ added' = added /\ stored' = stored /\ dropped' = dropped
  BY <1>1, ConcatEmptySeq DEF Exit, Pending
<1>3. CASE Len(Pending) = 0
  <2>1. Pending = <<>>
    BY <1>3, EmptySeq, ConcatProperties DEF Pending
  <2>2. RowsOf(Pending) = {}
    BY <2>1 DEF RowsOf
  <2> QED
    BY <1>2, <2>1, <2>2 DEF Sink!vars
<1>4. CASE Len(Pending) > 0
  <2>1. Len(Pending) \in 1..Len(Pending)
    BY <1>1, <1>4
  <2>2. Sink!Lose(Len(Pending))
    BY <1>1, <1>2, <2>1 DEF Sink!Lose, Sink!Settle, RowsOf, Sink!RowsOf
  <2> QED
    BY <2>1, <2>2 DEF Sink!Next
<1> QED
  BY <1>1, <1>3, <1>4

\* An Add puts its row last or, when the channel is full, sheds it.
LEMMA AddSteps ==
    ASSUME SeqsOK, Add
    PROVE  [Sink!Next]_(Sink!vars)
<1> USE DEF SeqsOK
<1>1. CASE Enqueue
  <2>1. Pending' = Append(Pending, added + 1)
    BY <1>1, EnqueuePending DEF Enqueue, Pending
  <2> QED
    BY <1>1, <2>1 DEF Enqueue, Sink!Accept, Sink!Next
<1>2. CASE Drop
  <2>1. Len(Pending) >= QueueCap
    <3>1. /\ Len(batch) \in Nat /\ Len(queue) \in Nat /\ QueueCap \in Nat
          /\ Len(Pending) = Len(batch) + Len(queue)
      BY BufferAssumption, SplitPending, LenProperties DEF Pending, QueueCap
    <3>2. Len(queue) >= QueueCap
      BY <1>2 DEF Drop
    <3> HIDE DEF QueueCap
    <3> QED
      BY <3>1, <3>2
  <2>2. Pending' = Pending
    BY <1>2 DEF Drop, Pending
  <2> QED
    BY <1>2, <2>1, <2>2 DEF Drop, Sink!Shed, Sink!Next
<1> QED
  BY <1>1, <1>2 DEF Add

\* The buffer implements the abstract sink: first in first out, at most once, a
\* batch settled as one, rows shed only when QueueCap rows wait.
THEOREM BufferImplementsSink == Spec => ImplementsSink
<1>1. Init => Sink!Init
  BY ConcatEmptySeq, EmptySeq DEF Init, Sink!Init, Pending
<1>2. SeqsOK /\ [Next]_vars => [Sink!Next]_(Sink!vars)
  <2> SUFFICES ASSUME SeqsOK, [Next]_vars PROVE [Sink!Next]_(Sink!vars)
    OBVIOUS
  <2>1. CASE Add
    BY <2>1, AddSteps
  <2>2. CASE Run
    <3>1. CASE InsertStores \/ InsertFails
      BY <3>1, FlushSteps
    <3>2. CASE Receive \/ Drain
      BY <3>2, QuietSteps DEF Receive, Drain
    <3>3. CASE Tick \/ StartDrain \/ EndDrain
      BY <3>3, QuietSteps
    <3> QED
      BY <2>2, <3>1, <3>2, <3>3 DEF Run
  <2>3. CASE Exit
    BY <2>3, ExitSteps
  <2>4. CASE Stop \/ UNCHANGED vars
    BY <2>4, QuietSteps
  <2> QED
    BY <2>1, <2>2, <2>3, <2>4 DEF Next
<1> QED
  BY <1>1, <1>2, SeqsInvariant, PTL DEF Spec, ImplementsSink, Sink!Spec

LEMMA BufferKeepsSinkInv == Spec => []SinkInv
  BY BufferImplementsSink, SinkInvariance, PTL DEF ImplementsSink

\* Rows are stored in the order of the Add calls, each at most once, and before
\* every row that still waits (buffer.go Run, whatever fails or restarts).
THEOREM RowsStoredInOrder == Spec => []StoredInOrder
<1>1. SinkInv => StoredInOrder
  BY DEF SinkInv, StoredInOrder
<1> QED
  BY <1>1, BufferKeepsSinkInv, PTL

\* Every row that was added waits, is stored, was lost or was dropped, exactly one of
\* them and once, whatever fails or restarts.
THEOREM RowsAccountedFor == Spec => []EachRowOnce
<1>1. SinkInv => EachRowOnce
  <2> SUFFICES ASSUME SinkInv PROVE EachRowOnce
    OBVIOUS
  <2> DEFINE S == RowsOf(stored \o Pending)
  <2>1. stored \o Pending \in Seq(Nat) /\ Len(stored \o Pending) = Len(stored) + Len(Pending)
        /\ Len(stored) \in Nat /\ Len(Pending) \in Nat
    BY ConcatProperties, LenProperties DEF SinkInv
  <2>2. IsFiniteSet(S) /\ Cardinality(S) = Len(stored) + Len(Pending)
    BY <2>1, IncreasingCounts DEF SinkInv, Sink!InOrder
  <2>3. S = RowsOf(stored) \cup RowsOf(Pending)
    BY RowsOfConcat DEF SinkInv
  <2>4. /\ S \cup lost \cup dropped = 1..added
        /\ lost \cap dropped = {} /\ S \cap (lost \cup dropped) = {}
        /\ added \in Nat
    BY DEF SinkInv
  <2> HIDE DEF S
  <2>5. IsFiniteSet(1..added) /\ Cardinality(1..added) = added
    <3>1. 1 \in Int /\ added \in Int /\ (IF 1 > added THEN 0 ELSE added - 1 + 1) = added
      BY <2>4
    <3> QED
      BY <3>1, FS_Interval
  <2>6. IsFiniteSet(lost) /\ IsFiniteSet(dropped)
    <3>1. lost \subseteq 1..added /\ dropped \subseteq 1..added
      BY <2>4
    <3> QED
      BY <2>5, <3>1, FS_Subset
  <2>7. Cardinality(S) + Cardinality(lost) + Cardinality(dropped) = added
    <3>1. Cardinality({}) = 0
      BY FS_EmptySet
    <3>2. IsFiniteSet(S \cup lost) /\ S \cap lost = {} /\ (S \cup lost) \cap dropped = {}
      BY <2>2, <2>4, <2>6, FS_Union
    <3>3. Cardinality(S \cup lost) = Cardinality(S) + Cardinality(lost) - 0
      BY <2>2, <2>6, <3>1, <3>2, FS_Union
    <3>4. Cardinality((S \cup lost) \cup dropped)
            = Cardinality(S \cup lost) + Cardinality(dropped) - 0
      BY <2>6, <3>1, <3>2, FS_Union
    <3>5. Cardinality(S) \in Nat /\ Cardinality(lost) \in Nat /\ Cardinality(dropped) \in Nat
      BY <2>2, <2>6, FS_CardinalityType
    <3>6. Cardinality((S \cup lost) \cup dropped) = added
      BY <2>4, <2>5
    <3> QED
      BY <3>3, <3>4, <3>5, <3>6
  <2>8. Cardinality(lost) \in Nat /\ Cardinality(dropped) \in Nat
    BY <2>6, FS_CardinalityType
  <2> QED
    BY <2>1, <2>2, <2>3, <2>4, <2>7, <2>8 DEF EachRowOnce
<1> QED
  BY <1>1, BufferKeepsSinkInv, PTL
=============================================================================
