---------------------------- MODULE Billing_proofs ----------------------------
(***************************************************************************)
(* Theorems about Billing, for any number of plans, payments, callbacks    *)
(* and cron runs that overlap.                                             *)
(***************************************************************************)
EXTENDS Billing, TLAPS

\* The local state of a worker.
Records == [at : Steps, tran : Trans \cup {"none"}, plan : Plans \cup {"free"},
            token : BOOLEAN, end : Nat, late : BOOLEAN]

\* Where a worker has a payment in hand.
Holding == Steps \ {"idle", "creating"}

\* What a worker knows of its payment is still true of it: the row is there, with the
\* plan the worker remembers.  Callbacks work on orders, the cron on renewals.
WorkerInv(w) ==
    /\ work[w].at = "idle" => work[w] = Idle
    /\ work[w].at = "creating" => work[w].tran = "none"
    /\ work[w].at \in {"creating", "charging"} => w \in Crons
    /\ work[w].at # "idle" => work[w].plan \in Plans
    /\ work[w].at \in Holding =>
          /\ work[w].tran \in IF w \in Calls THEN Orders ELSE Renewals
          /\ pay[work[w].tran].status # "none"
          /\ pay[work[w].tran].plan = work[w].plan

\* No two cron runs have the same payment in hand.
RenewalsApart ==
    \A k, j \in Crons :
        work[k].at \in Holding /\ work[j].at \in Holding /\ work[k].tran = work[j].tran => k = j

\* A payment is of a paid plan; one that was never created was neither collected nor
\* activated.
PaymentInv(t) ==
    IF pay[t].status = "none" THEN gateway[t] = "open" /\ activations[t] = 0
                              ELSE pay[t].plan \in Plans

\* Whoever is past the gateway's answer has a collected payment in hand; a charge that
\* is still to come is of a renewal that has done nothing yet.
CollectedInv(w) ==
    /\ work[w].at \in {"valid", "charged", "marked", "activating"} =>
          gateway[work[w].tran] = "paid"
    /\ work[w].at = "charging" =>
          gateway[work[w].tran] = "open" /\ activations[work[w].tran] = 0

\* An end that is about to be written is at most one more cycle.
EndInv(w) ==
    work[w].at = "activating" => work[w].end <= now + Period * cycles + Period

\* A payment that has extended the subscription, or is about to, has kept its success,
\* unless it was overwritten; a call that came late read a status that was.
MarkedInv(w) ==
    /\ work[w].at \in {"marked", "activating"} =>
          pay[work[w].tran].status = "success" \/ work[w].tran \in reopened
    /\ work[w].late => work[w].tran \in reopened

ActivatedInv(t) == activations[t] > 0 => pay[t].status = "success" \/ t \in reopened

Shape ==
    /\ TypeOK
    /\ \A w \in Workers : WorkerInv(w)
    /\ RenewalsApart
    /\ \A t \in Trans : PaymentInv(t)

IInv ==
    /\ Shape
    /\ \A w \in Workers : CollectedInv(w) /\ EndInv(w) /\ MarkedInv(w)
    /\ \A t \in Trans : ActivatedInv(t)
    /\ PlanWasPaid /\ OneCyclePerActivation /\ PaidMeansActivated
-----------------------------------------------------------------------------
(* The shape of the state *)

\* A worker that is not idle has a paid plan in hand, one past its first steps a payment.
LEMMA InHand ==
    ASSUME Shape, NEW w \in Workers
    PROVE  /\ work[w].at \notin {"idle", "creating"} => work[w].tran \in Trans
           /\ work[w].at # "idle" => work[w].plan \in Plans
           /\ work[w].at \in Steps
  BY DEF Shape, TypeOK, WorkerInv, Holding, Trans

\* Checkout and the redirects change payments only.
LEMMA ShapePayments ==
    ASSUME Shape, NEW t \in Orders,
           Settle(t) \/ FailOrCancel(t) \/ \E p \in Plans : Checkout(t, p)
    PROVE  Shape'
<1> USE DEF Shape, Trans
<1>1. CASE \E p \in Plans : Checkout(t, p)
  <2> PICK p \in Plans : Checkout(t, p)
    BY <1>1
  <2> USE DEF Checkout, CreatePayment
  <2>1. TypeOK'
    BY DEF TypeOK, Statuses
  <2>2. \A w \in Workers : WorkerInv(w)'
    BY DEF TypeOK, WorkerInv, Workers, Holding
  <2>3. RenewalsApart'
    BY DEF RenewalsApart
  <2>4. \A s \in Trans : PaymentInv(s)'
    BY DEF TypeOK, PaymentInv
  <2> QED
    BY <2>1, <2>2, <2>3, <2>4
<1>2. CASE Settle(t)
  <2> USE <1>2 DEF Settle
  <2>1. TypeOK'
    BY DEF TypeOK
  <2>2. (\A w \in Workers : WorkerInv(w)') /\ RenewalsApart'
    BY DEF WorkerInv, RenewalsApart
  <2>3. \A s \in Trans : PaymentInv(s)'
    BY DEF TypeOK, PaymentInv
  <2> QED
    BY <2>1, <2>2, <2>3
<1>3. CASE FailOrCancel(t)
  <2> USE <1>3 DEF FailOrCancel, MarkPayment
  <2>1. TypeOK'
    BY DEF TypeOK, Statuses
  <2>2. \A w \in Workers : WorkerInv(w)'
    BY DEF TypeOK, WorkerInv, Workers, Holding
  <2>3. RenewalsApart'
    BY DEF RenewalsApart
  <2>4. \A s \in Trans : PaymentInv(s)'
    BY DEF TypeOK, PaymentInv
  <2> QED
    BY <2>1, <2>2, <2>3, <2>4
<1> QED
  BY <1>1, <1>2, <1>3

\* A call of finalizePayment takes an order in hand.
LEMMA ShapeFinalize == ASSUME Shape, NEW c \in Calls, NEW t \in Orders, Finalize(c, t) PROVE Shape'
<1> USE BillingAssumption DEF Shape, Trans, Workers
<1> DEFINE late == activations[t] > 0
           new == [at |-> "validating", tran |-> t, plan |-> pay[t].plan, token |-> FALSE,
                   end |-> 0, late |-> late]
<1>1. work' = [work EXCEPT ![c] = new] /\ UNCHANGED <<now, sub, pay, gateway, activations>>
  BY DEF Finalize
<1> HIDE DEF late
<1>2. pay[t].plan \in Plans \cup {"free"} /\ late \in BOOLEAN
  BY DEF TypeOK, late
<1>3. pay[t].plan \in Plans /\ pay[t].status # "none"
  BY DEF PaymentInv, Finalize
<1>4. TypeOK'
  BY <1>1, <1>2 DEF TypeOK, Steps, Finalize
<1>5. \A w \in Workers : WorkerInv(w)'
  BY <1>1, <1>3 DEF TypeOK, WorkerInv, Holding, Steps
<1>6. RenewalsApart'
  BY <1>1 DEF TypeOK, RenewalsApart
<1>7. \A s \in Trans : PaymentInv(s)'
  BY <1>1 DEF PaymentInv
<1> QED
  BY <1>4, <1>5, <1>6, <1>7

\* A worker moves on to another step with the payment it has in hand.
MovesOn(w, to) ==
    /\ work' \in [Workers -> Records]
    /\ \A v \in Workers \ {w} : work'[v] = work[v]
    /\ work'[w].at = to
    /\ work'[w].tran = work[w].tran /\ work'[w].plan = work[w].plan
    /\ work'[w].late = work[w].late

\* So does a step that gives a worker another step, token or end.
LEMMA StepOf ==
    ASSUME work \in [Workers -> Records], NEW w \in Workers,
           NEW to \in Steps, NEW token \in BOOLEAN, NEW end \in Nat,
           \/ work' = [work EXCEPT ![w].at = to]
           \/ work' = [work EXCEPT ![w].at = to, ![w].token = token]
           \/ work' = [work EXCEPT ![w].at = to, ![w].end = end]
    PROVE  MovesOn(w, to)
<1> HIDE DEF Steps
<1>1. CASE work' = [work EXCEPT ![w].at = to]
  BY <1>1 DEF MovesOn, Records
<1>2. CASE work' = [work EXCEPT ![w].at = to, ![w].token = token]
  <2> DEFINE new == [work[w] EXCEPT !.at = to, !.token = token]
  <2>1. work[w] \in Records
    OBVIOUS
  <2>2. new \in Records
    BY <2>1 DEF Records
  <2>3. new.at = to /\ new.tran = work[w].tran /\ new.plan = work[w].plan
        /\ new.late = work[w].late
    BY <2>1 DEF Records
  <2>4. work' = [work EXCEPT ![w] = new]
    BY <1>2
  <2> HIDE DEF new
  <2> QED
    BY <2>2, <2>3, <2>4 DEF MovesOn
<1>3. CASE work' = [work EXCEPT ![w].at = to, ![w].end = end]
  <2> DEFINE new == [work[w] EXCEPT !.at = to, !.end = end]
  <2>1. work[w] \in Records
    OBVIOUS
  <2>2. new \in Records
    BY <2>1 DEF Records
  <2>3. new.at = to /\ new.tran = work[w].tran /\ new.plan = work[w].plan
        /\ new.late = work[w].late
    BY <2>1 DEF Records
  <2>4. work' = [work EXCEPT ![w] = new]
    BY <1>3
  <2> HIDE DEF new
  <2> QED
    BY <2>2, <2>3, <2>4 DEF MovesOn
<1> QED
  BY <1>1, <1>2, <1>3

\* Where each of these steps takes the worker.
LEMMA Moves ==
    ASSUME TypeOK, NEW w \in Workers
    PROVE  /\ Validate(w) =>
                 MovesOn(w, IF gateway[work[w].tran] = "paid" THEN "valid" ELSE "invalid")
           /\ ReadSub(w) => MovesOn(w, "activating")
           /\ MarkValid(w) => MovesOn(w, "marked")
           /\ MarkCharged(w) => MovesOn(w, "marked")
           /\ RenewalThrows(w) => MovesOn(w, "failing")
           /\ MarkRenewalFailed(w) => MovesOn(w, "flagging")
           /\ ChargeToken(w) => MovesOn(w, "charged") \/ MovesOn(w, "failing")
<1>1. work \in [Workers -> Records]
  BY DEF TypeOK, Records
<1>2. ASSUME Validate(w)
      PROVE  MovesOn(w, IF gateway[work[w].tran] = "paid" THEN "valid" ELSE "invalid")
  <2> DEFINE to == IF gateway[work[w].tran] = "paid" THEN "valid" ELSE "invalid"
  <2>1. PICK token \in BOOLEAN : work' = [work EXCEPT ![w].at = to, ![w].token = token]
    BY <1>2 DEF Validate
  <2>2. to \in Steps
    BY DEF Steps
  <2> HIDE DEF to
  <2>3. MovesOn(w, to)
    BY <1>1, <2>1, <2>2, StepOf
  <2> QED
    BY <2>3 DEF to
<1>3. ASSUME ReadSub(w) PROVE MovesOn(w, "activating")
  <2> DEFINE end == Base(work[w].plan) + Period
  <2>1. work' = [work EXCEPT ![w].at = "activating", ![w].end = end]
    BY <1>3 DEF ReadSub
  <2>2. end \in Nat
    BY BillingAssumption DEF Base, TypeOK
  <2>3. "activating" \in Steps
    BY DEF Steps
  <2> HIDE DEF end
  <2> QED
    BY <1>1, <2>1, <2>2, <2>3, StepOf
<1>4. {"marked", "failing", "flagging", "charged"} \subseteq Steps /\ TRUE \in BOOLEAN /\ 0 \in Nat
  BY DEF Steps
<1>5. MarkValid(w) => MovesOn(w, "marked")
  BY <1>1, <1>4, StepOf DEF MarkValid
<1>6. MarkCharged(w) => MovesOn(w, "marked")
  BY <1>1, <1>4, StepOf DEF MarkCharged
<1>7. RenewalThrows(w) => MovesOn(w, "failing")
  BY <1>1, <1>4, StepOf DEF RenewalThrows
<1>8. MarkRenewalFailed(w) => MovesOn(w, "flagging")
  BY <1>1, <1>4, StepOf DEF MarkRenewalFailed
<1>9. ChargeToken(w) => MovesOn(w, "charged") \/ MovesOn(w, "failing")
  BY <1>1, <1>4, StepOf DEF ChargeToken
<1> QED
  BY <1>2, <1>3, <1>5, <1>6, <1>7, <1>8, <1>9

\* What happens to the payments while a worker moves on: rows stay, with their plan, and
\* a payment that was never created stays untouched.
PaymentsStay ==
    /\ \A t \in Trans : /\ pay'[t].plan = pay[t].plan
                        /\ pay'[t].status = "none" <=> pay[t].status = "none"
                        /\ pay[t].status = "none" => gateway'[t] = gateway[t]
    /\ activations' \in [Trans -> Nat]
    /\ \A t \in Trans : pay[t].status = "none" => activations'[t] = activations[t]

\* A worker that moves on with its payment keeps the shape of the state.
LEMMA ShapeMoves ==
    ASSUME Shape, TypeOK', PaymentsStay, NEW w \in Workers, NEW to \in Holding \ {"charging"},
           work[w].at \in Holding, MovesOn(w, to)
    PROVE  Shape'
<1> USE DEF Shape
<1>1. \A v \in Workers : WorkerInv(v)'
  <2> SUFFICES ASSUME NEW v \in Workers PROVE WorkerInv(v)'
    OBVIOUS
  <2>1. work[v].at \in Holding => work[v].tran \in Trans
    BY DEF TypeOK, WorkerInv, Holding, Trans
  <2>2. CASE v = w
    BY <2>1, <2>2 DEF WorkerInv, MovesOn, Holding, PaymentsStay
  <2>3. CASE v # w
    BY <2>1, <2>3 DEF WorkerInv, MovesOn, Holding, PaymentsStay
  <2> QED
    BY <2>2, <2>3
<1>2. RenewalsApart'
  BY DEF RenewalsApart, MovesOn, Workers, Holding
<1>3. \A t \in Trans : PaymentInv(t)'
  BY DEF PaymentInv, PaymentsStay
<1> QED
  BY <1>1, <1>2, <1>3

\* A worker that ends keeps the shape of the state.
LEMMA ShapeEnds ==
    ASSUME Shape, TypeOK', PaymentsStay, NEW w \in Workers, work' = [work EXCEPT ![w] = Idle]
    PROVE  Shape'
<1> USE DEF Shape
<1>1. \A v \in Workers : WorkerInv(v)'
  <2> SUFFICES ASSUME NEW v \in Workers PROVE WorkerInv(v)'
    OBVIOUS
  <2>1. work[v].at \in Holding => work[v].tran \in Trans
    BY DEF TypeOK, WorkerInv, Holding, Trans
  <2>2. work'[v] = IF v = w THEN Idle ELSE work[v]
    BY DEF TypeOK
  <2>3. CASE v = w
    BY <2>2, <2>3 DEF WorkerInv, Holding, Idle
  <2>4. CASE v # w
    BY <2>1, <2>2, <2>4 DEF WorkerInv, PaymentsStay
  <2> QED
    BY <2>3, <2>4
<1>2. RenewalsApart'
  BY DEF TypeOK, RenewalsApart, Holding, Idle, Workers
<1>3. \A t \in Trans : PaymentInv(t)'
  BY DEF PaymentInv, PaymentsStay
<1> QED
  BY <1>1, <1>2, <1>3

\* MarkPayment gives a row another status, and remembers the success it takes from it.
LEMMA Marks ==
    ASSUME TypeOK, NEW t \in Trans, pay[t].status # "none", NEW s \in Statuses \ {"none"},
           MarkPayment(t, s)
    PROVE  /\ pay' \in [Trans -> [status : Statuses, plan : Plans \cup {"free"}]]
           /\ reopened \subseteq reopened' /\ reopened' \subseteq Trans
           /\ \A u \in Trans : /\ pay'[u].plan = pay[u].plan
                               /\ pay'[u].status = "none" <=> pay[u].status = "none"
                               /\ pay[u].status = "success" =>
                                      pay'[u].status = "success" \/ u \in reopened'
                               /\ u # t => pay'[u] = pay[u]
           /\ pay'[t].status = s
  BY DEF TypeOK, MarkPayment, Statuses

\* The cron selects a due subscription, which is on a paid plan.
LEMMA ShapeSelectDue == ASSUME Shape, NEW k \in Crons, SelectDue(k) PROVE Shape'
<1> USE BillingAssumption DEF Shape, Trans, Workers
<1>1. sub.plan \in Plans
  BY DEF TypeOK, SelectDue, Due
<1>2. TypeOK'
  BY <1>1 DEF TypeOK, SelectDue, Steps
<1>3. \A w \in Workers : WorkerInv(w)'
  BY <1>1 DEF TypeOK, SelectDue, WorkerInv, Holding
<1>4. RenewalsApart'
  BY DEF TypeOK, SelectDue, RenewalsApart, Holding
<1>5. \A t \in Trans : PaymentInv(t)'
  BY DEF SelectDue, PaymentInv
<1> QED
  BY <1>2, <1>3, <1>4, <1>5

\* The cron creates a payment of its own, which no other run has in hand.
LEMMA ShapeCreateRenewal ==
    ASSUME Shape, NEW k \in Crons, NEW t \in Renewals, CreateRenewal(k, t) PROVE Shape'
<1> USE BillingAssumption DEF Shape, Trans, Workers, CreateRenewal, CreatePayment
<1>1. TypeOK'
  BY DEF TypeOK, WorkerInv, Steps, Statuses
<1>2. \A w \in Workers : WorkerInv(w)'
  BY DEF TypeOK, WorkerInv, Holding, Steps
<1>3. RenewalsApart'
  BY DEF TypeOK, RenewalsApart, WorkerInv, Holding
<1>4. \A s \in Trans : PaymentInv(s)'
  BY DEF TypeOK, PaymentInv, WorkerInv
<1> QED
  BY <1>1, <1>2, <1>3, <1>4

\* The steps that leave the payments and the workers alone.
LEMMA ShapeAround == ASSUME Shape, SetAutoRenew \/ Tick PROVE Shape'
<1> USE DEF Shape
<1>1. TypeOK'
  <2>1. CASE SetAutoRenew
    <3>1. sub' = [sub EXCEPT !.autoRenew = ~sub.autoRenew] /\ (~sub.autoRenew) \in BOOLEAN
      BY <2>1 DEF SetAutoRenew
    <3>2. sub' \in [plan : Plans \cup {"free"}, end : Nat, autoRenew : BOOLEAN,
                    token : BOOLEAN, status : {"active", "past_due"}] /\ sub'.plan = sub.plan
      BY <3>1 DEF TypeOK
    <3> QED
      BY <2>1, <3>2, BillingAssumption DEF TypeOK, SetAutoRenew
  <2>2. CASE Tick
    BY <2>2, BillingAssumption DEF TypeOK, Tick
  <2> QED
    BY <2>1, <2>2
<1>2. (\A w \in Workers : WorkerInv(w)') /\ RenewalsApart' /\ (\A t \in Trans : PaymentInv(t)')
  BY DEF SetAutoRenew, Tick, WorkerInv, RenewalsApart, PaymentInv
<1> QED
  BY <1>1, <1>2

\* The upsert puts the org on the worker's plan and counts for its payment alone.
LEMMA Upserts ==
    ASSUME Shape, NEW w \in Workers, Upsert(w)
    PROVE  /\ work[w].at \in Holding /\ work[w].tran \in Trans
           /\ sub' \in [plan : Plans \cup {"free"}, end : Nat, autoRenew : BOOLEAN,
                        token : BOOLEAN, status : {"active", "past_due"}]
           /\ sub'.plan \in Plans
           /\ activations' \in [Trans -> Nat] /\ activations'[work[w].tran] > 0
           /\ \A t \in Trans \ {work[w].tran} : activations'[t] = activations[t]
           /\ \A t \in Trans : activations[t] > 0 => activations'[t] > 0
           /\ cycles' \in Nat /\ cycles' = cycles + 1
<1>1. TypeOK /\ WorkerInv(w) /\ work[w].at \in Steps
  BY DEF Shape, TypeOK
<1>2. work[w].at \in Holding
  BY DEF Upsert, Holding, Steps
<1>3. work[w].tran \in Trans /\ work[w].plan \in Plans
  BY <1>1, <1>2 DEF WorkerInv, Trans, Holding
<1> QED
  BY <1>1, <1>2, <1>3 DEF TypeOK, Upsert

\* The steps of a worker that goes on with its payment.
LEMMA ShapeGoesOn ==
    ASSUME Shape, NEW w \in Workers,
           \/ Validate(w) \/ ReadSub(w) \/ MarkValid(w)
           \/ MarkCharged(w) \/ RenewalThrows(w) \/ MarkRenewalFailed(w) \/ ChargeToken(w)
    PROVE  Shape'
<1>1. TypeOK /\ WorkerInv(w) /\ work[w].at \in Steps
  BY DEF Shape, TypeOK
<1>2. work[w].at \in Holding
  BY <1>1 DEF Holding, Steps, Validate, ReadSub, MarkValid, MarkCharged, RenewalThrows,
              MarkRenewalFailed, ChargeToken
<1>3. work[w].tran \in Trans /\ pay[work[w].tran].status # "none"
  BY <1>1, <1>2 DEF WorkerInv, Trans
<1>4. PICK to \in Holding \ {"charging"} : MovesOn(w, to)
  BY <1>1, Moves DEF Holding, Steps
<1>5. work' \in [Workers -> Records]
  BY <1>4 DEF MovesOn
<1>6. CASE Validate(w) \/ ReadSub(w)
  <2>1. TypeOK'
    <3>1. UNCHANGED <<now, sub, pay, gateway, calls, toggles, errors, activations, cycles,
                      reopened, stranded>>
      BY <1>6 DEF Validate, ReadSub
    <3> QED
      BY <1>1, <1>5, <3>1 DEF TypeOK, Records
  <2>2. PaymentsStay
    BY <1>1, <1>6 DEF TypeOK, PaymentsStay, Validate, ReadSub
  <2> QED
    BY <1>2, <1>4, <2>1, <2>2, ShapeMoves
<1>7. CASE RenewalThrows(w)
  <2>1. errors' \in 0..MaxErrors /\ UNCHANGED <<now, pay, gateway, calls, toggles, reopened>>
    BY <1>1, <1>7, BillingAssumption DEF TypeOK, RenewalThrows
  <2>2. CASE UNCHANGED <<sub, activations, cycles>> /\ stranded' = stranded \cup {work[w].tran}
    <3>1. TypeOK'
      BY <1>1, <1>3, <1>5, <2>1, <2>2 DEF TypeOK, Records
    <3>2. PaymentsStay
      BY <1>1, <2>1, <2>2 DEF TypeOK, PaymentsStay
    <3> QED
      BY <1>2, <1>4, <3>1, <3>2, ShapeMoves
  <2>3. CASE Upsert(w) /\ UNCHANGED stranded
    <3>1. TypeOK'
      BY <1>1, <1>5, <2>1, <2>3, Upserts, BillingAssumption DEF TypeOK, Records
    <3>2. PaymentsStay
      BY <1>1, <1>3, <2>1, <2>3, Upserts DEF TypeOK, PaymentsStay
    <3> QED
      BY <1>2, <1>4, <3>1, <3>2, ShapeMoves
  <2> QED
    BY <1>7, <2>2, <2>3 DEF RenewalThrows
<1>8. CASE MarkValid(w) \/ MarkCharged(w) \/ MarkRenewalFailed(w)
  <2>1. PICK s \in Statuses \ {"none"} : MarkPayment(work[w].tran, s)
    BY <1>8 DEF MarkValid, MarkCharged, MarkRenewalFailed, Statuses
  <2>2. /\ pay' \in [Trans -> [status : Statuses, plan : Plans \cup {"free"}]]
        /\ reopened' \subseteq Trans
        /\ \A u \in Trans : /\ pay'[u].plan = pay[u].plan
                            /\ pay'[u].status = "none" <=> pay[u].status = "none"
    BY <1>1, <1>3, <2>1, Marks
  <2>3. UNCHANGED <<now, sub, gateway, calls, toggles, errors, activations, cycles, stranded>>
    BY <1>8 DEF MarkValid, MarkCharged, MarkRenewalFailed
  <2>4. TypeOK'
    BY <1>1, <1>5, <2>2, <2>3 DEF TypeOK, Records
  <2>5. PaymentsStay
    BY <1>1, <2>2, <2>3 DEF TypeOK, PaymentsStay
  <2> QED
    BY <1>2, <1>4, <2>4, <2>5, ShapeMoves
<1>9. CASE ChargeToken(w)
  <2>1. /\ gateway' \in [Trans -> {"open", "paid", "declined"}]
        /\ \A u \in Trans \ {work[w].tran} : gateway'[u] = gateway[u]
        /\ errors' \in 0..MaxErrors
        /\ stranded' \subseteq Trans
    <3>1. \/ errors' = errors
          \/ errors < MaxErrors /\ errors' = errors + 1
      BY <1>9 DEF ChargeToken
    <3>2. errors \in 0..MaxErrors /\ MaxErrors \in Nat
      BY <1>1, BillingAssumption DEF TypeOK
    <3>3. errors' \in 0..MaxErrors
      BY ONLY <3>1, <3>2
    <3>4. PICK g \in {"paid", "declined"} : gateway' = [gateway EXCEPT ![work[w].tran] = g]
      BY <1>9 DEF ChargeToken
    <3>5. gateway \in [Trans -> {"open", "paid", "declined"}]
      BY <1>1 DEF TypeOK
    <3>6. stranded' \subseteq Trans
      BY <1>1, <1>3, <1>9 DEF TypeOK, ChargeToken
    <3> QED
      BY <3>3, <3>4, <3>5, <3>6
  <2>2. UNCHANGED <<now, sub, pay, calls, toggles, activations, cycles, reopened>>
    BY <1>9 DEF ChargeToken
  <2>3. TypeOK'
    BY <1>1, <1>5, <2>1, <2>2 DEF TypeOK, Records
  <2>4. PaymentsStay
    BY <1>1, <1>3, <2>1, <2>2 DEF TypeOK, PaymentsStay
  <2> QED
    BY <1>2, <1>4, <2>3, <2>4, ShapeMoves
<1> QED
  BY <1>6, <1>7, <1>8, <1>9

\* The steps that end a worker's call or run.
LEMMA ShapeStops ==
    ASSUME Shape, NEW w \in Workers, MarkInvalid(w) \/ WriteSub(w) \/ FlagPastDue(w) \/ Die(w)
    PROVE  Shape'
<1>1. TypeOK /\ WorkerInv(w) /\ work[w].at \in Steps
  BY DEF Shape, TypeOK
<1>2. work' = [work EXCEPT ![w] = Idle]
  BY DEF MarkInvalid, WriteSub, FlagPastDue, Die
<1>3. work' \in [Workers -> Records]
  BY <1>1, <1>2 DEF TypeOK, Records, Idle, Steps
<1>4. work[w].at \in Holding =>
          work[w].tran \in Trans /\ work[w].plan \in Plans /\ pay[work[w].tran].status # "none"
  BY <1>1 DEF WorkerInv, Trans, Holding
<1>5. CASE MarkInvalid(w)
  <2>1. work[w].at \in Holding /\ MarkPayment(work[w].tran, "failed")
    BY <1>5 DEF MarkInvalid, Holding, Steps
  <2>2. /\ pay' \in [Trans -> [status : Statuses, plan : Plans \cup {"free"}]]
        /\ reopened' \subseteq Trans
        /\ \A u \in Trans : /\ pay'[u].plan = pay[u].plan
                            /\ pay'[u].status = "none" <=> pay[u].status = "none"
    BY <1>1, <1>4, <2>1, Marks DEF Statuses
  <2>3. UNCHANGED <<now, sub, gateway, calls, toggles, errors, activations, cycles, stranded>>
    BY <1>5 DEF MarkInvalid
  <2>4. TypeOK'
    BY <1>1, <1>3, <2>2, <2>3 DEF TypeOK, Records
  <2>5. PaymentsStay
    BY <1>1, <2>2, <2>3 DEF TypeOK, PaymentsStay
  <2> QED
    BY <1>2, <2>4, <2>5, ShapeEnds
<1>6. CASE WriteSub(w)
  <2>1. Upsert(w) /\ UNCHANGED <<now, pay, gateway, calls, toggles, errors, reopened, stranded>>
    BY <1>6 DEF WriteSub
  <2>2. TypeOK'
    BY <1>1, <1>3, <2>1, Upserts, BillingAssumption DEF TypeOK, Records
  <2>3. PaymentsStay
    BY <1>1, <1>4, <2>1, Upserts DEF TypeOK, PaymentsStay
  <2> QED
    BY <1>2, <2>2, <2>3, ShapeEnds
<1>7. CASE FlagPastDue(w)
  <2>1. sub' = [sub EXCEPT !.status = "past_due"]
        /\ UNCHANGED <<now, pay, gateway, calls, toggles, errors, activations, cycles,
                       reopened, stranded>>
    BY <1>7 DEF FlagPastDue
  <2>2. TypeOK'
    BY <1>1, <1>3, <2>1 DEF TypeOK, Records
  <2>3. PaymentsStay
    BY <1>1, <2>1 DEF TypeOK, PaymentsStay
  <2> QED
    BY <1>2, <2>2, <2>3, ShapeEnds
<1>8. CASE Die(w)
  <2>1. UNCHANGED <<now, sub, pay, gateway, calls, toggles, activations, cycles, reopened>>
        /\ errors' \in 0..MaxErrors
    BY <1>1, <1>8, BillingAssumption DEF TypeOK, Die
  <2>2. stranded' \subseteq Trans
    BY <1>1, <1>4, <1>8 DEF TypeOK, Die, Holding, Steps
  <2>3. TypeOK'
    BY <1>1, <1>3, <2>1, <2>2 DEF TypeOK, Records
  <2>4. PaymentsStay
    BY <1>1, <2>1 DEF TypeOK, PaymentsStay
  <2> QED
    BY <1>2, <2>3, <2>4, ShapeEnds
<1> QED
  BY <1>5, <1>6, <1>7, <1>8

LEMMA ShapeStep == ASSUME Shape, [Next]_vars PROVE Shape'
<1>1. CASE UNCHANGED vars
  BY <1>1 DEF vars, Shape, TypeOK, WorkerInv, RenewalsApart, PaymentInv
<1>2. CASE \E t \in Orders :
               \/ Settle(t) \/ FailOrCancel(t)
               \/ \E p \in Plans : Checkout(t, p)
               \/ \E c \in Calls : Finalize(c, t)
  <2>1. PICK t \in Orders : \/ Settle(t) \/ FailOrCancel(t)
                            \/ \E p \in Plans : Checkout(t, p)
                            \/ \E c \in Calls : Finalize(c, t)
    BY <1>2
  <2>2. CASE Settle(t) \/ FailOrCancel(t) \/ \E p \in Plans : Checkout(t, p)
    BY <2>2, ShapePayments
  <2>3. CASE \E c \in Calls : Finalize(c, t)
    BY <2>3, ShapeFinalize
  <2> QED
    BY <2>1, <2>2, <2>3
<1>3. CASE \E c \in Calls : Finalizing(c)
  BY <1>3, ShapeGoesOn, ShapeStops DEF Finalizing, Workers
<1>4. CASE \E k \in Crons : Renewing(k)
  BY <1>4, ShapeGoesOn, ShapeStops, ShapeSelectDue, ShapeCreateRenewal DEF Renewing, Workers
<1>5. CASE \E w \in Workers : ReadSub(w) \/ WriteSub(w) \/ Die(w)
  BY <1>5, ShapeGoesOn, ShapeStops
<1>6. CASE SetAutoRenew \/ Tick
  BY <1>6, ShapeAround
<1> QED
  BY <1>1, <1>2, <1>3, <1>4, <1>5, <1>6 DEF Next
-----------------------------------------------------------------------------
(* What never goes back *)

\* A collected payment stays collected, a payment keeps its plan, a success is only lost
\* to a status that is remembered, and time, activations and histories grow.
Grows ==
    /\ \A t \in Trans :
          /\ gateway[t] = "paid" => gateway'[t] = "paid"
          /\ pay[t].status # "none" => pay'[t].plan = pay[t].plan
          /\ pay[t].status = "success" => pay'[t].status = "success" \/ t \in reopened'
          /\ activations[t] > 0 => activations'[t] > 0
    /\ reopened \subseteq reopened' /\ stranded \subseteq stranded'
    /\ now + Period * cycles <= now' + Period * cycles'

\* Only the upsert extends the subscription, counts an activation or a cycle.
LEMMA UpsertSteps ==
    ASSUME Next
    PROVE  \/ /\ UNCHANGED <<activations, cycles>>
              /\ \/ sub' = sub
                 \/ sub' = [sub EXCEPT !.status = "past_due"]
                 \/ sub' = [sub EXCEPT !.autoRenew = ~@]
           \/ \E w \in Workers : Upsert(w) /\ UNCHANGED <<now, pay, gateway, reopened>>
BY DEF Next, Checkout, Settle, FailOrCancel, Finalize, Finalizing, Validate, MarkInvalid,
       MarkValid, Renewing, SelectDue, CreateRenewal, ChargeToken, MarkCharged, RenewalThrows,
       MarkRenewalFailed, FlagPastDue, ReadSub, WriteSub, Die, SetAutoRenew, Tick, Workers

LEMMA GrowsAlways == ASSUME IInv, Next PROVE Grows
<1> USE DEF Trans
<1>1. TypeOK
  BY DEF IInv, Shape
<1>2. now + Period * cycles <= now' + Period * cycles'
  <2>1. now \in Nat /\ cycles \in Nat /\ Period \in Nat /\ Period * cycles \in Nat
        /\ Period * (cycles + 1) = Period * cycles + Period
    BY <1>1, BillingAssumption DEF TypeOK
  <2>2. (now' = now \/ now' = now + 1) /\ (cycles' = cycles \/ cycles' = cycles + 1)
    BY DEF Next, Checkout, Settle, FailOrCancel, Finalize, Finalizing, Validate, MarkInvalid,
           MarkValid, Renewing, SelectDue, CreateRenewal, ChargeToken, MarkCharged,
           RenewalThrows, MarkRenewalFailed, FlagPastDue, ReadSub, WriteSub, Upsert, Die,
           SetAutoRenew, Tick
  <2> HIDE DEF Grows
  <2> QED
    BY <2>1, <2>2
<1>3. \A w \in Workers : work[w].at \in Holding => 
          work[w].tran \in Trans /\ pay[work[w].tran].status # "none"
  BY DEF IInv, Shape, WorkerInv
<1>4. stranded \subseteq stranded'
  BY DEF Next, Checkout, Settle, FailOrCancel, Finalize, Finalizing, Validate, MarkInvalid,
         MarkValid, Renewing, SelectDue, CreateRenewal, ChargeToken, MarkCharged,
         RenewalThrows, MarkRenewalFailed, FlagPastDue, ReadSub, WriteSub, Die,
         SetAutoRenew, Tick
<1>5. \A t \in Trans : activations[t] > 0 => activations'[t] > 0
  <2>1. activations' = activations \/ \E w \in Workers : Upsert(w)
    BY UpsertSteps
  <2> QED
    BY <2>1, Upserts DEF IInv
<1>6. \A t \in Trans : gateway[t] = "paid" => gateway'[t] = "paid"
  <2>1. \/ gateway' = gateway
        \/ \E t \in Trans : gateway[t] = "open" /\ \E g \in {"paid", "declined"} :
              gateway' = [gateway EXCEPT ![t] = g]
    <3>1. ASSUME NEW k \in Crons, ChargeToken(k)
          PROVE  work[k].tran \in Trans /\ gateway[work[k].tran] = "open"
      BY <1>3, <3>1 DEF IInv, CollectedInv, ChargeToken, Workers, Holding, Steps
    <3>2. CASE \E k \in Crons : ChargeToken(k)
      BY <3>1, <3>2 DEF ChargeToken
    <3>3. CASE ~\E k \in Crons : ChargeToken(k)
      BY <3>3 DEF Next, Checkout, Settle, FailOrCancel, Finalize, Finalizing, Validate,
             MarkInvalid, MarkValid, Renewing, SelectDue, CreateRenewal, MarkCharged,
             RenewalThrows, MarkRenewalFailed, FlagPastDue, ReadSub, WriteSub, Die,
             SetAutoRenew, Tick
    <3> QED
      BY <3>2, <3>3
  <2> QED
    BY <1>1, <2>1 DEF TypeOK
<1>7. /\ reopened \subseteq reopened'
      /\ \A t \in Trans :
            /\ pay[t].status # "none" => pay'[t].plan = pay[t].plan
            /\ pay[t].status = "success" => pay'[t].status = "success" \/ t \in reopened'
  <2>1. \/ UNCHANGED <<pay, reopened>>
        \/ UNCHANGED reopened /\ \E t \in Trans, p \in Plans : CreatePayment(t, p)
        \/ \E w \in Workers, s \in Statuses \ {"none"} :
              work[w].at \in Holding /\ MarkPayment(work[w].tran, s)
        \/ \E t \in Orders, s \in Statuses \ {"none"} :
              pay[t].status # "none" /\ MarkPayment(t, s)
    <3>1. CASE \E t \in Orders : FailOrCancel(t)
      BY <3>1 DEF FailOrCancel, Statuses
    <3>2. CASE \E c \in Calls : MarkInvalid(c) \/ MarkValid(c)
      BY <3>2 DEF MarkInvalid, MarkValid, Workers, Holding, Steps, Statuses
    <3>3. CASE \E k \in Crons : MarkCharged(k) \/ MarkRenewalFailed(k)
      BY <3>3 DEF MarkCharged, MarkRenewalFailed, Workers, Holding, Steps, Statuses
    <3>4. CASE \E k \in Crons, t \in Renewals : CreateRenewal(k, t)
      BY <3>4 DEF CreateRenewal, IInv, Shape, WorkerInv, Workers
    <3>5. CASE \E t \in Orders, p \in Plans : Checkout(t, p)
      BY <3>5 DEF Checkout
    <3> QED
      BY <3>1, <3>2, <3>3, <3>4, <3>5 DEF Next, Settle, Finalize, Finalizing, Validate,
         Renewing, SelectDue, ChargeToken, RenewalThrows, FlagPastDue, ReadSub, WriteSub,
         Die, SetAutoRenew, Tick
  <2>2. CASE \E t \in Trans, p \in Plans : UNCHANGED reopened /\ CreatePayment(t, p)
    BY <1>1, <2>2 DEF TypeOK, CreatePayment
  <2>3. ASSUME NEW t \in Trans, NEW s \in Statuses \ {"none"}, MarkPayment(t, s),
               pay[t].status # "none"
        PROVE  /\ reopened \subseteq reopened'
               /\ \A u \in Trans :
                     /\ pay[u].status # "none" => pay'[u].plan = pay[u].plan
                     /\ pay[u].status = "success" => pay'[u].status = "success" \/ u \in reopened'
    BY <1>1, <2>3, Marks
  <2> QED
    BY <1>3, <2>1, <2>2, <2>3
<1> QED
  BY <1>2, <1>4, <1>5, <1>6, <1>7 DEF Grows

-----------------------------------------------------------------------------
(* The invariant is inductive *)

WorkerFacts(w) == CollectedInv(w) /\ EndInv(w) /\ MarkedInv(w)

LEMMA CyclesNat == ASSUME NEW a \in Nat, NEW b \in Nat, NEW c \in Nat PROVE a + b * c \in Nat
  OBVIOUS

\* A worker that a step leaves alone knows what it knew: a charge that is still to come
\* is nobody else's.
LEMMA OthersKnow ==
    ASSUME IInv, Grows, Shape', NEW v \in Workers, work'[v] = work[v],
           work[v].at = "charging" =>
               /\ gateway'[work[v].tran] = gateway[work[v].tran]
               /\ activations'[work[v].tran] = activations[work[v].tran]
    PROVE  WorkerFacts(v)'
<1>1. work[v].at \in Holding => work[v].tran \in Trans
  BY DEF IInv, Shape, WorkerInv, Trans
<1>2. CollectedInv(v)'
  BY <1>1 DEF IInv, Grows, CollectedInv, Holding, Steps
<1>3. EndInv(v)'
  <2>1. now + Period * cycles <= now' + Period * cycles'
    BY DEF Grows
  <2>2. /\ work[v].end \in Nat /\ Period \in Nat
        /\ now + Period * cycles \in Nat /\ now' + Period * cycles' \in Nat
    <3>1. work[v].end \in Nat /\ Period \in Nat
      BY BillingAssumption DEF IInv, Shape, TypeOK
    <3>2. now \in Nat /\ cycles \in Nat /\ now' \in Nat /\ cycles' \in Nat
      BY BillingAssumption DEF IInv, Shape, TypeOK
    <3> QED
      BY <3>1, <3>2, CyclesNat
  <2>3. work[v].at = "activating" => work[v].end <= now + Period * cycles + Period
    BY DEF IInv, EndInv
  <2> QED
    BY <2>1, <2>2, <2>3 DEF EndInv
<1>4. MarkedInv(v)'
  BY <1>1 DEF IInv, Grows, MarkedInv, Holding, Steps
<1> QED
  BY <1>2, <1>3, <1>4 DEF WorkerFacts

\* A charge that is still to come is of a renewal that no other worker touches.
LEMMA ChargeApart ==
    ASSUME Shape, NEW v \in Workers, work[v].at = "charging"
    PROVE  /\ work[v].tran \in Renewals
           /\ \A w \in Workers \ {v} : work[w].at \in Holding => work[w].tran # work[v].tran
  BY BillingAssumption DEF Shape, WorkerInv, RenewalsApart, Workers, Holding, Steps

LEMMA WorkersStep == ASSUME IInv, Grows, Shape', Next PROVE \A w \in Workers : WorkerFacts(w)'
<1> SUFFICES ASSUME NEW v \in Workers PROVE WorkerFacts(v)'
  OBVIOUS
<1>1. Shape /\ TypeOK /\ TypeOK' /\ WorkerInv(v) /\ CollectedInv(v) /\ EndInv(v) /\ MarkedInv(v)
  BY DEF IInv, Shape
<1>2. work[v].at \in Holding => work[v].tran \in Trans
  BY <1>1 DEF WorkerInv, Trans
<1>3. ASSUME NEW w \in Workers, w # v,
             \/ Validate(w) \/ ReadSub(w) \/ MarkValid(w) \/ MarkCharged(w)
             \/ RenewalThrows(w) \/ MarkRenewalFailed(w) \/ ChargeToken(w)
             \/ MarkInvalid(w) \/ WriteSub(w) \/ FlagPastDue(w) \/ Die(w)
      PROVE  WorkerFacts(v)'
  <2>1. work'[v] = work[v]
    BY <1>1, <1>3, Moves DEF TypeOK, MovesOn, MarkInvalid, WriteSub, FlagPastDue, Die
  <2>2. work[w].at \in Holding \/ UNCHANGED <<gateway, activations>>
    BY <1>3 DEF Holding, Steps, Validate, ReadSub, MarkValid, MarkCharged, RenewalThrows,
                MarkRenewalFailed, ChargeToken, MarkInvalid, WriteSub, Upsert, FlagPastDue, Die
  <2>3. /\ \A t \in Trans \ {work[w].tran} : gateway'[t] = gateway[t]
        /\ \A t \in Trans \ {work[w].tran} : activations'[t] = activations[t]
    BY <1>1, <1>3 DEF TypeOK, Validate, ReadSub, MarkValid, MarkCharged, RenewalThrows,
                MarkRenewalFailed, ChargeToken, MarkInvalid, WriteSub, Upsert, FlagPastDue, Die
  <2>4. work[v].at = "charging" => work[v].tran \in Trans
    BY <1>2 DEF Holding, Steps
  <2> QED
    BY <1>1, <1>3, <2>1, <2>2, <2>3, <2>4, ChargeApart, OthersKnow
<1>4. ASSUME Validate(v) PROVE WorkerFacts(v)'
  <2>1. MovesOn(v, IF gateway[work[v].tran] = "paid" THEN "valid" ELSE "invalid")
    BY <1>1, <1>4, Moves
  <2>2. UNCHANGED <<gateway, reopened>>
    BY <1>4 DEF Validate
  <2> QED
    BY <1>1, <2>1, <2>2 DEF WorkerFacts, CollectedInv, EndInv, MarkedInv, MovesOn
<1>5. ASSUME ReadSub(v) PROVE WorkerFacts(v)'
  <2>1. MovesOn(v, "activating") /\ work[v].at = "marked"
        /\ UNCHANGED <<now, pay, gateway, cycles, reopened>>
    BY <1>1, <1>5, Moves DEF ReadSub
  <2>2. work'[v].end = Base(work[v].plan) + Period
    BY <1>1, <1>5 DEF TypeOK, ReadSub
  <2>3. Base(work[v].plan) + Period <= now + Period * cycles + Period
    <3>1. now \in Nat /\ cycles \in Nat /\ sub.end \in Nat /\ Period \in Nat
          /\ Period * cycles \in Nat
      BY <1>1, BillingAssumption DEF TypeOK
    <3>2. sub.end <= now + Period * cycles
      BY DEF IInv, OneCyclePerActivation
    <3> QED
      BY <3>1, <3>2 DEF Base
  <2> QED
    BY <1>1, <2>1, <2>2, <2>3 DEF WorkerFacts, CollectedInv, EndInv, MarkedInv, MovesOn
<1>6. ASSUME MarkValid(v) \/ MarkCharged(v) PROVE WorkerFacts(v)'
  <2>1. MovesOn(v, "marked") /\ work[v].at \in {"valid", "charged"}
        /\ UNCHANGED gateway /\ MarkPayment(work[v].tran, "success")
    BY <1>1, <1>6, Moves DEF MarkValid, MarkCharged
  <2>2. work[v].tran \in Trans /\ pay[work[v].tran].status # "none"
    BY <1>1, <1>2, <2>1 DEF WorkerInv, Holding, Steps
  <2>3. pay'[work[v].tran].status = "success" /\ reopened \subseteq reopened'
    BY <1>1, <2>1, <2>2, Marks DEF Statuses
  <2> QED
    BY <1>1, <2>1, <2>3 DEF WorkerFacts, CollectedInv, EndInv, MarkedInv, MovesOn
<1>7. ASSUME RenewalThrows(v) \/ MarkRenewalFailed(v) PROVE WorkerFacts(v)'
  <2>1. MovesOn(v, "failing") \/ MovesOn(v, "flagging")
    BY <1>1, <1>7, Moves
  <2> QED
    BY <1>1, <2>1 DEF WorkerFacts, CollectedInv, EndInv, MarkedInv, MovesOn, Grows
<1>8. ASSUME ChargeToken(v) PROVE WorkerFacts(v)'
  <2>1. work[v].tran \in Trans
    BY <1>2, <1>8 DEF ChargeToken, Holding, Steps
  <2>2. \/ MovesOn(v, "failing")
        \/ MovesOn(v, "charged") /\ gateway'[work[v].tran] = "paid"
    <3>1. work'[v].at = "charged" => gateway'[work[v].tran] = "paid"
      BY <1>1, <1>8, <2>1 DEF ChargeToken, TypeOK
    <3> QED
      BY <1>1, <1>8, <3>1, Moves DEF MovesOn
  <2> QED
    BY <1>1, <2>2 DEF WorkerFacts, CollectedInv, EndInv, MarkedInv, MovesOn, Grows
<1>9. ASSUME MarkInvalid(v) \/ WriteSub(v) \/ FlagPastDue(v) \/ Die(v) PROVE WorkerFacts(v)'
  <2>1. work'[v] = Idle
    BY <1>1, <1>9 DEF TypeOK, MarkInvalid, WriteSub, FlagPastDue, Die
  <2> QED
    BY <2>1 DEF WorkerFacts, CollectedInv, EndInv, MarkedInv, Idle
<1>10. ASSUME NEW t \in Orders, NEW c \in Calls, Finalize(c, t) PROVE WorkerFacts(v)'
  <2>1. UNCHANGED <<gateway, activations, reopened>> /\ t \in Trans /\ c \in Workers
    BY <1>10 DEF Finalize, Trans, Workers
  <2>2. CASE v = c
    <3> DEFINE late == activations[t] > 0
    <3>1. work'[v].at = "validating" /\ work'[v].tran = t /\ work'[v].late = late
      BY <1>1, <1>10, <2>2 DEF Finalize, TypeOK
    <3>2. late => t \in reopened
      BY <1>10, <2>1 DEF IInv, ActivatedInv, Finalize, AlreadyProcessed
    <3> HIDE DEF late
    <3> QED
      BY <2>1, <3>1, <3>2 DEF WorkerFacts, CollectedInv, EndInv, MarkedInv
  <2>3. CASE v # c
    <3>1. work'[v] = work[v]
      BY <1>1, <1>10, <2>1, <2>3 DEF TypeOK, Finalize
    <3> QED
      BY <2>1, <3>1, OthersKnow
  <2> QED
    BY <2>2, <2>3
<1>11. ASSUME NEW t \in Orders, Settle(t) PROVE WorkerFacts(v)'
  <2>1. \A u \in Trans \ {t} : gateway'[u] = gateway[u]
    BY <1>1, <1>11 DEF TypeOK, Settle
  <2>2. work[v].at = "charging" => work[v].tran \in Trans \ {t}
    BY <1>1, <1>2, ChargeApart, BillingAssumption DEF Holding, Steps
  <2> QED
    BY <1>11, <2>1, <2>2, OthersKnow DEF Settle
<1>12. ASSUME NEW k \in Crons, SelectDue(k) PROVE WorkerFacts(v)'
  <2>1. UNCHANGED <<gateway, activations>> /\ k \in Workers
    BY <1>12 DEF SelectDue, Workers
  <2>2. CASE v = k
    <3>1. work'[v].at = "creating" /\ work'[v].late = FALSE
      BY <1>1, <1>12, <2>2 DEF SelectDue, TypeOK
    <3> QED
      BY <3>1 DEF WorkerFacts, CollectedInv, EndInv, MarkedInv
  <2>3. CASE v # k
    <3>1. work'[v] = work[v]
      BY <1>1, <1>12, <2>1, <2>3 DEF TypeOK, SelectDue
    <3> QED
      BY <2>1, <3>1, OthersKnow
  <2> QED
    BY <2>2, <2>3
<1>13. ASSUME NEW k \in Crons, NEW t \in Renewals, CreateRenewal(k, t) PROVE WorkerFacts(v)'
  <2>1. UNCHANGED <<gateway, activations, reopened>> /\ k \in Workers /\ t \in Trans
    BY <1>13 DEF CreateRenewal, Workers, Trans
  <2>2. CASE v = k
    <3>1. work'[v].at = "charging" /\ work'[v].tran = t /\ work'[v].late = work[v].late
      BY <1>1, <1>13, <2>2 DEF CreateRenewal, TypeOK
    <3>2. gateway[t] = "open" /\ activations[t] = 0
      BY <1>13, <2>1 DEF IInv, Shape, PaymentInv, CreateRenewal, CreatePayment
    <3>3. ~work[v].late
      BY <1>1, <1>13, <2>1, <2>2, BillingAssumption
         DEF MarkedInv, CreateRenewal, WorkerInv, TypeOK, Trans
    <3> QED
      BY <2>1, <3>1, <3>2, <3>3 DEF WorkerFacts, CollectedInv, EndInv, MarkedInv
  <2>3. CASE v # k
    <3>1. work'[v] = work[v]
      BY <1>1, <1>13, <2>1, <2>3 DEF TypeOK, CreateRenewal
    <3> QED
      BY <2>1, <3>1, OthersKnow
  <2> QED
    BY <2>2, <2>3
<1>14. ASSUME UNCHANGED <<work, gateway, activations>> PROVE WorkerFacts(v)'
  BY <1>14, OthersKnow
<1> QED
  BY <1>3, <1>4, <1>5, <1>6, <1>7, <1>8, <1>9, <1>10, <1>11, <1>12, <1>13, <1>14
     DEF Next, Workers, Finalizing, Renewing, Checkout, FailOrCancel, SetAutoRenew, Tick

\* An activation follows a success, or the success was overwritten.
LEMMA ActivatedStep == ASSUME IInv, Grows, Shape', Next PROVE \A t \in Trans : ActivatedInv(t)'
<1> SUFFICES ASSUME NEW t \in Trans PROVE ActivatedInv(t)'
  OBVIOUS
<1>1. CASE activations' = activations
  BY <1>1 DEF IInv, Grows, ActivatedInv
<1>2. ASSUME NEW w \in Workers, Upsert(w) PROVE ActivatedInv(t)'
  <2>1. t # work[w].tran => activations'[t] = activations[t]
    BY <1>2, Upserts DEF IInv
  <2>2. pay[work[w].tran].status = "success" \/ work[w].tran \in reopened
    BY <1>2 DEF IInv, MarkedInv, Upsert
  <2> QED
    BY <1>2, <2>1, <2>2 DEF IInv, Grows, ActivatedInv
<1>3. activations' = activations \/ \E w \in Workers : Upsert(w)
  BY UpsertSteps
<1> QED
  BY <1>1, <1>2, <1>3

\* A plan is granted by an activation, and what paid for it stays true.
LEMMA PlanStep ==
    ASSUME IInv, Grows, Shape', Next PROVE PlanWasPaid' /\ OneCyclePerActivation'
<1>1. TypeOK /\ TypeOK'
  BY DEF IInv, Shape
<1>2. CASE sub'.plan = sub.plan /\ sub'.end = sub.end
  <2>1. PlanWasPaid'
    <3>1. \A t \in Trans : activations[t] > 0 => pay[t].status # "none"
      BY <1>1 DEF IInv, Shape, PaymentInv, TypeOK
    <3> QED
      BY <1>2, <3>1 DEF IInv, Grows, PlanWasPaid
  <2>2. OneCyclePerActivation'
    <3>1. now \in Nat /\ cycles \in Nat /\ now' \in Nat /\ cycles' \in Nat /\ Period \in Nat
          /\ sub.end \in Nat
      BY <1>1, BillingAssumption DEF TypeOK
    <3>2. now + Period * cycles \in Nat /\ now' + Period * cycles' \in Nat
      BY <3>1, CyclesNat
    <3>3. sub.end <= now + Period * cycles /\ now + Period * cycles <= now' + Period * cycles'
      BY DEF IInv, Grows, OneCyclePerActivation
    <3>4. sub'.end <= now' + Period * cycles'
      <4> DEFINE before == now + Period * cycles
                 after == now' + Period * cycles'
      <4>1. before \in Nat /\ after \in Nat /\ sub.end <= before /\ before <= after
        BY <3>2, <3>3
      <4> HIDE DEF before, after
      <4>2. sub.end <= after
        BY <3>1, <4>1
      <4> QED
        BY <1>2, <4>2 DEF after
    <3> QED
      BY <3>4 DEF OneCyclePerActivation
  <2> QED
    BY <2>1, <2>2
<1>3. ASSUME NEW w \in Workers, Upsert(w), now' = now
      PROVE  PlanWasPaid' /\ OneCyclePerActivation'
  <2>1. sub'.plan = work[w].plan /\ sub'.end = work[w].end /\ work[w].at = "activating"
    BY <1>3 DEF Upsert
  <2>2. /\ work[w].tran \in Trans /\ gateway[work[w].tran] = "paid"
        /\ pay[work[w].tran].status # "none" /\ pay[work[w].tran].plan = work[w].plan
    BY <2>1 DEF IInv, Shape, WorkerInv, CollectedInv, Holding, Steps, Trans
  <2>3. activations'[work[w].tran] > 0
    BY <1>3, Upserts DEF IInv
  <2>4. PlanWasPaid'
    BY <2>1, <2>2, <2>3 DEF Grows, PlanWasPaid
  <2>5. work[w].end <= now + Period * cycles + Period /\ now' = now /\ cycles' = cycles + 1
    BY <1>3, <2>1 DEF IInv, EndInv, Upsert
  <2>6. now \in Nat /\ cycles \in Nat /\ Period \in Nat
    BY <1>1, BillingAssumption DEF TypeOK
  <2>7. Period * (cycles + 1) = Period * cycles + Period /\ Period * cycles \in Nat
    BY <2>6
  <2> QED
    BY <2>1, <2>4, <2>5, <2>6, <2>7 DEF OneCyclePerActivation
<1>4. \/ sub'.plan = sub.plan /\ sub'.end = sub.end
      \/ \E w \in Workers : Upsert(w) /\ now' = now
  BY <1>1, UpsertSteps DEF TypeOK
<1> QED
  BY <1>2, <1>3, <1>4

\* A payment that is to be activated, and where it is on its way to that.
Owed(t) == pay[t].status = "success" \/ (t \in Renewals /\ gateway[t] = "paid")
UnderWay(w, t) == work[w].tran = t /\ work[w].at \in {"charged", "marked", "activating"}

\* A worker that was carrying a payment still does, or has activated it, or was cut off.
LEMMA CarriedStep ==
    ASSUME IInv, Grows, Shape', Next, NEW t \in Trans, NEW w \in Workers, UnderWay(w, t)
    PROVE  UnderWay(w, t)' \/ activations'[t] > 0 \/ t \in stranded'
<1>1. Shape /\ TypeOK /\ WorkerInv(w) /\ work[w].tran = t
      /\ work[w].at \in {"charged", "marked", "activating"}
  BY DEF IInv, Shape, UnderWay
<1>2. CASE ReadSub(w) \/ MarkCharged(w)
  <2>1. MovesOn(w, "activating") \/ MovesOn(w, "marked")
    BY <1>1, <1>2, Moves
  <2> QED
    BY <1>1, <2>1 DEF UnderWay, MovesOn
<1>3. CASE RenewalThrows(w)
  BY <1>1, <1>3, Upserts DEF RenewalThrows
<1>4. CASE WriteSub(w)
  BY <1>1, <1>4, Upserts DEF WriteSub
<1>5. CASE Die(w)
  BY <1>1, <1>5 DEF Die
<1>6. CASE work'[w] = work[w]
  BY <1>6 DEF UnderWay
<1>7. ASSUME NEW v \in Workers, v # w,
             \/ Validate(v) \/ ReadSub(v) \/ MarkValid(v) \/ MarkCharged(v)
             \/ RenewalThrows(v) \/ MarkRenewalFailed(v) \/ ChargeToken(v)
             \/ MarkInvalid(v) \/ WriteSub(v) \/ FlagPastDue(v) \/ Die(v)
      PROVE  work'[w] = work[w]
  BY <1>1, <1>7, Moves DEF TypeOK, MovesOn, MarkInvalid, WriteSub, FlagPastDue, Die
<1>8. ASSUME NEW v \in Workers,
             \/ \E u \in Orders : Finalize(v, u)
             \/ SelectDue(v)
             \/ \E u \in Renewals : CreateRenewal(v, u)
      PROVE  work'[w] = work[w]
  BY <1>1, <1>8 DEF TypeOK, Finalize, SelectDue, CreateRenewal
<1>9. ~(Validate(w) \/ MarkValid(w) \/ ChargeToken(w) \/ MarkInvalid(w) \/ MarkRenewalFailed(w)
        \/ FlagPastDue(w))
  BY <1>1 DEF Validate, MarkValid, ChargeToken, MarkInvalid, MarkRenewalFailed, FlagPastDue
<1> QED
  BY <1>2, <1>3, <1>4, <1>5, <1>6, <1>7, <1>8, <1>9
     DEF Next, Workers, Finalizing, Renewing, Checkout, Settle, FailOrCancel, SetAutoRenew, Tick

\* A payment becomes one to be activated in the hands of the worker that marks it or
\* charges it, whose answer may be lost.
LEMMA BecomesOwed ==
    ASSUME IInv, Grows, Shape', Next, NEW t \in Trans, ~Owed(t), Owed(t)'
    PROVE  t \in stranded' \/ \E w \in Workers : UnderWay(w, t)'
<1>1. Shape /\ TypeOK /\ \A w \in Workers : work[w].at \in Holding => work[w].tran \in Trans
  BY DEF IInv, Shape, WorkerInv, Trans
<1>2. CASE pay'[t].status = "success"
  <2>1. pay[t].status # "success"
    BY DEF Owed
  <2>2. ASSUME NEW u \in Trans, NEW s \in {"failed", "cancelled"}, MarkPayment(u, s)
        PROVE  FALSE
    BY <1>1, <1>2, <2>1, <2>2 DEF TypeOK, MarkPayment
  <2>3. ASSUME NEW u \in Trans, NEW p \in Plans, CreatePayment(u, p) PROVE FALSE
    BY <1>1, <1>2, <2>1, <2>3 DEF TypeOK, CreatePayment
  <2>4. pay' # pay
    BY <1>2, <2>1
  <2>5. ~\E u \in Orders : FailOrCancel(u) \/ \E p \in Plans : Checkout(u, p)
    BY <2>2, <2>3 DEF FailOrCancel, Checkout, Trans
  <2>6. ~\E w \in Workers : MarkInvalid(w) \/ MarkRenewalFailed(w)
    BY <1>1, <2>2 DEF MarkInvalid, MarkRenewalFailed, Holding, Steps
  <2>7. ~\E k \in Crons, u \in Renewals : CreateRenewal(k, u)
    BY <2>3 DEF CreateRenewal, IInv, Shape, WorkerInv, Workers, Trans
  <2>8. \E w \in Workers : MarkValid(w) \/ MarkCharged(w)
    BY <2>4, <2>5, <2>6, <2>7 DEF Next, Workers, Settle, Finalize, Finalizing, Validate,
       Renewing, SelectDue, ChargeToken, RenewalThrows, FlagPastDue, ReadSub, WriteSub, Die,
       SetAutoRenew, Tick
  <2>9. PICK w \in Workers : MarkValid(w) \/ MarkCharged(w)
    BY <2>8
  <2>10. work[w].tran = t
    BY <1>1, <1>2, <2>1, <2>9 DEF TypeOK, MarkValid, MarkCharged, MarkPayment
  <2> QED
    BY <1>1, <2>9, <2>10, Moves DEF MovesOn, UnderWay
<1>3. CASE t \in Renewals /\ gateway'[t] = "paid" /\ pay'[t].status # "success"
  <2>1. gateway[t] # "paid"
    BY <1>3 DEF Owed
  <2>2. ~\E u \in Orders : Settle(u)
    BY <1>1, <1>3, <2>1, BillingAssumption DEF TypeOK, Settle, Trans
  <2>3. PICK k \in Crons : ChargeToken(k)
    BY <1>3, <2>1, <2>2 DEF Next, Checkout, FailOrCancel, Finalize, Finalizing, Validate,
       MarkInvalid, MarkValid, Renewing, SelectDue, CreateRenewal, MarkCharged, RenewalThrows,
       MarkRenewalFailed, FlagPastDue, ReadSub, WriteSub, Die, SetAutoRenew, Tick
  <2>4. k \in Workers /\ work[k].tran = t
    BY <1>1, <1>3, <2>1, <2>3 DEF TypeOK, ChargeToken, Workers
  <2>5. work'[k].at = "charged" \/ t \in stranded' \/ gateway'[t] = "declined"
    BY <1>1, <2>3, <2>4 DEF TypeOK, ChargeToken
  <2>6. work'[k].tran = t
    BY <1>1, <2>3, <2>4, Moves DEF MovesOn
  <2> QED
    BY <1>3, <2>4, <2>5, <2>6 DEF UnderWay
<1> QED
  BY <1>2, <1>3 DEF Owed

\* What is owed is activated, under way, or was cut off.
LEMMA PaidStep == ASSUME IInv, Grows, Shape', Next PROVE PaidMeansActivated'
<1> SUFFICES ASSUME NEW t \in Trans, Owed(t)'
             PROVE  \/ activations'[t] > 0
                    \/ t \in stranded'
                    \/ \E w \in Workers : UnderWay(w, t)'
  BY DEF PaidMeansActivated, Owed, UnderWay
<1>1. CASE Owed(t)
  <2>1. activations[t] > 0 \/ t \in stranded \/ \E w \in Workers : UnderWay(w, t)
    BY <1>1 DEF IInv, PaidMeansActivated, Owed, UnderWay
  <2> QED
    BY <2>1, CarriedStep DEF Grows
<1>2. CASE ~Owed(t)
  BY <1>2, BecomesOwed
<1> QED
  BY <1>1, <1>2

LEMMA InitIInv == Init => IInv
<1> SUFFICES ASSUME Init PROVE IInv
  OBVIOUS
<1> USE BillingAssumption DEF Init
<1>1. /\ \A w \in Workers : work[w] = Idle
      /\ \A t \in Trans : pay[t].status = "none" /\ gateway[t] = "open" /\ activations[t] = 0
  OBVIOUS
<1>2. sub.plan = "free" /\ sub.end = 0 /\ now = 0 /\ cycles = 0 /\ Period * 0 = 0
  OBVIOUS
<1>3. TypeOK
  BY DEF TypeOK, Statuses, Steps, Idle
<1>4. /\ \A w \in Workers : WorkerInv(w) /\ CollectedInv(w) /\ EndInv(w) /\ MarkedInv(w)
      /\ RenewalsApart
  BY <1>1 DEF WorkerInv, CollectedInv, EndInv, MarkedInv, RenewalsApart, Idle, Holding, Workers
<1>5. \A t \in Trans : PaymentInv(t) /\ ActivatedInv(t)
  BY <1>1 DEF PaymentInv, ActivatedInv
<1>6. PlanWasPaid /\ OneCyclePerActivation /\ PaidMeansActivated
  BY <1>1, <1>2 DEF PlanWasPaid, OneCyclePerActivation, PaidMeansActivated
<1> QED
  BY <1>3, <1>4, <1>5, <1>6 DEF IInv, Shape

LEMMA NextIInv == IInv /\ [Next]_vars => IInv'
<1> SUFFICES ASSUME IInv, [Next]_vars PROVE IInv'
  OBVIOUS
<1>1. Shape'
  BY ShapeStep DEF IInv
<1>2. CASE Next
  BY <1>1, <1>2, GrowsAlways, WorkersStep, ActivatedStep, PlanStep, PaidStep
     DEF IInv, WorkerFacts
<1>3. CASE UNCHANGED vars
  BY <1>1, <1>3 DEF vars, IInv, CollectedInv, EndInv, MarkedInv, ActivatedInv, PlanWasPaid,
     OneCyclePerActivation, PaidMeansActivated
<1> QED
  BY <1>2, <1>3

LEMMA Invariance == Spec => []IInv
  BY InitIInv, NextIInv, PTL DEF Spec

-----------------------------------------------------------------------------
(* Theorems *)

\* Every reachable state has the shape TypeOK gives it.
THEOREM TypeCorrect == Spec => []TypeOK
<1>1. IInv => TypeOK
  BY DEF IInv, Shape
<1> QED
  BY <1>1, Invariance, PTL

\* However callbacks, notifications, renewals and errors interleave, the org is on a paid
\* plan only through a payment of that plan that the gateway collected.
THEOREM PlansArePaid == Spec => []PlanWasPaid
<1>1. IInv => PlanWasPaid
  BY DEF IInv
<1> QED
  BY <1>1, Invariance, PTL

\* The period never runs further ahead than a cycle for each activation, although the end
\* is worked out from a row that another call may have replaced before it is written.
THEOREM PeriodsArePaid == Spec => []OneCyclePerActivation
<1>1. IInv => OneCyclePerActivation
  BY DEF IInv
<1> QED
  BY <1>1, Invariance, PTL

\* Nobody pays for nothing, unless a call dies or meets an error, or the gateway's answer
\* is lost, between taking the money and the upsert.
THEOREM PaymentsCount == Spec => []PaidMeansActivated
<1>1. IInv => PaidMeansActivated
  BY DEF IInv
<1> QED
  BY <1>1, Invariance, PTL

\* A callback that begins after its payment extended the subscription extends it again
\* only where the payment's status was overwritten in between.
THEOREM ReplaysAreHarmless == Spec => ReplayIsHarmless
<1> DEFINE Harmless ==
      \A w \in Workers :
          work[w].late /\ activations'[work[w].tran] > activations[work[w].tran]
          /\ work'[w].at = "idle"
             => work[w].tran \in reopened
<1>1. IInv /\ [Next]_vars => [Harmless]_vars
  BY DEF IInv, MarkedInv
<1> QED
  BY <1>1, Invariance, PTL DEF Spec, ReplayIsHarmless
=============================================================================
