------------------------------- MODULE Billing -------------------------------
(***************************************************************************)
(* The billing of one org in the dashboard: checkout, the gateway's        *)
(* callbacks and notifications, and the renewal cron                       *)
(* (apps/dashboard/src/lib/server/payments).  Each database statement and  *)
(* each gateway call is a step of its own; nothing runs in a transaction,  *)
(* so handlers interleave at every await.                                  *)
(***************************************************************************)
EXTENDS Integers

CONSTANTS
    Plans,        \* the paid tiers
    Orders,       \* tran ids that checkouts may create
    Renewals,     \* tran ids that cron runs may create
    Calls,        \* finalizePayment calls that may be under way together
    Crons,        \* processDueRenewals calls that may be under way together
    Period,       \* length of a billing cycle, in ticks
    Grace,        \* how long before its end a period is renewed
    MaxTime,      \* bound: ticks of the clock
    MaxCalls,     \* bound: finalizePayment calls
    MaxToggles,   \* bound: uses of the auto-renew switch
    MaxErrors     \* bound: calls that die, or database statements that throw

ASSUME BillingAssumption ==
    /\ "free" \notin Plans
    /\ "none" \notin Orders \cup Renewals
    /\ Orders \cap Renewals = {}
    /\ Calls \cap Crons = {}
    /\ {Period, Grace, MaxTime, MaxCalls, MaxToggles, MaxErrors} \subseteq Nat

VARIABLES
    now,          \* the clock
    sub,          \* the org's row of `subscriptions`; plan "free" for no row
    pay,          \* the table `payments`, by tran id
    gateway,      \* what happened to each tran id at the gateway
    work,         \* the local state of every finalize call and cron run
    calls, toggles, errors,   \* counters of the bounded events
    activations,  \* history: times each payment extended the subscription
    cycles,       \* history: times any payment did
    reopened,     \* history: payments that lost the status "success"
    stranded      \* history: payments collected and cut off from their activation

vars == <<now, sub, pay, gateway, work, calls, toggles, errors,
          activations, cycles, reopened, stranded>>

Trans == Orders \cup Renewals
Workers == Calls \cup Crons
Statuses == {"none", "pending", "success", "failed", "cancelled"}
Steps == {"idle", "validating", "invalid", "valid", "marked", "activating",
          "creating", "charging", "charged", "failing", "flagging"}

Idle == [at |-> "idle", tran |-> "none", plan |-> "free", token |-> FALSE,
         end |-> 0, late |-> FALSE]

\* The shape of the state; an org without a row has no end, token or switch
\* (billing.ts getSubscription).
TypeOK ==
    /\ now \in 0..MaxTime
    /\ sub \in [plan : Plans \cup {"free"}, end : Nat, autoRenew : BOOLEAN,
                token : BOOLEAN, status : {"active", "past_due"}]
    /\ sub.plan = "free" => sub.end = 0 /\ ~sub.autoRenew /\ ~sub.token
    /\ pay \in [Trans -> [status : Statuses, plan : Plans \cup {"free"}]]
    /\ gateway \in [Trans -> {"open", "paid", "declined"}]
    /\ work \in [Workers -> [at : Steps, tran : Trans \cup {"none"},
                             plan : Plans \cup {"free"}, token : BOOLEAN,
                             end : Nat, late : BOOLEAN]]
    /\ calls \in 0..MaxCalls /\ toggles \in 0..MaxToggles /\ errors \in 0..MaxErrors
    /\ activations \in [Trans -> Nat] /\ cycles \in Nat
    /\ reopened \subseteq Trans
    /\ stranded \subseteq Trans

Init ==
    /\ now = 0
    /\ sub = [plan |-> "free", end |-> 0, autoRenew |-> FALSE, token |-> FALSE,
              status |-> "active"]
    /\ pay = [t \in Trans |-> [status |-> "none", plan |-> "free"]]
    /\ gateway = [t \in Trans |-> "open"]
    /\ work = [w \in Workers |-> Idle]
    /\ calls = 0 /\ toggles = 0 /\ errors = 0
    /\ activations = [t \in Trans |-> 0] /\ cycles = 0
    /\ reopened = {}
    /\ stranded = {}

-----------------------------------------------------------------------------
(* orders.ts *)

\* createPayment: a pending row under a fresh tran id.
CreatePayment(t, p) ==
    /\ pay[t].status = "none"
    /\ pay' = [pay EXCEPT ![t] = [status |-> "pending", plan |-> p]]

\* markPayment overwrites whatever status is there.
MarkPayment(t, s) ==
    /\ pay' = [pay EXCEPT ![t].status = s]
    /\ reopened' = IF pay[t].status = "success" /\ s # "success"
                   THEN reopened \cup {t} ELSE reopened

\* Mutant of Base: the cycle is added here as well.
BaseWithCycle(p) == IF sub.plan = p /\ sub.end > now THEN sub.end + Period ELSE now

\* Remaining time counts only when the plan stays the same.
Base(p) == IF sub.plan = p /\ sub.end > now THEN sub.end ELSE now

\* Mutant of ReadSub: a plan that still runs is not extended.
ReadSubIfLapsed(w) ==
    /\ work[w].at = "marked"
    /\ work' = IF sub.plan = work[w].plan /\ sub.end > now
               THEN [work EXCEPT ![w] = Idle]
               ELSE [work EXCEPT ![w].at = "activating",
                                 ![w].end = Base(work[w].plan) + Period]
    /\ UNCHANGED <<now, sub, pay, gateway, calls, toggles, errors, activations, cycles,
                   reopened, stranded>>

\* activateSubscription, up to its select: the new end is worked out from it.
ReadSub(w) ==
    /\ work[w].at = "marked"
    /\ work' = [work EXCEPT ![w].at = "activating",
                            ![w].end = Base(work[w].plan) + Period]
    /\ UNCHANGED <<now, sub, pay, gateway, calls, toggles, errors, activations, cycles,
                   reopened, stranded>>

\* The upsert.
Upsert(w) ==
    /\ work[w].at = "activating"
    /\ sub' = [plan |-> work[w].plan, end |-> work[w].end,
               autoRenew |-> work[w].token, token |-> work[w].token,
               status |-> "active"]
    /\ activations' = [activations EXCEPT ![work[w].tran] = @ + 1]
    /\ cycles' = cycles + 1

WriteSub(w) ==
    /\ Upsert(w)
    /\ work' = [work EXCEPT ![w] = Idle]
    /\ UNCHANGED <<now, pay, gateway, calls, toggles, errors, reopened, stranded>>

-----------------------------------------------------------------------------
(* Checkout and finalizePayment *)

Checkout(t, p) ==
    /\ CreatePayment(t, p)
    /\ UNCHANGED <<now, sub, gateway, work, calls, toggles, errors, activations, cycles,
                   reopened, stranded>>

\* Mutant of AlreadyProcessed: every callback is taken for the first.
NeverProcessed(t) == FALSE

AlreadyProcessed(t) == pay[t].status = "success"

\* The success callback or the notification comes in and reads the payment; one
\* that is already processed ends the call, which then changes nothing.
Finalize(c, t) ==
    /\ calls < MaxCalls
    /\ work[c].at = "idle"
    /\ pay[t].status # "none"
    /\ ~AlreadyProcessed(t)
    /\ calls' = calls + 1
    /\ work' = [work EXCEPT ![c] = [at |-> "validating", tran |-> t, plan |-> pay[t].plan,
                                    token |-> FALSE, end |-> 0, late |-> activations[t] > 0]]
    /\ UNCHANGED <<now, sub, pay, gateway, toggles, errors, activations, cycles,
                   reopened, stranded>>

\* Mutant of Validate: only a declined payment is invalid.
ValidateUnlessDeclined(c) ==
    /\ work[c].at = "validating"
    /\ \E token \in BOOLEAN :
          work' = [work EXCEPT ![c].at = IF gateway[work[c].tran] # "declined"
                                         THEN "valid" ELSE "invalid",
                               ![c].token = token]
    /\ UNCHANGED <<now, sub, pay, gateway, calls, toggles, errors, activations, cycles,
                   reopened, stranded>>

\* The gateway answers validate, with a card token or without.
Validate(c) ==
    /\ work[c].at = "validating"
    /\ \E token \in BOOLEAN :
          work' = [work EXCEPT ![c].at = IF gateway[work[c].tran] = "paid"
                                         THEN "valid" ELSE "invalid",
                               ![c].token = token]
    /\ UNCHANGED <<now, sub, pay, gateway, calls, toggles, errors, activations, cycles,
                   reopened, stranded>>

MarkInvalid(c) ==
    /\ work[c].at = "invalid"
    /\ MarkPayment(work[c].tran, "failed")
    /\ work' = [work EXCEPT ![c] = Idle]
    /\ UNCHANGED <<now, sub, gateway, calls, toggles, errors, activations, cycles, stranded>>

MarkValid(c) ==
    /\ work[c].at = "valid"
    /\ MarkPayment(work[c].tran, "success")
    /\ work' = [work EXCEPT ![c].at = "marked"]
    /\ UNCHANGED <<now, sub, gateway, calls, toggles, errors, activations, cycles, stranded>>

\* The fail and the cancel callback mark the payment whatever its status.
FailOrCancel(t) ==
    /\ pay[t].status # "none"
    /\ \E s \in {"failed", "cancelled"} : MarkPayment(t, s)
    /\ UNCHANGED <<now, sub, gateway, work, calls, toggles, errors, activations, cycles,
                   stranded>>

-----------------------------------------------------------------------------
(* processDueRenewals, for the one subscription of this org *)

Due == sub.autoRenew /\ sub.token /\ sub.plan # "free" /\ sub.end <= now + Grace

\* The select; the rest of the run uses the row it returned.
SelectDue(k) ==
    /\ work[k].at = "idle"
    /\ Due
    /\ work' = [work EXCEPT ![k] = [at |-> "creating", tran |-> "none", plan |-> sub.plan,
                                    token |-> TRUE, end |-> 0, late |-> FALSE]]
    /\ UNCHANGED <<now, sub, pay, gateway, calls, toggles, errors, activations, cycles,
                   reopened, stranded>>

CreateRenewal(k, t) ==
    /\ work[k].at = "creating"
    /\ CreatePayment(t, work[k].plan)
    /\ work' = [work EXCEPT ![k].at = "charging", ![k].tran = t]
    /\ UNCHANGED <<now, sub, gateway, calls, toggles, errors, activations, cycles,
                   reopened, stranded>>

\* chargeToken: charged, declined, or charged with the answer lost.
ChargeToken(k) ==
    /\ work[k].at = "charging"
    /\ \/ /\ gateway' = [gateway EXCEPT ![work[k].tran] = "paid"]
          /\ work' = [work EXCEPT ![k].at = "charged"]
          /\ UNCHANGED <<errors, stranded>>
       \/ /\ gateway' = [gateway EXCEPT ![work[k].tran] = "declined"]
          /\ work' = [work EXCEPT ![k].at = "failing"]
          /\ UNCHANGED <<errors, stranded>>
       \/ /\ errors < MaxErrors
          /\ errors' = errors + 1
          /\ gateway' = [gateway EXCEPT ![work[k].tran] = "paid"]
          /\ work' = [work EXCEPT ![k].at = "failing"]
          /\ stranded' = stranded \cup {work[k].tran}
    /\ UNCHANGED <<now, sub, pay, calls, toggles, activations, cycles, reopened>>

MarkCharged(k) ==
    /\ work[k].at = "charged"
    /\ MarkPayment(work[k].tran, "success")
    /\ work' = [work EXCEPT ![k].at = "marked"]
    /\ UNCHANGED <<now, sub, gateway, calls, toggles, errors, activations, cycles, stranded>>

\* A statement inside the try throws and the catch block runs; the upsert may have
\* committed all the same.
RenewalThrows(k) ==
    /\ work[k].at \in {"charged", "marked", "activating"}
    /\ errors < MaxErrors
    /\ errors' = errors + 1
    /\ work' = [work EXCEPT ![k].at = "failing"]
    /\ \/ /\ stranded' = stranded \cup {work[k].tran}
          /\ UNCHANGED <<sub, activations, cycles>>
       \/ Upsert(k) /\ UNCHANGED stranded
    /\ UNCHANGED <<now, pay, gateway, calls, toggles, reopened>>

MarkRenewalFailed(k) ==
    /\ work[k].at = "failing"
    /\ MarkPayment(work[k].tran, "failed")
    /\ work' = [work EXCEPT ![k].at = "flagging"]
    /\ UNCHANGED <<now, sub, gateway, calls, toggles, errors, activations, cycles, stranded>>

FlagPastDue(k) ==
    /\ work[k].at = "flagging"
    /\ sub' = [sub EXCEPT !.status = "past_due"]
    /\ work' = [work EXCEPT ![k] = Idle]
    /\ UNCHANGED <<now, pay, gateway, calls, toggles, errors, activations, cycles,
                   reopened, stranded>>

-----------------------------------------------------------------------------
(* Around them *)

\* The customer pays an order at the gateway, or the gateway declines it.
Settle(t) ==
    /\ pay[t].status # "none"
    /\ gateway[t] = "open"
    /\ \E g \in {"paid", "declined"} : gateway' = [gateway EXCEPT ![t] = g]
    /\ UNCHANGED <<now, sub, pay, work, calls, toggles, errors, activations, cycles,
                   reopened, stranded>>

\* Mutant of SetAutoRenew: the switch makes a row where there is none.
SetAutoRenewUpsert ==
    /\ toggles < MaxToggles
    /\ toggles' = toggles + 1
    /\ sub' = [sub EXCEPT !.autoRenew = ~@]
    /\ UNCHANGED <<now, pay, gateway, work, calls, errors, activations, cycles,
                   reopened, stranded>>

\* The auto-renew switch of the billing page.
SetAutoRenew ==
    /\ toggles < MaxToggles
    /\ toggles' = toggles + 1
    /\ sub.plan # "free"
    /\ sub' = [sub EXCEPT !.autoRenew = ~@]
    /\ UNCHANGED <<now, pay, gateway, work, calls, errors, activations, cycles,
                   reopened, stranded>>

\* A request dies: the process stops, or a call outside a try throws.  Between the
\* gateway's answer and the activation, that cuts a collected payment off.
Die(w) ==
    /\ work[w].at # "idle"
    /\ errors < MaxErrors
    /\ errors' = errors + 1
    /\ stranded' = IF work[w].at \in {"charged", "marked", "activating"}
                   THEN stranded \cup {work[w].tran} ELSE stranded
    /\ work' = [work EXCEPT ![w] = Idle]
    /\ UNCHANGED <<now, sub, pay, gateway, calls, toggles, activations, cycles, reopened>>

Tick ==
    /\ now < MaxTime
    /\ now' = now + 1
    /\ UNCHANGED <<sub, pay, gateway, work, calls, toggles, errors, activations, cycles,
                   reopened, stranded>>

Finalizing(c) == Validate(c) \/ MarkInvalid(c) \/ MarkValid(c)

Renewing(k) ==
    \/ SelectDue(k)
    \/ \E t \in Renewals : CreateRenewal(k, t)
    \/ ChargeToken(k) \/ MarkCharged(k)
    \/ RenewalThrows(k) \/ MarkRenewalFailed(k) \/ FlagPastDue(k)

Next ==
    \/ \E t \in Orders :
          \/ Settle(t) \/ FailOrCancel(t)
          \/ \E p \in Plans : Checkout(t, p)
          \/ \E c \in Calls : Finalize(c, t)
    \/ \E c \in Calls : Finalizing(c)
    \/ \E k \in Crons : Renewing(k)
    \/ \E w \in Workers : ReadSub(w) \/ WriteSub(w) \/ Die(w)
    \/ SetAutoRenew
    \/ Tick

Spec == Init /\ [][Next]_vars

-----------------------------------------------------------------------------
(* Properties *)

\* The org is on a paid plan only through a payment of that very plan that the
\* gateway collected: no order of callbacks, notifications, renewals and errors
\* grants a plan nobody paid for (finalize.ts, renewals.ts).
PlanWasPaid ==
    sub.plan # "free" =>
        \E t \in Trans :
            pay[t].plan = sub.plan /\ gateway[t] = "paid" /\ activations[t] > 0

\* Paid time: an activation adds at most one cycle, so at any moment the time
\* left is at most a cycle for each activation, even when the end was worked out
\* from a row that another call has replaced since (orders.ts:44-55).
OneCyclePerActivation == sub.end <= now + Period * cycles

\* Nobody pays for nothing, unless something breaks: an order marked as a success,
\* or a renewal that the gateway has collected, has extended the subscription or its
\* call is on the way to it.  The exceptions are named: the call died, or met an
\* error or lost the gateway's answer, after the money was taken and before the
\* upsert (finalize.ts:42-43, renewals.ts:36-53).  An order that is paid and not
\* marked is still to be finalised.
PaidMeansActivated ==
    \A t \in Trans :
        pay[t].status = "success" \/ (t \in Renewals /\ gateway[t] = "paid") =>
            \/ activations[t] > 0
            \/ t \in stranded
            \/ \E w \in Workers :
                  work[w].tran = t /\ work[w].at \in {"charged", "marked", "activating"}

\* A replayed callback that begins after the payment extended the subscription
\* does not extend it again, unless its status has been overwritten meanwhile
\* (finalize.ts:30; "Replaying must not extend the period again",
\* integration.test.ts:134).
ReplayIsHarmless ==
    [][\A w \in Workers :
          work[w].late /\ activations'[work[w].tran] > activations[work[w].tran]
          /\ work'[w].at = "idle"
             => work[w].tran \in reopened]_vars

\* finalizePayment is "idempotent" (finalize.ts:23): "whichever arrives first
\* activates the subscription" (ipn/+server.ts:5-6), so a payment extends the
\* subscription once.
ActivatedOnce == \A t \in Trans : activations[t] <= 1
=============================================================================
