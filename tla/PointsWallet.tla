---------------------------- MODULE PointsWallet ----------------------------
(***************************************************************************)
(* The prepaid points of one owner (billing.service.ts): the account with  *)
(* its balance and append-only ledger, the charges of AI work, checkouts,  *)
(* the payment provider's webhooks, and an operator's manual top-ups       *)
(* (admin-billing.service.ts).                                             *)
(***************************************************************************)
EXTENDS Integers, FiniteSets

CONSTANTS
    Claims,       \* claim keys of the artifacts that work may charge
    Checkouts,    \* billing_checkout_attempts rows
    MaxPayments,  \* bound: provider transactions of one checkout
    Handlers,     \* webhook requests that may overlap
    Operators,    \* manual top-ups that may overlap
    Trial,        \* TRIAL_GRANT_POINTS
    Cost,         \* points of one artifact
    Bundle,       \* points of the bundle
    Gift,         \* points of a manual top-up
    MaxFaults     \* bound: failed statements and crashes in one behaviour

ASSUME PointsAssumption ==
    /\ {Trial, Cost, Bundle, Gift} \subseteq Nat \ {0}
    /\ {MaxPayments, MaxFaults} \subseteq Nat

Payments       == Checkouts \X (1..MaxPayments)
CheckoutOf(p)  == p[1]
Outcomes       == {"pending", "paid", "failed"}
Notices        == Payments \X Outcomes
NoNotice       == <<<<"none", 0>>, "none">>
NotSeen        == -1

\* Claim keys of the ledger; the points of a row follow from its kind.
Keys == ({"trial"} \X {"account"}) \union ({"spend", "refund"} \X Claims)
          \union ({"topup"} \X Payments) \union ({"admin"} \X Operators)

VARIABLES
    opened,      \* billing_accounts: the row exists
    balance,     \* billing_point_balances.balance
    granted,     \* lifetime_granted
    spent,       \* lifetime_spent
    ledger,      \* billing_point_ledger: claim keys
    allowed,     \* artifacts whose entitlement check passed
    checkout,    \* billing_checkout_attempts.status ("absent": no row)
    payable,     \* checkouts with a provider_checkout_ref
    notices,     \* what the provider reports of its transactions
    event,       \* billing_provider_events.status ("none": no row)
    eventKind,   \* the outcome its fingerprint covers
    charged,     \* billing_payment_transactions, each with its outbox row
    hpc, hnot,   \* where each webhook request is, and on which notice
    seen,        \* the balance each operator's request has read
    faulted,     \* faults so far
    blind        \* history: a top-up wrote over a balance changed since its read

pointVars   == <<opened, balance, granted, spent, ledger>>
eventVars   == <<event, eventKind>>
handlerVars == <<hpc, hnot>>
vars == <<pointVars, allowed, checkout, payable, notices, eventVars, charged,
          handlerVars, seen, faulted, blind>>

CheckoutStates == {"absent", "pending", "succeeded", "failed"}
EventStates    == {"none", "received", "processed", "failed"}
HandlerPcs     == {"idle", "create", "known", "apply", "grant", "mark", "fail"}

Init ==
    /\ opened = FALSE
    /\ balance = 0 /\ granted = 0 /\ spent = 0
    /\ ledger = {}
    /\ allowed = {}
    /\ checkout = [c \in Checkouts |-> "absent"]
    /\ payable = {}
    /\ notices = {}
    /\ event = [p \in Payments |-> "none"]
    /\ eventKind = [p \in Payments |-> "none"]
    /\ charged = {}
    /\ hpc = [h \in Handlers |-> "idle"]
    /\ hnot = [h \in Handlers |-> NoNotice]
    /\ seen = [o \in Operators |-> NotSeen]
    /\ faulted = 0
    /\ blind = FALSE

-----------------------------------------------------------------------------
(* Points: each transaction holds the account's row lock, so it is one step *)

NotPoints == UNCHANGED <<checkout, payable, notices, eventVars, charged,
                         handlerVars, seen, faulted, blind>>

\* ensureBillingAccount, which every request calls first; a concurrent creation
\* violates the unique owner and the row is read again.
Open ==
    /\ ~opened
    /\ opened' = TRUE
    /\ balance' = Trial
    /\ granted' = Trial
    /\ ledger' = ledger \union {<<"trial", "account">>}
    /\ UNCHANGED <<spent, allowed>>
    /\ NotPoints

\* assertAllowed, before the work: it reserves nothing.
Check(c) ==
    /\ opened /\ balance >= Cost
    /\ allowed' = allowed \union {c}
    /\ UNCHANGED pointVars
    /\ NotPoints

\* Slip: the balance is trusted to the entitlement check.
SpendTrustsCheck(c) ==
    /\ c \in allowed /\ <<"spend", c>> \notin ledger
    /\ balance' = balance - Cost
    /\ spent' = spent + Cost
    /\ ledger' = ledger \union {<<"spend", c>>}
    /\ UNCHANGED <<opened, granted, allowed>>
    /\ NotPoints

\* spendPoints, after the work.  A replay of the claim key changes nothing, and
\* a balance that no longer suffices throws.
Spend(c) ==
    /\ c \in allowed
    /\ <<"spend", c>> \notin ledger
    /\ balance >= Cost
    /\ balance' = balance - Cost
    /\ spent' = spent + Cost
    /\ ledger' = ledger \union {<<"spend", c>>}
    /\ UNCHANGED <<opened, granted, allowed>>
    /\ NotPoints

\* Slip: an earlier refund of the claim is not looked up.
RefundAgain(c) ==
    /\ <<"spend", c>> \in ledger
    /\ balance' = balance + Cost
    /\ ledger' = ledger \union {<<"refund", c>>}
    /\ UNCHANGED <<opened, granted, spent, allowed>>
    /\ NotPoints

\* refundPoints and releaseStrategyCycle: once for a claim that was debited.
Refund(c) ==
    /\ <<"spend", c>> \in ledger
    /\ <<"refund", c>> \notin ledger
    /\ balance' = balance + Cost
    /\ ledger' = ledger \union {<<"refund", c>>}
    /\ UNCHANGED <<opened, granted, spent, allowed>>
    /\ NotPoints

NotTopUp == UNCHANGED <<opened, spent, allowed, checkout, payable, notices,
                        eventVars, charged, handlerVars, faulted>>

\* topUpWallet reads the balance before its transaction, without the lock.
BeginTopUp(o) ==
    /\ opened /\ seen[o] = NotSeen
    /\ seen' = [seen EXCEPT ![o] = balance]
    /\ UNCHANGED <<balance, granted, ledger, blind>>
    /\ NotTopUp

\* It writes the sum of what it read; the lifetime total is incremented.
CommitTopUp(o) ==
    /\ seen[o] # NotSeen /\ <<"admin", o>> \notin ledger
    /\ balance' = seen[o] + Gift
    /\ granted' = granted + Gift
    /\ ledger' = ledger \union {<<"admin", o>>}
    /\ blind' = (blind \/ balance # seen[o])
    /\ UNCHANGED seen
    /\ NotTopUp

-----------------------------------------------------------------------------
(* Checkouts and the provider *)

NotCheckout == UNCHANGED <<pointVars, allowed, eventVars, charged, handlerVars,
                           seen, faulted, blind>>

\* createCheckout inserts the attempt; a replay of its key finds it.
BeginCheckout(c) ==
    /\ opened /\ checkout[c] = "absent"
    /\ checkout' = [checkout EXCEPT ![c] = "pending"]
    /\ UNCHANGED <<payable, notices>>
    /\ NotCheckout

\* The provider's answer: a reference the owner can pay, or an error.
FinishCheckout(c) ==
    /\ checkout[c] = "pending" /\ c \notin payable
    /\ \/ payable' = payable \union {c} /\ UNCHANGED checkout
       \/ checkout' = [checkout EXCEPT ![c] = "failed"] /\ UNCHANGED payable
    /\ UNCHANGED notices
    /\ NotCheckout

\* The provider reports a transaction: pending, then paid or failed for good.
\* The reports of one transaction share an event id (its transaction id).
Notify(p, outcome) ==
    /\ CheckoutOf(p) \in payable
    /\ <<p, "paid">> \notin notices /\ <<p, "failed">> \notin notices
    /\ <<p, outcome>> \notin notices
    /\ notices' = notices \union {<<p, outcome>>}
    /\ UNCHANGED <<checkout, payable>>
    /\ NotCheckout

-----------------------------------------------------------------------------
(* handleWebhook: each notice may be delivered any number of times *)

PaymentOf(h) == hnot[h][1]
KindOf(h)    == hnot[h][2]

Moves(h, pc) == hpc' = [hpc EXCEPT ![h] = pc] /\ UNCHANGED hnot
Leaves(h)    == /\ hpc' = [hpc EXCEPT ![h] = "idle"]
                /\ hnot' = [hnot EXCEPT ![h] = NoNotice]
Fault        == faulted < MaxFaults /\ faulted' = faulted + 1

NotHandler == UNCHANGED <<allowed, payable, notices, seen>>
NoGrant    == UNCHANGED <<pointVars, checkout, charged, blind>>

\* Slip: only an unknown event is taken, a failed one counts as done.
ReceiveOnce(h, n) ==
    /\ hpc[h] = "idle" /\ n \in notices
    /\ event[n[1]] = "none"
    /\ hnot' = [hnot EXCEPT ![h] = n]
    /\ hpc' = [hpc EXCEPT ![h] = "create"]
    /\ UNCHANGED <<eventVars, faulted>>
    /\ NotHandler /\ NoGrant

\* Slip: the fingerprint of a known event is not compared.
ReceiveAnyBytes(h, n) ==
    /\ hpc[h] = "idle" /\ n \in notices
    /\ event[n[1]] # "processed"
    /\ hnot' = [hnot EXCEPT ![h] = n]
    /\ hpc' = [hpc EXCEPT ![h] = IF event[n[1]] = "none" THEN "create" ELSE "known"]
    /\ UNCHANGED <<eventVars, faulted>>
    /\ NotHandler /\ NoGrant

\* The event is read first: a processed one is acknowledged as a duplicate, and
\* one with other bytes is refused; neither changes anything.
Receive(h, n) ==
    /\ hpc[h] = "idle" /\ n \in notices
    /\ event[n[1]] # "processed"
    /\ event[n[1]] # "none" => eventKind[n[1]] = n[2]
    /\ hnot' = [hnot EXCEPT ![h] = n]
    /\ hpc' = [hpc EXCEPT ![h] = IF event[n[1]] = "none" THEN "create" ELSE "known"]
    /\ UNCHANGED <<eventVars, faulted>>
    /\ NotHandler /\ NoGrant

\* A known event is received again, whatever it has become since it was read.
ReceiveAgain(h) ==
    /\ hpc[h] = "known"
    /\ event' = [event EXCEPT ![PaymentOf(h)] = "received"]
    /\ Moves(h, "apply")
    /\ UNCHANGED <<eventKind, faulted>>
    /\ NotHandler /\ NoGrant

\* The insert, or the row of the request that was faster: done, or other bytes.
CreateEvent(h) ==
    LET p == PaymentOf(h) IN
    /\ hpc[h] = "create"
    /\ IF event[p] = "none"
       THEN /\ event' = [event EXCEPT ![p] = "received"]
            /\ eventKind' = [eventKind EXCEPT ![p] = KindOf(h)]
            /\ Moves(h, "apply")
       ELSE /\ IF event[p] = "processed" \/ eventKind[p] # KindOf(h)
               THEN Leaves(h) ELSE Moves(h, "apply")
            /\ UNCHANGED eventVars
    /\ UNCHANGED faulted
    /\ NotHandler /\ NoGrant

\* Slip: the event type is stored as the status.
StatusIsEventType(kind) == IF kind = "pending" THEN "checkout.pending" ELSE "checkout.failed"

\* The status of the attempt after a report that is not a payment.
StatusFor(kind) == IF kind = "pending" THEN "pending" ELSE "failed"

\* A report that is not a payment sets the attempt's status by id.
ApplyUnpaid(h) ==
    /\ hpc[h] = "apply" /\ KindOf(h) # "paid"
    /\ checkout' = [checkout EXCEPT ![CheckoutOf(PaymentOf(h))] = StatusFor(KindOf(h))]
    /\ Moves(h, "mark")
    /\ UNCHANGED <<pointVars, charged, blind, eventVars, faulted>>
    /\ NotHandler

\* applyPaidEvent looks for the transaction before it locks the account.
ApplyPaid(h) ==
    /\ hpc[h] = "apply" /\ KindOf(h) = "paid"
    /\ Moves(h, IF PaymentOf(h) \in charged THEN "mark" ELSE "grant")
    /\ UNCHANGED <<eventVars, faulted>>
    /\ NotHandler /\ NoGrant

\* Slip: no unique index over the provider's transaction id.
GrantAgain(h) ==
    LET p == PaymentOf(h) IN
    /\ hpc[h] = "grant"
    /\ charged' = charged \union {p}
    /\ checkout' = [checkout EXCEPT ![CheckoutOf(p)] = "succeeded"]
    /\ balance' = balance + Bundle
    /\ granted' = granted + Bundle
    /\ ledger' = ledger \union {<<"topup", p>>}
    /\ Moves(h, "mark")
    /\ UNCHANGED <<opened, spent, blind, eventVars, faulted>>
    /\ NotHandler

\* The grant, under the lock.  The transaction row is unique: a request that was
\* overtaken after its look-up rolls everything back.
Grant(h) ==
    LET p == PaymentOf(h) IN
    /\ hpc[h] = "grant"
    /\ IF p \in charged
       THEN Moves(h, "fail") /\ NoGrant
       ELSE /\ charged' = charged \union {p}
            /\ checkout' = [checkout EXCEPT ![CheckoutOf(p)] = "succeeded"]
            /\ balance' = balance + Bundle
            /\ granted' = granted + Bundle
            /\ ledger' = ledger \union {<<"topup", p>>}
            /\ Moves(h, "mark")
            /\ UNCHANGED <<opened, spent, blind>>
    /\ UNCHANGED <<eventVars, faulted>>
    /\ NotHandler

\* A statement of the try block throws and its transaction is rolled back.
Throw(h) ==
    /\ hpc[h] \in {"apply", "grant", "mark"}
    /\ Fault
    /\ Moves(h, "fail")
    /\ UNCHANGED eventVars
    /\ NotHandler /\ NoGrant

\* Slip: the catch block marks the event processed, to stop the redeliveries.
CloseAlways(h) ==
    /\ hpc[h] \in {"mark", "fail"}
    /\ event' = [event EXCEPT ![PaymentOf(h)] = "processed"]
    /\ Leaves(h)
    /\ UNCHANGED <<eventKind, faulted>>
    /\ NotHandler /\ NoGrant

\* The event is marked processed, or failed in the catch block, by id.
Close(h) ==
    /\ hpc[h] \in {"mark", "fail"}
    /\ event' = [event EXCEPT ![PaymentOf(h)] =
                    IF hpc[h] = "mark" THEN "processed" ELSE "failed"]
    /\ Leaves(h)
    /\ UNCHANGED <<eventKind, faulted>>
    /\ NotHandler /\ NoGrant

\* The API dies, or a statement outside the try block throws.
Die(h) ==
    /\ hpc[h] # "idle"
    /\ Fault
    /\ Leaves(h)
    /\ UNCHANGED eventVars
    /\ NotHandler /\ NoGrant

-----------------------------------------------------------------------------
Handles(h) ==
    \/ ReceiveAgain(h)
    \/ CreateEvent(h)
    \/ ApplyUnpaid(h)
    \/ ApplyPaid(h)
    \/ Grant(h)
    \/ Close(h)

HandlerStep(h) ==
    \/ \E n \in Notices : Receive(h, n)
    \/ Handles(h)
    \/ Throw(h)
    \/ Die(h)

Next ==
    \/ Open
    \/ \E c \in Claims : Check(c) \/ Spend(c) \/ Refund(c)
    \/ \E o \in Operators : BeginTopUp(o) \/ CommitTopUp(o)
    \/ \E c \in Checkouts : BeginCheckout(c) \/ FinishCheckout(c)
    \/ \E p \in Payments, k \in Outcomes : Notify(p, k)
    \/ \E h \in Handlers : HandlerStep(h)

Spec == Init /\ [][Next]_vars

\* A request that is running goes on, and the provider repeats a notice until
\* it is acknowledged: among any number of repetitions one meets a free server.
Fairness ==
    /\ \A h \in Handlers : WF_vars(Handles(h))
    /\ \A n \in Notices : SF_vars(\E h \in Handlers : Receive(h, n))

FairSpec == Spec /\ Fairness

-----------------------------------------------------------------------------
(* Properties *)

\* Every row and request is in a state the schema and the code allow.
TypePoints ==
    /\ opened \in BOOLEAN
    /\ balance \in Int /\ granted \in Nat /\ spent \in Nat
    /\ ledger \subseteq Keys
    /\ allowed \subseteq Claims
    /\ seen \in [Operators -> Nat \union {NotSeen}]
TypePayments ==
    /\ checkout \in [Checkouts -> CheckoutStates]
    /\ payable \subseteq Checkouts
    /\ notices \subseteq Notices
    /\ event \in [Payments -> EventStates]
    /\ eventKind \in [Payments -> Outcomes \union {"none"}]
    /\ charged \subseteq Payments
\* A busy request is about a notice of the provider.
TypeHandlers ==
    /\ hpc \in [Handlers -> HandlerPcs]
    /\ hnot \in [Handlers -> Notices \union {NoNotice}]
    /\ \A h \in Handlers : hpc[h] # "idle" => hnot[h] \in Notices
TypeOK ==
    /\ TypePoints
    /\ TypePayments
    /\ TypeHandlers
    /\ faulted \in Nat
    /\ blind \in BOOLEAN

\* The wallet is never overdrawn, although every entitlement check may have
\* passed on the same points (the account lock and check of spendPoints).
NeverOverdrawn == balance >= 0

Count(kind) == Cardinality({k \in ledger : k[1] = kind})
RunningSum  == Trial * Count("trial") + Bundle * Count("topup") + Gift * Count("admin")
                 + Cost * Count("refund") - Cost * Count("spend")

\* The balance is the running sum of the ledger (schema.prisma), through
\* replayed charges, refunds and duplicate webhooks.
BalanceIsRunningSum == balance = RunningSum

\* ... unless a manual top-up wrote over a balance changed since its read.
BalanceIsRunningSumUnlessBlind == BalanceIsRunningSum \/ blind

\* Each paid transaction is credited once: what was ever granted is the trial,
\* the paid bundles and the manual top-ups, however many deliveries overlapped.
GrantedOnce ==
    /\ granted = Trial * Count("trial") + Bundle * Cardinality(charged)
                   + Gift * Count("admin")
    /\ \A p \in Payments : p \in charged <=> <<"topup", p>> \in ledger

\* An event marked processed is never delivered again, so a paid one must have
\* been granted, whatever the requests that shared its row did to it.
ProcessedPaidWasGranted ==
    \A p \in Payments :
        event[p] = "processed" /\ eventKind[p] = "paid" => p \in charged

\* A checkout is succeeded before and after, or two of its transactions have
\* been reported.
SucceededStays ==
    \A c \in Checkouts : checkout[c] = "succeeded" =>
        \/ checkout'[c] = "succeeded"
        \/ \E n, m \in notices : /\ CheckoutOf(n[1]) = c /\ CheckoutOf(m[1]) = c
                                 /\ n[1] # m[1]

\* A checkout that was paid stays succeeded when late or repeated reports of its
\* transaction arrive; only another transaction of it may change that.
PaidStaysSucceeded == [][SucceededStays]_vars

\* A payment is credited in the end, whatever requests fail or die on the way
\* (a failed event is processed again), unless the provider had reported the
\* same transaction as pending.
PaidIsCreditedUnlessPendingCameFirst ==
    \A p \in Payments :
        <<p, "paid">> \in notices ~> p \in charged \/ <<p, "pending">> \in notices
=============================================================================
