------------------------- MODULE PointsWalletProofs -------------------------
(***************************************************************************)
(* Theorems about the points wallet, for any number of claims, checkouts,  *)
(* transactions, webhook requests, operators and faults.                   *)
(***************************************************************************)
EXTENDS PointsWallet, FiniteSetTheorems, TLAPS

USE DEF PaymentOf, KindOf, CheckoutOf

-----------------------------------------------------------------------------
(* Types, and no overdraft: neither is inductive without the other, for a   *)
(* top-up writes what it read.                                              *)

Sound == TypeOK /\ NeverOverdrawn

LEMMA InitSound == Init => Sound
<1> SUFFICES ASSUME Init PROVE Sound
  OBVIOUS
<1>1. TypePoints /\ NeverOverdrawn
  <2>1. opened \in BOOLEAN
    BY Zenon DEF Init
  <2>2. seen \in [Operators -> Nat \union {NotSeen}]
    BY DEF Init
  <2>3. QED BY <2>1, <2>2 DEF Init, TypePoints, NeverOverdrawn
<1>2. TypePayments
  BY DEF Init, TypePayments, CheckoutStates, EventStates
<1>3. TypeHandlers
  BY DEF Init, TypeHandlers, HandlerPcs
<1>4. QED BY <1>1, <1>2, <1>3 DEF Init, Sound, TypeOK

\* No handler step leaves a busy request without a notice.
LEMMA HandlerMoves ==
    ASSUME TypeHandlers, NEW h \in Handlers, hpc[h] # "idle",
           NEW pc \in HandlerPcs, Moves(h, pc) \/ Leaves(h)
    PROVE  TypeHandlers'
BY DEF TypeHandlers, Moves, Leaves, HandlerPcs

LEMMA PointSteps ==
    ASSUME Sound,
           \/ Open
           \/ \E c \in Claims : Check(c) \/ Spend(c) \/ Refund(c)
           \/ \E o \in Operators : BeginTopUp(o) \/ CommitTopUp(o)
    PROVE  Sound'
<1> USE PointsAssumption DEF Sound, TypeOK, TypePoints, TypePayments, TypeHandlers,
        NeverOverdrawn, pointVars, eventVars, handlerVars, Keys, NotSeen
<1>1. CASE Open
  BY <1>1 DEF Open, NotPoints
<1>2. ASSUME NEW c \in Claims, Check(c) PROVE Sound'
  BY <1>2 DEF Check, NotPoints
<1>3. ASSUME NEW c \in Claims, Spend(c) PROVE Sound'
  BY <1>3 DEF Spend, NotPoints
<1>4. ASSUME NEW c \in Claims, Refund(c) PROVE Sound'
  BY <1>4 DEF Refund, NotPoints
<1>5. ASSUME NEW o \in Operators, BeginTopUp(o) PROVE Sound'
  BY <1>5 DEF BeginTopUp, NotTopUp
<1>6. ASSUME NEW o \in Operators, CommitTopUp(o) PROVE Sound'
  BY <1>6 DEF CommitTopUp, NotTopUp
<1>7. QED BY <1>1, <1>2, <1>3, <1>4, <1>5, <1>6

LEMMA CheckoutSteps ==
    ASSUME Sound,
           \/ \E c \in Checkouts : BeginCheckout(c) \/ FinishCheckout(c)
           \/ \E p \in Payments, k \in Outcomes : Notify(p, k)
    PROVE  Sound'
<1> USE DEF Sound, TypeOK, TypePoints, TypePayments, TypeHandlers, NeverOverdrawn,
        pointVars, eventVars, handlerVars, NotCheckout
<1>1. ASSUME NEW c \in Checkouts, BeginCheckout(c) PROVE Sound'
  BY <1>1 DEF BeginCheckout, CheckoutStates
<1>2. ASSUME NEW c \in Checkouts, FinishCheckout(c) PROVE Sound'
  BY <1>2 DEF FinishCheckout, CheckoutStates
<1>3. ASSUME NEW p \in Payments, NEW k \in Outcomes, Notify(p, k) PROVE Sound'
  BY <1>3 DEF Notify, Notices
<1>4. QED BY <1>1, <1>2, <1>3

LEMMA HandlerSteps ==
    ASSUME Sound, NEW h \in Handlers, HandlerStep(h)
    PROVE  Sound'
<1> USE PointsAssumption DEF Sound, TypeOK, NeverOverdrawn, pointVars, eventVars,
        NotHandler, NoGrant
<1>0. hpc[h] # "idle" => PaymentOf(h) \in Payments /\ KindOf(h) \in Outcomes
                           /\ CheckoutOf(PaymentOf(h)) \in Checkouts
  BY DEF TypeHandlers, Notices, Payments
<1>1. ASSUME NEW n \in Notices, Receive(h, n) PROVE Sound'
  BY <1>1 DEF Receive, TypePoints, TypePayments, TypeHandlers, HandlerPcs
<1>2. CASE ReceiveAgain(h)
  <2>1. TypeHandlers'
    BY <1>2, HandlerMoves DEF ReceiveAgain, HandlerPcs
  <2>2. QED BY <1>2, <2>1 DEF ReceiveAgain, TypePoints, TypePayments, EventStates
<1>3. CASE CreateEvent(h)
  <2>1. TypeHandlers'
    BY <1>3, HandlerMoves DEF CreateEvent, HandlerPcs
  <2>2. QED BY <1>0, <1>3, <2>1 DEF CreateEvent, TypePoints, TypePayments, EventStates
<1>4. CASE ApplyUnpaid(h)
  <2>1. TypeHandlers'
    BY <1>4, HandlerMoves DEF ApplyUnpaid, HandlerPcs
  <2>2. StatusFor(KindOf(h)) \in CheckoutStates
    BY DEF StatusFor, CheckoutStates
  <2>3. QED BY <1>0, <1>4, <2>1, <2>2 DEF ApplyUnpaid, TypePoints, TypePayments
<1>5. CASE ApplyPaid(h)
  <2>1. TypeHandlers'
    BY <1>5, HandlerMoves DEF ApplyPaid, HandlerPcs
  <2>2. QED BY <1>5, <2>1 DEF ApplyPaid, TypePoints, TypePayments
<1>6. CASE Grant(h)
  <2>1. TypeHandlers'
    BY <1>6, HandlerMoves DEF Grant, HandlerPcs
  <2>2. <<"topup", PaymentOf(h)>> \in Keys
    BY <1>0, <1>6 DEF Grant, Keys
  <2>3. QED BY <1>0, <1>6, <2>1, <2>2 DEF Grant, TypePoints, TypePayments, CheckoutStates
<1>7. CASE Close(h)
  <2>1. TypeHandlers'
    BY <1>7, HandlerMoves DEF Close, HandlerPcs
  <2>2. QED BY <1>7, <2>1 DEF Close, TypePoints, TypePayments, EventStates
<1>8. CASE Throw(h)
  <2>1. TypeHandlers'
    BY <1>8, HandlerMoves DEF Throw, HandlerPcs
  <2>2. QED BY <1>8, <2>1 DEF Throw, Fault, TypePoints, TypePayments
<1>9. CASE Die(h)
  <2>1. TypeHandlers'
    BY <1>9, HandlerMoves DEF Die, HandlerPcs
  <2>2. QED BY <1>9, <2>1 DEF Die, Fault, TypePoints, TypePayments
<1>10. QED BY <1>1, <1>2, <1>3, <1>4, <1>5, <1>6, <1>7, <1>8, <1>9
         DEF HandlerStep, Handles

LEMMA SoundStep == Sound /\ [Next]_vars => Sound'
<1> SUFFICES ASSUME Sound, [Next]_vars PROVE Sound'
  OBVIOUS
<1>1. CASE UNCHANGED vars
  BY <1>1 DEF vars, Sound, TypeOK, TypePoints, TypePayments, TypeHandlers,
      NeverOverdrawn, pointVars, eventVars, handlerVars
<1>2. CASE Next
  BY <1>2, PointSteps, CheckoutSteps, HandlerSteps DEF Next
<1>3. QED BY <1>1, <1>2

THEOREM AlwaysSound == Spec => []Sound
BY InitSound, SoundStep, PTL DEF Spec

\* Every row and request of the wallet stays in a state the schema and the code
\* allow (billing.service.ts, admin-billing.service.ts).
THEOREM WalletTypeCorrect == Spec => []TypeOK
<1>1. Sound => TypeOK
  BY DEF Sound
<1>2. QED BY AlwaysSound, <1>1, PTL

\* The wallet is never overdrawn, for any number of charges that passed the
\* entitlement check on the same points, and any crossing top-ups (spendPoints).
THEOREM WalletNeverOverdrawn == Spec => []NeverOverdrawn
<1>1. Sound => NeverOverdrawn
  BY DEF Sound
<1>2. QED BY AlwaysSound, <1>1, PTL

-----------------------------------------------------------------------------
(* The event row of a transaction keeps the outcome it was created with, and *)
(* a request goes beyond the row only with that outcome: so a mark on the    *)
(* row speaks for the outcome, whoever of the overlapping requests set it.   *)

Beyond == {"known", "apply", "grant", "mark", "fail"}
KindsAgree ==
    \A h \in Handlers : hpc[h] \in Beyond =>
        event[PaymentOf(h)] # "none" /\ eventKind[PaymentOf(h)] = KindOf(h)
NoticesWereMade ==
    \A h \in Handlers : hpc[h] # "idle" => hnot[h] \in notices
GrantsArePaid ==
    \A h \in Handlers : hpc[h] = "grant" => KindOf(h) = "paid"
MarksAreGranted ==
    \A h \in Handlers :
        hpc[h] = "mark" /\ KindOf(h) = "paid" => PaymentOf(h) \in charged
ChargedWasPaid ==
    \A p \in charged :
        event[p] # "none" /\ eventKind[p] = "paid" /\ <<p, "paid">> \in notices
SucceededWasCharged ==
    \A c \in Checkouts :
        checkout[c] = "succeeded" => \E p \in charged : CheckoutOf(p) = c
EventInv ==
    /\ KindsAgree
    /\ NoticesWereMade
    /\ GrantsArePaid
    /\ MarksAreGranted
    /\ ChargedWasPaid
    /\ SucceededWasCharged
    /\ ProcessedPaidWasGranted

LEMMA InitEvents == Init => EventInv
BY DEF Init, EventInv, KindsAgree, NoticesWereMade, GrantsArePaid, MarksAreGranted,
    ChargedWasPaid, SucceededWasCharged, ProcessedPaidWasGranted, Beyond

\* Steps that touch neither events nor requests, and take no status to succeeded.
LEMMA QuietEvents ==
    ASSUME EventInv, UNCHANGED <<eventVars, handlerVars, charged>>,
           notices \subseteq notices',
           \A c \in Checkouts : checkout'[c] = "succeeded" => checkout[c] = "succeeded"
    PROVE  EventInv'
BY DEF EventInv, KindsAgree, NoticesWereMade, GrantsArePaid, MarksAreGranted,
    ChargedWasPaid, SucceededWasCharged, ProcessedPaidWasGranted, eventVars, handlerVars

LEMMA QuietSteps ==
    ASSUME TypeOK, EventInv, Next,
           \A h \in Handlers : ~HandlerStep(h)
    PROVE  /\ UNCHANGED <<eventVars, handlerVars, charged>>
           /\ notices \subseteq notices'
           /\ \A c \in Checkouts : checkout'[c] = "succeeded" <=> checkout[c] = "succeeded"
<1>1. CASE \/ Open
           \/ \E c \in Claims : Check(c) \/ Spend(c) \/ Refund(c)
           \/ \E o \in Operators : BeginTopUp(o) \/ CommitTopUp(o)
  BY <1>1 DEF Open, Check, Spend, Refund, BeginTopUp, CommitTopUp, NotPoints, NotTopUp
<1>2. ASSUME NEW c \in Checkouts, BeginCheckout(c) \/ FinishCheckout(c)
      PROVE  /\ UNCHANGED <<eventVars, handlerVars, charged, notices>>
             /\ \A d \in Checkouts : checkout'[d] = "succeeded" <=> checkout[d] = "succeeded"
  BY <1>2 DEF BeginCheckout, FinishCheckout, NotCheckout, TypeOK, TypePayments
<1>3. ASSUME NEW p \in Payments, NEW k \in Outcomes, Notify(p, k)
      PROVE  /\ UNCHANGED <<eventVars, handlerVars, charged, checkout>>
             /\ notices \subseteq notices'
  BY <1>3 DEF Notify, NotCheckout
<1>4. QED BY <1>1, <1>2, <1>3 DEF Next

LEMMA HandlerEvents ==
    ASSUME TypeOK, EventInv, NEW h \in Handlers, HandlerStep(h)
    PROVE  EventInv'
<1> USE DEF EventInv, KindsAgree, NoticesWereMade, GrantsArePaid, MarksAreGranted,
        ChargedWasPaid, SucceededWasCharged, ProcessedPaidWasGranted, Beyond,
        NotHandler, NoGrant, eventVars, TypeOK, TypeHandlers, TypePayments
<1>0. hpc[h] # "idle" => /\ PaymentOf(h) \in Payments /\ KindOf(h) \in Outcomes
                         /\ CheckoutOf(PaymentOf(h)) \in Checkouts
                         /\ hnot[h] = <<PaymentOf(h), KindOf(h)>>
  BY DEF Notices, Payments
<1>1. ASSUME NEW n \in Notices, Receive(h, n) PROVE EventInv'
  BY <1>1 DEF Receive
<1>2. CASE ReceiveAgain(h)
  BY <1>0, <1>2 DEF ReceiveAgain, Moves
<1>3. CASE CreateEvent(h)
  <2>1. CASE event[PaymentOf(h)] = "none"
    <3>1. /\ event' = [event EXCEPT ![PaymentOf(h)] = "received"]
          /\ eventKind' = [eventKind EXCEPT ![PaymentOf(h)] = KindOf(h)]
          /\ hpc' = [hpc EXCEPT ![h] = "apply"] /\ hpc[h] # "idle"
          /\ UNCHANGED <<hnot, notices, charged, checkout>>
      BY <1>3, <2>1 DEF CreateEvent, Moves
    <3>2. PaymentOf(h) \notin charged
      BY <2>1
    <3>3. KindsAgree'
      BY <1>0, <2>1, <3>1
    <3>4. ChargedWasPaid' /\ SucceededWasCharged'
      BY <1>0, <3>1, <3>2
    <3>5. NoticesWereMade' /\ GrantsArePaid' /\ MarksAreGranted'
      BY <3>1
    <3>6. ProcessedPaidWasGranted'
      BY <1>0, <3>1
    <3>7. QED BY <3>3, <3>4, <3>5, <3>6
  <2>2. CASE event[PaymentOf(h)] # "none"
    BY <1>0, <1>3, <2>2 DEF CreateEvent, Moves, Leaves
  <2>3. QED BY <2>1, <2>2
<1>4. CASE ApplyUnpaid(h)
  BY <1>0, <1>4 DEF ApplyUnpaid, Moves, StatusFor
<1>5. CASE ApplyPaid(h)
  BY <1>0, <1>5 DEF ApplyPaid, Moves
<1>6. CASE Grant(h)
  BY <1>0, <1>6 DEF Grant, Moves
<1>7. CASE Close(h)
  BY <1>0, <1>7 DEF Close, Leaves
<1>8. CASE Throw(h)
  BY <1>0, <1>8 DEF Throw, Moves
<1>9. CASE Die(h)
  BY <1>9 DEF Die, Leaves
<1>10. QED BY <1>1, <1>2, <1>3, <1>4, <1>5, <1>6, <1>7, <1>8, <1>9
         DEF HandlerStep, Handles

LEMMA EventStep == Sound /\ EventInv /\ [Next]_vars => EventInv'
<1> SUFFICES ASSUME Sound, EventInv, [Next]_vars PROVE EventInv'
  OBVIOUS
<1> USE DEF Sound
<1>1. CASE UNCHANGED vars
  BY <1>1, QuietEvents DEF vars
<1>2. CASE \E h \in Handlers : HandlerStep(h)
  BY <1>2, HandlerEvents
<1>3. CASE Next /\ \A h \in Handlers : ~HandlerStep(h)
  BY <1>3, QuietSteps, QuietEvents
<1>4. QED BY <1>1, <1>2, <1>3

LEMMA AlwaysEvents == Spec => []EventInv
BY InitEvents, EventStep, AlwaysSound, PTL, InitSound DEF Spec

\* An event that is marked processed, and so never delivered again, was granted
\* if it is a paid one, whatever requests shared its row (handleWebhook).
THEOREM ProcessedEventsWereGranted == Spec => []ProcessedPaidWasGranted
<1>1. EventInv => ProcessedPaidWasGranted
  BY DEF EventInv
<1>2. QED BY AlwaysEvents, <1>1, PTL

HIDE DEF CheckoutOf

LEMMA StaysStep ==
    ASSUME Sound, EventInv, Next, NEW c \in Checkouts,
           checkout[c] = "succeeded", checkout'[c] # "succeeded"
    PROVE  \E n, m \in notices : /\ CheckoutOf(n[1]) = c /\ CheckoutOf(m[1]) = c
                                 /\ n[1] # m[1]
<1>1. PICK h \in Handlers : HandlerStep(h)
  BY QuietSteps DEF Sound
<1>2. ApplyUnpaid(h) /\ CheckoutOf(PaymentOf(h)) = c
  BY <1>1 DEF HandlerStep, Handles, Receive, ReceiveAgain, CreateEvent, ApplyUnpaid,
      ApplyPaid, Grant, Close, Throw, Die, NoGrant, Sound, TypeOK, TypePayments
<1>3. PICK p \in charged : CheckoutOf(p) = c
  BY DEF EventInv, SucceededWasCharged
<1>4. <<p, "paid">> \in notices /\ eventKind[p] = "paid"
  BY DEF EventInv, ChargedWasPaid
<1>5. hnot[h] \in notices /\ eventKind[PaymentOf(h)] # "paid"
  BY <1>2 DEF ApplyUnpaid, EventInv, NoticesWereMade, KindsAgree, Beyond
<1>6. QED BY <1>2, <1>3, <1>4, <1>5

\* A paid checkout is not taken back by late, repeated or overtaken reports of
\* its transaction (the update by id in handleWebhook).
THEOREM PaidCheckoutsStaySucceeded == Spec => PaidStaysSucceeded
<1>1. Sound /\ EventInv /\ [Next]_vars => [SucceededStays]_vars
  BY StaysStep DEF SucceededStays
<1>2. QED BY <1>1, AlwaysSound, AlwaysEvents, PTL DEF Spec, PaidStaysSucceeded

-----------------------------------------------------------------------------
(* The books: each row of the ledger changes one count by one, and the      *)
(* balance and the lifetime total by the points of that row.                *)

\* Nothing happens to a wallet that was not opened.
ClosedIsEmpty ==
    ~opened => /\ ledger = {} /\ charged = {} /\ allowed = {} /\ payable = {}
               /\ notices = {} /\ balance = 0 /\ granted = 0
               /\ \A o \in Operators : seen[o] = NotSeen
               /\ \A c \in Checkouts : checkout[c] = "absent"
               /\ \A h \in Handlers : hpc[h] = "idle"
Finite == IsFiniteSet(ledger) /\ IsFiniteSet(charged)
Books ==
    /\ ClosedIsEmpty
    /\ Finite
    /\ GrantedOnce
    /\ BalanceIsRunningSumUnlessBlind

LEMMA Distribute ==
    ASSUME NEW a \in Int, NEW n \in Int PROVE a * (n + 1) = a * n + a
OBVIOUS

LEMMA CountsAreNatural ==
    ASSUME Finite, NEW kind PROVE Count(kind) \in Nat
BY FS_Subset, FS_CardinalityType DEF Count, Finite

\* A new row adds one to the count of its kind, and only a top-up is a grant of
\* a transaction.
LEMMA LedgerGrows ==
    ASSUME Finite, NEW kind, NEW x, <<kind, x>> \notin ledger,
           ledger' = ledger \union {<<kind, x>>}
    PROVE  /\ IsFiniteSet(ledger)'
           /\ Count(kind)' = Count(kind) + 1
           /\ \A other : other # kind => Count(other)' = Count(other)
           /\ kind # "topup" => \A p : <<"topup", p>> \in ledger' <=> <<"topup", p>> \in ledger
<1> DEFINE k == <<kind, x>>
<1>0. k[1] = kind
  OBVIOUS
<1>1. IsFiniteSet(ledger)'
  BY FS_AddElement DEF Finite
<1>2. Count(kind)' = Count(kind) + 1
  <2> DEFINE S == {y \in ledger : y[1] = kind}
  <2>1. IsFiniteSet(S) /\ k \notin S
    BY FS_Subset DEF Finite
  <2>2. {y \in ledger' : y[1] = kind} = S \union {k}
    BY <1>0
  <2>3. Cardinality(S \union {k}) = Cardinality(S) + 1
    BY <2>1, FS_AddElement
  <2>4. QED BY <2>2, <2>3 DEF Count
<1>3. ASSUME NEW other, other # kind PROVE Count(other)' = Count(other)
  <2>1. {y \in ledger' : y[1] = other} = {y \in ledger : y[1] = other}
    BY <1>0, <1>3
  <2>2. QED BY <2>1 DEF Count
<1>4. QED BY <1>1, <1>2, <1>3

LEMMA InitBooks == Init => Books
<1> SUFFICES ASSUME Init PROVE Books
  OBVIOUS
<1>1. Finite
  BY FS_EmptySet DEF Init, Finite
<1>2. \A kind : Count(kind) = 0
  <2>1. \A kind : {k \in ledger : k[1] = kind} = {}
    BY DEF Init
  <2>2. QED BY <2>1, FS_EmptySet DEF Count
<1>3. Cardinality(charged) = 0
  BY FS_EmptySet DEF Init
<1>4. GrantedOnce
  BY <1>2, <1>3, PointsAssumption DEF Init, GrantedOnce
<1>5. BalanceIsRunningSumUnlessBlind
  BY <1>2, PointsAssumption DEF Init, BalanceIsRunningSumUnlessBlind,
      BalanceIsRunningSum, RunningSum
<1>6. ClosedIsEmpty
  BY DEF Init, ClosedIsEmpty
<1>7. QED BY <1>1, <1>4, <1>5, <1>6 DEF Books

\* A wallet that is still closed took no step that leaves a trace.
LEMMA ClosedStep ==
    ASSUME Sound, ClosedIsEmpty, Next PROVE ClosedIsEmpty'
<1> USE DEF ClosedIsEmpty, pointVars, eventVars, handlerVars
<1>1. CASE \/ Open
           \/ \E c \in Claims : Check(c) \/ Spend(c) \/ Refund(c)
           \/ \E o \in Operators : BeginTopUp(o) \/ CommitTopUp(o)
  BY <1>1 DEF Open, Check, Spend, Refund, BeginTopUp, CommitTopUp, NotPoints, NotTopUp
<1>2. CASE \E c \in Checkouts : BeginCheckout(c) \/ FinishCheckout(c)
  BY <1>2 DEF BeginCheckout, FinishCheckout, NotCheckout
<1>3. CASE \E p \in Payments, k \in Outcomes : Notify(p, k)
  BY <1>3 DEF Notify, NotCheckout, Payments, CheckoutOf
<1>4. CASE \E h \in Handlers : HandlerStep(h)
  BY <1>4 DEF HandlerStep, Handles, Receive, ReceiveAgain, CreateEvent, ApplyUnpaid,
      ApplyPaid, Grant, Close, Throw, Die, NoGrant
<1>5. QED BY <1>1, <1>2, <1>3, <1>4 DEF Next

\* A step that writes no row of the ledger.
LEMMA QuietBooks ==
    ASSUME Books, UNCHANGED <<balance, granted, ledger, charged, blind>>
    PROVE  (Finite /\ GrantedOnce /\ BalanceIsRunningSumUnlessBlind)'
BY DEF Books, Finite, GrantedOnce, BalanceIsRunningSumUnlessBlind, BalanceIsRunningSum,
    RunningSum, Count

LEMMA BooksStep == Sound /\ Books /\ [Next]_vars => Books'
<1> SUFFICES ASSUME Sound, Books, [Next]_vars
             PROVE  Books'
  OBVIOUS
<1> USE PointsAssumption DEF Books
<1> DEFINE Balanced == (Finite /\ GrantedOnce /\ BalanceIsRunningSumUnlessBlind)'
<1>0. /\ balance \in Int /\ granted \in Int
      /\ Trial \in Int /\ Cost \in Int /\ Bundle \in Int /\ Gift \in Int
      /\ \A kind : Count(kind) \in Int
      /\ Cardinality(charged) \in Int
  BY CountsAreNatural, FS_CardinalityType DEF Sound, TypeOK, TypePoints, Finite
<1>1. CASE UNCHANGED vars
  BY <1>1, QuietBooks DEF vars, pointVars, ClosedIsEmpty, handlerVars
<1>2. CASE Open
  <2>1. ~opened /\ <<"trial", "account">> \notin ledger /\ blind' = blind
        /\ charged' = charged /\ balance = 0 /\ granted = 0
        /\ balance' = Trial /\ granted' = Trial
        /\ ledger' = ledger \union {<<"trial", "account">>}
    BY <1>2 DEF Open, NotPoints, ClosedIsEmpty
  <2>2. IsFiniteSet(ledger)' /\ Count("trial")' = Count("trial") + 1
        /\ Count("topup")' = Count("topup") /\ Count("admin")' = Count("admin")
        /\ Count("refund")' = Count("refund") /\ Count("spend")' = Count("spend")
        /\ \A p : <<"topup", p>> \in ledger' <=> <<"topup", p>> \in ledger
    BY <2>1, LedgerGrows
  <2>3. Trial * (Count("trial") + 1) = Trial * Count("trial") + Trial
    BY <1>0, Distribute
  <2>4. Balanced
    <3>0. granted' = granted + Trial /\ charged' = charged
      BY <1>0, <2>1
    <3>1. GrantedOnce'
      BY <1>0, <2>2, <2>3, <3>0 DEF GrantedOnce
    <3>2. RunningSum' = RunningSum + Trial
      BY <1>0, <2>2, <2>3 DEF RunningSum
    <3>3. BalanceIsRunningSumUnlessBlind'
      BY <1>0, <2>1, <3>2 DEF BalanceIsRunningSumUnlessBlind, BalanceIsRunningSum
    <3>4. QED BY <2>1, <2>2, <3>1, <3>3 DEF Finite
  <2>5. QED BY <2>4, <1>2, ClosedStep DEF Next
<1>3. ASSUME NEW c \in Claims, Spend(c) PROVE Books'
  <2>1. <<"spend", c>> \notin ledger /\ blind' = blind /\ charged' = charged
        /\ balance' = balance - Cost /\ granted' = granted
        /\ ledger' = ledger \union {<<"spend", c>>}
    BY <1>3 DEF Spend, NotPoints
  <2>2. IsFiniteSet(ledger)' /\ Count("spend")' = Count("spend") + 1
        /\ Count("trial")' = Count("trial") /\ Count("topup")' = Count("topup")
        /\ Count("admin")' = Count("admin") /\ Count("refund")' = Count("refund")
        /\ \A p : <<"topup", p>> \in ledger' <=> <<"topup", p>> \in ledger
    BY <2>1, LedgerGrows
  <2>3. Cost * (Count("spend") + 1) = Cost * Count("spend") + Cost
    BY <1>0, Distribute
  <2>4. Balanced
    <3>1. GrantedOnce'
      BY <1>0, <2>1, <2>2, <2>3 DEF GrantedOnce
    <3>2. RunningSum' = RunningSum - Cost
      BY <1>0, <2>2, <2>3 DEF RunningSum
    <3>3. BalanceIsRunningSumUnlessBlind'
      BY <1>0, <2>1, <3>2 DEF BalanceIsRunningSumUnlessBlind, BalanceIsRunningSum
    <3>4. QED BY <2>1, <2>2, <3>1, <3>3 DEF Finite
  <2>5. QED BY <2>4, <1>3, ClosedStep DEF Next
<1>4. ASSUME NEW c \in Claims, Refund(c) PROVE Books'
  <2>1. <<"refund", c>> \notin ledger /\ blind' = blind /\ charged' = charged
        /\ balance' = balance + Cost /\ granted' = granted
        /\ ledger' = ledger \union {<<"refund", c>>}
    BY <1>4 DEF Refund, NotPoints
  <2>2. IsFiniteSet(ledger)' /\ Count("refund")' = Count("refund") + 1
        /\ Count("trial")' = Count("trial") /\ Count("topup")' = Count("topup")
        /\ Count("admin")' = Count("admin") /\ Count("spend")' = Count("spend")
        /\ \A p : <<"topup", p>> \in ledger' <=> <<"topup", p>> \in ledger
    BY <2>1, LedgerGrows
  <2>3. Cost * (Count("refund") + 1) = Cost * Count("refund") + Cost
    BY <1>0, Distribute
  <2>4. Balanced
    <3>1. GrantedOnce'
      BY <1>0, <2>1, <2>2, <2>3 DEF GrantedOnce
    <3>2. RunningSum' = RunningSum + Cost
      BY <1>0, <2>2, <2>3 DEF RunningSum
    <3>3. BalanceIsRunningSumUnlessBlind'
      BY <1>0, <2>1, <3>2 DEF BalanceIsRunningSumUnlessBlind, BalanceIsRunningSum
    <3>4. QED BY <2>1, <2>2, <3>1, <3>3 DEF Finite
  <2>5. QED BY <2>4, <1>4, ClosedStep DEF Next
<1>5. ASSUME NEW o \in Operators, CommitTopUp(o) PROVE Books'
  <2>1. <<"admin", o>> \notin ledger /\ charged' = charged
        /\ (blind' \/ (balance' = balance + Gift /\ ~blind)) /\ granted' = granted + Gift
        /\ ledger' = ledger \union {<<"admin", o>>}
    BY <1>5 DEF CommitTopUp, NotTopUp
  <2>2. IsFiniteSet(ledger)' /\ Count("admin")' = Count("admin") + 1
        /\ Count("trial")' = Count("trial") /\ Count("topup")' = Count("topup")
        /\ Count("refund")' = Count("refund") /\ Count("spend")' = Count("spend")
        /\ \A p : <<"topup", p>> \in ledger' <=> <<"topup", p>> \in ledger
    BY <2>1, LedgerGrows
  <2>3. Gift * (Count("admin") + 1) = Gift * Count("admin") + Gift
    BY <1>0, Distribute
  <2>4. Balanced
    <3>1. GrantedOnce'
      BY <1>0, <2>1, <2>2, <2>3 DEF GrantedOnce
    <3>2. RunningSum' = RunningSum + Gift
      BY <1>0, <2>2, <2>3 DEF RunningSum
    <3>3. BalanceIsRunningSumUnlessBlind'
      BY <1>0, <2>1, <3>2 DEF BalanceIsRunningSumUnlessBlind, BalanceIsRunningSum
    <3>4. QED BY <2>1, <2>2, <3>1, <3>3 DEF Finite
  <2>5. QED BY <2>4, <1>5, ClosedStep DEF Next
<1>6. ASSUME NEW h \in Handlers, Grant(h), PaymentOf(h) \notin charged PROVE Books'
  <2>1. PICK p \in Payments : p = PaymentOf(h)
    BY <1>6 DEF Grant, Sound, TypeOK, TypeHandlers, Notices
  <2>2. <<"topup", p>> \notin ledger /\ blind' = blind
        /\ charged' = charged \union {p} /\ p \notin charged
        /\ balance' = balance + Bundle /\ granted' = granted + Bundle
        /\ ledger' = ledger \union {<<"topup", p>>}
    BY <1>6, <2>1 DEF Grant, GrantedOnce
  <2>3. IsFiniteSet(ledger)' /\ Count("topup")' = Count("topup") + 1
        /\ Count("trial")' = Count("trial") /\ Count("admin")' = Count("admin")
        /\ Count("refund")' = Count("refund") /\ Count("spend")' = Count("spend")
    BY <2>2, LedgerGrows
  <2>4. IsFiniteSet(charged)' /\ Cardinality(charged)' = Cardinality(charged) + 1
    BY <2>2, FS_AddElement DEF Finite
  <2>5. /\ Bundle * (Count("topup") + 1) = Bundle * Count("topup") + Bundle
        /\ Bundle * (Cardinality(charged) + 1) = Bundle * Cardinality(charged) + Bundle
    BY <1>0, Distribute
  <2>6. (\A q \in Payments : q \in charged <=> <<"topup", q>> \in ledger)'
    BY <2>2 DEF GrantedOnce
  <2>7. Balanced
    <3>1. GrantedOnce'
      BY <1>0, <2>2, <2>3, <2>4, <2>5, <2>6 DEF GrantedOnce
    <3>2. RunningSum' = RunningSum + Bundle
      BY <1>0, <2>3, <2>5 DEF RunningSum
    <3>3. BalanceIsRunningSumUnlessBlind'
      BY <1>0, <2>2, <3>2 DEF BalanceIsRunningSumUnlessBlind, BalanceIsRunningSum
    <3>4. QED BY <2>3, <2>4, <3>1, <3>3 DEF Finite
  <2>8. QED BY <2>7, <1>6, ClosedStep DEF Next, HandlerStep, Handles
<1>7. ASSUME Next, UNCHANGED <<balance, granted, ledger, charged, blind>>
      PROVE  Books'
  BY <1>7, QuietBooks, ClosedStep
<1>8. CASE \/ \E c \in Claims : Check(c)
           \/ \E o \in Operators : BeginTopUp(o)
           \/ \E c \in Checkouts : BeginCheckout(c) \/ FinishCheckout(c)
           \/ \E p \in Payments, k \in Outcomes : Notify(p, k)
           \/ \E h \in Handlers : HandlerStep(h) /\ ~(Grant(h) /\ PaymentOf(h) \notin charged)
  <2>1. UNCHANGED <<balance, granted, ledger, charged, blind>>
    BY <1>8 DEF Check, BeginTopUp, BeginCheckout, FinishCheckout, Notify, HandlerStep,
        Handles, Receive, ReceiveAgain, CreateEvent, ApplyUnpaid, ApplyPaid, Grant,
        Close, Throw, Die, NoGrant, NotPoints, NotTopUp, NotCheckout, pointVars
  <2>2. Next
    BY <1>8 DEF Next
  <2>3. QED BY <1>7, <2>1, <2>2
<1>9. QED BY <1>1, <1>2, <1>3, <1>4, <1>5, <1>6, <1>8 DEF Next, HandlerStep, Handles

LEMMA AlwaysBooks == Spec => []Books
BY InitBooks, BooksStep, AlwaysSound, PTL DEF Spec

\* Every transaction of the provider is credited exactly once, however many
\* deliveries of it overlap (the unique transaction row of applyPaidEvent).
THEOREM PaymentsGrantedOnce == Spec => []GrantedOnce
<1>1. Books => GrantedOnce
  BY DEF Books
<1>2. QED BY AlwaysBooks, <1>1, PTL

\* The balance is the running sum of the ledger, unless a manual top-up wrote
\* over a balance that had changed since it was read (topUpWallet).
THEOREM BalanceMatchesLedger == Spec => []BalanceIsRunningSumUnlessBlind
<1>1. Books => BalanceIsRunningSumUnlessBlind
  BY DEF Books
<1>2. QED BY AlwaysBooks, <1>1, PTL
=============================================================================
