-------------------------- MODULE YooKassaPayment --------------------------
(***************************************************************************)
(* How an order is paid through YooKassa: the first half of                *)
(* app/services/orders.py, app/payments/yookassa.py and the webhook of     *)
(* app/payment_gateway.py.                                                 *)
(*                                                                         *)
(* The bot, the admin panel and the gateway read a payment from YooKassa   *)
(* and store what they read in a later transaction, so a snapshot may be   *)
(* older than what the database already knows.  The payment of an order is *)
(* created under a key derived from its number: YooKassa makes at most one *)
(* (an assumption about the service), whose state is `provider'.           *)
(***************************************************************************)
EXTENDS OrderDomain

CONSTANTS
  Orders, NoOrder,
  Tasks,
  Gateways                \* the tasks that run yookassa_webhook

ASSUME OrderAssumption == NoOrder \notin Orders
ASSUME TaskAssumption == Gateways \subseteq Tasks

VARIABLES
  status,         \* orders.status
  orderPayment,   \* orders.payment_status
  payment,        \* the payments row
  late,           \* orders.expires_at has passed
  provider,       \* the payment at YooKassa
  events,         \* notifications YooKassa sends until they are acknowledged
  task            \* the local state of each task

vars == <<status, orderPayment, payment, late, provider, events, task>>

-----------------------------------------------------------------------------
(* Types *)

Final == {"succeeded", "canceled"}
Notified == Final \union {"waiting_for_capture"}
\* PAYMENT_STATUSES: what a snapshot says.
Snapshot == Notified \union {"pending"}
PaymentStatus == Snapshot \union {"none", "created"}

\* provider_reference starts as "pending:<id>"; url: confirmation_url is stored.
Payment ==
  [ref: {"none", "pending", "known"}, status: PaymentStatus, url: BOOLEAN]
NoPayment == [ref |-> "none", status |-> "none", url |-> FALSE]

\* then: a sync that had to create the payment first reads it afterwards.
Task ==
  [pc: {"idle", "initiate", "create", "get", "apply"},
   order: Orders \union {NoOrder}, snap: Snapshot \union {"none"},
   then: {"done", "get"}, event: Notified \union {"none"}]
Idle ==
  [pc |-> "idle", order |-> NoOrder, snap |-> "none", then |-> "done", event |-> "none"]

TaskOK ==
  /\ task \in [Tasks -> Task]
  /\ \A t \in Tasks :
       /\ task[t].pc # "idle" => task[t].order \in Orders
       /\ task[t].pc = "apply" => task[t].snap \in Snapshot

TypeOK ==
  /\ status \in [Orders -> OrderStatus]
  /\ orderPayment \in [Orders -> PaymentStatus]
  /\ payment \in [Orders -> Payment]
  /\ late \in [Orders -> BOOLEAN]
  /\ provider \in [Orders -> Snapshot \union {"none"}]
  /\ events \in [Orders -> SUBSET Notified]
  /\ TaskOK

-----------------------------------------------------------------------------
(* Helpers *)

SetTask(t, new) == task' = [task EXCEPT ![t] = new]
Begin(t, o, pc) == SetTask(t, [Idle EXCEPT !.pc = pc, !.order = o])
SetPayment(o, p) == payment' = [payment EXCEPT ![o] = p]

\* The task holds a snapshot and is about to store it.
Holds(t, s) == SetTask(t, [task[t] EXCEPT !.pc = "apply", !.snap = s])

Awaiting == {"waiting_for_payment", "payment_detected", "payment_confirming"}
Closed == {"payment_expired", "cancelled"}

\* Mutant: a hold counts as paid.
MutantNextStatusHold(s, snap) == IF snap = "pending" \/ s \notin Awaiting THEN s ELSE "paid"

\* _transition_yookassa_status: the status of the order after a snapshot.  The
\* steps through PAYMENT_DETECTED and PAYMENT_CONFIRMING are one transaction.
Reached ==
  [waiting_for_capture |-> "payment_confirming",
   canceled |-> "payment_failed", succeeded |-> "paid"]
NextStatus(s, snap) ==
  IF s \in Awaiting /\ snap \in Notified THEN Reached[snap]
  ELSE IF s \in Closed /\ snap = "succeeded" THEN "manual_review" ELSE s

-----------------------------------------------------------------------------
(* Initiation: the row and the key are stored before YooKassa is asked.    *)

\* The buyer confirms the order in the bot.
BeginInitiate(t, o) ==
  /\ t \notin Gateways /\ task[t] = Idle
  /\ Begin(t, o, "initiate")
  /\ UNCHANGED <<status, orderPayment, payment, late, provider, events>>

Payable(o) == status[o] \in {"created", "waiting_for_payment"}

\* initiate_yookassa_payment raises.
InitiateRefused(t) ==
  LET o == task[t].order IN
  /\ task[t].pc = "initiate"
  /\ ~Payable(o) \/ late[o]
  /\ SetTask(t, Idle)
  /\ UNCHANGED <<status, orderPayment, payment, late, provider, events>>

\* The buyer already has a link; a sync goes on and reads the payment.
LinkKnown(t) ==
  LET o == task[t].order IN
  /\ task[t].pc = "initiate"
  /\ Payable(o) /\ ~late[o] /\ payment[o].url
  /\ SetTask(t, IF task[t].then = "get"
                THEN [task[t] EXCEPT !.pc = "get", !.then = "done"] ELSE Idle)
  /\ UNCHANGED <<status, orderPayment, payment, late, provider, events>>

\* Mutant: the status is not read again under the lock.
MutantSetUpPayment(t) ==
  LET o == task[t].order IN
  /\ task[t].pc = "initiate"
  /\ ~late[o] /\ ~payment[o].url
  /\ status' = [status EXCEPT ![o] = "waiting_for_payment"]
  /\ orderPayment' = [orderPayment EXCEPT ![o] = "created"]
  /\ IF payment[o] = NoPayment
       THEN SetPayment(o, [ref |-> "pending", status |-> "created", url |-> FALSE])
       ELSE UNCHANGED payment
  /\ SetTask(t, [task[t] EXCEPT !.pc = "create"])
  /\ UNCHANGED <<late, provider, events>>

\* setup_yookassa_payment: an existing row is kept, the window starts again.
SetUpPayment(t) ==
  LET o == task[t].order IN
  /\ task[t].pc = "initiate"
  /\ Payable(o) /\ ~late[o] /\ ~payment[o].url
  /\ status' = [status EXCEPT ![o] = "waiting_for_payment"]
  /\ orderPayment' = [orderPayment EXCEPT ![o] = "created"]
  /\ IF payment[o] = NoPayment
       THEN SetPayment(o, [ref |-> "pending", status |-> "created", url |-> FALSE])
       ELSE UNCHANGED payment
  /\ SetTask(t, [task[t] EXCEPT !.pc = "create"])
  /\ UNCHANGED <<late, provider, events>>

\* create_payment: the first call with the key makes the payment, another one
\* finds it.  The answer repeats the first one or shows the present state.
CreateReturns(t) ==
  LET o == task[t].order
      now == IF provider[o] = "none" THEN "pending" ELSE provider[o]
  IN
  /\ task[t].pc = "create"
  /\ provider' = [provider EXCEPT ![o] = now]
  /\ \E s \in {"pending", now} : Holds(t, s)
  /\ UNCHANGED <<status, orderPayment, payment, late, events>>

\* YooKassa made the payment and the answer was lost on its way.
CreateLost(t) ==
  LET o == task[t].order IN
  /\ task[t].pc = "create" /\ provider[o] = "none"
  /\ provider' = [provider EXCEPT ![o] = "pending"]
  /\ SetTask(t, Idle)
  /\ UNCHANGED <<status, orderPayment, payment, late, events>>

-----------------------------------------------------------------------------
(* Reading the payment: a check of the buyer or an administrator, a webhook *)

\* sync_yookassa_payment reads the row without a lock.
BeginSync(t, o) ==
  /\ t \notin Gateways /\ task[t] = Idle
  /\ payment[o].ref # "none"
  /\ SetTask(t, IF payment[o].ref = "known"
                THEN [Idle EXCEPT !.pc = "get", !.order = o]
                ELSE [Idle EXCEPT !.pc = "initiate", !.order = o, !.then = "get"])
  /\ UNCHANGED <<status, orderPayment, payment, late, provider, events>>

\* Mutant: a notification is matched by the stored reference, and acknowledged
\* unread when there is none yet.
MutantBeginWebhook(t, o) ==
  /\ t \in Gateways /\ task[t] = Idle
  /\ \E e \in events[o] :
       IF payment[o].ref = "known"
       THEN /\ SetTask(t, [Idle EXCEPT !.pc = "get", !.order = o, !.event = e])
            /\ UNCHANGED events
       ELSE /\ events' = [events EXCEPT ![o] = @ \ {e}]
            /\ UNCHANGED task
  /\ UNCHANGED <<status, orderPayment, payment, late, provider>>

\* yookassa_webhook believes nothing of a notification but the payment id.
BeginWebhook(t, o) ==
  /\ t \in Gateways /\ task[t] = Idle
  /\ \E e \in events[o] :
       SetTask(t, [Idle EXCEPT !.pc = "get", !.order = o, !.event = e])
  /\ UNCHANGED <<status, orderPayment, payment, late, provider, events>>

\* Mutant: a failed read counts as a canceled payment.
MutantGetReturns(t) ==
  /\ task[t].pc = "get"
  /\ Holds(t, provider[task[t].order]) \/ Holds(t, "canceled")
  /\ UNCHANGED <<status, orderPayment, payment, late, provider, events>>

\* get_payment
GetReturns(t) ==
  /\ task[t].pc = "get"
  /\ Holds(t, provider[task[t].order])
  /\ UNCHANGED <<status, orderPayment, payment, late, provider, events>>

\* Mutant: a webhook is acknowledged whatever happened to it.
MutantStops(t) ==
  /\ task[t].pc # "idle"
  /\ events' = [events EXCEPT ![task[t].order] = @ \ {task[t].event}]
  /\ SetTask(t, Idle)
  /\ UNCHANGED <<status, orderPayment, payment, late, provider>>

\* A call fails (YooKassaError: a webhook answers 503) or the process stops.
Stops(t) ==
  /\ task[t].pc # "idle"
  /\ SetTask(t, Idle)
  /\ UNCHANGED <<status, orderPayment, payment, late, provider, events>>

-----------------------------------------------------------------------------
(* apply_yookassa_snapshot *)

\* The webhook answers 200; YooKassa may miss the answer and send it again.
Acknowledge(t) ==
  LET o == task[t].order IN
  \E left \in {events[o], events[o] \ {task[t].event}} :
    events' = [events EXCEPT ![o] = left]

\* payment.status is SUCCEEDED and the snapshot says something else.
Regresses(t) == payment[task[t].order].status = "succeeded" /\ task[t].snap # "succeeded"

\* Mutant: whatever was read last is stored.
MutantApplySnapshot(t) ==
  LET o == task[t].order
      s == task[t].snap
  IN
  /\ task[t].pc = "apply"
  /\ status' = [status EXCEPT ![o] = NextStatus(@, s)]
  /\ orderPayment' = [orderPayment EXCEPT ![o] = s]
  /\ SetPayment(o, [ref |-> "known", status |-> s, url |-> payment[o].url \/ s = "pending"])
  /\ SetTask(t, IF task[t].then = "get"
                THEN [task[t] EXCEPT !.pc = "get", !.then = "done"] ELSE Idle)
  /\ Acknowledge(t)
  /\ UNCHANGED <<late, provider>>

\* YooKassa shows the link of a payment that waits for the buyer.
ApplySnapshot(t) ==
  LET o == task[t].order
      s == task[t].snap
  IN
  /\ task[t].pc = "apply" /\ ~Regresses(t)
  /\ status' = [status EXCEPT ![o] = NextStatus(@, s)]
  /\ orderPayment' = [orderPayment EXCEPT ![o] = s]
  /\ SetPayment(o, [ref |-> "known", status |-> s, url |-> payment[o].url \/ s = "pending"])
  /\ SetTask(t, IF task[t].then = "get"
                THEN [task[t] EXCEPT !.pc = "get", !.then = "done"] ELSE Idle)
  /\ Acknowledge(t)
  /\ UNCHANGED <<late, provider>>

\* The ValueError rolls back; a webhook is acknowledged all the same.
ApplyRefused(t) ==
  /\ task[t].pc = "apply" /\ Regresses(t)
  /\ SetTask(t, Idle)
  /\ Acknowledge(t)
  /\ UNCHANGED <<status, orderPayment, payment, late, provider>>

-----------------------------------------------------------------------------
(* The rest of the order's life before delivery *)

\* Mutant: the payment row is not looked at.
MutantCancel(o) ==
  /\ Payable(o)
  /\ status' = [status EXCEPT ![o] = "cancelled"]
  /\ UNCHANGED <<orderPayment, payment, late, provider, events, task>>

\* cancel_order, admin_cancel_order
Cancel(o) ==
  /\ Payable(o) /\ payment[o] = NoPayment
  /\ status' = [status EXCEPT ![o] = "cancelled"]
  /\ UNCHANGED <<orderPayment, payment, late, provider, events, task>>

\* admin_move_to_manual_review
MoveToManualReview(o) ==
  /\ status[o] # "payment_failed" /\ CanTransition(status[o], "manual_review")
  /\ status' = [status EXCEPT ![o] = "manual_review"]
  /\ UNCHANGED <<orderPayment, payment, late, provider, events, task>>

Confirmed(o) == payment[o].status = "succeeded" /\ orderPayment[o] = "succeeded"

\* deliver_paid_order takes the order up (PurchaseDelivery) if the payment part
\* of _purchase_validation_error finds nothing.
TakeUp(o) ==
  /\ status[o] = "paid"
  /\ status' = [status EXCEPT ![o] =
                  IF Confirmed(o) THEN "purchase_processing" ELSE "manual_review"]
  /\ UNCHANGED <<orderPayment, payment, late, provider, events, task>>

WindowCloses(o) ==
  /\ payment[o].ref # "none" /\ ~late[o]
  /\ late' = [late EXCEPT ![o] = TRUE]
  /\ UNCHANGED <<status, orderPayment, payment, provider, events, task>>

\* The buyer pays, YooKassa takes or returns the money; each change is notified.
ProviderMoves(o) ==
  /\ \E s \in Notified :
       /\ \/ provider[o] = "pending"
          \/ provider[o] = "waiting_for_capture" /\ s \in Final
       /\ provider' = [provider EXCEPT ![o] = s]
       /\ events' = [events EXCEPT ![o] = @ \union {s}]
  /\ UNCHANGED <<status, orderPayment, payment, late, task>>

-----------------------------------------------------------------------------
Init ==
  /\ status = [o \in Orders |-> "created"]
  /\ orderPayment = [o \in Orders |-> "none"]
  /\ payment = [o \in Orders |-> NoPayment]
  /\ late = [o \in Orders |-> FALSE]
  /\ provider = [o \in Orders |-> "none"]
  /\ events = [o \in Orders |-> {}]
  /\ task = [t \in Tasks |-> Idle]

Initiation(t) ==
  InitiateRefused(t) \/ LinkKnown(t) \/ SetUpPayment(t) \/ CreateReturns(t) \/ CreateLost(t)

Store(t) == ApplySnapshot(t) \/ ApplyRefused(t)

Local(o) ==
  Cancel(o) \/ MoveToManualReview(o) \/ TakeUp(o) \/ WindowCloses(o) \/ ProviderMoves(o)

Next ==
  \/ \E t \in Tasks :
       \/ Initiation(t) \/ GetReturns(t) \/ Store(t) \/ Stops(t)
       \/ \E o \in Orders : BeginInitiate(t, o) \/ BeginSync(t, o) \/ BeginWebhook(t, o)
  \/ \E o \in Orders : Local(o)

Spec == Init /\ [][Next]_vars

-----------------------------------------------------------------------------
(* Safety *)

\* Stars are bought only for a captured payment: no hold, no stale snapshot and
\* no retried creation makes an order PAID (apply_yookassa_snapshot).
PaidIsCaptured ==
  \A o \in Orders : status[o] \in {"paid", "purchase_processing"} => provider[o] = "succeeded"

\* A paid order passes the payment checks of its delivery, so none is diverted
\* to a review by a snapshot that came late (_purchase_validation_error).
PaidIsConfirmed == \A o \in Orders : status[o] = "paid" => Confirmed(o)

\* An order that failed is one the buyer cannot be charged for any more
\* (_transition_yookassa_status).
FailedIsCanceled ==
  \A o \in Orders : status[o] = "payment_failed" => provider[o] = "canceled"

\* While YooKassa may charge or has charged the buyer, the order is not one that
\* was never paid or was cancelled (cancel_order, setup_yookassa_payment).
ChargedIsNotClosed ==
  \A o \in Orders : provider[o] # "none" => status[o] \notin {"created"} \union Closed

\* The order tells how its payment ended.
Noticed(o) ==
  \/ provider[o] = "succeeded" /\ Confirmed(o)
       /\ status[o] \in {"paid", "purchase_processing", "manual_review"}
  \/ provider[o] = "canceled" /\ status[o] \in {"payment_failed", "manual_review"}

\* A notification of the outcome is acknowledged only once the outcome is
\* stored: a dropped webhook never loses a payment (yookassa_webhook).
AcknowledgedIsNoticed ==
  \A o \in Orders :
    provider[o] \in Final /\ provider[o] \notin events[o] => Noticed(o)

\* What the database knows of a captured payment is never taken back, in either
\* of the two rows that store it (set_payment_status, setup_yookassa_payment).
SucceededIsFinal ==
  [][\A o \in Orders : Confirmed(o) => Confirmed(o)']_vars

\* The two steps OutcomeIsNoticed rests on.  One delivery of the webhook suffices,
\* even when the buyer or an administrator stored something older in between
\* (yookassa_webhook, apply_yookassa_snapshot); and no later snapshot, retried
\* creation or operator makes the order forget how its payment ended.
WebhookSuffices ==
  [][\A t \in Gateways, o \in Orders :
       Store(t) /\ task[t].order = o /\ task[t].event \in Final => Noticed(o)']_vars
NoticedIsFinal == [][\A o \in Orders : Noticed(o) => Noticed(o)']_vars

\* The table lists every step of the way _transition_yookassa_status takes.
OnTheWay(from, to) ==
  \/ CanTransition(from, to)
  \/ CanTransition(from, "payment_confirming") /\ CanTransition("payment_confirming", to)
  \/ /\ CanTransition(from, "payment_detected")
     /\ CanTransition("payment_detected", "payment_confirming")
     /\ CanTransition("payment_confirming", to)

\* Every status a step stores can be reached from the one the order has then,
\* however old the snapshot is: transition never raises, so no webhook is acknowledged
\* over a ValueError and lost (OrderRepository.transition, _transition_yookassa_status).
NothingIsRefused == [][\A o \in Orders : OnTheWay(status[o], status'[o])]_vars

-----------------------------------------------------------------------------
(* The inductive invariant of the safety properties *)

\* What a task holds is YooKassa's, if maybe an old state of it.
TaskInv ==
  \A t \in Tasks : LET o == task[t].order IN
    /\ task[t].pc \in {"create", "get", "apply"} => payment[o].ref # "none"
    /\ task[t].pc \in {"initiate", "create"} => task[t].event = "none"
    /\ task[t].pc = "get" => provider[o] # "none"
    /\ task[t].pc = "apply" =>
         /\ provider[o] # "none"
         /\ task[t].snap \in Final => task[t].snap = provider[o]
         /\ task[t].event \in Final => task[t].snap = provider[o]
    /\ task[t].event \in Final => task[t].pc = "idle" \/ provider[o] = task[t].event

\* A payment exists only where a row was stored before.
RowInv ==
  \A o \in Orders :
    /\ payment[o].ref = "none" => provider[o] = "none" /\ payment[o] = NoPayment
    /\ payment[o].ref = "known" => provider[o] # "none"
    /\ payment[o].url => payment[o].ref = "known"
    /\ payment[o].ref # "none" => status[o] \notin {"created"} \union Closed
    /\ events[o] # {} => provider[o] # "none"
    /\ events[o] \intersect Final \subseteq {provider[o]}
    /\ status[o] \in {"created", "cancelled", "manual_review", "payment_failed",
                     "paid", "purchase_processing"} \union Awaiting

\* The two rows agree about a captured payment, and the order moved with them.
CaptureInv ==
  \A o \in Orders :
    payment[o].status = "succeeded" =>
      /\ provider[o] = "succeeded" /\ Confirmed(o)
      /\ status[o] \in {"paid", "purchase_processing", "manual_review"}

Inv ==
  /\ TypeOK /\ TaskInv /\ RowInv /\ CaptureInv
  /\ PaidIsCaptured /\ PaidIsConfirmed /\ FailedIsCanceled /\ AcknowledgedIsNoticed

-----------------------------------------------------------------------------
(* The promise *)

MoneyOf(o) ==
  IF provider[o] = "succeeded" THEN "received"
  ELSE IF provider[o] = "canceled" THEN "declined"
  ELSE "none"

Promise == INSTANCE PaymentPromise WITH
  stage <- [o \in Orders |-> StageOf(status[o])],
  money <- [o \in Orders |-> MoneyOf(o)]

\* Stale snapshots, repeated webhooks and lost answers never make an order paid or
\* failed that is not so at YooKassa, never make it paid twice, and never reopen
\* one that was closed or is reviewed (apply_yookassa_snapshot).
KeepsPayment == Promise!Spec

-----------------------------------------------------------------------------
(* Liveness *)

\* YooKassa sends a notification again until it is acknowledged, the gateway is
\* reachable and YooKassa readable again and again.  Buyers and administrators
\* owe nothing.
Fairness ==
  \A o \in Orders : \A t \in Gateways :
    /\ SF_vars(BeginWebhook(t, o))
    /\ SF_vars(GetReturns(t) /\ task[t].order = o)
    /\ SF_vars(Store(t) /\ task[t].order = o)

FairSpec == Spec /\ Fairness

\* A payment that ended is noticed through the webhook alone: the buyer need not
\* press a button, and whoever created it may have died with its id.
OutcomeIsNoticed ==
  \A o \in Orders : provider[o] \in Final ~> Noticed(o)
=============================================================================
