-------------------------- MODULE PurchaseDelivery --------------------------
(***************************************************************************)
(* How a paid order becomes Stars (app/services/orders.py).                *)
(*                                                                         *)
(* Tasks of several processes (the purchase worker, the bot, the admin     *)
(* panel) run the same OrderService against one database.  A transaction   *)
(* locks the order row first, so one transaction is one action; the calls  *)
(* to Fragment happen between transactions, so whatever a task learnt      *)
(* before a call may be stale when it applies the answer.                  *)
(*                                                                         *)
(* A request is one POST to Fragment.  It is created when the task sends   *)
(* it, and Fragment decides about it whether or not the task is still      *)
(* there to hear the answer.                                               *)
(***************************************************************************)
EXTENDS OrderDomain, Naturals

CONSTANTS
  Orders, NoOrder,
  YooKassa,               \* the orders paid through YooKassa
  Requests, NoRequest,    \* every POST that can be sent; bounds the model
  Txs, NoTx,              \* provider transaction ids
  Processes, Tasks,
  TaskProcess,            \* the process a task runs in
  Workers,                \* tasks that run process_recoverable_orders
  Seeded,                 \* processes that hold the wallet seed
  MaxCrashes              \* bounds process restarts

ASSUME SentinelAssumption ==
  NoOrder \notin Orders /\ NoRequest \notin Requests /\ NoTx \notin Txs
ASSUME OrderAssumption == YooKassa \subseteq Orders
ASSUME TaskAssumption ==
  TaskProcess \in [Tasks -> Processes] /\ Workers \subseteq Tasks
ASSUME BoundAssumption == MaxCrashes \in Nat

VARIABLES
  status,     \* orders.status
  valid,      \* whether _purchase_validation_error returns None
  attempt,    \* the purchase_attempts row of an order
  enabled,    \* the purchases_enabled runtime control
  fragment,   \* what Fragment knows of each request
  money,      \* the refund of an order at the payment side: what the buyer gets
  refund,     \* payments.refund_status: what the database knows of it
  retried,    \* history: orders whose balance retry an admin approved
  task,       \* the local state of each task
  crashes

vars == <<status, valid, attempt, enabled, fragment, money, refund, retried, task,
          crashes>>

-----------------------------------------------------------------------------
(* Types *)

AttemptStatus ==
  {"none", "submitting", "queued", "processing", "succeeded", "failed", "uncertain"}
Attempt ==
  [status: AttemptStatus, rid: Requests \union {NoRequest},
   approved: BOOLEAN, tx: Txs \union {NoTx}]
NoAttempt ==
  [status |-> "none", rid |-> NoRequest, approved |-> FALSE, tx |-> NoTx]

\* What Fragment does with a POST: refuse it, or accept it and settle it later.
Accepted == {"queued", "completed", "failed", "failed_balance"}
Dead == {"rejected", "rejected_balance", "failed", "failed_balance"}
RequestState == {"unused", "sent"} \union Accepted \union Dead
Request ==
  [state: RequestState, order: Orders \union {NoOrder}, tx: Txs \union {NoTx}]
Unused == [state |-> "unused", order |-> NoOrder, tx |-> NoTx]

\* StarsPurchaseResult, by the branch of _apply_purchase_result it selects, or
\* the status of a YooKassa refund.
Outcome ==
  {"none", "pending", "succeeded", "balance", "failed", "uncertain", "canceled"}
RefundStatus == {"none", "pending", "succeeded", "canceled"}
Pc == {"idle", "deliver", "start", "posting", "check", "apply",
       "approve", "reconcile", "refund", "refunded", "synced"}
Task ==
  [pc: Pc, order: Orders \union {NoOrder}, lock: BOOLEAN,
   rid: Requests \union {NoRequest}, out: Outcome]
Idle ==
  [pc |-> "idle", order |-> NoOrder, lock |-> FALSE, rid |-> NoRequest, out |-> "none"]

AttemptOK == attempt \in [Orders -> Attempt]
FragmentOK == fragment \in [Requests -> Request]
TaskOK ==
  /\ task \in [Tasks -> Task]
  /\ \A t \in Tasks :
       /\ task[t].pc # "idle" => task[t].order \in Orders
       /\ task[t].pc \in {"refunded", "synced"} => task[t].out \in RefundStatus

TypeOK ==
  /\ status \in [Orders -> OrderStatus]
  /\ valid \in [Orders -> BOOLEAN] /\ enabled \in BOOLEAN
  /\ AttemptOK
  /\ FragmentOK
  /\ money \in [Orders -> RefundStatus] /\ refund \in [Orders -> RefundStatus]
  /\ retried \subseteq Orders
  /\ TaskOK
  /\ crashes \in 0..MaxCrashes

-----------------------------------------------------------------------------
(* Helpers *)

\* Mutants: the worker forgets purchases under way, or newly paid orders.
MutantRecoverablePaidOnly == {"paid"}
MutantRecoverableStartedOnly == {"purchase_processing", "stars_sending"}
Recoverable == {"paid", "purchase_processing", "stars_sending"}

\* Attempt statuses that block a refund (request_yookassa_refund).
UnsafeAttempts == {"submitting", "queued", "processing", "succeeded", "uncertain"}

SetStatus(o, s) == status' = [status EXCEPT ![o] = s]
SetAttempt(o, a) == attempt' = [attempt EXCEPT ![o] = a]
SetTask(t, new) == task' = [task EXCEPT ![t] = new]
Finish(t) == SetTask(t, Idle)

\* _delivery_locks: one deliver_paid_order per order in a process.
LockFree(t, o) ==
  \A u \in Tasks \ {t} :
    ~(TaskProcess[u] = TaskProcess[t] /\ task[u].lock /\ task[u].order = o)

\* The task holds a result and is about to persist it.
Result(t, rid, out) ==
  SetTask(t, [task[t] EXCEPT !.pc = "apply", !.rid = rid, !.out = out])

\* Mutant: nobody looks for another attempt with the transaction id.
MutantTxTaken(o, x) == FALSE

\* The transaction id belongs to the attempt of another order.
TxTaken(o, x) == \E p \in Orders \ {o} : attempt[p].tx = x

TxOf(r) == IF r = NoRequest THEN NoTx ELSE fragment[r].tx

-----------------------------------------------------------------------------
(* deliver_paid_order *)

\* The payment side moves the order to PAID (sync or TON confirmation).
ConfirmPayment(o) ==
  /\ status[o] = "payment_confirming"
  /\ SetStatus(o, "paid")
  /\ UNCHANGED <<valid, attempt, enabled, fragment, money, refund, retried, task, crashes>>

\* The worker lists recoverable orders and delivers them one after another.
PickRecoverable(t, o) ==
  /\ t \in Workers
  /\ task[t] = Idle
  /\ status[o] \in Recoverable
  /\ SetTask(t, [Idle EXCEPT !.pc = "deliver", !.order = o])
  /\ UNCHANGED <<status, valid, attempt, enabled, fragment, money, refund, retried, crashes>>

Delivering(t) == task[t].pc = "deliver" /\ LockFree(t, task[t].order)

\* Nothing to deliver (any more), or new purchases are paused.
DeliverNothing(t) ==
  /\ Delivering(t)
  /\ \/ status[task[t].order] \notin Recoverable
     \/ status[task[t].order] = "paid" /\ ~enabled
  /\ Finish(t)
  /\ UNCHANGED <<status, valid, attempt, enabled, fragment, money, refund, retried, crashes>>

\* A paid order that fails the final validation, or a purchase without its row.
DeliverToReview(t) ==
  LET o == task[t].order IN
  /\ Delivering(t)
  /\ \/ status[o] = "paid" /\ enabled /\ ~valid[o]
     \/ status[o] \in {"purchase_processing", "stars_sending"} /\ attempt[o] = NoAttempt
  /\ SetStatus(o, "manual_review")
  /\ Finish(t)
  /\ UNCHANGED <<valid, attempt, enabled, fragment, money, refund, retried, crashes>>

\* Mutant: an attempt without request id is posted, whoever began it.
MutantContinue(t, a, isNew) ==
  LET locked == [task[t] EXCEPT !.lock = TRUE] IN
  SetTask(t,
    IF a.rid # NoRequest THEN [locked EXCEPT !.pc = "check", !.rid = a.rid]
    ELSE [locked EXCEPT !.pc = "start"])

\* What the task does once that transaction has committed: poll a request it
\* knows, POST only if the attempt is new, otherwise call the response lost.
Continue(t, a, isNew) ==
  LET locked == [task[t] EXCEPT !.lock = TRUE] IN
  SetTask(t,
    IF a.rid # NoRequest THEN [locked EXCEPT !.pc = "check", !.rid = a.rid]
    ELSE IF isNew THEN [locked EXCEPT !.pc = "start"]
    ELSE [locked EXCEPT !.pc = "apply", !.out = "uncertain"])

\* A paid order gets its attempt row (unique per order) and leaves PAID.
StartPurchase(t) ==
  LET o == task[t].order
      isNew == attempt[o] = NoAttempt
      a == IF isNew THEN [NoAttempt EXCEPT !.status = "submitting"] ELSE attempt[o]
  IN
  /\ Delivering(t)
  /\ status[o] = "paid" /\ enabled /\ valid[o]
  /\ SetAttempt(o, a)
  /\ SetStatus(o, "purchase_processing")
  /\ Continue(t, a, isNew)
  /\ UNCHANGED <<valid, enabled, fragment, money, refund, retried, crashes>>

\* A purchase somebody began; only an approved balance retry is new again.
ResumePurchase(t) ==
  LET o == task[t].order
      a == attempt[o]
  IN
  /\ Delivering(t)
  /\ status[o] \in {"purchase_processing", "stars_sending"}
  /\ a # NoAttempt
  /\ Continue(t, a, a.status = "submitting" /\ a.approved)
  /\ UNCHANGED <<status, valid, attempt, enabled, fragment, money, refund, retried, crashes>>

-----------------------------------------------------------------------------
(* The calls to Fragment *)

\* start_purchase refuses without a call: no wallet seed in this process, or a
\* recipient, amount or configuration it does not accept.
RefuseLocally(t) ==
  /\ task[t].pc = "start"
  /\ Result(t, NoRequest, "failed")
  /\ UNCHANGED <<status, valid, attempt, enabled, fragment, money, refund, retried, crashes>>

SendPost(t) ==
  /\ task[t].pc = "start"
  /\ TaskProcess[t] \in Seeded
  /\ \E r \in Requests :
       /\ fragment[r] = Unused
       /\ fragment' = [fragment EXCEPT
            ![r] = [state |-> "sent", order |-> task[t].order, tx |-> NoTx]]
       /\ SetTask(t, [task[t] EXCEPT !.pc = "posting", !.rid = r])
  /\ UNCHANGED <<status, valid, attempt, enabled, money, refund, retried, crashes>>

\* The POST is answered: queued under a request id, refused with a definitive
\* code, or (exception, missing id) nothing that can be relied on.
PostReturns(t) ==
  LET r == task[t].rid
      s == fragment[r].state
  IN
  /\ task[t].pc = "posting"
  /\ \/ s \in Accepted /\ Result(t, r, "pending")
     \/ s = "rejected" /\ Result(t, NoRequest, "failed")
     \/ s = "rejected_balance" /\ Result(t, NoRequest, "balance")
     \/ Result(t, NoRequest, "uncertain")
  /\ UNCHANGED <<status, valid, attempt, enabled, fragment, money, refund, retried, crashes>>

\* get_purchase_status: an error of the call itself reads as still pending, an
\* unknown status or a completion without reference as uncertain.
CheckReturns(t) ==
  LET r == task[t].rid
      s == fragment[r].state
  IN
  /\ task[t].pc = "check"
  /\ \/ Result(t, r, "pending")
     \/ Result(t, r, "uncertain")
     \/ s = "completed" /\ Result(t, r, "succeeded")
     \/ s = "failed" /\ Result(t, r, "failed")
     \/ s = "failed_balance" /\ Result(t, r, "balance")
  /\ UNCHANGED <<status, valid, attempt, enabled, fragment, money, refund, retried, crashes>>

\* The service decides about a request, whoever still waits for the answer.
FragmentAnswers(r) ==
  /\ fragment[r].state = "sent"
  /\ \E s \in {"queued", "rejected", "rejected_balance"} :
       fragment' = [fragment EXCEPT ![r].state = s]
  /\ UNCHANGED <<status, valid, attempt, enabled, money, refund, retried, task, crashes>>

FragmentSettles(r) ==
  /\ fragment[r].state = "queued"
  /\ \/ \E x \in Txs :
          fragment' = [fragment EXCEPT ![r].state = "completed", ![r].tx = x]
     \/ \E s \in {"failed", "failed_balance"} :
          fragment' = [fragment EXCEPT ![r].state = s]
  /\ UNCHANGED <<status, valid, attempt, enabled, money, refund, retried, task, crashes>>

-----------------------------------------------------------------------------
(* _apply_purchase_result: one transaction, whatever happened since *)

Applying(t, out) == task[t].pc = "apply" /\ task[t].out = out

\* Mutants: a request id is kept only in the expected status; a late "pending"
\* reaches a completed order.
MutantApplyPendingExpected(t) ==
  LET o == task[t].order IN
  /\ Applying(t, "pending")
  /\ status[o] # "completed"
  /\ IF status[o] = "purchase_processing"
     THEN /\ SetAttempt(o, [attempt[o] EXCEPT !.rid = task[t].rid, !.status = "queued"])
          /\ SetStatus(o, "stars_sending")
     ELSE /\ SetAttempt(o, [attempt[o] EXCEPT !.status = "processing"])
          /\ UNCHANGED status
  /\ Finish(t)
  /\ UNCHANGED <<valid, enabled, fragment, money, refund, retried, crashes>>
MutantApplyPendingLate(t) ==
  LET o == task[t].order IN
  /\ Applying(t, "pending")
  /\ IF status[o] \in {"purchase_processing", "manual_review"}
     THEN /\ SetAttempt(o, [attempt[o] EXCEPT !.rid = task[t].rid, !.status = "queued"])
          /\ SetStatus(o, "stars_sending")
     ELSE /\ SetAttempt(o, [attempt[o] EXCEPT !.status = "processing"])
          /\ UNCHANGED status
  /\ Finish(t)
  /\ UNCHANGED <<valid, enabled, fragment, money, refund, retried, crashes>>

\* mark_purchase_queued, or mark_purchase_processing which keeps no request id.
ApplyPending(t) ==
  LET o == task[t].order IN
  /\ Applying(t, "pending")
  /\ status[o] # "completed"
  /\ IF status[o] \in {"purchase_processing", "manual_review"}
     THEN /\ SetAttempt(o, [attempt[o] EXCEPT !.rid = task[t].rid, !.status = "queued"])
          /\ SetStatus(o, "stars_sending")
     ELSE /\ SetAttempt(o, [attempt[o] EXCEPT !.status = "processing"])
          /\ UNCHANGED status
  /\ Finish(t)
  /\ UNCHANGED <<valid, enabled, fragment, money, refund, retried, crashes>>

\* A transaction id that another order already used makes a success uncertain.
Duplicate(t) ==
  task[t].out = "succeeded" /\ TxTaken(task[t].order, TxOf(task[t].rid))

\* Mutant: an uncertain result is treated as a failure.
MutantTarget(t) ==
  CASE task[t].out = "succeeded" /\ ~Duplicate(t) -> "completed"
    [] task[t].out = "balance" -> "waiting_for_merchant_balance"
    [] OTHER -> "refund_required"

\* The status a result other than "pending" moves the order to, and from where:
\* a success takes PURCHASE_PROCESSING through STARS_SENDING first.
Target(t) ==
  CASE task[t].out = "succeeded" /\ ~Duplicate(t) -> "completed"
    [] task[t].out = "balance" -> "waiting_for_merchant_balance"
    [] task[t].out = "failed" -> "refund_required"
    [] OTHER -> "manual_review"
Origin(t) ==
  LET s == status[task[t].order] IN
  IF task[t].out = "succeeded" /\ s = "purchase_processing" THEN "stars_sending" ELSE s

\* Any other transition raises, and the transaction rolls back.
Persistable(t) ==
  /\ task[t].pc = "apply" /\ task[t].out # "pending"
  /\ status[task[t].order] # "completed"
  /\ CanTransition(Origin(t), Target(t))

\* mark_purchase_succeeded
ApplySucceeded(t) ==
  LET o == task[t].order IN
  /\ Persistable(t)
  /\ task[t].out = "succeeded" /\ ~Duplicate(t)
  /\ SetAttempt(o, [attempt[o] EXCEPT !.status = "succeeded", !.tx = TxOf(task[t].rid)])
  /\ SetStatus(o, Target(t))
  /\ Finish(t)
  /\ UNCHANGED <<valid, enabled, fragment, money, refund, retried, crashes>>

\* Mutants: an uncertain result counts as a failure; every result stores its
\* request id, so an uncertain one stores none.
MutantApplyUncertain(t) ==
  LET o == task[t].order IN
  /\ Persistable(t)
  /\ task[t].out # "succeeded" \/ Duplicate(t)
  /\ SetAttempt(o, [attempt[o] EXCEPT !.status = "failed", !.approved = FALSE])
  /\ SetStatus(o, IF task[t].out = "uncertain" THEN "refund_required" ELSE Target(t))
  /\ Finish(t)
  /\ UNCHANGED <<valid, enabled, fragment, money, refund, retried, crashes>>
MutantApplyForgets(t) ==
  LET o == task[t].order IN
  /\ Persistable(t)
  /\ task[t].out # "succeeded" \/ Duplicate(t)
  /\ SetAttempt(o, [attempt[o] EXCEPT !.status = "uncertain", !.rid = task[t].rid])
  /\ SetStatus(o, Target(t))
  /\ Finish(t)
  /\ UNCHANGED <<valid, enabled, fragment, money, refund, retried, crashes>>

\* mark_purchase_failed and mark_waiting_for_merchant_balance: attempt and order
\* move together, and the error code of the attempt is overwritten.
ApplyNotSucceeded(t) ==
  LET o == task[t].order
      astatus == IF task[t].out \in {"failed", "balance"} THEN "failed" ELSE "uncertain"
  IN
  /\ Persistable(t)
  /\ task[t].out # "succeeded" \/ Duplicate(t)
  /\ SetAttempt(o, [attempt[o] EXCEPT !.status = astatus, !.approved = FALSE])
  /\ SetStatus(o, Target(t))
  /\ Finish(t)
  /\ UNCHANGED <<valid, enabled, fragment, money, refund, retried, crashes>>

\* COMPLETED returns early, and a rolled back transaction changes nothing:
\* either way the result is dropped.
ApplyDropped(t) ==
  /\ task[t].pc = "apply"
  /\ \/ status[task[t].order] = "completed"
     \/ task[t].out # "pending" /\ ~Persistable(t)
  /\ Finish(t)
  /\ UNCHANGED <<status, valid, attempt, enabled, fragment, money, refund, retried, crashes>>

-----------------------------------------------------------------------------
(* Administrators: retry, reconcile, manual review, refund, pause *)

\* safe_retry_order reads the order without a lock and picks a path from what
\* it read; the path runs later, in transactions of its own.
RetryRead(t, o) ==
  LET go(pc) == SetTask(t, [Idle EXCEPT !.pc = pc, !.order = o]) IN
  /\ t \notin Workers
  /\ task[t] = Idle
  /\ \/ status[o] = "manual_review" /\ attempt[o].rid # NoRequest /\ go("reconcile")
     \/ status[o] \in Recoverable /\ go("deliver")
     \/ status[o] = "waiting_for_merchant_balance" /\ go("approve")
  /\ UNCHANGED <<status, valid, attempt, enabled, fragment, money, refund, retried, crashes>>

\* The balance branch: it checks the attempt again, the status only through the
\* transition table.
ApproveRetry(t) ==
  LET o == task[t].order IN
  /\ task[t].pc = "approve"
  /\ attempt[o] # NoAttempt /\ attempt[o].rid = NoRequest
  /\ CanTransition(status[o], "purchase_processing")
  /\ SetAttempt(o, [attempt[o] EXCEPT !.status = "submitting", !.approved = TRUE])
  /\ SetStatus(o, "purchase_processing")
  /\ retried' = retried \union {o}
  /\ SetTask(t, [task[t] EXCEPT !.pc = "deliver"])
  /\ UNCHANGED <<valid, enabled, fragment, money, refund, crashes>>

\* "Balance retry is not safe for this order", or the transition raised.
RefuseRetry(t) ==
  LET o == task[t].order IN
  /\ task[t].pc = "approve"
  /\ \/ attempt[o] = NoAttempt \/ attempt[o].rid # NoRequest
     \/ ~CanTransition(status[o], "purchase_processing")
  /\ Finish(t)
  /\ UNCHANGED <<status, valid, attempt, enabled, fragment, money, refund, retried, crashes>>

\* reconcile_order, asked for directly or as the retry of a manual review: poll
\* a known request, without the delivery lock; otherwise MANUAL_REVIEW.
Reconcile(t, o) ==
  LET rid == attempt[o].rid IN
  /\ t \notin Workers
  /\ task[t] = Idle \/ (task[t].pc = "reconcile" /\ task[t].order = o)
  /\ IF status[o] # "completed" /\ rid # NoRequest
     THEN /\ SetTask(t, [Idle EXCEPT !.pc = "check", !.order = o, !.rid = rid])
          /\ UNCHANGED status
     ELSE /\ Finish(t)
          /\ IF status[o] # "completed" /\ CanTransition(status[o], "manual_review")
             THEN SetStatus(o, "manual_review")
             ELSE UNCHANGED status
  /\ UNCHANGED <<valid, attempt, enabled, fragment, money, refund, retried, crashes>>

\* admin_move_to_manual_review: one transaction.
MoveToManualReview(o) ==
  /\ status[o] \notin {"completed", "refunded", "payment_failed"}
  /\ CanTransition(status[o], "manual_review")
  /\ SetStatus(o, "manual_review")
  /\ UNCHANGED <<valid, attempt, enabled, fragment, money, refund, retried, task, crashes>>

\* request_yookassa_refund: a check, the call to the provider (idempotent by
\* its key), and a second transaction.
RequestRefund(t, o) ==
  /\ t \notin Workers /\ o \in YooKassa
  /\ task[t] = Idle
  /\ status[o] = "refund_required"
  /\ attempt[o].status \notin UnsafeAttempts
  /\ SetTask(t, [Idle EXCEPT !.pc = "refund", !.order = o])
  /\ UNCHANGED <<status, valid, attempt, enabled, fragment, money, refund, retried, crashes>>

\* create_refund: its key makes it one refund of the payment, whoever asks.  The
\* answer may be lost, or the request may never arrive.
RefundReturns(t) ==
  LET o == task[t].order IN
  /\ task[t].pc = "refund"
  /\ \/ Finish(t) /\ UNCHANGED money
     \/ \E m \in IF money[o] = "none" THEN RefundStatus \ {"none"} ELSE {money[o]} :
          /\ money' = [money EXCEPT ![o] = m]
          /\ \/ SetTask(t, [task[t] EXCEPT !.pc = "refunded", !.out = m])
             \/ Finish(t)
  /\ UNCHANGED <<status, valid, attempt, enabled, fragment, refund, retried, crashes>>

\* YooKassa settles a refund it left pending.
MoneySettles(o) ==
  /\ o \in YooKassa /\ money[o] = "pending"
  /\ \E m \in {"succeeded", "canceled"} : money' = [money EXCEPT ![o] = m]
  /\ UNCHANGED <<status, valid, attempt, enabled, fragment, refund, retried, task, crashes>>

\* sync_yookassa_refund, on the webhook refund.succeeded: it reads the refund
\* at YooKassa before its transaction.
RefundWebhook(t, o) ==
  /\ t \notin Workers /\ o \in YooKassa
  /\ task[t] = Idle
  /\ money[o] = "succeeded"
  /\ SetTask(t, [Idle EXCEPT !.pc = "synced", !.order = o, !.out = money[o]])
  /\ UNCHANGED <<status, valid, attempt, enabled, fragment, money, refund, retried, crashes>>

\* The transaction of either: the webhook is dropped while the payment row
\* carries no refund id yet.
StoreRefund(t) ==
  LET o == task[t].order
      known == task[t].pc = "refunded" \/ refund[o] # "none"
  IN
  /\ task[t].pc \in {"refunded", "synced"}
  /\ refund' = IF known THEN [refund EXCEPT ![o] = task[t].out] ELSE refund
  /\ IF known /\ task[t].out = "succeeded" /\ status[o] = "refund_required"
     THEN SetStatus(o, "refunded") ELSE UNCHANGED status
  /\ Finish(t)
  /\ UNCHANGED <<valid, attempt, enabled, fragment, money, retried, crashes>>

\* Mutant: a refund that was requested counts as made.
MutantMarkRefunded(o) ==
  /\ status[o] = "refund_required"
  /\ o \in YooKassa => refund[o] # "none"
  /\ SetStatus(o, "refunded")
  /\ UNCHANGED <<valid, attempt, enabled, fragment, money, refund, retried, task, crashes>>

\* mark_refunded: the operator returned the money by hand (TON), or the payment
\* row already shows the YooKassa refund.
MarkRefunded(o) ==
  /\ status[o] = "refund_required"
  /\ o \in YooKassa => refund[o] = "succeeded"
  /\ SetStatus(o, "refunded")
  /\ money' = IF o \in YooKassa THEN money ELSE [money EXCEPT ![o] = "succeeded"]
  /\ UNCHANGED <<valid, attempt, enabled, fragment, refund, retried, task, crashes>>

\* set_runtime_control("purchases_enabled", ...)
SetPurchasesEnabled ==
  /\ enabled' = ~enabled
  /\ UNCHANGED <<status, valid, attempt, fragment, money, refund, retried, task, crashes>>

\* A process stops: its tasks are gone, the database and Fragment are not.
Crash(p) ==
  /\ crashes < MaxCrashes
  /\ \E t \in Tasks : TaskProcess[t] = p /\ task[t] # Idle
  /\ task' = [t \in Tasks |-> IF TaskProcess[t] = p THEN Idle ELSE task[t]]
  /\ crashes' = crashes + 1
  /\ UNCHANGED <<status, valid, attempt, enabled, fragment, money, refund, retried>>

-----------------------------------------------------------------------------
Init ==
  /\ status = [o \in Orders |-> "payment_confirming"]
  /\ valid \in [Orders -> BOOLEAN]
  /\ attempt = [o \in Orders |-> NoAttempt]
  /\ enabled \in BOOLEAN
  /\ fragment = [r \in Requests |-> Unused]
  /\ money = [o \in Orders |-> "none"] /\ refund = [o \in Orders |-> "none"]
  /\ retried = {}
  /\ task = [t \in Tasks |-> Idle]
  /\ crashes = 0

Deliver(t) ==
  \/ DeliverNothing(t) \/ DeliverToReview(t) \/ StartPurchase(t) \/ ResumePurchase(t)

Call(t) == RefuseLocally(t) \/ SendPost(t) \/ PostReturns(t) \/ CheckReturns(t)

Apply(t) ==
  \/ ApplyPending(t) \/ ApplySucceeded(t) \/ ApplyNotSucceeded(t) \/ ApplyDropped(t)

Admin(t) ==
  \/ ApproveRetry(t) \/ RefuseRetry(t) \/ RefundReturns(t) \/ StoreRefund(t)
  \/ \E o \in Orders :
       RetryRead(t, o) \/ Reconcile(t, o) \/ RequestRefund(t, o) \/ RefundWebhook(t, o)

Next ==
  \/ \E t \in Tasks :
       \/ Deliver(t) \/ Call(t) \/ Apply(t) \/ Admin(t)
       \/ \E o \in Orders : PickRecoverable(t, o)
  \/ \E o \in Orders :
       ConfirmPayment(o) \/ MoveToManualReview(o) \/ MarkRefunded(o) \/ MoneySettles(o)
  \/ \E r \in Requests : FragmentAnswers(r) \/ FragmentSettles(r)
  \/ \E p \in Processes : Crash(p)
  \/ SetPurchasesEnabled

Spec == Init /\ [][Next]_vars

-----------------------------------------------------------------------------
(* Safety *)

\* An order is posted to Fragment at most once, whatever crashes, restarts,
\* concurrent processes, double clicks and reconciliations do, as long as no
\* administrator approved a balance retry of it (deliver_paid_order).
AtMostOnePost ==
  \A o \in Orders \ retried : \A r1, r2 \in Requests :
    fragment[r1].order = o /\ fragment[r2].order = o => r1 = r2

\* Money may be given back, or the purchase restarted, only once Fragment has
\* definitively refused or failed it (request_yookassa_refund, safe_retry_order).
RefundOnlyAfterFailure ==
  \A o \in Orders \ retried :
    status[o] \in {"refund_required", "refunded", "waiting_for_merchant_balance"} =>
      \A r \in Requests : fragment[r].order = o => fragment[r].state \in Dead

\* A buyer never ends up with both the Stars and the money.
NeverStarsAndRefund ==
  \A o \in Orders \ retried : \A r \in Requests :
    fragment[r].order = o /\ fragment[r].state = "completed" => money[o] = "none"

\* REFUNDED means that the money went back, whichever of the administrator's
\* request, the webhook and the manual confirmation stored it, and in whatever
\* order their answers arrived (request_yookassa_refund, mark_refunded).
RefundedIsReturned ==
  \A o \in Orders : status[o] = "refunded" => money[o] = "succeeded"

\* COMPLETED is backed by a completed request of that very order, whose
\* transaction id no other order shares (mark_purchase_succeeded).
CompletedIsBacked ==
  \A o \in Orders : status[o] = "completed" =>
    /\ attempt[o].status = "succeeded"
    /\ \E r \in Requests :
         /\ fragment[r].order = o /\ fragment[r].state = "completed"
         /\ fragment[r].tx = attempt[o].tx
    /\ \A p \in Orders \ {o} : attempt[p].tx # attempt[o].tx

\* A request Fragment accepted is known to the database; otherwise its answer is
\* under way or was lost, and the attempt says so with a status that blocks a
\* refund (mark_purchase_queued, request_yookassa_refund).
AcceptedIsTracked ==
  \A r \in Requests : LET o == fragment[r].order IN
    fragment[r].state \in Accepted /\ o \notin retried =>
      attempt[o].rid = r \/ attempt[o].status \in {"submitting", "uncertain"}

\* In one process at most one task is about to POST for an order or waits for the
\* answer, even if an operator approves its retry again and again: that is what the
\* lock of the process is for (_delivery_locks).  Two processes share no lock.
OnePosterPerProcess ==
  \A t, u \in Tasks :
    /\ TaskProcess[t] = TaskProcess[u] /\ task[t].order = task[u].order
    /\ {task[t].pc, task[u].pc} \subseteq {"start", "posting"}
    => t = u

-----------------------------------------------------------------------------
(* Action properties *)

\* Once stored, a provider request id is never replaced or forgotten: it is the
\* only way to learn what became of the purchase (mark_purchase_queued).
RequestIdIsKept ==
  [][\A o \in Orders : attempt[o].rid # NoRequest /\ o \notin retried' =>
       attempt'[o].rid = attempt[o].rid]_vars

\* A stale result, a late retry or an operator never reopens a delivered order.
CompletedIsFinal ==
  [][\A o \in Orders : status[o] = "completed" =>
       status'[o] = "completed" /\ attempt'[o] = attempt[o]]_vars

-----------------------------------------------------------------------------
(* What the documents promise and the code does not keep *)

\* SECURITY.md and README.md: a POST whose answer is unknown is never repeated,
\* and a retry never POSTs blindly.  Two requests of an order of which Fragment
\* refused neither contradict it (the retry approval is never used up).
NoBlindSecondPost ==
  \A r1, r2 \in Requests :
    /\ r1 # r2 /\ fragment[r1].order = fragment[r2].order
    /\ fragment[r1].state # "unused" /\ fragment[r2].state # "unused"
    => fragment[r1].state \in Dead \/ fragment[r2].state \in Dead

-----------------------------------------------------------------------------
(* Liveness *)

\* An answer of Fragment that settles the purchase.
CheckSettles(t) ==
  CheckReturns(t) /\ task'[t].out \in {"succeeded", "failed", "balance"}

\* The worker's loop never stops and visits every order its batch lists, its
\* HTTP calls end (they have timeouts), Fragment settles what it accepted and
\* can be reached again and again.  Administrators owe nothing: their tasks may
\* stop anywhere.
Fairness ==
  /\ \A t \in Workers :
       /\ \A o \in Orders : SF_vars(PickRecoverable(t, o))
       /\ WF_vars(Deliver(t)) /\ WF_vars(Call(t)) /\ WF_vars(Apply(t))
       /\ SF_vars(CheckSettles(t))
  /\ \A r \in Requests : WF_vars(FragmentAnswers(r)) /\ WF_vars(FragmentSettles(r))

FairSpec == Spec /\ Fairness

\* A purchase that began is eventually delivered, failed or handed to an
\* operator, even when purchases are paused or the task that began it is gone.
StartedPurchaseSettles ==
  \A o \in Orders :
    status[o] \in {"purchase_processing", "stars_sending"} ~>
      status[o] \notin {"purchase_processing", "stars_sending"}

\* Once purchases stay enabled, every paid order is taken up.
PaidOrderIsTakenUp ==
  <>[]enabled => \A o \in Orders : status[o] = "paid" ~> status[o] # "paid"
=============================================================================
