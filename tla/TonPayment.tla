----------------------------- MODULE TonPayment -----------------------------
(***************************************************************************)
(* How an order is paid with TON: record_ton_observation, expire_if_needed *)
(* and cancel_order of app/services/orders.py, driven by the polling       *)
(* PaymentMonitor and by the buyer's check button.                         *)
(*                                                                         *)
(* A transfer names its order in a comment.  A scan asks Toncenter for the *)
(* transfers of the wallet and then, in a transaction of its own, records  *)
(* the one it was shown or expires the order.  Toncenter may lag behind or *)
(* list too few transfers, so a scan may be shown any of them, or none.    *)
(* The monitor lists a limited batch of orders, those first that have had  *)
(* their status for the longest time, and scans them one after the other.  *)
(***************************************************************************)
EXTENDS OrderDomain, Naturals, FiniteSets, Sequences, SequencesExt

CONSTANTS
  Orders, NoOrder,
  Transfers, NoTransfer,  \* every transfer that can be sent; bounds the model
  Hashes, NoHash,         \* transaction hashes
  Tasks,
  Monitor,                \* the task of the PaymentMonitor; the others check
  Ttl,                    \* the payment window of an order
  Confirm,                \* payment_confirmation_seconds
  LateScan,               \* late_payment_scan_hours
  BatchSize,              \* payment_monitor_batch_size
  MaxTime                 \* bounds the clock

ASSUME SentinelAssumption ==
  NoOrder \notin Orders /\ NoTransfer \notin Transfers /\ NoHash \notin Hashes
ASSUME OrdersAssumption == IsFiniteSet(Orders)
ASSUME MonitorAssumption == Monitor \in Tasks
ASSUME TimeAssumption ==
  Ttl \in Nat \ {0} /\ Confirm \in Nat /\ LateScan \in Nat /\ MaxTime \in Nat
ASSUME BatchAssumption == BatchSize \in Nat \ {0}

VARIABLES
  now,
  status,     \* orders.status
  queue,      \* the orders by status_changed_at
  reason,     \* orders.error_code, as far as it says why an order is reviewed
  payment,    \* the payments row
  expires,    \* orders.expires_at; 0 before the payment is initiated
  ledger,     \* the transfers on the blockchain
  task,       \* the local state of each task
  batch       \* the orders the monitor has listed and not yet scanned

vars == <<now, status, queue, reason, payment, expires, ledger, task, batch>>

-----------------------------------------------------------------------------
(* Types *)

Reason ==
  {"none", "amount", "late", "duplicate", "multiple", "lost", "unconfirmed", "admin"}

PaymentStatus ==
  {"none", "created", "detected", "confirming", "succeeded", "expired", "manual_review"}
\* hash: ton_tx_hash and transaction_hash; exact: received_amount = ton_amount.
Payment == [status: PaymentStatus, hash: Hashes \union {NoHash}, exact: BOOLEAN]
NoPayment == [status |-> "none", hash |-> NoHash, exact |-> FALSE]

\* exact: the amount of the invoice, neither less nor more.
Transfer ==
  [order: Orders \union {NoOrder}, hash: Hashes \union {NoHash}, exact: BOOLEAN,
   at: 0..MaxTime]
Unsent == [order |-> NoOrder, hash |-> NoHash, exact |-> FALSE, at |-> 0]

Task ==
  [pc: {"idle", "find", "record", "expire"}, order: Orders \union {NoOrder},
   seen: Transfers \union {NoTransfer}]
Idle == [pc |-> "idle", order |-> NoOrder, seen |-> NoTransfer]

TaskOK ==
  /\ task \in [Tasks -> Task]
  /\ \A t \in Tasks :
       /\ task[t].pc # "idle" => task[t].order \in Orders
       /\ task[t].pc = "record" => task[t].seen \in Transfers

RowsOK ==
  /\ now \in 0..MaxTime
  /\ status \in [Orders -> OrderStatus]
  /\ reason \in [Orders -> Reason]
  /\ payment \in [Orders -> Payment]
  /\ expires \in [Orders -> 0..MaxTime]
  /\ ledger \in [Transfers -> Transfer]
  /\ TaskOK

\* Every order has one place in the queue; a batch is a page of it.
QueueOK ==
  queue \in SetToSeqs(Orders) /\ batch \in Seq(Orders) /\ Len(batch) <= BatchSize

TypeOK == RowsOK /\ QueueOK

-----------------------------------------------------------------------------
(* Helpers *)

Awaiting == {"waiting_for_payment", "payment_detected", "payment_confirming"}
Closed == {"payment_expired", "cancelled"}

\* Mutants: the monitor forgets detected payments, or orders that are closed.
MutantScannedWaiting == {"waiting_for_payment"} \union Closed
MutantScannedOpen == Awaiting
\* What PaymentMonitor and record_ton_observation look at.
Scanned == Awaiting \union Closed

\* _within_late_scan_window
InWindow(o) ==
  status[o] \in Closed /\ expires[o] # 0 => now < expires[o] + LateScan

\* Where an order stands among all by status_changed_at.
Place(o) == CHOOSE i \in DOMAIN queue : queue[i] = o

\* transition: a new status, and the last place among the orders that have it.
Move(o, s) ==
  /\ status' = [status EXCEPT ![o] = s]
  /\ queue' = IF status[o] = s THEN queue ELSE Append(RemoveAt(queue, Place(o)), o)

SetTask(t, new) == task' = [task EXCEPT ![t] = new]
SetPayment(o, p) == payment' = [payment EXCEPT ![o] = p]

\* The order goes to an operator, who is told why.
Review(o, why) ==
  /\ Move(o, "manual_review")
  /\ reason' = [reason EXCEPT ![o] = why]

-----------------------------------------------------------------------------
(* The buyer and the wallet *)

\* initiate_ton_payment; orders are started while there is time to confirm them.
Initiate(o) ==
  /\ status[o] = "created"
  /\ now + Ttl + Confirm <= MaxTime
  /\ Move(o, "waiting_for_payment")
  /\ expires' = [expires EXCEPT ![o] = now + Ttl]
  /\ SetPayment(o, [NoPayment EXCEPT !.status = "created"])
  /\ UNCHANGED <<now, reason, ledger, task, batch>>

\* cancel_order, admin_cancel_order
Cancel(o) ==
  /\ status[o] \in {"created", "waiting_for_payment"}
  /\ payment[o].hash = NoHash
  /\ Move(o, "cancelled")
  /\ UNCHANGED <<now, reason, payment, expires, ledger, task, batch>>

\* The buyer sends TON with the comment of the order, as often as he likes.
Send(x) ==
  /\ ledger[x] = Unsent
  /\ \E o \in Orders, h \in Hashes, e \in BOOLEAN :
       /\ expires[o] # 0
       /\ ledger' = [ledger EXCEPT ![x] = [order |-> o, hash |-> h, exact |-> e, at |-> now]]
  /\ UNCHANGED <<now, status, queue, reason, payment, expires, task, batch>>

Tick ==
  /\ now < MaxTime
  /\ now' = now + 1
  /\ UNCHANGED <<status, queue, reason, payment, expires, ledger, task, batch>>

-----------------------------------------------------------------------------
(* A scan: _process_ton_order, from tick or from check_order_now *)

\* The buyer's check button asks for one order ...
BeginCheck(t, o) ==
  /\ t # Monitor /\ task[t] = Idle
  /\ status[o] \in Scanned /\ expires[o] # 0
  /\ SetTask(t, [Idle EXCEPT !.pc = "find", !.order = o])
  /\ UNCHANGED <<now, status, queue, reason, payment, expires, ledger, batch>>

\* list_by_status: the first of the orders that are looked at.
Before(o) == {p \in Orders : status[p] \in Scanned /\ Place(p) < Place(o)}
Page == {o \in Orders : status[o] \in Scanned /\ Cardinality(Before(o)) < BatchSize}

\* tick scans them in their order; the limit comes before the window.
Listed ==
  {s \in SetToSeqs({o \in Page : InWindow(o)}) :
     \A i, j \in DOMAIN s : i < j => Place(s[i]) < Place(s[j])}

\* ... and the monitor for all it lists, one after the other.
ListOrders ==
  /\ task[Monitor] = Idle /\ batch = <<>>
  /\ batch' \in Listed
  /\ UNCHANGED <<now, status, queue, reason, payment, expires, ledger, task>>

BeginScan(o) ==
  /\ task[Monitor] = Idle /\ batch # <<>> /\ Head(batch) = o
  /\ batch' = Tail(batch)
  /\ SetTask(Monitor, IF status[o] \in Scanned /\ expires[o] # 0
                      THEN [Idle EXCEPT !.pc = "find", !.order = o] ELSE Idle)
  /\ UNCHANGED <<now, status, queue, reason, payment, expires, ledger>>

\* find_incoming_payment shows a transfer with the comment of the order ...
FindSees(t) ==
  /\ task[t].pc = "find"
  /\ \E x \in Transfers :
       /\ ledger[x].order = task[t].order
       /\ SetTask(t, [task[t] EXCEPT !.pc = "record", !.seen = x])
  /\ UNCHANGED <<now, status, queue, reason, payment, expires, ledger, batch>>

\* ... or none, whatever is on the blockchain.
FindSeesNone(t) ==
  /\ task[t].pc = "find"
  /\ SetTask(t, [task[t] EXCEPT !.pc = "expire"])
  /\ UNCHANGED <<now, status, queue, reason, payment, expires, ledger, batch>>

\* Toncenter fails: nothing is stored.  If the process stops, the monitor will
\* list its orders again.
Stops(t) ==
  /\ task[t].pc # "idle"
  /\ SetTask(t, Idle)
  /\ batch' \in IF t = Monitor THEN {batch, <<>>} ELSE {batch}
  /\ UNCHANGED <<now, status, queue, reason, payment, expires, ledger>>

\* Mutant: whatever is open past its time expires.
MutantExpire(t) ==
  LET o == task[t].order IN
  /\ task[t].pc = "expire" /\ status[o] \in Awaiting
  /\ Move(o, "payment_expired")
  /\ SetTask(t, Idle)
  /\ UNCHANGED <<now, reason, payment, expires, ledger, batch>>

\* expire_if_needed: the last scan saw no transfer.
Expire(t) ==
  LET o == task[t].order IN
  /\ task[t].pc = "expire" /\ status[o] \in Awaiting /\ expires[o] <= now
  /\ IF status[o] = "waiting_for_payment"
       THEN /\ Move(o, "payment_expired")
            /\ SetPayment(o, [payment[o] EXCEPT !.status = "expired"])
            /\ UNCHANGED reason
       ELSE /\ Review(o, "lost")
            /\ SetPayment(o, [payment[o] EXCEPT !.status = "manual_review"])
  /\ SetTask(t, Idle)
  /\ UNCHANGED <<now, expires, ledger, batch>>

ExpireNothing(t) ==
  LET o == task[t].order IN
  /\ task[t].pc = "expire" /\ ~(status[o] \in Awaiting /\ expires[o] <= now)
  /\ SetTask(t, Idle)
  /\ UNCHANGED <<now, status, queue, reason, payment, expires, ledger, batch>>

-----------------------------------------------------------------------------
(* record_ton_observation *)

\* Mutant: nobody looks for the hash at another order.
MutantTaken(o, h) == FALSE
\* record_payment_detection refuses the transaction of another order.
Taken(o, h) == \E p \in Orders \ {o} : payment[p].hash = h

\* The transfer is the one the order has, or the first one it gets.
Fits(o, x) == payment[o].hash \in {NoHash, ledger[x].hash}
Attach(o, x, s) ==
  SetPayment(o, IF payment[o].hash = NoHash
                THEN [status |-> s, hash |-> ledger[x].hash, exact |-> ledger[x].exact]
                ELSE [payment[o] EXCEPT !.status = s])
New(o, x) == payment[o].hash = NoHash /\ ~Taken(o, ledger[x].hash)

\* Mutant: a transfer after the window pays an order that is still open.
MutantVerdict(o, x) ==
  IF ~ledger[x].exact THEN "amount" ELSE IF status[o] \in Closed THEN "late" ELSE "none"

\* Why the transfer does not pay the order.
Verdict(o, x) ==
  IF ~ledger[x].exact THEN "amount"
  ELSE IF status[o] \in Closed \/ ledger[x].at > expires[o] THEN "late"
  ELSE "none"

Recording(t) == task[t].pc = "record" /\ status[task[t].order] \in Scanned

\* The order moved on while the scan was waiting for Toncenter.
RecordNothing(t) ==
  /\ task[t].pc = "record" /\ ~Recording(t)
  /\ SetTask(t, Idle)
  /\ UNCHANGED <<now, status, queue, reason, payment, expires, ledger, batch>>

\* The transaction pays another order, or is a second one for this order.
RecordConflict(t) ==
  LET o == task[t].order
      x == task[t].seen
  IN
  /\ Recording(t)
  /\ \/ ~Fits(o, x) /\ Review(o, "multiple")
     \/ payment[o].hash = NoHash /\ Taken(o, ledger[x].hash) /\ Review(o, "duplicate")
  /\ SetTask(t, Idle)
  /\ UNCHANGED <<now, payment, expires, ledger, batch>>

RecordReview(t) ==
  LET o == task[t].order
      x == task[t].seen
  IN
  /\ Recording(t)
  /\ Fits(o, x) /\ (payment[o].hash # NoHash \/ New(o, x))
  /\ Verdict(o, x) # "none"
  /\ Review(o, Verdict(o, x))
  /\ Attach(o, x, "manual_review")
  /\ SetTask(t, Idle)
  /\ UNCHANGED <<now, expires, ledger, batch>>

\* Mutant: the payment is left as it was.
MutantPaymentAfter(s) == IF s = "payment_detected" THEN "detected" ELSE "confirming"
\* The payment status that goes with an order status.
PaymentAfter(s) ==
  IF s = "payment_detected" THEN "detected"
  ELSE IF s = "payment_confirming" THEN "confirming"
  ELSE "succeeded"

\* Mutant: the name of a payment status is stored in the order.
MutantAdvanced(o, x) ==
  IF status[o] = "waiting_for_payment" THEN "payment_detected"
  ELSE IF status[o] = "payment_detected" THEN "confirming"
  ELSE IF now >= ledger[x].at + Confirm THEN "paid"
  ELSE "payment_confirming"
\* One observation moves the order one step; the last one waits for the age.
Advanced(o, x) ==
  IF status[o] = "waiting_for_payment" THEN "payment_detected"
  ELSE IF status[o] = "payment_detected" THEN "payment_confirming"
  ELSE IF now >= ledger[x].at + Confirm THEN "paid"
  ELSE "payment_confirming"

RecordProgress(t) ==
  LET o == task[t].order
      x == task[t].seen
  IN
  /\ Recording(t)
  /\ Fits(o, x) /\ (payment[o].hash # NoHash \/ New(o, x))
  /\ Verdict(o, x) = "none"
  /\ Move(o, Advanced(o, x))
  /\ Attach(o, x, PaymentAfter(Advanced(o, x)))
  /\ SetTask(t, Idle)
  /\ UNCHANGED <<now, reason, expires, ledger, batch>>

-----------------------------------------------------------------------------
(* The administrator and the worker *)

\* admin_move_to_manual_review
MoveToManualReview(o) ==
  /\ status[o] # "manual_review" /\ CanTransition(status[o], "manual_review")
  /\ Review(o, "admin")
  /\ UNCHANGED <<now, payment, expires, ledger, task, batch>>

\* The payment part of _purchase_validation_error.
Confirmed(o) ==
  payment[o].status = "succeeded" /\ payment[o].hash # NoHash /\ payment[o].exact

\* deliver_paid_order takes the order up (PurchaseDelivery).
TakeUp(o) ==
  /\ status[o] = "paid"
  /\ IF Confirmed(o)
       THEN /\ Move(o, "purchase_processing")
            /\ UNCHANGED reason
       ELSE Review(o, "unconfirmed")
  /\ UNCHANGED <<now, payment, expires, ledger, task, batch>>

-----------------------------------------------------------------------------
Init ==
  /\ now = 0
  /\ status = [o \in Orders |-> "created"]
  /\ reason = [o \in Orders |-> "none"]
  /\ payment = [o \in Orders |-> NoPayment]
  /\ expires = [o \in Orders |-> 0]
  /\ ledger = [x \in Transfers |-> Unsent]
  /\ queue \in SetToSeqs(Orders)
  /\ task = [t \in Tasks |-> Idle]
  /\ batch = <<>>

Find(t) == FindSees(t) \/ FindSeesNone(t)

ExpireIfNeeded(t) == Expire(t) \/ ExpireNothing(t)
Record(t) ==
  RecordNothing(t) \/ RecordConflict(t) \/ RecordReview(t) \/ RecordProgress(t)

Next ==
  \/ \E t \in Tasks :
       \/ Find(t) \/ ExpireIfNeeded(t) \/ Record(t) \/ Stops(t)
       \/ \E o \in Orders : BeginCheck(t, o)
  \/ ListOrders
  \/ \E o \in Orders : BeginScan(o)
  \/ \E o \in Orders : Initiate(o) \/ Cancel(o) \/ MoveToManualReview(o) \/ TakeUp(o)
  \/ \E x \in Transfers : Send(x)
  \/ Tick

Spec == Init /\ [][Next]_vars

-----------------------------------------------------------------------------
(* Safety *)

\* The transfer that paid for o.
PaidBy(o, x) ==
  /\ ledger[x].order = o /\ ledger[x].exact /\ ledger[x].hash = payment[o].hash
  /\ ledger[x].at <= expires[o] /\ ledger[x].at + Confirm <= now

\* Stars are bought only for a transfer to this order, of the exact amount, sent
\* within the window and old enough, and no other order was paid with its hash,
\* whatever the monitor and the buyer's checks saw (record_ton_observation).
PaidIsPaidFor ==
  \A o \in Orders : status[o] \in {"paid", "purchase_processing"} =>
    /\ \E x \in Transfers : PaidBy(o, x)
    /\ \A p \in Orders \ {o} : payment[p].hash # payment[o].hash

\* A paid order passes the payment checks of its delivery
\* (_purchase_validation_error).
PaidIsConfirmed == \A o \in Orders : status[o] = "paid" => Confirmed(o)

\* No order is closed over a transfer that was recorded for it: the buyer who
\* cancels, the monitor and a late scan cannot lose it (cancel_order,
\* expire_if_needed).
ClosedHasNoTransfer ==
  \A o \in Orders : status[o] \in Closed => payment[o].hash = NoHash

\* The transaction recorded for an order stays its transaction: no later scan, no
\* expiry and no new invoice detaches or exchanges it (record_ton_observation,
\* expire_if_needed, initiate_ton_payment).
AttachedIsKept ==
  [][\A o \in Orders : payment[o].hash # NoHash => payment'[o].hash = payment[o].hash]_vars

\* Every status a step stores is one the table lists for the status the order has
\* then, however old the scan is: transition never raises and no batch of the
\* monitor fails over it (OrderRepository.transition, record_ton_observation).
NothingIsRefused == [][\A o \in Orders : CanTransition(status[o], status'[o])]_vars

-----------------------------------------------------------------------------
(* The inductive invariant *)

\* A transfer that was sent has a hash, and a scan holds one to its own order.
SeenInv ==
  /\ \A x \in Transfers : ledger[x].order # NoOrder => ledger[x].hash # NoHash
  /\ \A t \in Tasks : task[t].pc = "record" => ledger[task[t].seen].order = task[t].order

\* The payment row of an order follows its status: a transfer is attached exactly
\* from the first detection on, and only one of the exact amount goes further.
RowFits(o) ==
  /\ status[o] \in {"created", "waiting_for_payment"} \union Closed => payment[o].hash = NoHash
  /\ status[o] \in {"payment_detected", "payment_confirming"} =>
       payment[o].hash # NoHash /\ payment[o].exact
  /\ status[o] \in {"paid", "purchase_processing"} => Confirmed(o)

RowInv == \A o \in Orders : RowFits(o)

\* No transaction is attached to two orders.
HashInv ==
  \A o, p \in Orders : payment[o].hash = payment[p].hash => o = p \/ payment[o].hash = NoHash

PaidInv ==
  \A o \in Orders : status[o] \in {"paid", "purchase_processing"} =>
    \E x \in Transfers : PaidBy(o, x)

Inv == SeenInv /\ RowInv /\ HashInv /\ PaidInv

-----------------------------------------------------------------------------
(* The promise *)

\* No transfer names an order before its invoice.
FreshInv ==
  \A o \in Orders : status[o] = "created" =>
    expires[o] = 0 /\ \A x \in Transfers : ledger[x].order # o

\* The buyer has paid o as the invoice asked, whether or not anybody noticed.
PaidInTime(o) ==
  \E x \in Transfers :
    ledger[x].order = o /\ ledger[x].exact /\ ledger[x].at <= expires[o]

MoneyOf(o) == IF PaidInTime(o) THEN "received" ELSE "none"

Promise == INSTANCE PaymentPromise WITH
  stage <- [o \in Orders |-> StageOf(status[o])],
  money <- [o \in Orders |-> MoneyOf(o)]

\* Scans that are late, early, blind or overlap never make an order paid without
\* its money, or twice, and never reopen one that was closed or is reviewed
\* (record_ton_observation, expire_if_needed, cancel_order).
KeepsPayment == Promise!Spec

-----------------------------------------------------------------------------
(* Liveness *)

\* The monitor's loop goes on and reaches every order it lists, Toncenter answers
\* again and again, some transactions commit; the clock runs to its bound.
Fairness ==
  /\ WF_vars(Tick)
  /\ SF_vars(ListOrders)
  /\ \A o \in Orders :
       /\ SF_vars(BeginScan(o))
       /\ SF_vars(Find(Monitor) /\ task[Monitor].order = o)
       /\ SF_vars(ExpireIfNeeded(Monitor) /\ task[Monitor].order = o)
       /\ SF_vars(Record(Monitor) /\ task[Monitor].order = o)

FairSpec == Spec /\ Fairness

\* The wait for a payment ends: it is paid, expired, cancelled or reviewed, also
\* when its transfer is detected and never seen again (expire_if_needed).
WaitEnds ==
  \A o \in Orders : status[o] \in Awaiting ~> status[o] \notin Awaiting

\* A transfer for an order that is open, or was closed less than LateScan ago,
\* ends in a payment or in a review, never in silence, if Toncenter shows it to the
\* monitor in the end (PaymentMonitor.tick).
TransferIsNoticed ==
  \A o \in Orders :
    SF_vars(FindSees(Monitor) /\ task[Monitor].order = o) =>
      ((\E x \in Transfers : ledger[x].order = o) /\ status[o] \in Awaiting \union Closed
         ~> status[o] \notin Awaiting \union Closed \/ ~InWindow(o))

-----------------------------------------------------------------------------
(* What the code says and does not do *)

\* The buyer is told that his payment is noticed by itself.  Orders that are closed
\* never leave the list of the monitor: with as many older ones as a batch takes,
\* nobody looks for the transfer of an order that waits (PaymentMonitor.tick).
PaidWaitEnds ==
  \A o \in Orders :
    (\E x \in Transfers : ledger[x].order = o) /\ status[o] \in Awaiting
      ~> status[o] \notin Awaiting
=============================================================================
