----------------------- MODULE YooKassaPaymentProofs -----------------------
(***************************************************************************)
(* Proofs that the safety properties of YooKassaPayment hold for every set *)
(* of orders and tasks.                                                    *)
(***************************************************************************)
EXTENDS YooKassaPayment, TLAPS

USE DEF Final, Notified, Snapshot, Closed, Awaiting, Payable

-----------------------------------------------------------------------------
(* Types *)

\* Only NextStatus computes a status, and it computes one of domain.py.
LEMMA NextStatusType ==
  ASSUME NEW s \in OrderStatus, NEW snap \in Snapshot
  PROVE  NextStatus(s, snap) \in OrderStatus
  BY DEF NextStatus, Reached, OrderStatus

LEMMA IdleType == Idle \in Task
  BY DEF Idle, Task

LEMMA TypeInit == Init => TypeOK
  BY DEF Init, TypeOK, TaskOK, Task, Idle, Payment, NoPayment, PaymentStatus, OrderStatus

\* Whatever a task becomes, if it is well formed the tasks are.
LEMMA TaskSet ==
  ASSUME TaskOK, NEW t \in Tasks, NEW new \in Task, SetTask(t, new),
         new.pc # "idle" => new.order \in Orders,
         new.pc = "apply" => new.snap \in Snapshot
  PROVE  TaskOK'
  BY DEF TaskOK, SetTask

\* The records a step puts in the place of a task.
LEMMA AdvancedType ==
  ASSUME NEW old \in Task, NEW s \in Snapshot
  PROVE  /\ [old EXCEPT !.pc = "create"] \in Task
         /\ [old EXCEPT !.pc = "get", !.then = "done"] \in Task
         /\ [old EXCEPT !.pc = "apply", !.snap = s] \in Task
<1>1. [old EXCEPT !.pc = "create"] \in Task
  BY DEF Task
<1>2. [old EXCEPT !.pc = "get", !.then = "done"] \in Task
  BY DEF Task
<1>3. [old EXCEPT !.pc = "apply", !.snap = s] \in Task
  BY DEF Task
<1> QED
  BY <1>1, <1>2, <1>3

LEMMA BegunType ==
  ASSUME NEW o \in Orders, NEW e \in Notified
  PROVE  /\ [Idle EXCEPT !.pc = "initiate", !.order = o] \in Task
         /\ [Idle EXCEPT !.pc = "get", !.order = o] \in Task
         /\ [Idle EXCEPT !.pc = "initiate", !.order = o, !.then = "get"] \in Task
         /\ [Idle EXCEPT !.pc = "get", !.order = o, !.event = e] \in Task
<1>1. [Idle EXCEPT !.pc = "initiate", !.order = o] \in Task
  BY DEF Task, Idle
<1>2. [Idle EXCEPT !.pc = "get", !.order = o] \in Task
  BY DEF Task, Idle
<1>3. [Idle EXCEPT !.pc = "initiate", !.order = o, !.then = "get"] \in Task
  BY DEF Task, Idle
<1>4. [Idle EXCEPT !.pc = "get", !.order = o, !.event = e] \in Task
  BY DEF Task, Idle
<1> QED
  BY <1>1, <1>2, <1>3, <1>4

\* A task that takes up a snapshot stays well formed.
LEMMA HoldsType ==
  ASSUME TaskOK, NEW t \in Tasks, task[t].order \in Orders,
         NEW s \in Snapshot, Holds(t, s)
  PROVE  TaskOK'
<1> DEFINE new == [task[t] EXCEPT !.pc = "apply", !.snap = s]
<1>1. task[t] \in Task
  BY DEF TaskOK
<1>2. new \in Task
  BY <1>1, AdvancedType
<1>3. new.order = task[t].order /\ new.snap = s
  BY <1>1 DEF Task
<1>4. SetTask(t, new)
  BY DEF Holds
<1> HIDE DEF new
<1> QED
  BY <1>2, <1>3, <1>4, TaskSet

LEMMA InitiationType ==
  ASSUME TypeOK, NEW t \in Tasks, Initiation(t)
  PROVE  TypeOK'
<1> DEFINE o == task[t].order
<1>1. task[t] \in Task /\ task[t].pc # "idle" /\ o \in Orders
  BY DEF TypeOK, TaskOK, Initiation, InitiateRefused, LinkKnown, SetUpPayment,
         CreateReturns, CreateLost
<1>2. CASE InitiateRefused(t)
  <2>1. TaskOK'
    BY <1>2, IdleType, TaskSet DEF InitiateRefused, TypeOK, Idle
  <2> QED
    BY <1>2, <2>1 DEF InitiateRefused, TypeOK
<1>3. CASE LinkKnown(t)
  <2>1. TaskOK'
    BY ZenonT(60), <1>1, <1>3, IdleType DEF LinkKnown, TypeOK, Idle, Task, TaskOK, SetTask
  <2> QED
    BY <1>3, <2>1 DEF LinkKnown, TypeOK
<1>4. CASE SetUpPayment(t)
  <2>1. TaskOK'
    <3> DEFINE new == [task[t] EXCEPT !.pc = "create"]
    <3>1. new \in Task
      BY <1>1, AdvancedType
    <3>2. new.order = o /\ new.pc = "create"
      BY <1>1 DEF Task
    <3>3. SetTask(t, new) /\ TaskOK
      BY <1>4 DEF SetUpPayment, TypeOK
    <3> HIDE DEF new
    <3> QED
      BY <1>1, <3>1, <3>2, <3>3, TaskSet
  <2>2. payment' \in [Orders -> Payment]
    <3>1. [ref |-> "pending", status |-> "created", url |-> FALSE] \in Payment
      BY DEF Payment, PaymentStatus
    <3> QED
      BY <1>1, <1>4, <3>1 DEF SetUpPayment, SetPayment, TypeOK
  <2>3. status' \in [Orders -> OrderStatus] /\ orderPayment' \in [Orders -> PaymentStatus]
    BY <1>1, <1>4 DEF SetUpPayment, TypeOK, OrderStatus, PaymentStatus
  <2> QED
    BY <1>4, <2>1, <2>2, <2>3 DEF SetUpPayment, TypeOK
<1>5. CASE CreateReturns(t)
  <2>1. TaskOK'
    <3>1. PICK s \in Snapshot : Holds(t, s)
      BY <1>1, <1>5 DEF CreateReturns, TypeOK
    <3> QED
      BY <1>1, <3>1, HoldsType DEF TypeOK
  <2> QED
    BY <1>1, <1>5, <2>1 DEF CreateReturns, TypeOK
<1>6. CASE CreateLost(t)
  <2>1. TaskOK'
    BY <1>6, IdleType, TaskSet DEF CreateLost, TypeOK, Idle
  <2> QED
    BY <1>1, <1>6, <2>1 DEF CreateLost, TypeOK
<1> QED
  BY <1>2, <1>3, <1>4, <1>5, <1>6 DEF Initiation

LEMMA ReadType ==
  ASSUME TypeOK, NEW t \in Tasks, NEW o \in Orders,
         BeginInitiate(t, o) \/ BeginSync(t, o) \/ BeginWebhook(t, o)
  PROVE  TypeOK'
<1>1. PICK new \in Task : SetTask(t, new) /\ new.order = o /\ new.pc # "apply"
  <2>1. CASE BeginInitiate(t, o)
    BY <2>1, BegunType DEF BeginInitiate, Begin, Idle
  <2>2. CASE BeginSync(t, o)
    BY <2>2, BegunType DEF BeginSync, Idle
  <2>3. CASE BeginWebhook(t, o)
    <3>1. PICK e \in Notified :
            SetTask(t, [Idle EXCEPT !.pc = "get", !.order = o, !.event = e])
      BY <2>3 DEF BeginWebhook, TypeOK
    <3> QED
      BY <3>1, BegunType DEF Idle
  <2> QED
    BY <2>1, <2>2, <2>3
<1>2. TaskOK'
  BY <1>1, TaskSet DEF TypeOK
<1> QED
  BY <1>2 DEF BeginInitiate, BeginSync, BeginWebhook, TypeOK

LEMMA StopsType ==
  ASSUME TypeOK, NEW t \in Tasks, Stops(t)
  PROVE  TypeOK'
<1>1. TaskOK'
  BY IdleType, TaskSet DEF Stops, TypeOK, Idle
<1> QED
  BY <1>1 DEF Stops, TypeOK

\* What a read returns is the payment's state, provided there is a payment.
LEMMA GetType ==
  ASSUME TypeOK, TaskInv, NEW t \in Tasks, GetReturns(t)
  PROVE  TypeOK'
<1>1. provider[task[t].order] \in Snapshot
  BY DEF GetReturns, TypeOK, TaskOK, TaskInv
<1>2. TaskOK'
  BY <1>1, HoldsType DEF GetReturns, TypeOK, TaskOK
<1> QED
  BY <1>2 DEF GetReturns, TypeOK

LEMMA StoreType ==
  ASSUME TypeOK, NEW t \in Tasks, Store(t)
  PROVE  TypeOK'
<1> DEFINE o == task[t].order
<1>1. task[t] \in Task /\ o \in Orders /\ task[t].snap \in Snapshot
  BY DEF TypeOK, TaskOK, Store, ApplySnapshot, ApplyRefused
<1>2. events' \in [Orders -> SUBSET Notified]
  BY <1>1 DEF Store, ApplySnapshot, ApplyRefused, Acknowledge, TypeOK
<1>3. TaskOK'
  <2>1. PICK new \in Task : SetTask(t, new) /\ new.pc # "apply"
                             /\ (new.pc # "idle" => new.order = o)
    <3> DEFINE next == [task[t] EXCEPT !.pc = "get", !.then = "done"]
    <3>1. next \in Task /\ Idle \in Task
      BY <1>1, AdvancedType, IdleType
    <3>2. next.pc = "get" /\ next.order = o /\ Idle.pc = "idle"
      BY <1>1 DEF Task, Idle
    <3>3. SetTask(t, next) \/ SetTask(t, Idle)
      BY DEF Store, ApplySnapshot, ApplyRefused
    <3> HIDE DEF next
    <3> QED
      BY <3>1, <3>2, <3>3
  <2> QED
    BY <1>1, <2>1, TaskSet DEF TypeOK
<1>4. CASE ApplySnapshot(t)
  <2>1. status' \in [Orders -> OrderStatus]
    BY <1>1, <1>4, NextStatusType DEF ApplySnapshot, TypeOK
  <2>2. payment' \in [Orders -> Payment]
    <3>1. (payment[o].url \/ task[t].snap = "pending") \in BOOLEAN
      OBVIOUS
    <3> QED
      BY <1>1, <1>4, <3>1 DEF ApplySnapshot, SetPayment, TypeOK, Payment, PaymentStatus
  <2>3. orderPayment' \in [Orders -> PaymentStatus]
    BY <1>1, <1>4 DEF ApplySnapshot, TypeOK, PaymentStatus
  <2> QED
    BY <1>2, <1>3, <1>4, <2>1, <2>2, <2>3 DEF ApplySnapshot, TypeOK
<1>5. CASE ApplyRefused(t)
  BY <1>2, <1>3, <1>5 DEF ApplyRefused, TypeOK
<1> QED
  BY <1>4, <1>5 DEF Store

LEMMA LocalType ==
  ASSUME TypeOK, NEW o \in Orders, Local(o)
  PROVE  TypeOK'
<1>1. TaskOK'
  BY DEF TypeOK, TaskOK, Local, Cancel, MoveToManualReview, TakeUp, WindowCloses, ProviderMoves
<1>2. CASE Cancel(o) \/ MoveToManualReview(o) \/ TakeUp(o)
  BY <1>1, <1>2 DEF Cancel, MoveToManualReview, TakeUp, TypeOK, OrderStatus
<1>3. CASE WindowCloses(o)
  BY <1>1, <1>3 DEF WindowCloses, TypeOK
<1>4. CASE ProviderMoves(o)
  BY <1>1, <1>4 DEF ProviderMoves, TypeOK
<1> QED
  BY <1>2, <1>3, <1>4 DEF Local
-----------------------------------------------------------------------------
(* The invariant *)

LEMMA InvInit == Init => Inv
<1> SUFFICES ASSUME Init PROVE Inv
  OBVIOUS
<1>1. TypeOK
  BY TypeInit
<1>2. TaskInv
  BY DEF Init, TaskInv, Idle
<1>3. RowInv
  BY DEF Init, RowInv, NoPayment
<1>4. CaptureInv /\ AcknowledgedIsNoticed
  BY DEF Init, CaptureInv, NoPayment, AcknowledgedIsNoticed
<1>5. PaidIsCaptured /\ PaidIsConfirmed /\ FailedIsCanceled
  BY DEF Init, PaidIsCaptured, PaidIsConfirmed, FailedIsCanceled
<1> QED
  BY <1>1, <1>2, <1>3, <1>4, <1>5 DEF Inv

\* The part of the invariant about the order, its rows and YooKassa.
OrderPart ==
  /\ RowInv /\ CaptureInv
  /\ PaidIsCaptured /\ PaidIsConfirmed /\ FailedIsCanceled /\ AcknowledgedIsNoticed

\* Steps that leave the order alone only have to keep the tasks right.
LEMMA OrderKept ==
  ASSUME OrderPart, UNCHANGED <<status, orderPayment, payment, provider, events>>
  PROVE  OrderPart'
  BY DEF OrderPart, RowInv, CaptureInv, PaidIsCaptured, PaidIsConfirmed, FailedIsCanceled,
         AcknowledgedIsNoticed, Noticed, Confirmed

\* What TaskInv says of one task, given the rows and YooKassa's payments.
TaskFact(x, rows, prov) ==
  LET o == x.order IN
  /\ x.pc \in {"create", "get", "apply"} => rows[o].ref # "none"
  /\ x.pc \in {"initiate", "create"} => x.event = "none"
  /\ x.pc = "get" => prov[o] # "none"
  /\ x.pc = "apply" =>
       /\ prov[o] # "none"
       /\ x.snap \in Final => x.snap = prov[o]
       /\ x.event \in Final => x.snap = prov[o]
  /\ x.event \in Final => x.pc = "idle" \/ prov[o] = x.event

LEMMA TaskInvPointwise ==
  /\ TaskInv <=> \A t \in Tasks : TaskFact(task[t], payment, provider)
  /\ TaskInv' <=> \A t \in Tasks : TaskFact(task'[t], payment', provider')
  BY DEF TaskInv, TaskFact

\* Whatever the payment side does, it forgets neither a row nor an outcome.
PaymentSideGrows ==
  \A o \in Orders :
    /\ payment[o].ref # "none" => payment'[o].ref # "none"
    /\ provider[o] # "none" => provider'[o] # "none"
    /\ provider[o] \in Final => provider'[o] = provider[o]

LEMMA TaskFactKept ==
  ASSUME TypeOK, PaymentSideGrows, NEW t \in Tasks,
         TaskFact(task[t], payment, provider)
  PROVE  TaskFact(task[t], payment', provider')
<1>1. task[t].pc # "idle" => task[t].order \in Orders
  BY DEF TypeOK, TaskOK
<1>2. CASE task[t].pc = "idle"
  BY <1>2 DEF TaskFact
<1>3. CASE task[t].pc # "idle"
  <2>1. CASE task[t].pc = "apply"
    BY <1>1, <2>1 DEF TaskFact, PaymentSideGrows
  <2>2. CASE task[t].pc # "apply"
    BY <1>1, <1>3, <2>2 DEF TaskFact, PaymentSideGrows
  <2> QED
    BY <2>1, <2>2
<1> QED
  BY <1>2, <1>3

\* A step of one task keeps the others, if the payment side only grows.
LEMMA TaskStep ==
  ASSUME TypeOK, TaskInv, PaymentSideGrows, NEW t \in Tasks,
         TaskFact(task'[t], payment', provider'),
         \A u \in Tasks \ {t} : task'[u] = task[u]
  PROVE  TaskInv'
<1> SUFFICES ASSUME NEW u \in Tasks
             PROVE  TaskFact(task'[u], payment', provider')
  BY TaskInvPointwise
<1>1. CASE u = t
  BY <1>1
<1>2. CASE u # t
  <2>1. TaskFact(task[u], payment', provider')
    BY TaskInvPointwise, TaskFactKept
  <2> QED
    BY <1>2, <2>1
<1> QED
  BY <1>1, <1>2

LEMMA TasksKept ==
  ASSUME TypeOK, TaskInv, PaymentSideGrows, UNCHANGED task
  PROVE  TaskInv'
<1>1. \A u \in Tasks : TaskFact(task[u], payment', provider')
  BY TaskInvPointwise, TaskFactKept
<1> QED
  BY <1>1, TaskInvPointwise

\* SetTask, pointwise.
LEMMA SetTaskPointwise ==
  ASSUME TypeOK, NEW t \in Tasks, NEW new, SetTask(t, new)
  PROVE  task'[t] = new /\ \A u \in Tasks \ {t} : task'[u] = task[u]
  BY DEF SetTask, TypeOK, TaskOK

LEMMA IdleFact == \A rows, prov : TaskFact(Idle, rows, prov)
  BY DEF TaskFact, Idle

\* Steps of a task that only read: the payment side stands still.
LEMMA NothingGrows ==
  ASSUME UNCHANGED <<payment, provider>>
  PROVE  PaymentSideGrows
  BY DEF PaymentSideGrows

-----------------------------------------------------------------------------
(* Each action keeps the invariant *)

\* Whatever a task reads is what YooKassa says now.
LEMMA ReadSafe ==
  ASSUME Inv, NEW t \in Tasks, NEW o \in Orders,
         \/ InitiateRefused(t) \/ LinkKnown(t) \/ GetReturns(t) \/ Stops(t)
         \/ BeginInitiate(t, o) \/ BeginSync(t, o) \/ BeginWebhook(t, o)
  PROVE  TaskInv' /\ OrderPart'
<1>1. UNCHANGED <<status, orderPayment, payment, provider, events>>
  BY DEF InitiateRefused, LinkKnown, GetReturns, Stops, BeginInitiate, BeginSync, BeginWebhook
<1>2. OrderPart'
  BY <1>1, OrderKept DEF Inv, OrderPart
<1>3. PaymentSideGrows
  BY <1>1, NothingGrows
<1>4. TypeOK /\ TaskInv /\ RowInv
  BY DEF Inv
<1>5. task[t] \in Task /\ (task[t].pc # "idle" => task[t].order \in Orders)
  BY <1>4 DEF TypeOK, TaskOK
<1>6. TaskFact(task[t], payment, provider)
  BY <1>4, TaskInvPointwise
<1>7. /\ TaskFact(task'[t], payment', provider')
      /\ \A u \in Tasks \ {t} : task'[u] = task[u]
  <2>1. CASE InitiateRefused(t) \/ Stops(t)
    BY <1>4, <2>1, SetTaskPointwise, IdleFact DEF InitiateRefused, Stops
  <2>2. CASE LinkKnown(t)
    <3>1. task[t].event = "none"
      BY <1>6, <2>2 DEF LinkKnown, TaskFact
    <3>2. payment[task[t].order].ref = "known" /\ provider[task[t].order] # "none"
      BY <1>4, <1>5, <2>2 DEF LinkKnown, RowInv
    <3>3. TaskFact([task[t] EXCEPT !.pc = "get", !.then = "done"], payment, provider)
      BY <1>5, <3>1, <3>2 DEF TaskFact, Task
    <3> QED
      BY <1>1, <1>4, <2>2, <3>3, SetTaskPointwise, IdleFact DEF LinkKnown
  <2>3. CASE GetReturns(t)
    <3>1. TaskFact([task[t] EXCEPT !.pc = "apply", !.snap = provider[task[t].order]],
                   payment, provider)
      BY <1>5, <1>6, <2>3 DEF GetReturns, TaskFact, Task
    <3> QED
      BY <1>1, <1>4, <2>3, <3>1, SetTaskPointwise DEF GetReturns, Holds
  <2>4. CASE BeginInitiate(t, o)
    <3>1. TaskFact([Idle EXCEPT !.pc = "initiate", !.order = o], payment, provider)
      BY DEF TaskFact, Idle
    <3> QED
      BY <1>1, <1>4, <2>4, <3>1, SetTaskPointwise DEF BeginInitiate, Begin
  <2>5. CASE BeginSync(t, o)
    <3>1. TaskFact([Idle EXCEPT !.pc = "initiate", !.order = o, !.then = "get"],
                   payment, provider)
      BY DEF TaskFact, Idle
    <3>2. payment[o].ref = "known" =>
            TaskFact([Idle EXCEPT !.pc = "get", !.order = o], payment, provider)
      BY <1>4 DEF TaskFact, Idle, RowInv
    <3> QED
      BY <1>1, <1>4, <2>5, <3>1, <3>2, SetTaskPointwise DEF BeginSync
  <2>6. CASE BeginWebhook(t, o)
    <3>1. PICK e \in events[o] :
            SetTask(t, [Idle EXCEPT !.pc = "get", !.order = o, !.event = e])
      BY <2>6 DEF BeginWebhook
    <3>2. /\ provider[o] # "none" /\ payment[o].ref # "none"
          /\ e \in Final => e = provider[o]
      BY <1>4, <3>1 DEF RowInv
    <3>3. TaskFact([Idle EXCEPT !.pc = "get", !.order = o, !.event = e], payment, provider)
      BY <3>2 DEF TaskFact, Idle
    <3> QED
      BY <1>1, <1>4, <3>1, <3>3, SetTaskPointwise
  <2> QED
    BY <2>1, <2>2, <2>3, <2>4, <2>5, <2>6
<1>8. TaskInv'
  BY <1>3, <1>4, <1>7, TaskStep
<1> QED
  BY <1>2, <1>8

\* What OrderPart says of one order.
OrderFact(st, op, row, prov, ev) ==
  LET confirmed == row.status = "succeeded" /\ op = "succeeded" IN
  /\ row.ref = "none" => prov = "none" /\ row = NoPayment
  /\ row.ref = "known" => prov # "none"
  /\ row.url => row.ref = "known"
  /\ row.ref # "none" => st \notin {"created"} \union Closed
  /\ ev # {} => prov # "none"
  /\ ev \intersect Final \subseteq {prov}
  /\ st \in {"created", "cancelled", "manual_review", "payment_failed",
            "paid", "purchase_processing"} \union Awaiting
  /\ row.status = "succeeded" =>
       prov = "succeeded" /\ confirmed /\ st \in {"paid", "purchase_processing", "manual_review"}
  /\ st \in {"paid", "purchase_processing"} => prov = "succeeded"
  /\ st = "paid" => confirmed
  /\ st = "payment_failed" => prov = "canceled"
  /\ prov \in Final /\ prov \notin ev =>
       \/ prov = "succeeded" /\ confirmed
            /\ st \in {"paid", "purchase_processing", "manual_review"}
       \/ prov = "canceled" /\ st \in {"payment_failed", "manual_review"}

LEMMA OrderPartPointwise ==
  /\ OrderPart <=> \A o \in Orders :
       OrderFact(status[o], orderPayment[o], payment[o], provider[o], events[o])
  /\ OrderPart' <=> \A o \in Orders :
       OrderFact(status'[o], orderPayment'[o], payment'[o], provider'[o], events'[o])
<1> USE DEF OrderPart, RowInv, CaptureInv, PaidIsCaptured, PaidIsConfirmed, FailedIsCanceled,
            AcknowledgedIsNoticed, Noticed, Confirmed, OrderFact
<1>1. OrderPart <=> \A o \in Orders :
        OrderFact(status[o], orderPayment[o], payment[o], provider[o], events[o])
  OBVIOUS
<1>2. OrderPart' <=> \A o \in Orders :
        OrderFact(status'[o], orderPayment'[o], payment'[o], provider'[o], events'[o])
  OBVIOUS
<1> QED
  BY <1>1, <1>2

\* A step that changes one order keeps the others.
LEMMA OrderStep ==
  ASSUME OrderPart, NEW o \in Orders,
         OrderFact(status'[o], orderPayment'[o], payment'[o], provider'[o], events'[o]),
         \A p \in Orders \ {o} :
           /\ status'[p] = status[p] /\ orderPayment'[p] = orderPayment[p]
           /\ payment'[p] = payment[p] /\ provider'[p] = provider[p]
           /\ events'[p] = events[p]
  PROVE  OrderPart'
<1> SUFFICES ASSUME NEW p \in Orders
             PROVE  OrderFact(status'[p], orderPayment'[p], payment'[p], provider'[p], events'[p])
  BY OrderPartPointwise
<1>1. CASE p = o
  BY <1>1
<1>2. CASE p # o
  BY <1>2, OrderPartPointwise
<1> QED
  BY <1>1, <1>2

\* Before the capture is stored, the rows of a payable order may be written.
LEMMA SetUpSafe ==
  ASSUME Inv, NEW t \in Tasks, SetUpPayment(t)
  PROVE  TaskInv' /\ OrderPart'
<1> DEFINE o == task[t].order
<1>1. TypeOK /\ TaskInv /\ OrderPart
  BY DEF Inv, OrderPart
<1>2. o \in Orders /\ task[t] \in Task
  BY <1>1 DEF SetUpPayment, TypeOK, TaskOK
<1>3. /\ status'[o] = "waiting_for_payment" /\ orderPayment'[o] = "created"
      /\ payment'[o] = IF payment[o] = NoPayment
                       THEN [ref |-> "pending", status |-> "created", url |-> FALSE]
                       ELSE payment[o]
      /\ \A p \in Orders \ {o} :
           /\ status'[p] = status[p] /\ orderPayment'[p] = orderPayment[p]
           /\ payment'[p] = payment[p]
      /\ UNCHANGED <<provider, events>>
  BY <1>1, <1>2 DEF SetUpPayment, SetPayment, TypeOK
<1>4. OrderFact(status[o], orderPayment[o], payment[o], provider[o], events[o])
  BY <1>1, <1>2, OrderPartPointwise
<1>5. status[o] \in {"created", "waiting_for_payment"}
  BY DEF SetUpPayment
<1>6. OrderFact(status'[o], orderPayment'[o], payment'[o], provider'[o], events'[o])
  <2>1. CASE payment[o] = NoPayment
    BY <1>3, <1>4, <1>5, <2>1 DEF OrderFact, NoPayment
  <2>2. CASE payment[o] # NoPayment
    BY <1>3, <1>4, <1>5, <2>2 DEF OrderFact
  <2> QED
    BY <2>1, <2>2
<1>7. OrderPart'
  BY <1>1, <1>2, <1>3, <1>6, OrderStep
<1>8. PaymentSideGrows
  BY <1>2, <1>3 DEF PaymentSideGrows, NoPayment
<1>9. payment'[o].ref # "none"
  BY <1>3, <1>4 DEF OrderFact
<1>10. task[t].event = "none" /\ task[t].pc = "initiate"
  BY <1>1, TaskInvPointwise DEF SetUpPayment, TaskFact
<1>11. TaskFact([task[t] EXCEPT !.pc = "create"], payment', provider')
  BY <1>2, <1>9, <1>10 DEF TaskFact, Task
<1>12. /\ task'[t] = [task[t] EXCEPT !.pc = "create"]
       /\ \A u \in Tasks \ {t} : task'[u] = task[u]
  BY <1>1, SetTaskPointwise DEF SetUpPayment
<1>13. TaskInv'
  BY <1>1, <1>8, <1>11, <1>12, TaskStep
<1> QED
  BY <1>7, <1>13

\* A payment appears at YooKassa only behind a row that waits for it.
LEMMA CreateSafe ==
  ASSUME Inv, NEW t \in Tasks, CreateReturns(t) \/ CreateLost(t)
  PROVE  TaskInv' /\ OrderPart'
<1> DEFINE o == task[t].order
           now == IF provider[o] = "none" THEN "pending" ELSE provider[o]
<1>1. TypeOK /\ TaskInv /\ OrderPart
  BY DEF Inv, OrderPart
<1>2. o \in Orders /\ task[t] \in Task /\ task[t].pc = "create"
  BY <1>1 DEF CreateReturns, CreateLost, TypeOK, TaskOK
<1>3. /\ provider'[o] = now
      /\ \A p \in Orders \ {o} : provider'[p] = provider[p]
      /\ UNCHANGED <<status, orderPayment, payment, events>>
  BY <1>1, <1>2 DEF CreateReturns, CreateLost, TypeOK
<1>4. TaskFact(task[t], payment, provider)
  BY <1>1, TaskInvPointwise
<1>5. payment[o].ref # "none" /\ task[t].event = "none"
  BY <1>2, <1>4 DEF TaskFact
<1>6. OrderFact(status[o], orderPayment[o], payment[o], provider[o], events[o])
  BY <1>1, <1>2, OrderPartPointwise
<1>7. OrderFact(status'[o], orderPayment'[o], payment'[o], provider'[o], events'[o])
  BY <1>3, <1>5, <1>6 DEF OrderFact
<1>8. OrderPart'
  BY <1>1, <1>2, <1>3, <1>7, OrderStep
<1>9. PaymentSideGrows
  BY <1>2, <1>3 DEF PaymentSideGrows
<1>10. /\ TaskFact(task'[t], payment', provider')
       /\ \A u \in Tasks \ {t} : task'[u] = task[u]
  <2>1. CASE CreateReturns(t)
    <3>1. PICK s \in {"pending", now} : Holds(t, s)
      BY <2>1 DEF CreateReturns
    <3>2. /\ task'[t] = [task[t] EXCEPT !.pc = "apply", !.snap = s]
          /\ \A u \in Tasks \ {t} : task'[u] = task[u]
      BY <1>1, <3>1, SetTaskPointwise DEF Holds
    <3>3. TaskFact([task[t] EXCEPT !.pc = "apply", !.snap = s], payment', provider')
      BY <1>2, <1>3, <1>5 DEF TaskFact, Task
    <3> QED
      BY <3>2, <3>3
  <2>2. CASE CreateLost(t)
    BY <1>1, <2>2, SetTaskPointwise, IdleFact DEF CreateLost
  <2> QED
    BY <2>1, <2>2
<1>11. TaskInv'
  BY <1>1, <1>9, <1>10, TaskStep
<1> QED
  BY <1>8, <1>11

\* A snapshot is stored, unless it would take back a capture.
LEMMA ApplySafe ==
  ASSUME Inv, NEW t \in Tasks, ApplySnapshot(t)
  PROVE  TaskInv' /\ OrderPart'
<1> DEFINE o == task[t].order
           s == task[t].snap
           row == [ref |-> "known", status |-> s, url |-> payment[o].url \/ s = "pending"]
           next == [task[t] EXCEPT !.pc = "get", !.then = "done"]
<1>1. TypeOK /\ TaskInv /\ OrderPart
  BY DEF Inv, OrderPart
<1>2. o \in Orders /\ task[t] \in Task /\ task[t].pc = "apply" /\ s \in Snapshot
  BY <1>1 DEF ApplySnapshot, TypeOK, TaskOK
<1>3. /\ status'[o] = NextStatus(status[o], s) /\ orderPayment'[o] = s
      /\ payment'[o] = row
      /\ events'[o] = events[o] \/ events'[o] = events[o] \ {task[t].event}
      /\ \A p \in Orders \ {o} :
           /\ status'[p] = status[p] /\ orderPayment'[p] = orderPayment[p]
           /\ payment'[p] = payment[p] /\ events'[p] = events[p]
      /\ UNCHANGED provider
  BY <1>1, <1>2 DEF ApplySnapshot, SetPayment, Acknowledge, TypeOK
<1>4. TaskFact(task[t], payment, provider)
  BY <1>1, TaskInvPointwise
<1>5. /\ payment[o].ref # "none" /\ provider[o] # "none"
      /\ s \in Final => s = provider[o]
      /\ task[t].event \in Final => s = provider[o]
  BY <1>2, <1>4 DEF TaskFact
<1>6. OrderFact(status[o], orderPayment[o], payment[o], provider[o], events[o])
  BY <1>1, <1>2, OrderPartPointwise
<1>7. payment[o].status = "succeeded" => s = "succeeded"
  BY DEF ApplySnapshot, Regresses
<1>8. OrderFact(status'[o], orderPayment'[o], payment'[o], provider'[o], events'[o])
  BY SMTT(30), <1>2, <1>3, <1>5, <1>6, <1>7 DEF OrderFact, NextStatus, Reached
<1>9. OrderPart'
  BY <1>1, <1>2, <1>3, <1>8, OrderStep
<1>10. PaymentSideGrows
  BY <1>2, <1>3 DEF PaymentSideGrows
<1>11. /\ task'[t] = next \/ task'[t] = Idle
       /\ \A u \in Tasks \ {t} : task'[u] = task[u]
  BY <1>1, SetTaskPointwise DEF ApplySnapshot
<1>12. TaskFact(next, payment', provider')
  <2>1. task[t].event \in Final => provider[o] = task[t].event
    BY <1>2, <1>4 DEF TaskFact
  <2> QED
    BY <1>2, <1>3, <1>5, <2>1 DEF TaskFact, Task
<1>13. TaskInv'
  BY <1>1, <1>10, <1>11, <1>12, IdleFact, TaskStep
<1> QED
  BY <1>9, <1>13

\* A snapshot is refused only when the capture is stored already, so nothing is
\* lost when the webhook that brought it is acknowledged.
LEMMA RefusedSafe ==
  ASSUME Inv, NEW t \in Tasks, ApplyRefused(t)
  PROVE  TaskInv' /\ OrderPart'
<1> DEFINE o == task[t].order
<1>1. TypeOK /\ TaskInv /\ OrderPart
  BY DEF Inv, OrderPart
<1>2. o \in Orders /\ task[t].pc = "apply"
  BY <1>1 DEF ApplyRefused, TypeOK, TaskOK
<1>3. /\ events'[o] = events[o] \/ events'[o] = events[o] \ {task[t].event}
      /\ \A p \in Orders \ {o} : events'[p] = events[p]
      /\ UNCHANGED <<status, orderPayment, payment, provider>>
  BY <1>1, <1>2 DEF ApplyRefused, Acknowledge, TypeOK
<1>4. TaskFact(task[t], payment, provider)
  BY <1>1, TaskInvPointwise
<1>5. task[t].event \in Final => task[t].snap = provider[o]
  BY <1>2, <1>4 DEF TaskFact
<1>6. OrderFact(status[o], orderPayment[o], payment[o], provider[o], events[o])
  BY <1>1, <1>2, OrderPartPointwise
<1>7. payment[o].status = "succeeded" /\ task[t].snap # "succeeded"
  BY DEF ApplyRefused, Regresses
<1>8. OrderFact(status'[o], orderPayment'[o], payment'[o], provider'[o], events'[o])
  BY <1>3, <1>5, <1>6, <1>7 DEF OrderFact
<1>9. OrderPart'
  BY <1>1, <1>2, <1>3, <1>8, OrderStep
<1>10. PaymentSideGrows
  BY <1>3, NothingGrows
<1>11. task'[t] = Idle /\ \A u \in Tasks \ {t} : task'[u] = task[u]
  BY <1>1, SetTaskPointwise DEF ApplyRefused
<1>12. TaskInv'
  BY <1>1, <1>10, <1>11, IdleFact, TaskStep
<1> QED
  BY <1>9, <1>12

\* The buyer, the administrator, the worker, the clock and YooKassa.
LEMMA LocalSafe ==
  ASSUME Inv, NEW o \in Orders, Local(o)
  PROVE  TaskInv' /\ OrderPart'
<1>1. TypeOK /\ TaskInv /\ OrderPart
  BY DEF Inv, OrderPart
<1>2. UNCHANGED <<orderPayment, payment, task>>
  BY DEF Local, Cancel, MoveToManualReview, TakeUp, WindowCloses, ProviderMoves
<1>3. \A p \in Orders \ {o} :
        status'[p] = status[p] /\ provider'[p] = provider[p] /\ events'[p] = events[p]
  BY <1>1 DEF Local, Cancel, MoveToManualReview, TakeUp, WindowCloses, ProviderMoves, TypeOK
<1>4. OrderFact(status[o], orderPayment[o], payment[o], provider[o], events[o])
  BY <1>1, OrderPartPointwise
<1>5. OrderFact(status'[o], orderPayment'[o], payment'[o], provider'[o], events'[o])
  <2>1. CASE Cancel(o)
    <3>1. status'[o] = "cancelled" /\ payment[o] = NoPayment /\ UNCHANGED <<provider, events>>
      BY <1>1, <2>1 DEF Cancel, TypeOK
    <3> QED
      BY <1>2, <1>4, <3>1 DEF OrderFact, NoPayment
  <2>2. CASE MoveToManualReview(o)
    <3>1. /\ status[o] # "payment_failed" /\ status'[o] = "manual_review"
          /\ UNCHANGED <<provider, events>>
      BY <1>1, <2>2 DEF MoveToManualReview, TypeOK
    <3> QED
      BY <1>2, <1>4, <3>1 DEF OrderFact
  <2>3. CASE TakeUp(o)
    <3>1. /\ status[o] = "paid" /\ status'[o] \in {"purchase_processing", "manual_review"}
          /\ UNCHANGED <<provider, events>>
      BY <1>1, <2>3 DEF TakeUp, TypeOK
    <3> QED
      BY <1>2, <1>4, <3>1 DEF OrderFact
  <2>4. CASE WindowCloses(o)
    BY <1>2, <1>4, <2>4 DEF WindowCloses
  <2>5. CASE ProviderMoves(o)
    <3>1. PICK s \in Notified :
            /\ \/ provider[o] = "pending"
               \/ provider[o] = "waiting_for_capture" /\ s \in Final
            /\ provider'[o] = s /\ events'[o] = events[o] \union {s}
            /\ UNCHANGED status
      BY <1>1, <2>5 DEF ProviderMoves, TypeOK
    <3> QED
      BY <1>2, <1>4, <3>1 DEF OrderFact
  <2> QED
    BY <2>1, <2>2, <2>3, <2>4, <2>5 DEF Local
<1>6. OrderPart'
  BY <1>1, <1>2, <1>3, <1>5, OrderStep
<1>7. PaymentSideGrows
  BY <1>1, <1>2 DEF PaymentSideGrows, Local, Cancel, MoveToManualReview, TakeUp, WindowCloses,
                    ProviderMoves, TypeOK
<1>8. TaskInv'
  BY <1>1, <1>2, <1>7, TasksKept
<1> QED
  BY <1>6, <1>8

LEMMA InvStep ==
  ASSUME Inv, [Next]_vars
  PROVE  Inv'
<1>1. TypeOK /\ TaskInv /\ OrderPart
  BY DEF Inv, OrderPart
<1>2. ASSUME TypeOK', TaskInv', OrderPart' PROVE Inv'
  BY <1>2 DEF Inv, OrderPart
<1>3. CASE UNCHANGED vars
  <2>1. TypeOK'
    BY <1>1, <1>3 DEF vars, TypeOK, TaskOK
  <2>2. TaskInv'
    BY <1>1, <1>3, NothingGrows, TasksKept DEF vars
  <2>3. OrderPart'
    BY <1>1, <1>3, OrderKept DEF vars
  <2> QED
    BY <1>2, <2>1, <2>2, <2>3
<1>4. ASSUME NEW t \in Tasks, Initiation(t) PROVE Inv'
  <2>1. TypeOK'
    BY <1>1, <1>4, InitiationType
  <2>2. CASE InitiateRefused(t) \/ LinkKnown(t)
    <3>1. task[t].order \in Orders
      BY <1>1, <2>2 DEF TypeOK, TaskOK, InitiateRefused, LinkKnown
    <3> QED
      BY <1>2, <2>1, <2>2, <3>1, ReadSafe
  <2>3. CASE SetUpPayment(t)
    BY <1>2, <2>1, <2>3, SetUpSafe
  <2>4. CASE CreateReturns(t) \/ CreateLost(t)
    BY <1>2, <2>1, <2>4, CreateSafe
  <2> QED
    BY <1>4, <2>2, <2>3, <2>4 DEF Initiation
<1>5. ASSUME NEW t \in Tasks, GetReturns(t) \/ Stops(t) PROVE Inv'
  <2>1. TypeOK'
    BY <1>1, <1>5, GetType, StopsType
  <2>2. task[t].order \in Orders
    BY <1>1, <1>5 DEF TypeOK, TaskOK, GetReturns, Stops
  <2> QED
    BY <1>2, <1>5, <2>1, <2>2, ReadSafe
<1>6. ASSUME NEW t \in Tasks, Store(t) PROVE Inv'
  <2>1. TypeOK'
    BY <1>1, <1>6, StoreType
  <2> QED
    BY <1>2, <1>6, <2>1, ApplySafe, RefusedSafe DEF Store
<1>7. ASSUME NEW t \in Tasks, NEW o \in Orders,
             BeginInitiate(t, o) \/ BeginSync(t, o) \/ BeginWebhook(t, o)
      PROVE  Inv'
  BY <1>1, <1>2, <1>7, ReadType, ReadSafe
<1>8. ASSUME NEW o \in Orders, Local(o) PROVE Inv'
  BY <1>1, <1>2, <1>8, LocalType, LocalSafe
<1> QED
  BY <1>3, <1>4, <1>5, <1>6, <1>7, <1>8 DEF Next

\* The invariant holds for every set of orders, tasks and gateways.
THEOREM InvariantHolds == Spec => []Inv
<1>1. Init => Inv
  BY InvInit
<1>2. Inv /\ [Next]_vars => Inv'
  BY InvStep
<1> QED
  BY <1>1, <1>2, PTL DEF Spec

-----------------------------------------------------------------------------
(* The properties *)

\* Only a captured payment makes an order PAID and has Stars bought for it.
THEOREM PaidMeansCaptured == Spec => []PaidIsCaptured
<1>1. Inv => PaidIsCaptured
  BY DEF Inv
<1> QED
  BY <1>1, InvariantHolds, PTL

\* A paid order always passes the payment checks of its delivery.
THEOREM PaidMeansConfirmed == Spec => []PaidIsConfirmed
<1>1. Inv => PaidIsConfirmed
  BY DEF Inv
<1> QED
  BY <1>1, InvariantHolds, PTL

\* The buyer of an order that failed cannot be charged any more.
THEOREM FailedMeansCanceled == Spec => []FailedIsCanceled
<1>1. Inv => FailedIsCanceled
  BY DEF Inv
<1> QED
  BY <1>1, InvariantHolds, PTL

\* A payment at YooKassa excludes that its order is cancelled or unpaid.
THEOREM ChargedMeansOpen == Spec => []ChargedIsNotClosed
<1>1. Inv => ChargedIsNotClosed
  BY DEF Inv, RowInv, ChargedIsNotClosed
<1> QED
  BY <1>1, InvariantHolds, PTL

\* No notification of an outcome is acknowledged before the outcome is stored.
THEOREM AcknowledgedMeansNoticed == Spec => []AcknowledgedIsNoticed
<1>1. Inv => AcknowledgedIsNoticed
  BY DEF Inv
<1> QED
  BY <1>1, InvariantHolds, PTL

\* A step of the system does not take back a capture both rows know of.
LEMMA ConfirmedStays ==
  ASSUME Inv, [Next]_vars, NEW o \in Orders, Confirmed(o)
  PROVE  Confirmed(o)'
<1>1. TypeOK /\ CaptureInv
  BY DEF Inv
<1>2. payment[o].status = "succeeded" /\ orderPayment[o] = "succeeded"
  BY DEF Confirmed
<1>3. ~Payable(o)
  BY <1>1, <1>2 DEF CaptureInv
<1>4. CASE UNCHANGED <<payment, orderPayment>>
  BY <1>2, <1>4 DEF Confirmed
<1>5. ASSUME NEW t \in Tasks, SetUpPayment(t) PROVE Confirmed(o)'
  <2>1. task[t].order # o
    BY <1>3, <1>5 DEF SetUpPayment
  <2> QED
    BY <1>1, <1>2, <1>5, <2>1 DEF SetUpPayment, SetPayment, Confirmed, TypeOK
<1>6. ASSUME NEW t \in Tasks, ApplySnapshot(t) PROVE Confirmed(o)'
  <2>1. task[t].order = o => task[t].snap = "succeeded"
    BY <1>2, <1>6 DEF ApplySnapshot, Regresses
  <2>2. task[t].order \in Orders
    BY <1>1, <1>6 DEF ApplySnapshot, TypeOK, TaskOK
  <2>3. CASE task[t].order = o
    BY <1>1, <1>6, <2>1, <2>3 DEF ApplySnapshot, SetPayment, Confirmed, TypeOK
  <2>4. CASE task[t].order # o
    BY <1>1, <1>2, <1>6, <2>4 DEF ApplySnapshot, SetPayment, Confirmed, TypeOK
  <2> QED
    BY <2>3, <2>4
<1> QED
  BY <1>4, <1>5, <1>6 DEF Next, vars, Initiation, InitiateRefused, LinkKnown, CreateReturns,
     CreateLost, GetReturns, Store, ApplyRefused, Stops, BeginInitiate, BeginSync, BeginWebhook,
     Local, Cancel, MoveToManualReview, TakeUp, WindowCloses, ProviderMoves

\* What the database knows of a captured payment is never taken back.
THEOREM SucceededStays == Spec => SucceededIsFinal
<1>1. Inv /\ [Next]_vars => [\A o \in Orders : Confirmed(o) => Confirmed(o)']_vars
  BY ConfirmedStays
<1> QED
  BY <1>1, InvariantHolds, PTL DEF Spec, SucceededIsFinal

-----------------------------------------------------------------------------
(* How the status of an order and its payment move *)

\* What a step may make of the status of o.
Proceeds(o, s) ==
  \/ Payable(o) /\ s \in {"waiting_for_payment", "cancelled"}
  \/ status[o] \in Awaiting /\ s = "payment_confirming"
  \/ status[o] \in Awaiting /\ s = "payment_failed" /\ provider[o] = "canceled"
  \/ status[o] \in Awaiting /\ s = "paid" /\ provider[o] = "succeeded"
  \/ status[o] = "paid" /\ s = "purchase_processing"
  \/ CanTransition(status[o], "manual_review") /\ s = "manual_review"
  \/ s = status[o]

\* One order moves, and its payment does not; or a payment that has not ended.
Proceeding(o) ==
  /\ UNCHANGED provider
  /\ \E s \in OrderStatus : Proceeds(o, s) /\ status' = [status EXCEPT ![o] = s]
MoneyMoves(o) ==
  /\ UNCHANGED status
  /\ provider[o] \notin Final
  /\ \E s \in Snapshot : provider' = [provider EXCEPT ![o] = s]
Stays == UNCHANGED <<status, provider>>

LEMMA StatusNames ==
  {"waiting_for_payment", "cancelled", "manual_review", "payment_failed",
   "payment_confirming", "paid", "purchase_processing"} \subseteq OrderStatus
  BY DEF OrderStatus

LEMMA MayReview ==
  ASSUME NEW s, s \in Closed \union {"paid"}
  PROVE  CanTransition(s, "manual_review")
<1>1. "manual_review" \in AllowedTargets(s)
  BY DEF AllowedTargets
<1> QED
  BY <1>1 DEF CanTransition

LEMMA LocalProceeds ==
  ASSUME NEW o \in Orders, Cancel(o) \/ MoveToManualReview(o) \/ TakeUp(o)
  PROVE  Proceeding(o)
<1>1. CASE Cancel(o)
  BY <1>1, StatusNames DEF Cancel, Proceeding, Proceeds
<1>2. CASE MoveToManualReview(o)
  BY <1>2, StatusNames DEF MoveToManualReview, Proceeding, Proceeds
<1>3. CASE TakeUp(o)
  <2>1. CanTransition(status[o], "manual_review")
    BY <1>3, MayReview DEF TakeUp
  <2> QED
    BY <1>3, <2>1, StatusNames DEF TakeUp, Proceeding, Proceeds
<1> QED
  BY <1>1, <1>2, <1>3

\* The snapshot a task stores may be old, an outcome it tells of is not.
LEMMA ApplyProceeds ==
  ASSUME Inv, NEW t \in Tasks, ApplySnapshot(t)
  PROVE  task[t].order \in Orders /\ Proceeding(task[t].order)
<1> DEFINE o == task[t].order
           s == task[t].snap
<1>1. o \in Orders /\ s \in Snapshot /\ status[o] \in OrderStatus
  BY DEF Inv, TypeOK, TaskOK, ApplySnapshot
<1>2. s \in Final => provider[o] = s
  BY <1>1 DEF Inv, TaskInv, ApplySnapshot
<1>3. Proceeds(o, NextStatus(status[o], s))
  <2>1. CASE status[o] \in Awaiting
    BY <1>1, <1>2, <2>1 DEF Proceeds, NextStatus, Reached
  <2>2. CASE status[o] \in Closed
    <3>1. CanTransition(status[o], "manual_review")
      BY <2>2, MayReview
    <3> QED
      BY <2>2, <3>1 DEF Proceeds, NextStatus
  <2>3. CASE status[o] \notin Awaiting \union Closed
    BY <2>3 DEF Proceeds, NextStatus
  <2> QED
    BY <2>1, <2>2, <2>3
<1>4. status' = [status EXCEPT ![o] = NextStatus(status[o], s)] /\ UNCHANGED provider
  BY <1>1 DEF ApplySnapshot
<1>5. NextStatus(status[o], s) \in OrderStatus
  BY <1>1, NextStatusType
<1> QED
  BY <1>1, <1>3, <1>4, <1>5 DEF Proceeding

LEMMA SetUpProceeds ==
  ASSUME Inv, NEW t \in Tasks, SetUpPayment(t)
  PROVE  task[t].order \in Orders /\ Proceeding(task[t].order)
<1>1. task[t].order \in Orders
  BY DEF Inv, TypeOK, TaskOK, SetUpPayment
<1> QED
  BY <1>1, StatusNames DEF SetUpPayment, Proceeding, Proceeds

LEMMA MoneyStep ==
  ASSUME Inv, NEW t \in Tasks, CreateReturns(t) \/ CreateLost(t)
  PROVE  Stays \/ \E o \in Orders : MoneyMoves(o)
<1> DEFINE o == task[t].order
<1>1. o \in Orders
  BY DEF Inv, TypeOK, TaskOK, CreateReturns, CreateLost
<1>2. status' = status
  BY DEF CreateReturns, CreateLost
<1>3. provider \in [Orders -> Snapshot \union {"none"}]
  BY DEF Inv, TypeOK
<1>4. CASE provider[o] = "none"
  <2>1. provider' = [provider EXCEPT ![o] = "pending"]
    BY <1>4 DEF CreateReturns, CreateLost
  <2> QED
    BY <1>1, <1>2, <1>4, <2>1 DEF MoneyMoves
<1>5. CASE provider[o] # "none"
  <2>1. provider' = [provider EXCEPT ![o] = provider[o]]
    BY <1>5 DEF CreateReturns, CreateLost
  <2>2. provider' = provider
    BY <1>3, <2>1
  <2> QED
    BY <1>2, <2>2 DEF Stays
<1> QED
  BY <1>4, <1>5

LEMMA StepProceeds ==
  ASSUME Inv, [Next]_vars
  PROVE  Stays \/ \E o \in Orders : Proceeding(o) \/ MoneyMoves(o)
<1>1. CASE UNCHANGED vars
  BY <1>1 DEF vars, Stays
<1>2. ASSUME NEW t \in Tasks, Initiation(t)
      PROVE  Stays \/ \E o \in Orders : Proceeding(o) \/ MoneyMoves(o)
  BY <1>2, SetUpProceeds, MoneyStep DEF Initiation, InitiateRefused, LinkKnown, Stays
<1>3. ASSUME NEW t \in Tasks, Store(t)
      PROVE  Stays \/ \E o \in Orders : Proceeding(o) \/ MoneyMoves(o)
  BY <1>3, ApplyProceeds DEF Store, ApplyRefused, Stays
<1>4. ASSUME NEW t \in Tasks,
             \/ GetReturns(t) \/ Stops(t)
             \/ \E o \in Orders : BeginInitiate(t, o) \/ BeginSync(t, o) \/ BeginWebhook(t, o)
      PROVE  Stays
  BY <1>4 DEF GetReturns, Stops, BeginInitiate, BeginSync, BeginWebhook, Stays
<1>5. ASSUME NEW o \in Orders, Local(o)
      PROVE  Stays \/ \E p \in Orders : Proceeding(p) \/ MoneyMoves(p)
  <2>1. CASE Cancel(o) \/ MoveToManualReview(o) \/ TakeUp(o)
    BY <2>1, LocalProceeds
  <2>2. CASE WindowCloses(o)
    BY <2>2 DEF WindowCloses, Stays
  <2>3. CASE ProviderMoves(o)
    BY <2>3 DEF ProviderMoves, MoneyMoves
  <2> QED
    BY <1>5, <2>1, <2>2, <2>3 DEF Local
<1> QED
  BY <1>1, <1>2, <1>3, <1>4, <1>5 DEF Next

\* The steps through PAYMENT_DETECTED and PAYMENT_CONFIRMING are listed too.
LEMMA ProceedsListed ==
  ASSUME NEW o \in Orders, NEW s, Proceeds(o, s)
  PROVE  OnTheWay(status[o], s)
<1>1. /\ CanTransition("payment_detected", "payment_confirming")
      /\ CanTransition("payment_confirming", "payment_failed")
      /\ CanTransition("payment_confirming", "paid")
      /\ CanTransition("payment_confirming", "payment_confirming")
      /\ CanTransition("waiting_for_payment", "payment_detected")
      /\ CanTransition("waiting_for_payment", "payment_failed")
      /\ CanTransition("payment_detected", "payment_detected")
  BY DEF CanTransition, AllowedTargets
<1>2. CASE status[o] \in Awaiting /\ s \in {"payment_confirming", "payment_failed", "paid"}
  BY <1>1, <1>2 DEF OnTheWay
<1>3. CASE Payable(o) /\ s \in {"waiting_for_payment", "cancelled"}
  BY <1>3 DEF OnTheWay, CanTransition, AllowedTargets
<1>4. CASE status[o] = "paid" /\ s = "purchase_processing"
  BY <1>4 DEF OnTheWay, CanTransition, AllowedTargets
<1>5. CASE s = status[o]
  BY <1>5 DEF OnTheWay, CanTransition
<1>6. CASE s = "manual_review" /\ CanTransition(status[o], "manual_review")
  BY <1>6 DEF OnTheWay
<1> QED
  BY <1>2, <1>3, <1>4, <1>5, <1>6 DEF Proceeds

\* However old a snapshot is, the table lists the statuses its order goes through
\* (OrderRepository.transition, _transition_yookassa_status).
THEOREM NeverRefused == Spec => NothingIsRefused
<1>1. ASSUME Inv, [Next]_vars, NEW o \in Orders
      PROVE  OnTheWay(status[o], status'[o])
  <2>1. CASE status' = status
    BY <2>1 DEF OnTheWay, CanTransition
  <2>2. CASE \E p \in Orders : Proceeding(p)
    <3>1. PICK p \in Orders, s \in OrderStatus :
            Proceeds(p, s) /\ status' = [status EXCEPT ![p] = s]
      BY <2>2 DEF Proceeding
    <3>2. CASE p = o
      <4>1. status'[o] = s
        BY <1>1, <3>1, <3>2 DEF Inv, TypeOK
      <4> QED
        BY <3>1, <3>2, <4>1, ProceedsListed
    <3>3. CASE p # o
      <4>1. status'[o] = status[o]
        BY <1>1, <3>1, <3>3 DEF Inv, TypeOK
      <4> QED
        BY <4>1 DEF OnTheWay, CanTransition
    <3> QED
      BY <3>2, <3>3
  <2> QED
    BY <1>1, <2>1, <2>2, StepProceeds DEF Stays, MoneyMoves
<1>2. Inv /\ [Next]_vars => [\A o \in Orders : OnTheWay(status[o], status'[o])]_vars
  BY <1>1
<1> QED
  BY <1>2, InvariantHolds, PTL DEF Spec, NothingIsRefused

-----------------------------------------------------------------------------
(* How the outcome of a payment is noticed *)

LEMMA OutcomeStored ==
  ASSUME Inv, NEW t \in Tasks, NEW o \in Orders, ApplySnapshot(t), task[t].order = o,
         task[t].event \in Final
  PROVE  Noticed(o)'
<1>1. PICK s \in Snapshot : s = task[t].snap
  BY DEF Inv, TypeOK, TaskOK, ApplySnapshot
<1>2. provider[o] = s /\ s \in Final /\ payment[o].ref # "none"
  <2>1. task[t].pc = "apply"
    BY DEF ApplySnapshot
  <2>2. TaskFact(task[t], payment, provider)
    BY TaskInvPointwise DEF Inv
  <2> QED
    BY <1>1, <2>1, <2>2 DEF TaskFact
<1>3. /\ status'[o] = NextStatus(status[o], s)
      /\ orderPayment'[o] = s /\ payment'[o].status = s /\ provider' = provider
  BY <1>1 DEF ApplySnapshot, SetPayment, Inv, TypeOK
<1>4. status[o] \in {"manual_review", "payment_failed", "paid", "purchase_processing"}
                      \union Awaiting
  BY <1>1, <1>2 DEF Inv, RowInv
<1>5. CASE s = "succeeded"
  <2>1. status[o] # "payment_failed"
    BY <1>1, <1>2, <1>5 DEF Inv, FailedIsCanceled
  <2>2. status'[o] \in {"paid", "purchase_processing", "manual_review"}
    BY <1>3, <1>4, <1>5, <2>1 DEF NextStatus, Reached
  <2>3. provider'[o] = "succeeded" /\ Confirmed(o)'
    BY <1>2, <1>3, <1>5 DEF Confirmed
  <2> QED
    BY <2>2, <2>3 DEF Noticed
<1>6. CASE s = "canceled"
  <2>1. status[o] \notin {"paid", "purchase_processing"}
    BY <1>1, <1>2, <1>6 DEF Inv, PaidIsCaptured
  <2>2. status'[o] \in {"payment_failed", "manual_review"}
    BY <1>3, <1>4, <1>6, <2>1 DEF NextStatus, Reached
  <2>3. provider'[o] = "canceled"
    BY <1>2, <1>3, <1>6
  <2> QED
    BY <2>2, <2>3 DEF Noticed
<1> QED
  BY <1>2, <1>5, <1>6

\* What a webhook that brings an outcome reads is never refused.
LEMMA OutcomeAccepted ==
  ASSUME Inv, NEW t \in Tasks, task[t].event \in Final
  PROVE  ~ApplyRefused(t)
<1> SUFFICES ASSUME ApplyRefused(t) PROVE FALSE
  OBVIOUS
<1> DEFINE o == task[t].order
<1>1. o \in Orders /\ task[t].pc = "apply"
  BY DEF Inv, TypeOK, TaskOK, ApplyRefused
<1>2. task[t].snap = provider[o]
  BY <1>1 DEF Inv, TaskInv
<1>3. payment[o].status = "succeeded" /\ task[t].snap # "succeeded"
  BY DEF ApplyRefused, Regresses
<1>4. provider[o] = "succeeded"
  BY <1>1, <1>3 DEF Inv, CaptureInv
<1> QED
  BY <1>2, <1>3, <1>4

\* One delivery of a webhook that brings an outcome is enough for it to be noticed.
THEOREM WebhookIsEnough == Spec => WebhookSuffices
<1>1. ASSUME Inv, NEW t \in Gateways, NEW o \in Orders,
             Store(t), task[t].order = o, task[t].event \in Final
      PROVE  Noticed(o)'
  <2>1. t \in Tasks
    BY TaskAssumption
  <2>2. ApplySnapshot(t)
    BY <1>1, <2>1, OutcomeAccepted DEF Store
  <2> QED
    BY <1>1, <2>1, <2>2, OutcomeStored
<1>2. Inv => [\A t \in Gateways, o \in Orders :
                Store(t) /\ task[t].order = o /\ task[t].event \in Final => Noticed(o)']_vars
  BY <1>1
<1> QED
  BY <1>2, InvariantHolds, PTL DEF Spec, WebhookSuffices

LEMMA NoticedStep ==
  ASSUME Inv, [Next]_vars, NEW o \in Orders, Noticed(o)
  PROVE  Noticed(o)'
<1>1. provider[o] \in Final
  BY DEF Noticed
<1>2. provider'[o] = provider[o]
  BY <1>1, StepProceeds DEF Stays, Proceeding, MoneyMoves, Inv, TypeOK
<1>3. \/ status'[o] = status[o]
      \/ \E s \in OrderStatus : Proceeds(o, s) /\ status'[o] = s
  <2>1. CASE Stays \/ \E p \in Orders : MoneyMoves(p)
    BY <2>1 DEF Stays, MoneyMoves
  <2>2. CASE \E p \in Orders : Proceeding(p)
    BY <2>2 DEF Proceeding, Inv, TypeOK
  <2> QED
    BY <2>1, <2>2, StepProceeds
<1>4. CASE provider[o] = "succeeded"
  <2>1. Confirmed(o) /\ status[o] \in {"paid", "purchase_processing", "manual_review"}
    BY <1>4 DEF Noticed
  <2>2. status'[o] \in {"paid", "purchase_processing", "manual_review"}
    BY <1>3, <2>1 DEF Proceeds
  <2>3. Confirmed(o)'
    BY <2>1, ConfirmedStays
  <2> QED
    BY <1>2, <1>4, <2>2, <2>3 DEF Noticed
<1>5. CASE provider[o] = "canceled"
  <2>1. status[o] \in {"payment_failed", "manual_review"}
    BY <1>5 DEF Noticed
  <2>2. status'[o] \in {"payment_failed", "manual_review"}
    BY <1>3, <2>1 DEF Proceeds
  <2> QED
    BY <1>2, <1>5, <2>2 DEF Noticed
<1> QED
  BY <1>1, <1>4, <1>5

\* An outcome that was noticed stays noticed.
THEOREM NoticedStays == Spec => NoticedIsFinal
<1>1. Inv /\ [Next]_vars => [\A o \in Orders : Noticed(o) => Noticed(o)']_vars
  BY NoticedStep
<1> QED
  BY <1>1, InvariantHolds, PTL DEF Spec, NoticedIsFinal

-----------------------------------------------------------------------------
(* YooKassaPayment implements PaymentPromise *)

\* The abstract state.
Mapped == <<[o \in Orders |-> StageOf(status[o])], [o \in Orders |-> MoneyOf(o)]>>

LEMMA MapsInit == Init => Promise!Init
<1> SUFFICES ASSUME Init PROVE Promise!Init
  OBVIOUS
<1>1. \A o \in Orders : MoneyOf(o) = "none"
  BY DEF Init, MoneyOf
<1>2. \A o \in Orders : StageOf(status[o]) = "open"
  BY DEF Init, StageOf
<1> QED
  BY <1>1, <1>2 DEF Promise!Init

LEMMA Stages ==
  ASSUME NEW o \in Orders, status[o] \in OrderStatus, NEW s, Proceeds(o, s)
  PROVE  LET from == StageOf(status[o])
             to == StageOf(s)
         IN \/ to = from
            \/ from = "open" /\ to = "closed"
            \/ from = "open" /\ to = "failed" /\ provider[o] = "canceled"
            \/ from = "open" /\ to = "paid" /\ provider[o] = "succeeded"
            \/ from = "paid" /\ to = "taken up"
            \/ from \in {"open", "closed", "paid", "taken up"} /\ to = "review"
<1>1. CASE Payable(o) /\ s \in {"waiting_for_payment", "cancelled"}
  BY <1>1 DEF StageOf
<1>2. CASE \/ status[o] \in Awaiting /\ s = "payment_confirming"
           \/ status[o] \in Awaiting /\ s = "payment_failed" /\ provider[o] = "canceled"
           \/ status[o] \in Awaiting /\ s = "paid" /\ provider[o] = "succeeded"
  BY <1>2 DEF StageOf
<1>3. CASE status[o] = "paid" /\ s = "purchase_processing"
  BY <1>3 DEF StageOf
<1>4. CASE s = "manual_review" /\ CanTransition(status[o], "manual_review")
  <2>1. status[o] # "payment_failed"
    BY <1>4 DEF CanTransition, AllowedTargets
  <2>2. StageOf(status[o]) \in {"open", "closed", "paid", "taken up", "review"}
    BY <2>1 DEF StageOf
  <2>3. StageOf(s) = "review"
    BY <1>4 DEF StageOf
  <2> QED
    BY <2>2, <2>3
<1> QED
  BY <1>1, <1>2, <1>3, <1>4 DEF Proceeds

LEMMA StepMaps ==
  ASSUME Inv, [Next]_vars
  PROVE  [Promise!Next]_Mapped
<1> DEFINE st == [o \in Orders |-> StageOf(status[o])]
           mo == [o \in Orders |-> MoneyOf(o)]
<1>1. CASE Stays
  BY <1>1 DEF Stays, Mapped, MoneyOf
<1>2. CASE \E o \in Orders : MoneyMoves(o)
  <2>1. PICK o \in Orders, s \in Snapshot :
          provider[o] \notin Final /\ provider' = [provider EXCEPT ![o] = s]
    BY <1>2 DEF MoneyMoves
  <2>2. st' = st
    BY <1>2 DEF MoneyMoves
  <2>3. provider'[o] = s /\ \A q \in Orders \ {o} : provider'[q] = provider[q]
    BY <2>1 DEF Inv, TypeOK
  <2>4. \A q \in Orders \ {o} : MoneyOf(q)' = MoneyOf(q)
    BY <2>3 DEF MoneyOf
  <2>5. MoneyOf(o) = "none" /\ MoneyOf(o)' \in {"none", "received", "declined"}
    BY <2>1 DEF MoneyOf
  <2>6. CASE MoneyOf(o)' = "none"
    BY <2>2, <2>4, <2>5, <2>6 DEF Mapped
  <2>7. CASE MoneyOf(o)' \in {"received", "declined"}
    <3>1. PICK m \in {"received", "declined"} : m = MoneyOf(o)'
      BY <2>7
    <3>2. mo[o] = "none" /\ mo' = [mo EXCEPT ![o] = m] /\ mo' # mo
      BY <2>4, <2>5, <3>1
    <3> HIDE DEF st, mo
    <3>3. Promise!MoneyDecided(o)
      BY <2>2, <3>2 DEF Promise!MoneyDecided, st, mo
    <3> QED
      BY <3>2, <3>3 DEF Promise!Next, Mapped, st, mo
  <2> QED
    BY <2>5, <2>6, <2>7
<1>3. CASE \E o \in Orders : Proceeding(o)
  <2>1. PICK o \in Orders, s \in OrderStatus :
          provider' = provider /\ Proceeds(o, s) /\ status' = [status EXCEPT ![o] = s]
    BY <1>3 DEF Proceeding
  <2>2. mo' = mo
    BY <2>1 DEF MoneyOf
  <2>3. st[o] = StageOf(status[o]) /\ st' = [st EXCEPT ![o] = StageOf(s)]
    BY <2>1 DEF Inv, TypeOK
  <2>4. /\ provider[o] = "succeeded" => mo[o] = "received"
        /\ provider[o] = "canceled" => mo[o] = "declined"
    BY DEF MoneyOf
  <2>5. PICK from, to : from = StageOf(status[o]) /\ to = StageOf(s)
    OBVIOUS
  <2>6. \/ to = from
        \/ from = "open" /\ to = "closed"
        \/ from = "open" /\ to = "failed" /\ mo[o] = "declined"
        \/ from = "open" /\ to = "paid" /\ mo[o] = "received"
        \/ from = "paid" /\ to = "taken up"
        \/ from \in {"open", "closed", "paid", "taken up"} /\ to = "review"
    BY <2>1, <2>4, <2>5, Stages DEF Inv, TypeOK
  <2>7. st[o] = from /\ st' = [st EXCEPT ![o] = to] /\ st'[o] = to
    BY <2>3, <2>5
  <2> HIDE DEF st, mo
  <2>8. CASE to = from
    BY <2>2, <2>7, <2>8 DEF Mapped, st, mo
  <2>9. CASE to # from
    <3>1. \/ Promise!Close(o) \/ Promise!Fail(o) \/ Promise!Pay(o)
          \/ Promise!TakeUp(o) \/ Promise!Review(o)
      BY <2>2, <2>6, <2>7, <2>9
      DEF Promise!Close, Promise!Fail, Promise!Pay, Promise!TakeUp, Promise!Review,
          Promise!Goes, st, mo
    <3>2. st' # st
      BY <2>7, <2>9
    <3> QED
      BY <3>1, <3>2 DEF Promise!Next, Mapped, st, mo
  <2> QED
    BY <2>8, <2>9
<1> QED
  BY <1>1, <1>2, <1>3, StepProceeds

\* The rows and YooKassa implement PaymentPromise: an order becomes paid once and for
\* a captured payment only, it failed only when nobody can be charged, and none is
\* reopened, whatever order the snapshots came in (apply_yookassa_snapshot).
THEOREM PromiseKept == Spec => KeepsPayment
<1>1. Init => Promise!Init
  BY MapsInit
<1>2. Inv /\ [Next]_vars =>
        [Promise!Next]_<<[o \in Orders |-> StageOf(status[o])], [o \in Orders |-> MoneyOf(o)]>>
  BY StepMaps DEF Mapped
<1> QED
  BY <1>1, <1>2, InvariantHolds, PTL DEF Spec, KeepsPayment, Promise!Spec
=============================================================================
