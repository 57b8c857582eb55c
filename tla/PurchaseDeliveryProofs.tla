---------------------- MODULE PurchaseDeliveryProofs ----------------------
(***************************************************************************)
(* Theorems about PurchaseDelivery, for every number of orders, requests,  *)
(* processes, tasks and crashes: the model is well typed, and the          *)
(* invariant of PurchaseDeliveryInvariant is inductive and implies the     *)
(* safety properties.                                                      *)
(***************************************************************************)
EXTENDS PurchaseDeliveryInvariant, TLAPS

-----------------------------------------------------------------------------
(* What the assignments preserve *)

\* Replacing the state of one task by a well typed one keeps all of them so.
LEMMA SetTaskType ==
  ASSUME TaskOK, NEW t \in Tasks, NEW new \in Task,
         new.pc # "idle" => new.order \in Orders,
         new.pc \in {"refunded", "synced"} => new.out \in RefundStatus, SetTask(t, new)
  PROVE  TaskOK'
BY DEF TaskOK, SetTask

\* A finished task is idle.
LEMMA FinishType == ASSUME TaskOK, NEW t \in Tasks, Finish(t) PROVE TaskOK'
<1>1. Idle \in Task /\ Idle.pc = "idle"
  BY DEF Idle, Task, Pc, Outcome
<1>2. QED BY <1>1, SetTaskType DEF Finish

\* A task that is not idle keeps its order when it gets a result.
LEMMA ResultType ==
  ASSUME TaskOK, NEW t \in Tasks, task[t].pc # "idle", NEW rid \in Requests \union {NoRequest},
         NEW out \in Outcome, Result(t, rid, out)
  PROVE  TaskOK'
<1> DEFINE new == [task[t] EXCEPT !.pc = "apply", !.rid = rid, !.out = out]
<1>1. new \in Task /\ new.order \in Orders /\ new.pc = "apply"
  BY DEF TaskOK, Task, Pc
<1>2. QED BY <1>1, SetTaskType DEF Result

LEMMA ContinueType ==
  ASSUME TaskOK, NEW t \in Tasks, task[t].pc # "idle", NEW a \in Attempt, NEW b \in BOOLEAN,
         Continue(t, a, b)
  PROVE  TaskOK'
<1> DEFINE locked == [task[t] EXCEPT !.lock = TRUE]
<1>1. /\ [locked EXCEPT !.pc = "check", !.rid = a.rid] \in Task
      /\ [locked EXCEPT !.pc = "start"] \in Task
      /\ [locked EXCEPT !.pc = "apply", !.out = "uncertain"] \in Task
  BY ZenonT(60) DEF TaskOK, Task, Pc, Outcome, Attempt
<1>2. /\ [locked EXCEPT !.pc = "check", !.rid = a.rid].order \in Orders
      /\ [locked EXCEPT !.pc = "start"].order \in Orders
      /\ [locked EXCEPT !.pc = "apply", !.out = "uncertain"].order \in Orders
  BY DEF TaskOK, Task
<1>3. /\ [locked EXCEPT !.pc = "check", !.rid = a.rid].pc = "check"
      /\ [locked EXCEPT !.pc = "start"].pc = "start"
      /\ [locked EXCEPT !.pc = "apply", !.out = "uncertain"].pc = "apply"
  BY DEF TaskOK, Task
<1>4. QED BY <1>1, <1>2, <1>3, SetTaskType DEF Continue

LEMMA SetStatusType ==
  ASSUME status \in [Orders -> OrderStatus], NEW o, NEW s \in OrderStatus, SetStatus(o, s)
  PROVE  status' \in [Orders -> OrderStatus]
BY DEF SetStatus

LEMMA SetAttemptType ==
  ASSUME AttemptOK, NEW o, NEW a, o \in Orders => a \in Attempt, SetAttempt(o, a)
  PROVE  AttemptOK'
BY DEF AttemptOK, SetAttempt

-----------------------------------------------------------------------------
(* Types *)

LEMMA InitType == Init => TypeOK
BY SentinelAssumption, BoundAssumption
DEF Init, TypeOK, AttemptOK, FragmentOK, TaskOK, OrderStatus, NoAttempt, Attempt,
    AttemptStatus, RefundStatus, Unused, Request, RequestState, Accepted, Dead, Idle, Task, Pc, Outcome

LEMMA DeliverType == ASSUME TypeOK, NEW t \in Tasks, Deliver(t) PROVE TypeOK'
<1> USE DEF TypeOK
<1> DEFINE o == task[t].order
<1>1. CASE DeliverNothing(t)
  BY <1>1, FinishType DEF DeliverNothing, AttemptOK, FragmentOK
<1>2. CASE DeliverToReview(t)
  BY <1>2, FinishType, SetStatusType DEF DeliverToReview, AttemptOK, FragmentOK, OrderStatus
<1>3. CASE StartPurchase(t)
  <2> DEFINE isNew == attempt[o] = NoAttempt
             a == IF isNew THEN [NoAttempt EXCEPT !.status = "submitting"] ELSE attempt[o]
  <2>1. task[t].pc = "deliver" /\ o \in Orders
    BY <1>3 DEF StartPurchase, Delivering, TaskOK
  <2>2. a \in Attempt
    BY <2>1 DEF NoAttempt, Attempt, AttemptStatus, AttemptOK
  <2>3. TaskOK' /\ AttemptOK' /\ status' \in [Orders -> OrderStatus]
    BY <1>3, <2>1, <2>2, ContinueType, SetAttemptType, SetStatusType DEF StartPurchase, OrderStatus
  <2>4. QED BY <1>3, <2>3 DEF StartPurchase, FragmentOK
<1>4. CASE ResumePurchase(t)
  <2>1. task[t].pc = "deliver" /\ o \in Orders
    BY <1>4 DEF ResumePurchase, Delivering, TaskOK
  <2>2. attempt[o] \in Attempt /\ attempt[o].approved \in BOOLEAN
    BY <2>1 DEF Attempt, AttemptOK
  <2>3. (attempt[o].status = "submitting" /\ attempt[o].approved) \in BOOLEAN
    OBVIOUS
  <2>4. TaskOK'
    BY <1>4, <2>1, <2>2, <2>3, ContinueType DEF ResumePurchase
  <2>5. QED BY <1>4, <2>4 DEF ResumePurchase, FragmentOK, AttemptOK
<1>5. QED BY <1>1, <1>2, <1>3, <1>4 DEF Deliver

LEMMA CallType == ASSUME TypeOK, NEW t \in Tasks, Call(t) PROVE TypeOK'
<1> USE DEF TypeOK
<1>0. task[t].rid \in Requests \union {NoRequest}
  BY DEF TaskOK, Task
<1>1. CASE RefuseLocally(t)
  BY <1>1, ResultType DEF RefuseLocally, AttemptOK, FragmentOK, Outcome
<1>2. CASE SendPost(t)
  <2>1. PICK r \in Requests :
          /\ fragment' = [fragment EXCEPT
               ![r] = [state |-> "sent", order |-> task[t].order, tx |-> NoTx]]
          /\ SetTask(t, [task[t] EXCEPT !.pc = "posting", !.rid = r])
    BY <1>2 DEF SendPost
  <2>2. task[t].order \in Orders
    BY <1>2 DEF SendPost, TaskOK
  <2>3. FragmentOK'
    BY <2>1, <2>2 DEF FragmentOK, Request, RequestState
  <2>4. [task[t] EXCEPT !.pc = "posting", !.rid = r] \in Task
    BY DEF TaskOK, Task, Pc
  <2>5. TaskOK'
    BY <2>1, <2>2, <2>4, SetTaskType DEF TaskOK, Task
  <2>6. QED BY <1>2, <2>3, <2>5 DEF SendPost, AttemptOK
<1>3. CASE PostReturns(t)
  BY <1>0, <1>3, ResultType DEF PostReturns, AttemptOK, FragmentOK, Outcome
<1>4. CASE CheckReturns(t)
  BY <1>0, <1>4, ResultType DEF CheckReturns, AttemptOK, FragmentOK, Outcome
<1>5. QED BY <1>1, <1>2, <1>3, <1>4 DEF Call

LEMMA ApplyType == ASSUME TypeOK, NEW t \in Tasks, Apply(t) PROVE TypeOK'
<1> USE DEF TypeOK
<1> DEFINE o == task[t].order
<1>1. CASE ApplyPending(t)
  <2>1. o \in Orders
    BY <1>1 DEF ApplyPending, Applying, TaskOK
  <2>2. task[t].rid \in Requests \union {NoRequest} /\ attempt[o] \in Attempt
    BY <2>1 DEF TaskOK, Task, AttemptOK
  <2>3. /\ [attempt[o] EXCEPT !.rid = task[t].rid, !.status = "queued"] \in Attempt
        /\ [attempt[o] EXCEPT !.status = "processing"] \in Attempt
    BY <2>2 DEF Attempt, AttemptStatus
  <2>4. TaskOK' /\ AttemptOK' /\ status' \in [Orders -> OrderStatus]
    BY <1>1, <2>3, FinishType, SetAttemptType, SetStatusType DEF ApplyPending, OrderStatus
  <2>5. QED BY <1>1, <2>4 DEF ApplyPending, FragmentOK
<1>2. CASE ApplySucceeded(t)
  <2>1. o \in Orders
    BY <1>2 DEF ApplySucceeded, Persistable, TaskOK
  <2>2. TxOf(task[t].rid) \in Txs \union {NoTx} /\ attempt[o] \in Attempt
    BY <2>1 DEF TaskOK, Task, AttemptOK, FragmentOK, Request, TxOf
  <2>3. [attempt[o] EXCEPT !.status = "succeeded", !.tx = TxOf(task[t].rid)] \in Attempt
    BY <2>2 DEF Attempt, AttemptStatus
  <2>4. Target(t) \in OrderStatus
    BY DEF Target, OrderStatus
  <2>5. TaskOK' /\ AttemptOK' /\ status' \in [Orders -> OrderStatus]
    BY <1>2, <2>3, <2>4, FinishType, SetAttemptType, SetStatusType DEF ApplySucceeded
  <2>6. QED BY <1>2, <2>5 DEF ApplySucceeded, FragmentOK
<1>3. CASE ApplyNotSucceeded(t)
  <2> DEFINE s == IF task[t].out \in {"failed", "balance"} THEN "failed" ELSE "uncertain"
  <2>1. o \in Orders
    BY <1>3 DEF ApplyNotSucceeded, Persistable, TaskOK
  <2>2. [attempt[o] EXCEPT !.status = s, !.approved = FALSE] \in Attempt
    BY ZenonT(60), <2>1 DEF AttemptOK, Attempt, AttemptStatus
  <2>3. Target(t) \in OrderStatus
    BY DEF Target, OrderStatus
  <2>4. TaskOK' /\ AttemptOK' /\ status' \in [Orders -> OrderStatus]
    BY <1>3, <2>2, <2>3, FinishType, SetAttemptType, SetStatusType DEF ApplyNotSucceeded
  <2>5. QED BY <1>3, <2>4 DEF ApplyNotSucceeded, FragmentOK
<1>4. CASE ApplyDropped(t)
  BY <1>4, FinishType DEF ApplyDropped, AttemptOK, FragmentOK
<1>5. QED BY <1>1, <1>2, <1>3, <1>4 DEF Apply

LEMMA AdminType == ASSUME TypeOK, NEW t \in Tasks, Admin(t) PROVE TypeOK'
<1> USE DEF TypeOK
<1> DEFINE o == task[t].order
<1>0. \A p \in Orders, pc \in Pc :
        /\ [Idle EXCEPT !.pc = pc, !.order = p] \in Task
        /\ [Idle EXCEPT !.pc = pc, !.order = p].order = p
        /\ [Idle EXCEPT !.pc = pc, !.order = p].pc = pc
  BY DEF Idle, Task, Outcome
<1>1. CASE ApproveRetry(t)
  <2>1. o \in Orders /\ task[t] \in Task
    BY <1>1 DEF ApproveRetry, TaskOK
  <2>2. [attempt[o] EXCEPT !.status = "submitting", !.approved = TRUE] \in Attempt
    BY ZenonT(60), <2>1 DEF AttemptOK, Attempt, AttemptStatus
  <2>3. /\ [task[t] EXCEPT !.pc = "deliver"] \in Task
        /\ [task[t] EXCEPT !.pc = "deliver"].order = o
        /\ [task[t] EXCEPT !.pc = "deliver"].pc = "deliver"
    BY <2>1 DEF Task, Pc
  <2>4. TaskOK' /\ AttemptOK' /\ status' \in [Orders -> OrderStatus]
    BY <1>1, <2>1, <2>2, <2>3, SetTaskType, SetAttemptType, SetStatusType
    DEF ApproveRetry, OrderStatus
  <2>5. QED BY <1>1, <2>1, <2>4 DEF ApproveRetry, FragmentOK
<1>2. CASE RefuseRetry(t)
  BY <1>2, FinishType DEF RefuseRetry, AttemptOK, FragmentOK
<1>3. CASE RefundReturns(t)
  <2>1. o \in Orders /\ task[t] \in Task
    BY <1>3 DEF RefundReturns, TaskOK
  <2>2. CASE Finish(t) /\ UNCHANGED money
    BY <1>3, <2>2, FinishType DEF RefundReturns, AttemptOK, FragmentOK
  <2>3. ASSUME NEW m \in RefundStatus, money' = [money EXCEPT ![o] = m],
               \/ SetTask(t, [task[t] EXCEPT !.pc = "refunded", !.out = m])
               \/ Finish(t)
        PROVE  TypeOK'
    <3> DEFINE new == [task[t] EXCEPT !.pc = "refunded", !.out = m]
    <3>1. new \in Task /\ new.order \in Orders /\ new.out = m
      BY <2>1 DEF Task, Pc, Outcome, RefundStatus
    <3>2. TaskOK'
      BY <2>3, <3>1, SetTaskType, FinishType
    <3>3. QED BY <1>3, <2>3, <3>2 DEF RefundReturns, AttemptOK, FragmentOK
  <2>4. QED BY <1>3, <2>1, <2>2, <2>3 DEF RefundReturns
<1>4. CASE StoreRefund(t)
  <2>1. o \in Orders /\ task[t].out \in RefundStatus
    BY <1>4 DEF StoreRefund, TaskOK
  <2>2. TaskOK' /\ status' \in [Orders -> OrderStatus]
    BY <1>4, FinishType, SetStatusType DEF StoreRefund, OrderStatus
  <2>3. QED BY <1>4, <2>1, <2>2 DEF StoreRefund, AttemptOK, FragmentOK
<1>5. ASSUME NEW p \in Orders, RetryRead(t, p) PROVE TypeOK'
  <2>1. PICK pc \in {"reconcile", "deliver", "approve"} :
          SetTask(t, [Idle EXCEPT !.pc = pc, !.order = p])
    BY <1>5 DEF RetryRead
  <2>2. pc \in Pc
    BY DEF Pc
  <2>3. TaskOK'
    BY <1>0, <2>1, <2>2, SetTaskType
  <2>4. QED BY <1>5, <2>3 DEF RetryRead, AttemptOK, FragmentOK
<1>6. ASSUME NEW p \in Orders, Reconcile(t, p) PROVE TypeOK'
  <2> DEFINE new == [Idle EXCEPT !.pc = "check", !.order = p, !.rid = attempt[p].rid]
  <2>1. attempt[p].rid \in Requests \union {NoRequest}
    BY DEF AttemptOK, Attempt
  <2>2. new \in Task /\ new.order \in Orders /\ new.pc = "check"
    BY <2>1 DEF Idle, Task, Outcome, Pc
  <2>3. SetTask(t, new) \/ Finish(t)
    BY <1>6 DEF Reconcile
  <2>4. TaskOK'
    BY <2>2, <2>3, SetTaskType, FinishType
  <2>5. status' \in [Orders -> OrderStatus]
    BY <1>6, SetStatusType DEF Reconcile, OrderStatus
  <2>6. QED BY <1>6, <2>4, <2>5 DEF Reconcile, AttemptOK, FragmentOK
<1>7. ASSUME NEW p \in Orders, RequestRefund(t, p) PROVE TypeOK'
  <2> DEFINE new == [Idle EXCEPT !.pc = "refund", !.order = p]
  <2>1. new \in Task /\ new.order \in Orders /\ new.pc = "refund"
    BY DEF Idle, Task, Outcome, Pc
  <2>2. TaskOK'
    BY <1>7, <2>1, SetTaskType DEF RequestRefund
  <2>3. QED BY <1>7, <2>2 DEF RequestRefund, AttemptOK, FragmentOK
<1>8. ASSUME NEW p \in Orders, RefundWebhook(t, p) PROVE TypeOK'
  <2> DEFINE new == [Idle EXCEPT !.pc = "synced", !.order = p, !.out = money[p]]
  <2>1. new \in Task /\ new.order \in Orders /\ new.out \in RefundStatus
    BY DEF Idle, Task, Outcome, Pc, RefundStatus
  <2>2. TaskOK'
    BY <1>8, <2>1, SetTaskType DEF RefundWebhook
  <2>3. QED BY <1>8, <2>2 DEF RefundWebhook, AttemptOK, FragmentOK
<1>9. QED BY <1>1, <1>2, <1>3, <1>4, <1>5, <1>6, <1>7, <1>8 DEF Admin

LEMMA StepType == TypeOK /\ [Next]_vars => TypeOK'
<1> SUFFICES ASSUME TypeOK, [Next]_vars PROVE TypeOK'
  OBVIOUS
<1> USE DEF TypeOK
<1>1. ASSUME NEW t \in Tasks, NEW o \in Orders, PickRecoverable(t, o) PROVE TypeOK'
  <2>1. /\ [Idle EXCEPT !.pc = "deliver", !.order = o] \in Task
        /\ [Idle EXCEPT !.pc = "deliver", !.order = o].order = o
        /\ [Idle EXCEPT !.pc = "deliver", !.order = o].pc = "deliver"
    BY DEF Idle, Task, Outcome, Pc
  <2>2. TaskOK'
    BY <1>1, <2>1, SetTaskType DEF PickRecoverable
  <2>3. QED BY <1>1, <2>2 DEF PickRecoverable, AttemptOK, FragmentOK
<1>2. ASSUME NEW o \in Orders,
             ConfirmPayment(o) \/ MoveToManualReview(o) \/ MarkRefunded(o) \/ MoneySettles(o)
      PROVE TypeOK'
  <2>1. status' \in [Orders -> OrderStatus]
    BY <1>2, SetStatusType
    DEF ConfirmPayment, MoveToManualReview, MarkRefunded, MoneySettles, OrderStatus
  <2>2. money' \in [Orders -> RefundStatus]
    BY <1>2 DEF ConfirmPayment, MoveToManualReview, MarkRefunded, MoneySettles, RefundStatus
  <2>3. QED
    BY <1>2, <2>1, <2>2
    DEF ConfirmPayment, MoveToManualReview, MarkRefunded, MoneySettles, AttemptOK, FragmentOK,
        TaskOK
<1>3. ASSUME NEW r \in Requests, FragmentAnswers(r) \/ FragmentSettles(r) PROVE TypeOK'
  <2>1. FragmentOK'
    BY <1>3 DEF FragmentAnswers, FragmentSettles, FragmentOK, Request, RequestState, Accepted, Dead
  <2>2. QED BY <1>3, <2>1 DEF FragmentAnswers, FragmentSettles, AttemptOK, TaskOK
<1>4. ASSUME NEW p \in Processes, Crash(p) PROVE TypeOK'
  <2>1. TaskOK'
    BY <1>4 DEF Crash, TaskOK, Idle, Task, Pc, Outcome
  <2>2. QED BY <1>4, <2>1, BoundAssumption DEF Crash, AttemptOK, FragmentOK
<1>5. CASE SetPurchasesEnabled
  BY <1>5 DEF SetPurchasesEnabled, AttemptOK, FragmentOK, TaskOK
<1>6. CASE UNCHANGED vars
  BY <1>6 DEF vars, AttemptOK, FragmentOK, TaskOK
<1>7. QED
  BY <1>1, <1>2, <1>3, <1>4, <1>5, <1>6, DeliverType, CallType, ApplyType, AdminType DEF Next

\* The model is well typed: statuses, attempts, requests and tasks keep the
\* shapes their columns and dataclasses give them.
THEOREM TypeCorrect == Spec => []TypeOK
BY InitType, StepType, PTL DEF Spec

-----------------------------------------------------------------------------
(* What a step does to the tasks *)

OthersKeep(t) == \A u \in Tasks \ {t} : task'[u] = task[u]
OtherOrdersKeep(o) ==
  \A p \in Orders \ {o} : status'[p] = status[p] /\ attempt'[p] = attempt[p]

LEMMA SetTaskMoves ==
  ASSUME TaskOK, NEW t \in Tasks, NEW new, SetTask(t, new)
  PROVE  task'[t] = new /\ OthersKeep(t)
BY DEF TaskOK, SetTask, OthersKeep

LEMMA FinishMoves ==
  ASSUME TaskOK, NEW t \in Tasks, Finish(t)
  PROVE  task'[t].pc = "idle" /\ task'[t].rid = NoRequest /\ OthersKeep(t)
BY SetTaskMoves DEF Finish, Idle

LEMMA ResultMoves ==
  ASSUME TaskOK, NEW t \in Tasks, NEW rid, NEW out, Result(t, rid, out)
  PROVE  /\ task'[t].pc = "apply" /\ task'[t].order = task[t].order
         /\ task'[t].rid = rid /\ task'[t].out = out
         /\ OthersKeep(t)
<1> DEFINE new == [task[t] EXCEPT !.pc = "apply", !.rid = rid, !.out = out]
<1>1. task'[t] = new /\ OthersKeep(t)
  BY SetTaskMoves DEF Result
<1>2. task[t] \in Task
  BY DEF TaskOK
<1>3. new.pc = "apply" /\ new.order = task[t].order /\ new.rid = rid /\ new.out = out
  BY <1>2 DEF Task
<1>4. QED BY <1>1, <1>3

\* After Continue the task polls the stored request, POSTs, or gives up.
LEMMA ContinueMoves ==
  ASSUME TaskOK, NEW t \in Tasks, NEW a, NEW b, Continue(t, a, b)
  PROVE  /\ task'[t].order = task[t].order /\ OthersKeep(t)
         /\ \/ task'[t].pc = "check" /\ task'[t].rid = a.rid /\ a.rid # NoRequest
            \/ task'[t].pc = "start" /\ task'[t].rid = task[t].rid /\ b /\ a.rid = NoRequest
            \/ /\ task'[t].pc = "apply" /\ task'[t].out = "uncertain"
               /\ task'[t].rid = task[t].rid /\ ~b
<1> DEFINE locked == [task[t] EXCEPT !.lock = TRUE]
           check == [locked EXCEPT !.pc = "check", !.rid = a.rid]
           start == [locked EXCEPT !.pc = "start"]
           lost == [locked EXCEPT !.pc = "apply", !.out = "uncertain"]
<1>1. task[t] \in Task
  BY DEF TaskOK
<1>2. /\ check.order = task[t].order /\ check.pc = "check" /\ check.rid = a.rid
      /\ start.order = task[t].order /\ start.pc = "start" /\ start.rid = task[t].rid
      /\ lost.order = task[t].order /\ lost.pc = "apply" /\ lost.rid = task[t].rid
      /\ lost.out = "uncertain"
  BY <1>1 DEF Task
<1>3. CASE a.rid # NoRequest
  <2>1. SetTask(t, check)
    BY <1>3 DEF Continue
  <2>2. task'[t] = check /\ OthersKeep(t)
    BY <2>1, SetTaskMoves
  <2>3. QED BY <1>2, <1>3, <2>2
<1>4. CASE a.rid = NoRequest /\ b
  <2>1. SetTask(t, start)
    BY <1>4 DEF Continue
  <2>2. task'[t] = start /\ OthersKeep(t)
    BY <2>1, SetTaskMoves
  <2>3. QED BY <1>2, <1>4, <2>2
<1>5. CASE a.rid = NoRequest /\ ~b
  <2>1. SetTask(t, lost)
    BY <1>5 DEF Continue
  <2>2. task'[t] = lost /\ OthersKeep(t)
    BY <2>1, SetTaskMoves
  <2>3. QED BY <1>2, <1>5, <2>2
<1>6. QED BY <1>3, <1>4, <1>5

\* The delivery transaction: nothing, MANUAL_REVIEW, a first attempt, or a
\* purchase that somebody began.
LEMMA DeliverMoves ==
  ASSUME TypeOK, StartInv, NEW t \in Tasks, Deliver(t), NEW o, o = task[t].order
  PROVE  /\ o \in Orders /\ task[t].pc = "deliver"
         /\ OthersKeep(t) /\ OtherOrdersKeep(o)
         /\ UNCHANGED <<fragment, money, refund, retried>>
         /\ \/ /\ task'[t].pc = "idle" /\ task'[t].rid = NoRequest /\ attempt' = attempt
               /\ status'[o] = status[o] \/ status'[o] = "manual_review"
            \/ /\ status[o] = "paid" /\ status'[o] = "purchase_processing"
               /\ attempt[o] = NoAttempt
               /\ attempt'[o] = [NoAttempt EXCEPT !.status = "submitting"]
               /\ task'[t].pc = "start" /\ task'[t].rid = task[t].rid /\ task'[t].order = o
            \/ /\ attempt' = attempt /\ attempt[o] # NoAttempt /\ status' = status
               /\ task'[t].order = o
               /\ \/ /\ task'[t].pc = "check" /\ task'[t].rid = attempt[o].rid
                     /\ attempt[o].rid # NoRequest
                  \/ /\ task'[t].pc = "start" /\ task'[t].rid = task[t].rid
                     /\ attempt[o].approved
                  \/ /\ task'[t].pc = "apply" /\ task'[t].out = "uncertain"
                     /\ task'[t].rid = task[t].rid
<1> USE DEF TypeOK
<1>0. o \in Orders /\ task[t].pc = "deliver"
  BY DEF Deliver, DeliverNothing, DeliverToReview, StartPurchase, ResumePurchase,
         Delivering, TaskOK
<1>1. CASE DeliverNothing(t)
  BY <1>0, <1>1, FinishMoves DEF DeliverNothing, OtherOrdersKeep
<1>2. CASE DeliverToReview(t)
  BY <1>0, <1>2, FinishMoves DEF DeliverToReview, OtherOrdersKeep, SetStatus
<1>3. CASE StartPurchase(t)
  <2> DEFINE a == [NoAttempt EXCEPT !.status = "submitting"]
             isNew == attempt[o] = NoAttempt
  <2>1. status[o] = "paid" /\ attempt[o] = NoAttempt
    BY <1>0, <1>3 DEF StartPurchase, StartInv
  <2>2. /\ SetAttempt(o, a) /\ SetStatus(o, "purchase_processing")
        /\ Continue(t, a, isNew) /\ UNCHANGED <<fragment, money, refund, retried>>
    BY <1>3, <2>1 DEF StartPurchase
  <2>3. a.rid = NoRequest
    BY DEF NoAttempt
  <2>4. /\ task'[t].pc = "start" /\ task'[t].rid = task[t].rid /\ task'[t].order = o
        /\ OthersKeep(t)
    <3>1. isNew
      BY <2>1
    <3> HIDE DEF a, isNew
    <3> QED BY <2>2, <2>3, <3>1, ContinueMoves
  <2>5. /\ attempt'[o] = a /\ status'[o] = "purchase_processing" /\ OtherOrdersKeep(o)
    BY <1>0, <2>2 DEF SetAttempt, SetStatus, OtherOrdersKeep, AttemptOK
  <2>6. QED BY <1>0, <2>1, <2>2, <2>4, <2>5
<1>4. CASE ResumePurchase(t)
  <2> DEFINE b == attempt[o].status = "submitting" /\ attempt[o].approved
  <2>1. /\ attempt[o] # NoAttempt /\ Continue(t, attempt[o], b)
        /\ UNCHANGED <<status, attempt, fragment, money, refund, retried>>
    BY <1>4 DEF ResumePurchase
  <2>2. /\ task'[t].order = o /\ OthersKeep(t)
        /\ \/ /\ task'[t].pc = "check" /\ task'[t].rid = attempt[o].rid
              /\ attempt[o].rid # NoRequest
           \/ task'[t].pc = "start" /\ task'[t].rid = task[t].rid /\ b
           \/ /\ task'[t].pc = "apply" /\ task'[t].out = "uncertain"
              /\ task'[t].rid = task[t].rid
    <3> HIDE DEF b
    <3> QED BY <2>1, ContinueMoves
  <2>3. OtherOrdersKeep(o)
    BY <2>1 DEF OtherOrdersKeep
  <2>4. QED BY <1>0, <2>1, <2>2, <2>3
<1>5. QED BY <1>1, <1>2, <1>3, <1>4 DEF Deliver

\* A call to Fragment: the task learns what its own request deserves, and the
\* only request that appears is the starter's.
LEMMA CallMoves ==
  ASSUME TypeOK, NEW t \in Tasks, Call(t), NEW o, o = task[t].order
  PROVE  /\ o \in Orders /\ task'[t].order = o /\ OthersKeep(t)
         /\ UNCHANGED <<status, attempt, money, refund, retried>>
         /\ \/ /\ task[t].pc = "start" /\ fragment' = fragment
               /\ task'[t].pc = "apply" /\ task'[t].rid = NoRequest /\ task'[t].out = "failed"
            \/ /\ task[t].pc = "start"
               /\ \E r \in Requests :
                    /\ fragment[r] = Unused
                    /\ fragment' = [fragment EXCEPT
                         ![r] = [state |-> "sent", order |-> o, tx |-> NoTx]]
                    /\ task'[t].pc = "posting" /\ task'[t].rid = r
            \/ /\ task[t].pc = "posting" /\ fragment' = fragment /\ task'[t].pc = "apply"
               /\ \/ task'[t].rid = task[t].rid /\ task'[t].out = "pending"
                  \/ task'[t].rid = NoRequest /\ task'[t].out = "uncertain"
                  \/ /\ task'[t].rid = NoRequest /\ task'[t].out \in {"failed", "balance"}
                     /\ fragment[task[t].rid].state \in {"rejected", "rejected_balance"}
            \/ /\ task[t].pc = "check" /\ fragment' = fragment /\ task'[t].pc = "apply"
               /\ task'[t].rid = task[t].rid
               /\ \/ task'[t].out \in {"pending", "uncertain"}
                  \/ /\ task'[t].out = "succeeded"
                     /\ fragment[task[t].rid].state = "completed"
                  \/ /\ task'[t].out \in {"failed", "balance"}
                     /\ fragment[task[t].rid].state \in Dead
<1> USE DEF TypeOK
<1>0. o \in Orders
  BY DEF Call, RefuseLocally, SendPost, PostReturns, CheckReturns, TaskOK
<1>1. CASE RefuseLocally(t)
  BY <1>0, <1>1, ResultMoves DEF RefuseLocally
<1>2. CASE SendPost(t)
  <2>1. PICK r \in Requests :
          /\ fragment[r] = Unused
          /\ fragment' = [fragment EXCEPT
               ![r] = [state |-> "sent", order |-> task[t].order, tx |-> NoTx]]
          /\ SetTask(t, [task[t] EXCEPT !.pc = "posting", !.rid = r])
    BY <1>2 DEF SendPost
  <2> DEFINE new == [task[t] EXCEPT !.pc = "posting", !.rid = r]
  <2>2. task'[t] = new /\ OthersKeep(t)
    BY <2>1, SetTaskMoves
  <2>3. new.pc = "posting" /\ new.rid = r /\ new.order = task[t].order
    BY DEF TaskOK, Task
  <2>4. /\ task'[t].pc = "posting" /\ task'[t].rid = r /\ task'[t].order = o
    BY <2>2, <2>3
  <2>5. task[t].pc = "start" /\ UNCHANGED <<status, attempt, money, refund, retried>>
    BY <1>2 DEF SendPost
  <2> HIDE DEF new
  <2>6. QED BY <1>0, <2>1, <2>2, <2>4, <2>5
<1>3. CASE PostReturns(t)
  BY <1>0, <1>3, ResultMoves DEF PostReturns, Dead
<1>4. CASE CheckReturns(t)
  BY <1>0, <1>4, ResultMoves DEF CheckReturns, Dead
<1>5. QED BY <1>1, <1>2, <1>3, <1>4 DEF Call

\* Storing a result: the task is done with, and only its order changes.
LEMMA ApplyMoves ==
  ASSUME TypeOK, NEW t \in Tasks, Apply(t), NEW o, o = task[t].order
  PROVE  /\ o \in Orders /\ task[t].pc = "apply"
         /\ task'[t].pc = "idle" /\ task'[t].rid = NoRequest
         /\ OthersKeep(t) /\ OtherOrdersKeep(o)
         /\ UNCHANGED <<fragment, money, refund, retried>>
         /\ \/ status' = status /\ attempt' = attempt
            \/ /\ task[t].out = "pending" /\ status[o] # "completed"
               /\ \/ /\ status[o] \in {"purchase_processing", "manual_review"}
                     /\ status'[o] = "stars_sending"
                     /\ attempt'[o] =
                          [attempt[o] EXCEPT !.rid = task[t].rid, !.status = "queued"]
                  \/ /\ status[o] \notin {"purchase_processing", "manual_review"}
                     /\ status' = status
                     /\ attempt'[o] = [attempt[o] EXCEPT !.status = "processing"]
            \/ /\ task[t].out = "succeeded" /\ status[o] # "completed"
               /\ ~TxTaken(o, TxOf(task[t].rid)) /\ status'[o] = "completed"
               /\ attempt'[o] =
                    [attempt[o] EXCEPT !.status = "succeeded", !.tx = TxOf(task[t].rid)]
            \/ /\ status[o] # "completed"
               /\ \/ status'[o] = "manual_review"
                  \/ /\ task[t].out \in {"failed", "balance"}
                     /\ status'[o] \in {"refund_required", "waiting_for_merchant_balance"}
               /\ attempt'[o].status = "uncertain" \/ task[t].out \in {"failed", "balance"}
               /\ \E s \in {"failed", "uncertain"} :
                    attempt'[o] = [attempt[o] EXCEPT !.status = s, !.approved = FALSE]
<1> USE DEF TypeOK
<1>0. o \in Orders /\ task[t].pc = "apply"
  BY DEF Apply, ApplyPending, Applying, ApplySucceeded, ApplyNotSucceeded, ApplyDropped,
         Persistable, TaskOK
<1>1. CASE ApplyPending(t)
  <2>1. /\ task[t].out = "pending" /\ status[o] # "completed" /\ Finish(t)
        /\ UNCHANGED <<fragment, money, refund, retried>>
        /\ \/ /\ status[o] \in {"purchase_processing", "manual_review"}
              /\ SetAttempt(o, [attempt[o] EXCEPT !.rid = task[t].rid, !.status = "queued"])
              /\ SetStatus(o, "stars_sending")
           \/ /\ status[o] \notin {"purchase_processing", "manual_review"}
              /\ SetAttempt(o, [attempt[o] EXCEPT !.status = "processing"])
              /\ UNCHANGED status
    BY <1>1 DEF ApplyPending, Applying
  <2>2. task'[t].pc = "idle" /\ task'[t].rid = NoRequest /\ OthersKeep(t)
    BY <2>1, FinishMoves
  <2>3. QED BY <1>0, <2>1, <2>2 DEF SetAttempt, SetStatus, OtherOrdersKeep, AttemptOK
<1>2. CASE ApplySucceeded(t)
  <2>1. /\ task[t].out = "succeeded" /\ ~TxTaken(o, TxOf(task[t].rid)) /\ Finish(t)
        /\ UNCHANGED <<fragment, money, refund, retried>>
        /\ status[o] # "completed" /\ SetStatus(o, "completed")
        /\ SetAttempt(o, [attempt[o] EXCEPT !.status = "succeeded", !.tx = TxOf(task[t].rid)])
    BY <1>2 DEF ApplySucceeded, Persistable, Duplicate, Target
  <2>2. task'[t].pc = "idle" /\ task'[t].rid = NoRequest /\ OthersKeep(t)
    BY <2>1, FinishMoves
  <2>3. QED BY <1>0, <2>1, <2>2 DEF SetAttempt, SetStatus, OtherOrdersKeep, AttemptOK
<1>3. CASE ApplyNotSucceeded(t)
  <2> DEFINE s == IF task[t].out \in {"failed", "balance"} THEN "failed" ELSE "uncertain"
  <2>1. /\ status[o] # "completed" /\ Finish(t)
        /\ UNCHANGED <<fragment, money, refund, retried>>
        /\ SetAttempt(o, [attempt[o] EXCEPT !.status = s, !.approved = FALSE])
        /\ \/ SetStatus(o, "manual_review")
           \/ task[t].out = "failed" /\ SetStatus(o, "refund_required")
           \/ task[t].out = "balance" /\ SetStatus(o, "waiting_for_merchant_balance")
    BY <1>3 DEF ApplyNotSucceeded, Persistable, Duplicate, Target
  <2>2. task'[t].pc = "idle" /\ task'[t].rid = NoRequest /\ OthersKeep(t)
    BY <2>1, FinishMoves
  <2>3. s \in {"failed", "uncertain"} /\ (s = "failed" => task[t].out \in {"failed", "balance"})
    OBVIOUS
  <2> DEFINE new == [attempt[o] EXCEPT !.status = s, !.approved = FALSE]
  <2>4. attempt'[o] = new /\ new.status = s
    BY <1>0, <2>1 DEF SetAttempt, AttemptOK, Attempt
  <2>5. attempt'[o].status = "uncertain" \/ task[t].out \in {"failed", "balance"}
    BY <2>3, <2>4
  <2> HIDE DEF s
  <2>6. QED
    BY <1>0, <2>1, <2>2, <2>3, <2>5 DEF SetAttempt, SetStatus, OtherOrdersKeep, AttemptOK
<1>4. CASE ApplyDropped(t)
  BY <1>0, <1>4, FinishMoves DEF ApplyDropped, OtherOrdersKeep
<1>5. QED BY <1>1, <1>2, <1>3, <1>4 DEF Apply

\* Administrators and the refund webhook never touch a request.
LEMMA AdminMoves ==
  ASSUME TypeOK, NEW t \in Tasks, Admin(t)
  PROVE  /\ fragment' = fragment /\ OthersKeep(t)
         /\ \/ /\ UNCHANGED <<status, attempt, money, refund, retried>>
               /\ task'[t].pc \in {"idle", "deliver", "approve", "reconcile"}
               /\ task'[t].rid = NoRequest
            \/ \E o \in Orders :  \* the balance retry
               /\ UNCHANGED <<money, refund>> /\ retried' = retried \union {o}
               /\ task'[t].pc = "deliver" /\ task'[t].order = o /\ task[t].order = o
               /\ task'[t].rid = task[t].rid
               /\ attempt[o] # NoAttempt /\ CanTransition(status[o], "purchase_processing")
               /\ status'[o] = "purchase_processing" /\ OtherOrdersKeep(o)
               /\ attempt'[o] = [attempt[o] EXCEPT !.status = "submitting", !.approved = TRUE]
            \/ \E o \in Orders :  \* the reconciliation
               /\ UNCHANGED <<attempt, money, refund, retried>>
               /\ \/ /\ UNCHANGED status /\ attempt[o].rid # NoRequest
                     /\ task'[t].pc = "check" /\ task'[t].order = o
                     /\ task'[t].rid = attempt[o].rid
                  \/ /\ status[o] # "completed"
                     /\ status' = [status EXCEPT ![o] = "manual_review"]
                     /\ task'[t].pc = "idle" /\ task'[t].rid = NoRequest
            \/ \E o \in Orders :  \* the refund is requested or announced
               /\ UNCHANGED <<status, attempt, money, refund, retried>>
               /\ task'[t].order = o /\ task'[t].rid = NoRequest
               /\ \/ status[o] = "refund_required" /\ task'[t].pc = "refund"
                  \/ money[o] = "succeeded" /\ task'[t].pc = "synced"
            \/ \E o \in Orders, m \in RefundStatus \ {"none"} :  \* the refund is made
               /\ UNCHANGED <<status, attempt, refund, retried>>
               /\ task[t].order = o /\ task[t].pc = "refund"
               /\ money[o] \in {"none", m} /\ money' = [money EXCEPT ![o] = m]
               /\ \/ /\ task'[t].pc = "refunded" /\ task'[t].order = o
                     /\ task'[t].rid = task[t].rid /\ task'[t].out = m
                  \/ task'[t].pc = "idle" /\ task'[t].rid = NoRequest
            \/ \E o \in Orders :  \* the refund is stored
               /\ UNCHANGED <<attempt, money, retried>>
               /\ task[t].order = o /\ task[t].pc \in {"refunded", "synced"}
               /\ task'[t].pc = "idle" /\ task'[t].rid = NoRequest
               /\ refund' \in {refund, [refund EXCEPT ![o] = task[t].out]}
               /\ \/ status' = status
                  \/ /\ task[t].out = "succeeded" /\ status[o] = "refund_required"
                     /\ status' = [status EXCEPT ![o] = "refunded"]
<1> USE DEF TypeOK
<1> DEFINE p == task[t].order
<1>1. CASE ApproveRetry(t)
  <2> DEFINE new == [task[t] EXCEPT !.pc = "deliver"]
  <2>1. p \in Orders
    BY <1>1 DEF ApproveRetry, TaskOK
  <2>2. new.pc = "deliver" /\ new.order = p /\ new.rid = task[t].rid
    BY DEF TaskOK, Task
  <2>3. task'[t] = new /\ OthersKeep(t)
    BY <1>1, SetTaskMoves DEF ApproveRetry
  <2>4. task'[t].pc = "deliver" /\ task'[t].order = p /\ task'[t].rid = task[t].rid
    BY <2>2, <2>3
  <2>5. /\ status'[p] = "purchase_processing" /\ OtherOrdersKeep(p)
        /\ attempt'[p] = [attempt[p] EXCEPT !.status = "submitting", !.approved = TRUE]
    BY <1>1, <2>1 DEF ApproveRetry, SetAttempt, SetStatus, OtherOrdersKeep, AttemptOK
  <2>6. /\ fragment' = fragment /\ UNCHANGED <<money, refund>>
        /\ retried' = retried \union {p}
        /\ attempt[p] # NoAttempt /\ CanTransition(status[p], "purchase_processing")
    BY <1>1 DEF ApproveRetry
  <2> HIDE DEF new
  <2>7. QED BY <2>1, <2>3, <2>4, <2>5, <2>6
<1>2. CASE RefuseRetry(t)
  BY <1>2, FinishMoves DEF RefuseRetry
<1>3. CASE RefundReturns(t)
  <2>1. p \in Orders /\ task[t].pc = "refund"
    BY <1>3 DEF RefundReturns, TaskOK
  <2>2. CASE Finish(t) /\ UNCHANGED money
    BY <1>3, <2>2, FinishMoves DEF RefundReturns
  <2>3. ASSUME NEW m \in IF money[p] = "none" THEN RefundStatus \ {"none"} ELSE {money[p]},
               money' = [money EXCEPT ![p] = m],
               \/ SetTask(t, [task[t] EXCEPT !.pc = "refunded", !.out = m])
               \/ Finish(t)
        PROVE  /\ m \in RefundStatus \ {"none"} /\ money[p] \in {"none", m} /\ OthersKeep(t)
               /\ \/ /\ task'[t].pc = "refunded" /\ task'[t].order = p
                     /\ task'[t].rid = task[t].rid /\ task'[t].out = m
                  \/ task'[t].pc = "idle" /\ task'[t].rid = NoRequest
    <3> DEFINE new == [task[t] EXCEPT !.pc = "refunded", !.out = m]
    <3>1. m \in RefundStatus \ {"none"} /\ money[p] \in {"none", m}
      BY <2>1, <2>3
    <3>2. new.pc = "refunded" /\ new.order = p /\ new.rid = task[t].rid /\ new.out = m
      BY DEF TaskOK, Task
    <3>3. CASE SetTask(t, new)
      <4>1. task'[t] = new /\ OthersKeep(t)
        BY <3>3, SetTaskMoves
      <4>2. QED BY <3>1, <3>2, <4>1
    <3>4. CASE Finish(t)
      BY <3>1, <3>4, FinishMoves
    <3>5. QED BY <2>3, <3>3, <3>4
  <2>4. UNCHANGED <<status, attempt, fragment, refund, retried>>
    BY <1>3 DEF RefundReturns
  <2>5. QED BY <1>3, <2>1, <2>2, <2>3, <2>4 DEF RefundReturns
<1>4. CASE StoreRefund(t)
  <2>1. p \in Orders
    BY <1>4 DEF StoreRefund, TaskOK
  <2>2. QED BY <1>4, <2>1, FinishMoves DEF StoreRefund, SetStatus
<1>5. ASSUME NEW o \in Orders, RetryRead(t, o)
      PROVE  /\ UNCHANGED <<fragment, status, attempt, money, refund, retried>> /\ OthersKeep(t)
             /\ task'[t].pc \in {"idle", "deliver", "approve", "reconcile"}
             /\ task'[t].rid = NoRequest
  <2>1. PICK pc \in {"reconcile", "deliver", "approve"} :
          SetTask(t, [Idle EXCEPT !.pc = pc, !.order = o])
    BY <1>5 DEF RetryRead
  <2> DEFINE new == [Idle EXCEPT !.pc = pc, !.order = o]
  <2>2. new.pc = pc /\ new.rid = NoRequest
    BY DEF Idle
  <2>3. task'[t] = new /\ OthersKeep(t)
    BY <2>1, SetTaskMoves
  <2>4. QED BY <1>5, <2>2, <2>3 DEF RetryRead
<1>6. ASSUME NEW o \in Orders, Reconcile(t, o)
      PROVE  /\ UNCHANGED <<fragment, attempt, money, refund, retried>> /\ OthersKeep(t)
             /\ \/ /\ UNCHANGED status /\ attempt[o].rid # NoRequest
                   /\ task'[t].pc = "check" /\ task'[t].order = o
                   /\ task'[t].rid = attempt[o].rid
                \/ /\ \/ status' = status
                      \/ /\ status[o] # "completed"
                         /\ status' = [status EXCEPT ![o] = "manual_review"]
                   /\ task'[t].pc = "idle" /\ task'[t].rid = NoRequest
  <2> DEFINE new == [Idle EXCEPT !.pc = "check", !.order = o, !.rid = attempt[o].rid]
  <2>1. new.pc = "check" /\ new.order = o /\ new.rid = attempt[o].rid
    BY DEF Idle
  <2>2. CASE SetTask(t, new) /\ UNCHANGED status /\ attempt[o].rid # NoRequest
    <3>1. task'[t] = new /\ OthersKeep(t)
      BY <2>2, SetTaskMoves
    <3>2. QED BY <1>6, <2>1, <2>2, <3>1 DEF Reconcile
  <2>3. CASE Finish(t)
    BY <1>6, <2>3, FinishMoves DEF Reconcile, SetStatus
  <2>4. QED BY <1>6, <2>2, <2>3 DEF Reconcile
<1>7. ASSUME NEW o \in Orders, RequestRefund(t, o) \/ RefundWebhook(t, o)
      PROVE  /\ UNCHANGED <<fragment, status, attempt, money, refund, retried>> /\ OthersKeep(t)
             /\ task'[t].order = o /\ task'[t].rid = NoRequest
             /\ \/ status[o] = "refund_required" /\ task'[t].pc = "refund"
                \/ money[o] = "succeeded" /\ task'[t].pc = "synced"
  <2> DEFINE asked == [Idle EXCEPT !.pc = "refund", !.order = o]
             told == [Idle EXCEPT !.pc = "synced", !.order = o, !.out = money[o]]
  <2>1. /\ asked.pc = "refund" /\ asked.order = o /\ asked.rid = NoRequest
        /\ told.pc = "synced" /\ told.order = o /\ told.rid = NoRequest
    BY DEF Idle
  <2>2. CASE RequestRefund(t, o)
    <3>1. task'[t] = asked /\ OthersKeep(t)
      BY <2>2, SetTaskMoves DEF RequestRefund
    <3>2. QED BY <2>1, <2>2, <3>1 DEF RequestRefund
  <2>3. CASE RefundWebhook(t, o)
    <3>1. task'[t] = told /\ OthersKeep(t)
      BY <2>3, SetTaskMoves DEF RefundWebhook
    <3>2. QED BY <2>1, <2>3, <3>1 DEF RefundWebhook
  <2>4. QED BY <1>7, <2>2, <2>3
<1>8. QED BY <1>1, <1>2, <1>3, <1>4, <1>5, <1>6, <1>7 DEF Admin

-----------------------------------------------------------------------------
(* Preservation, one lemma per group of actions, one step per conjunct *)

LEMMA DeliverSafe == ASSUME TypeOK, Inv, NEW t \in Tasks, Deliver(t) PROVE Inv'
<1> DEFINE o == task[t].order
<1> USE DEF Inv, TypeOK
<1>0. /\ o \in Orders /\ o = task[t].order /\ task[t].pc = "deliver"
      /\ OthersKeep(t) /\ OtherOrdersKeep(o)
      /\ UNCHANGED <<fragment, money, refund, retried>>
      /\ \/ /\ task'[t].pc = "idle" /\ task'[t].rid = NoRequest /\ attempt' = attempt
            /\ status'[o] = status[o] \/ status'[o] = "manual_review"
         \/ /\ status[o] = "paid" /\ status'[o] = "purchase_processing"
            /\ attempt[o] = NoAttempt
            /\ attempt'[o] = [NoAttempt EXCEPT !.status = "submitting"]
            /\ task'[t].pc = "start" /\ task'[t].rid = task[t].rid /\ task'[t].order = o
         \/ /\ attempt' = attempt /\ attempt[o] # NoAttempt /\ status' = status
            /\ task'[t].order = o
            /\ \/ /\ task'[t].pc = "check" /\ task'[t].rid = attempt[o].rid
                  /\ attempt[o].rid # NoRequest
               \/ /\ task'[t].pc = "start" /\ task'[t].rid = task[t].rid
                  /\ attempt[o].approved
               \/ /\ task'[t].pc = "apply" /\ task'[t].out = "uncertain"
                  /\ task'[t].rid = task[t].rid
  <2> HIDE DEF Inv, TypeOK
  <2> QED BY DeliverMoves DEF Inv
<1> HIDE DEF o
<1>1. /\ attempt'[o].rid \in {attempt[o].rid, NoRequest}
      /\ attempt'[o].tx \in {attempt[o].tx, NoTx}
      /\ attempt'[o].approved \in {attempt[o].approved, FALSE}
      /\ task'[t].pc # "idle" => attempt'[o] # NoAttempt
  <2> DEFINE a == [NoAttempt EXCEPT !.status = "submitting"]
  <2>1. a.rid = NoRequest /\ a.tx = NoTx /\ a.approved = FALSE /\ a.status = "submitting"
    BY DEF NoAttempt
  <2>2. a # NoAttempt
    BY <2>1 DEF NoAttempt
  <2> HIDE DEF a
  <2>3. CASE attempt'[o] = a
    BY <2>1, <2>2, <2>3
  <2>4. CASE attempt' = attempt /\ (task'[t].pc # "idle" => attempt[o] # NoAttempt)
    BY <2>4
  <2>5. QED BY <1>0, <2>3, <2>4 DEF a
<1>2. \A p \in Orders : attempt[p] # NoAttempt => attempt'[p] = attempt[p]
  BY <1>0 DEF OtherOrdersKeep
<1>3. FragmentInv'
  BY <1>0 DEF FragmentInv
<1>4. ReferenceInv'
  BY <1>0, <1>1 DEF ReferenceInv, OthersKeep, OtherOrdersKeep
<1>5. StartInv'
  <2> SUFFICES ASSUME NEW p \in Orders
               PROVE  /\ status'[p] \in {"payment_confirming", "paid"} => attempt'[p] = NoAttempt
                      /\ attempt'[p] = NoAttempt => Untouched(p)'
    BY DEF StartInv
  <2>1. status'[p] \in {"payment_confirming", "paid"} => attempt'[p] = NoAttempt
    BY <1>0 DEF StartInv, OtherOrdersKeep
  <2>2. ASSUME attempt'[p] = NoAttempt PROVE Untouched(p)'
    <3>1. Untouched(p)
      BY <1>2, <2>2 DEF StartInv
    <3>2. task'[t].pc = "idle" \/ task'[t].order # p
      BY <1>0, <1>1, <2>2
    <3>3. QED BY <1>0, <3>1, <3>2 DEF Untouched, OthersKeep
  <2>3. QED BY <2>1, <2>2
<1>6. PostInv'
  <2> SUFFICES ASSUME NEW p \in Orders, p \notin retried
               PROVE  /\ ~attempt'[p].approved
                      /\ \A u \in Tasks :
                           Starter(u, p)' => \A r \in Requests : fragment'[r].order # p
                      /\ \A u, v \in Tasks : Starter(u, p)' /\ Starter(v, p)' => u = v
                      /\ \A r1, r2 \in Requests :
                           fragment'[r1].order = p /\ fragment'[r2].order = p => r1 = r2
    BY <1>0 DEF PostInv
  <2>1. ~attempt'[p].approved
    BY <1>0, <1>1 DEF PostInv, OtherOrdersKeep
  <2>2. \A u \in Tasks : Starter(u, p)' /\ ~Starter(u, p) =>
          u = t /\ p = o /\ attempt[o] = NoAttempt
    BY <1>0 DEF Starter, PostInv, OthersKeep
  <2>3. \A u \in Tasks : Starter(u, p)' => \A r \in Requests : fragment'[r].order # p
    BY <1>0, <2>2 DEF PostInv, StartInv, Untouched
  <2>4. \A u, v \in Tasks : Starter(u, p)' /\ Starter(v, p)' => u = v
    BY <1>0, <2>2 DEF PostInv, StartInv, Untouched, Starter
  <2>5. QED BY <1>0, <2>1, <2>3, <2>4 DEF PostInv
<1>7. OverInv'
  BY <1>0, <1>1, <1>2 DEF OverInv, PostInv, Over, Starter, OthersKeep, OtherOrdersKeep
<1>8. MoneyInv'
  BY <1>0 DEF MoneyInv, OthersKeep, OtherOrdersKeep
<1>9. TxInv'
  BY <1>0, <1>1 DEF TxInv, OthersKeep, OtherOrdersKeep
<1>10. QED BY <1>3, <1>4, <1>5, <1>6, <1>7, <1>8, <1>9

LEMMA CallSafe == ASSUME TypeOK, Inv, NEW t \in Tasks, Call(t) PROVE Inv'
<1> DEFINE o == task[t].order
           r0 == task[t].rid
           sent == [state |-> "sent", order |-> o, tx |-> NoTx]
           Local == /\ task[t].pc = "start" /\ fragment' = fragment /\ task'[t].pc = "apply"
                    /\ task'[t].rid = NoRequest /\ task'[t].out = "failed"
           Post(r) == /\ task[t].pc = "start" /\ fragment[r] = Unused
                      /\ fragment' = [fragment EXCEPT ![r] = sent]
                      /\ task'[t].pc = "posting" /\ task'[t].rid = r
           Answer == /\ task[t].pc \in {"posting", "check"} /\ fragment' = fragment
                     /\ task'[t].pc = "apply" /\ task'[t].rid \in {r0, NoRequest}
                     /\ \/ task'[t].out = "uncertain"
                        \/ task'[t].out = "pending" /\ task'[t].rid = r0
                        \/ /\ task'[t].out = "succeeded" /\ task'[t].rid = r0
                           /\ fragment[r0].state = "completed"
                        \/ /\ task'[t].out \in {"failed", "balance"}
                           /\ fragment[r0].state \in Dead
<1>1. /\ o \in Orders /\ task'[t].order = o /\ OthersKeep(t)
      /\ UNCHANGED <<status, attempt, money, refund, retried>>
      /\ task[t].pc \in {"start", "posting", "check"}
      /\ Local \/ Answer \/ \E r \in Requests : Post(r)
  BY CallMoves DEF Dead
<1>2. attempt[o] # NoAttempt
  BY <1>1 DEF Inv, StartInv, Untouched
<1>3. \A p \in Orders, u \in Tasks : Starter(u, p)' => Starter(u, p) /\ u # t
  BY <1>1 DEF Starter, OthersKeep
<1>4. \A p \in Orders \ retried :
        task[t].pc # "start" \/ p # o => \A u \in Tasks : Starter(u, p)' => Starter(u, p)
  BY <1>3
<1>5. task[t].pc \in {"posting", "check"} =>
        r0 # NoRequest /\ r0 \in Requests /\ fragment[r0].order = o
  BY DEF Inv, ReferenceInv, TypeOK, TaskOK, Task
<1>6. o \notin retried /\ task[t].pc = "start" =>
        /\ \A u \in Tasks : ~Starter(u, o)'
        /\ \A r \in Requests : fragment[r].order # o
  BY <1>1, <1>3 DEF Inv, PostInv, Starter
<1>7. o \notin retried /\ task[t].pc \in {"posting", "check"} =>
        /\ \A u \in Tasks : ~Starter(u, o)'
        /\ \A r \in Requests : fragment[r].order = o => r = r0
  BY <1>1, <1>3, <1>5 DEF Inv, PostInv
\* Without a new request, only the task of the call changes.
<1>8. ASSUME Local \/ Answer PROVE Inv'
  <2>1. fragment' = fragment /\ task'[t].pc = "apply"
    BY <1>8
  <2>2. FragmentInv'
    BY <2>1 DEF Inv, FragmentInv
  <2>3. ReferenceInv'
    BY <1>1, <1>5, <1>8, <2>1 DEF Inv, ReferenceInv, OthersKeep
  <2>4. StartInv'
    BY <1>1, <1>2, <2>1 DEF Inv, StartInv, Untouched, OthersKeep
  <2>5. PostInv'
    BY <1>1, <1>3, <2>1 DEF Inv, PostInv
  <2>6. ASSUME o \notin retried, task'[t].out \in {"failed", "balance"} PROVE Over(o)'
    BY <1>1, <1>2, <1>6, <1>7, <1>8, <2>1, <2>6 DEF Over
  <2>7. \A p \in Orders : Over(p) => Over(p)'
    BY <1>1, <1>3, <2>1 DEF Over
  <2>8. OverInv'
    BY <1>1, <2>1, <2>6, <2>7 DEF Inv, OverInv, OthersKeep
  <2>9. MoneyInv'
    BY <1>1, <2>1 DEF Inv, MoneyInv, OthersKeep
  <2>10. TxInv'
    BY <1>1, <1>8, <2>1 DEF Inv, TxInv, OthersKeep
  <2>11. QED BY <2>2, <2>3, <2>4, <2>5, <2>8, <2>9, <2>10 DEF Inv
\* The POST creates a request of the starter's order.
<1>9. ASSUME NEW r \in Requests, Post(r) PROVE Inv'
  <2>1. /\ task[t].pc = "start" /\ task'[t].pc = "posting" /\ task'[t].rid = r
        /\ fragment[r].state = "unused" /\ fragment[r].order = NoOrder
    BY <1>9 DEF Unused
  <2>2. /\ fragment'[r].order = o /\ fragment'[r].state = "sent"
        /\ \A q \in Requests \ {r} : fragment'[q] = fragment[q]
    BY <1>9 DEF TypeOK, FragmentOK
  <2>3. \A q \in Requests : fragment[q].order \in Orders => q # r /\ fragment'[q] = fragment[q]
    BY <2>1, <2>2, SentinelAssumption
  <2>4. FragmentInv'
    BY <1>1, <2>2, SentinelAssumption DEF Inv, FragmentInv
  <2>5. ReferenceInv'
    <3>1. \A p \in Orders : attempt'[p].rid # NoRequest => fragment'[attempt'[p].rid].order = p
      BY <1>1, <2>3 DEF Inv, ReferenceInv, TypeOK, AttemptOK, Attempt
    <3>2. \A u \in Tasks \ {t} : task[u].rid # NoRequest =>
            task[u].pc # "idle" /\ fragment'[task[u].rid].order = task[u].order
      BY <2>3 DEF Inv, ReferenceInv, TypeOK, TaskOK, Task
    <3>3. QED
      BY <1>1, <2>1, <2>2, <3>1, <3>2, SentinelAssumption DEF Inv, ReferenceInv, OthersKeep
  <2>6. StartInv'
    BY <1>1, <1>2, <2>1, <2>2 DEF Inv, StartInv, Untouched, OthersKeep
  <2>7. PostInv'
    BY <1>1, <1>3, <1>6, <2>1, <2>2 DEF Inv, PostInv
  <2>8. \A p \in Orders : Over(p) => Over(p)'
    BY <1>1, <1>3, <2>1, <2>2 DEF Over, Starter
  <2>9. OverInv'
    BY <1>1, <2>1, <2>8 DEF Inv, OverInv, OthersKeep
  <2>10. MoneyInv'
    BY <1>1, <2>1 DEF Inv, MoneyInv, OthersKeep
  <2>11. TxInv'
    <3>1. \A q \in Requests : fragment[q].state = "completed" => fragment'[q] = fragment[q]
      BY <2>1, <2>2
    <3>2. \A u \in Tasks : task'[u].pc = "apply" /\ task'[u].out = "succeeded" =>
            u # t /\ task'[u] = task[u] /\ task[u].rid \in Requests
      BY <1>1, <2>1 DEF Inv, ReferenceInv, OthersKeep, TypeOK, TaskOK, Task
    <3>3. QED BY <1>1, <3>1, <3>2 DEF Inv, TxInv
  <2>12. QED BY <2>4, <2>5, <2>6, <2>7, <2>9, <2>10, <2>11 DEF Inv
<1>10. QED BY <1>1, <1>8, <1>9

LEMMA ApplySafe == ASSUME TypeOK, Inv, NEW t \in Tasks, Apply(t) PROVE Inv'
<1> DEFINE o == task[t].order
           out == task[t].out
           r0 == task[t].rid
           Dropped == status' = status /\ attempt' = attempt
           Queued == /\ out = "pending" /\ status[o] # "completed"
                     /\ status[o] \in {"purchase_processing", "manual_review"}
                     /\ status'[o] = "stars_sending"
                     /\ attempt'[o] = [attempt[o] EXCEPT !.rid = r0, !.status = "queued"]
           Polled == /\ out = "pending" /\ status[o] # "completed"
                     /\ status[o] \notin {"purchase_processing", "manual_review"}
                     /\ status' = status
                     /\ attempt'[o] = [attempt[o] EXCEPT !.status = "processing"]
           Bought == /\ out = "succeeded" /\ status[o] # "completed"
                     /\ ~TxTaken(o, TxOf(r0)) /\ status'[o] = "completed"
                     /\ attempt'[o] = [attempt[o] EXCEPT !.status = "succeeded", !.tx = TxOf(r0)]
           Lost == /\ status[o] # "completed"
                   /\ \/ status'[o] = "manual_review"
                      \/ /\ out \in {"failed", "balance"}
                         /\ status'[o] \in {"refund_required", "waiting_for_merchant_balance"}
                   /\ \E s \in {"failed", "uncertain"} :
                        attempt'[o] = [attempt[o] EXCEPT !.status = s, !.approved = FALSE]
           Success == out = "succeeded" /\ ~TxTaken(o, TxOf(r0))
<1>1. /\ o \in Orders /\ task[t].pc = "apply"
      /\ task'[t].pc = "idle" /\ task'[t].rid = NoRequest
      /\ OthersKeep(t) /\ OtherOrdersKeep(o)
      /\ UNCHANGED <<fragment, money, refund, retried>>
      /\ Dropped \/ Queued \/ Polled \/ Bought \/ Lost
  BY ZenonT(60), ApplyMoves
<1>2. attempt[o] # NoAttempt
  BY <1>1 DEF Inv, StartInv, Untouched
<1>3. attempt[o] \in Attempt
  BY <1>1 DEF TypeOK, AttemptOK
<1>4. out \in {"pending", "succeeded"} =>
        r0 # NoRequest /\ r0 \in Requests /\ fragment[r0].order = o
  BY <1>1 DEF Inv, ReferenceInv, TypeOK, TaskOK, Task
<1>5. /\ attempt'[o].rid = attempt[o].rid \/ (out = "pending" /\ attempt'[o].rid = r0)
      /\ attempt'[o].approved = attempt[o].approved \/ attempt'[o].approved = FALSE
      /\ attempt'[o].tx = attempt[o].tx \/ (Success /\ attempt'[o].tx = TxOf(r0))
      /\ attempt'[o].status # "none" \/ attempt'[o] = attempt[o]
      /\ status'[o] = "completed" =>
           \/ status[o] = "completed" /\ attempt'[o] = attempt[o]
           \/ Success /\ attempt'[o].tx = TxOf(r0) /\ attempt'[o].status = "succeeded"
  <2> DEFINE queued == [attempt[o] EXCEPT !.rid = r0, !.status = "queued"]
             polled == [attempt[o] EXCEPT !.status = "processing"]
             bought == [attempt[o] EXCEPT !.status = "succeeded", !.tx = TxOf(r0)]
             lost(s) == [attempt[o] EXCEPT !.status = s, !.approved = FALSE]
  <2> HIDE DEF Success
  <2>1. CASE Dropped
    BY <2>1
  <2>2. CASE Queued
    <3>1. /\ queued.rid = r0 /\ queued.status = "queued" /\ queued.tx = attempt[o].tx
          /\ queued.approved = attempt[o].approved
      BY <1>3 DEF Attempt
    <3>2. attempt'[o] = queued /\ out = "pending" /\ status'[o] = "stars_sending"
      BY <2>2
    <3> HIDE DEF queued
    <3>3. QED BY <3>1, <3>2
  <2>3. CASE Polled
    <3>1. /\ polled.rid = attempt[o].rid /\ polled.status = "processing"
          /\ polled.tx = attempt[o].tx /\ polled.approved = attempt[o].approved
      BY <1>3 DEF Attempt
    <3>2. attempt'[o] = polled /\ status[o] # "completed" /\ status' = status
      BY <2>3
    <3> HIDE DEF polled
    <3>3. QED BY <3>1, <3>2
  <2>4. CASE Bought
    <3>1. /\ bought.rid = attempt[o].rid /\ bought.status = "succeeded"
          /\ bought.tx = TxOf(r0) /\ bought.approved = attempt[o].approved
      BY <1>3 DEF Attempt
    <3>2. attempt'[o] = bought /\ Success
      BY <2>4 DEF Success
    <3> HIDE DEF bought
    <3>3. QED BY <3>1, <3>2
  <2>5. CASE Lost
    <3>1. PICK s \in {"failed", "uncertain"} : attempt'[o] = lost(s)
      BY <2>5
    <3>2. /\ lost(s).rid = attempt[o].rid /\ lost(s).status = s
          /\ lost(s).tx = attempt[o].tx /\ lost(s).approved = FALSE
      BY <1>3 DEF Attempt
    <3>3. status'[o] # "completed"
      BY <2>5
    <3> HIDE DEF lost
    <3>4. QED BY <3>1, <3>2, <3>3
  <2> HIDE DEF Dropped, Queued, Polled, Bought, Lost
  <2>6. QED BY <1>1, <2>1, <2>2, <2>3, <2>4, <2>5
<1>6. attempt'[o] # NoAttempt
  BY <1>2, <1>5 DEF NoAttempt
<1>7. \A u \in Tasks, p \in Orders : Starter(u, p)' => Starter(u, p)
  BY <1>1 DEF Starter, OthersKeep
<1>8. FragmentInv'
  BY <1>1 DEF Inv, FragmentInv
<1>9. ReferenceInv'
  <2>1. ASSUME NEW p \in Orders, attempt'[p].rid # NoRequest
        PROVE  fragment'[attempt'[p].rid].order = p
    <3>1. CASE p = o
      BY <1>1, <1>4, <1>5, <2>1, <3>1 DEF Inv, ReferenceInv
    <3>2. CASE p # o
      BY <1>1, <2>1, <3>2 DEF Inv, ReferenceInv, OtherOrdersKeep
    <3>3. QED BY <3>1, <3>2
  <2>2. ASSUME NEW u \in Tasks
        PROVE  /\ task'[u].rid # NoRequest =>
                    task'[u].pc # "idle" /\ fragment'[task'[u].rid].order = task'[u].order
               /\ \/ task'[u].pc \in {"posting", "check"}
                  \/ task'[u].pc = "apply" /\ task'[u].out \in {"pending", "succeeded"}
                  => task'[u].rid # NoRequest
    <3>1. CASE u = t
      BY <1>1, <3>1
    <3>2. CASE u # t
      BY <1>1, <3>2 DEF Inv, ReferenceInv, OthersKeep
    <3>3. QED BY <3>1, <3>2
  <2>3. QED BY <2>1, <2>2 DEF ReferenceInv
<1>10. StartInv'
  BY <1>1, <1>2, <1>6 DEF Inv, StartInv, Untouched, OthersKeep, OtherOrdersKeep
<1>11. PostInv'
  <2> HIDE DEF Dropped, Queued, Polled, Bought, Lost
  <2>1. \A p \in Orders \ retried : ~attempt'[p].approved
    BY <1>1, <1>5 DEF Inv, PostInv, OtherOrdersKeep
  <2>2. QED BY <1>1, <1>7, <2>1 DEF Inv, PostInv
<1>12. OverInv'
  <2>1. \A p \in Orders : Over(p) => Over(p)'
    BY <1>1, <1>6, <1>7 DEF Over, OtherOrdersKeep
  <2>2. \/ status'[o] = status[o]
        \/ out \in {"failed", "balance"}
        \/ status'[o] \in {"stars_sending", "completed", "manual_review"}
    BY <1>1
  <2> HIDE DEF Dropped, Queued, Polled, Bought, Lost
  <2>3. \A p \in Orders : status'[p] \in {"refund_required", "refunded",
                                          "waiting_for_merchant_balance"} =>
          status'[p] = status[p] \/ (p = o /\ out \in {"failed", "balance"})
    BY <1>1, <2>2 DEF OtherOrdersKeep
  <2>4. QED BY <1>1, <2>1, <2>3 DEF Inv, OverInv, OthersKeep
<1>13. MoneyInv'
  BY <1>1 DEF Inv, MoneyInv, OthersKeep, OtherOrdersKeep
<1>14. TxInv'
  <2>1. ASSUME Success
        PROVE  /\ TxOf(r0) # NoTx /\ \A p \in Orders \ {o} : attempt[p].tx # TxOf(r0)
               /\ \E r \in Requests :
                    /\ fragment[r].order = o /\ fragment[r].state = "completed"
                    /\ fragment[r].tx = TxOf(r0)
    <3>1. r0 # NoRequest /\ r0 \in Requests /\ fragment[r0].order = o
      BY <1>4, <2>1
    <3>2. fragment[r0].state = "completed"
      BY <1>1, <2>1 DEF Inv, TxInv
    <3>3. TxOf(r0) = fragment[r0].tx /\ TxOf(r0) # NoTx
      BY <3>1, <3>2, SentinelAssumption DEF Inv, FragmentInv, TxOf
    <3>4. QED BY <2>1, <3>1, <3>2, <3>3 DEF TxTaken
  <2> HIDE DEF Dropped, Queued, Polled, Bought, Lost, Success
  <2>2. \A p \in Orders \ {o} : attempt'[p] = attempt[p] /\ status'[p] = status[p]
    BY <1>1 DEF OtherOrdersKeep
  <2>3. ASSUME NEW p \in Orders, attempt'[p].tx # NoTx
        PROVE  /\ \E r \in Requests :
                    /\ fragment'[r].order = p /\ fragment'[r].state = "completed"
                    /\ fragment'[r].tx = attempt'[p].tx
               /\ \A q \in Orders \ {p} : attempt'[q].tx # attempt'[p].tx
    <3>1. CASE attempt'[o].tx = attempt[o].tx
      <4>1. \A q \in Orders : attempt'[q].tx = attempt[q].tx
        BY <2>2, <3>1
      <4>2. QED BY <1>1, <2>3, <4>1 DEF Inv, TxInv
    <3>2. CASE Success /\ attempt'[o].tx = TxOf(r0)
      BY <1>1, <2>1, <2>2, <2>3, <3>2 DEF Inv, TxInv
    <3>3. QED BY <1>5, <3>1, <3>2
  <2>4. \A p \in Orders : status'[p] = "completed" =>
          attempt'[p].status = "succeeded" /\ attempt'[p].tx # NoTx
    BY <1>5, <2>1, <2>2 DEF Inv, TxInv
  <2>5. QED BY <1>1, <2>3, <2>4 DEF Inv, TxInv, OthersKeep
<1>15. QED BY <1>8, <1>9, <1>10, <1>11, <1>12, <1>13, <1>14 DEF Inv

LEMMA AdminSafe == ASSUME TypeOK, Inv, NEW t \in Tasks, Admin(t) PROVE Inv'
<1> DEFINE Quiet == /\ UNCHANGED <<status, attempt, money, refund, retried>>
                    /\ task'[t].pc \in {"idle", "deliver", "approve", "reconcile"}
                    /\ task'[t].rid = NoRequest
           Retry(o) ==
             /\ UNCHANGED <<money, refund>> /\ retried' = retried \union {o}
             /\ task'[t].pc = "deliver" /\ task'[t].order = o /\ task[t].order = o
             /\ task'[t].rid = task[t].rid
             /\ attempt[o] # NoAttempt /\ CanTransition(status[o], "purchase_processing")
             /\ status'[o] = "purchase_processing" /\ OtherOrdersKeep(o)
             /\ attempt'[o] = [attempt[o] EXCEPT !.status = "submitting", !.approved = TRUE]
           Poll(o) ==
             /\ UNCHANGED <<attempt, money, refund, retried>>
             /\ \/ /\ UNCHANGED status /\ attempt[o].rid # NoRequest
                   /\ task'[t].pc = "check" /\ task'[t].order = o
                   /\ task'[t].rid = attempt[o].rid
                \/ /\ status[o] # "completed"
                   /\ status' = [status EXCEPT ![o] = "manual_review"]
                   /\ task'[t].pc = "idle" /\ task'[t].rid = NoRequest
           Ask(o) ==
             /\ UNCHANGED <<status, attempt, money, refund, retried>>
             /\ task'[t].order = o /\ task'[t].rid = NoRequest
             /\ \/ status[o] = "refund_required" /\ task'[t].pc = "refund"
                \/ money[o] = "succeeded" /\ task'[t].pc = "synced"
           Made(o, m) ==
             /\ UNCHANGED <<status, attempt, refund, retried>>
             /\ task[t].order = o /\ task[t].pc = "refund"
             /\ money[o] \in {"none", m} /\ money' = [money EXCEPT ![o] = m]
             /\ \/ /\ task'[t].pc = "refunded" /\ task'[t].order = o
                   /\ task'[t].rid = task[t].rid /\ task'[t].out = m
                \/ task'[t].pc = "idle" /\ task'[t].rid = NoRequest
           Stored(o) ==
             /\ UNCHANGED <<attempt, money, retried>>
             /\ task[t].order = o /\ task[t].pc \in {"refunded", "synced"}
             /\ task'[t].pc = "idle" /\ task'[t].rid = NoRequest
             /\ refund' \in {refund, [refund EXCEPT ![o] = task[t].out]}
             /\ \/ status' = status
                \/ /\ task[t].out = "succeeded" /\ status[o] = "refund_required"
                   /\ status' = [status EXCEPT ![o] = "refunded"]
<1>0. fragment' = fragment /\ OthersKeep(t)
  BY AdminMoves
<1>1. \/ Quiet
      \/ \E o \in Orders : Retry(o) \/ Poll(o) \/ Ask(o) \/ Stored(o)
      \/ \E o \in Orders, m \in RefundStatus \ {"none"} : Made(o, m)
  BY AdminMoves
<1>2. FragmentInv'
  BY <1>0 DEF Inv, FragmentInv
<1>3. CASE Quiet
  <2>1. ReferenceInv'
    BY <1>0, <1>3 DEF Inv, ReferenceInv, OthersKeep
  <2>2. StartInv'
    BY <1>0, <1>3 DEF Inv, StartInv, Untouched, OthersKeep
  <2>3. PostInv'
    BY <1>0, <1>3 DEF Inv, PostInv, Starter, OthersKeep
  <2>4. OverInv'
    BY <1>0, <1>3 DEF Inv, OverInv, Over, Starter, OthersKeep
  <2>5. MoneyInv' /\ TxInv'
    BY <1>0, <1>3 DEF Inv, MoneyInv, TxInv, OthersKeep
  <2>6. QED BY <1>2, <2>1, <2>2, <2>3, <2>4, <2>5 DEF Inv
<1>4. ASSUME NEW o \in Orders, Retry(o) PROVE Inv'
  <2>1. /\ attempt'[o].rid = attempt[o].rid /\ attempt'[o].tx = attempt[o].tx
        /\ attempt'[o].status = "submitting"
    <3> DEFINE a == [attempt[o] EXCEPT !.status = "submitting", !.approved = TRUE]
    <3>1. a.rid = attempt[o].rid /\ a.tx = attempt[o].tx /\ a.status = "submitting"
      BY DEF TypeOK, AttemptOK, Attempt
    <3> HIDE DEF a
    <3>2. QED BY <1>4, <3>1 DEF a
  <2>2. /\ attempt'[o] # NoAttempt /\ attempt[o] # NoAttempt
        /\ status'[o] = "purchase_processing" /\ status[o] # "completed"
    <3>1. ~CanTransition("completed", "purchase_processing")
      BY DEF CanTransition, AllowedTargets
    <3>2. CanTransition(status[o], "purchase_processing")
      BY <1>4
    <3>3. status[o] # "completed"
      BY <3>1, <3>2
    <3>4. NoAttempt.status = "none"
      BY DEF NoAttempt
    <3>5. QED BY <1>4, <2>1, <3>3, <3>4
  <2>3. \A p \in Orders \ {o} : attempt'[p] = attempt[p] /\ status'[p] = status[p]
    BY <1>4 DEF OtherOrdersKeep
  <2>4. \A p \in Orders : attempt'[p].rid = attempt[p].rid /\ attempt'[p].tx = attempt[p].tx
    BY <2>1, <2>3
  <2>5. /\ UNCHANGED <<money, refund>> /\ retried' = retried \union {o}
        /\ task'[t].pc = "deliver" /\ task'[t].order = task[t].order /\ task'[t].rid = task[t].rid
    BY <1>4
  <2> HIDE DEF Retry
  <2>6. ReferenceInv'
    BY <1>0, <2>4, <2>5 DEF Inv, ReferenceInv, OthersKeep
  <2>7. StartInv'
    BY <1>0, <2>2, <2>3, <2>5 DEF Inv, StartInv, Untouched, OthersKeep
  <2>8. PostInv'
    BY <1>0, <2>3, <2>5 DEF Inv, PostInv, Starter, OthersKeep
  <2>9. OverInv'
    <3>1. \A p \in Orders \ {o} : Over(p) => Over(p)'
      BY <1>0, <2>3, <2>5 DEF Over, Starter, OthersKeep
    <3>2. QED BY <1>0, <2>3, <2>5, <3>1 DEF Inv, OverInv, OthersKeep
  <2>10. MoneyInv'
    BY <1>0, <2>2, <2>3, <2>5 DEF Inv, MoneyInv, OthersKeep
  <2>11. TxInv'
    BY <1>0, <2>2, <2>3, <2>4, <2>5 DEF Inv, TxInv, OthersKeep
  <2>12. QED BY <1>2, <2>6, <2>7, <2>8, <2>9, <2>10, <2>11 DEF Inv
<1>5. ASSUME NEW o \in Orders, Poll(o) PROVE Inv'
  <2>1. \A p \in Orders : status'[p] = status[p] \/ status'[p] = "manual_review"
    BY <1>5 DEF TypeOK
  <2>2. ReferenceInv'
    BY <1>0, <1>5 DEF Inv, ReferenceInv, OthersKeep
  <2>3. StartInv'
    <3>1. task'[t].pc = "check" => attempt[task'[t].order] # NoAttempt
      BY <1>5 DEF NoAttempt
    <3>2. QED BY <1>0, <1>5, <2>1, <3>1 DEF Inv, StartInv, Untouched, OthersKeep
  <2>4. PostInv'
    BY <1>0, <1>5 DEF Inv, PostInv, Starter, OthersKeep
  <2>5. OverInv'
    <3>1. \A p \in Orders : Over(p) => Over(p)'
      BY <1>0, <1>5 DEF Over, Starter, OthersKeep
    <3>2. QED BY <1>0, <1>5, <2>1, <3>1 DEF Inv, OverInv, OthersKeep
  <2>6. MoneyInv' /\ TxInv'
    BY <1>0, <1>5, <2>1 DEF Inv, MoneyInv, TxInv, OthersKeep
  <2>7. QED BY <1>2, <2>2, <2>3, <2>4, <2>5, <2>6 DEF Inv
<1>6. ASSUME NEW o \in Orders, Ask(o) PROVE Inv'
  <2>1. ReferenceInv'
    BY <1>0, <1>6 DEF Inv, ReferenceInv, OthersKeep
  <2>2. StartInv'
    BY <1>0, <1>6 DEF Inv, StartInv, Untouched, OthersKeep
  <2>3. PostInv'
    BY <1>0, <1>6 DEF Inv, PostInv, Starter, OthersKeep
  <2>4. OverInv'
    <3>1. \A p \in Orders : Over(p) => Over(p)'
      BY <1>0, <1>6 DEF Over, Starter, OthersKeep
    <3>2. o \notin retried => Over(o)
      BY <1>6 DEF Inv, OverInv
    <3>3. QED BY <1>0, <1>6, <3>1, <3>2 DEF Inv, OverInv, OthersKeep
  <2>5. MoneyInv' /\ TxInv'
    BY <1>0, <1>6 DEF Inv, MoneyInv, TxInv, OthersKeep
  <2>6. QED BY <1>2, <2>1, <2>2, <2>3, <2>4, <2>5 DEF Inv
<1>7. ASSUME NEW o \in Orders, NEW m \in RefundStatus \ {"none"}, Made(o, m) PROVE Inv'
  <2>1. /\ money'[o] = m /\ money[o] \in {"none", m}
        /\ \A p \in Orders \ {o} : money'[p] = money[p]
    BY <1>7 DEF TypeOK
  <2>2. ReferenceInv'
    BY <1>0, <1>7 DEF Inv, ReferenceInv, OthersKeep
  <2>3. StartInv'
    BY <1>0, <1>7 DEF Inv, StartInv, Untouched, OthersKeep
  <2>4. PostInv'
    BY <1>0, <1>7 DEF Inv, PostInv, Starter, OthersKeep
  <2>5. OverInv'
    <3>1. \A p \in Orders : Over(p) => Over(p)'
      BY <1>0, <1>7 DEF Over, Starter, OthersKeep
    <3>2. o \notin retried => Over(o)
      BY <1>7 DEF Inv, OverInv
    <3>3. QED BY <1>0, <1>7, <2>1, <3>1, <3>2 DEF Inv, OverInv, OthersKeep
  <2>6. MoneyInv'
    <3>1. \A p \in Orders : money[p] = "succeeded" => money'[p] = "succeeded"
      BY <2>1
    <3>2. \A u \in Tasks \ {t} : task[u].pc \in {"refunded", "synced"} => task[u].order \in Orders
      BY DEF TypeOK, TaskOK
    <3>3. QED BY <1>0, <1>7, <2>1, <3>1, <3>2 DEF Inv, MoneyInv, OthersKeep
  <2>7. TxInv'
    BY <1>0, <1>7 DEF Inv, TxInv, OthersKeep
  <2>8. QED BY <1>2, <2>2, <2>3, <2>4, <2>5, <2>6, <2>7 DEF Inv
<1>8. ASSUME NEW o \in Orders, Stored(o) PROVE Inv'
  <2>1. \A p \in Orders : \/ status'[p] = status[p]
                          \/ /\ p = o /\ task[t].out = "succeeded"
                             /\ status[o] = "refund_required" /\ status'[o] = "refunded"
    BY <1>8 DEF TypeOK
  <2>2. ReferenceInv'
    BY <1>0, <1>8 DEF Inv, ReferenceInv, OthersKeep
  <2>3. StartInv'
    BY <1>0, <1>8, <2>1 DEF Inv, StartInv, Untouched, OthersKeep
  <2>4. PostInv'
    BY <1>0, <1>8 DEF Inv, PostInv, Starter, OthersKeep
  <2>5. OverInv'
    <3>1. \A p \in Orders : Over(p) => Over(p)'
      BY <1>0, <1>8 DEF Over, Starter, OthersKeep
    <3>2. QED BY <1>0, <1>8, <2>1, <3>1 DEF Inv, OverInv, OthersKeep
  <2>6. MoneyInv'
    <3>1. task[t].out = "succeeded" => money[o] = "succeeded"
      BY <1>8 DEF Inv, MoneyInv
    <3>2. \A p \in Orders : refund'[p] = refund[p] \/ (p = o /\ refund'[p] = task[t].out)
      BY <1>8 DEF TypeOK
    <3>3. QED BY <1>0, <1>8, <2>1, <3>1, <3>2 DEF Inv, MoneyInv, OthersKeep
  <2>7. TxInv'
    BY <1>0, <1>8, <2>1 DEF Inv, TxInv, OthersKeep
  <2>8. QED BY <1>2, <2>2, <2>3, <2>4, <2>5, <2>6, <2>7 DEF Inv
<1>9. QED BY <1>1, <1>3, <1>4, <1>5, <1>6, <1>7, <1>8

\* The steps of no task: the payment side, an administrator's transaction,
\* Fragment, a crash.
LEMMA RestSafe ==
  ASSUME TypeOK, Inv,
         \/ \E o \in Orders :
              ConfirmPayment(o) \/ MoveToManualReview(o) \/ MarkRefunded(o) \/ MoneySettles(o)
         \/ \E r \in Requests : FragmentAnswers(r) \/ FragmentSettles(r)
         \/ \E p \in Processes : Crash(p)
         \/ \E t \in Tasks, o \in Orders : PickRecoverable(t, o)
         \/ SetPurchasesEnabled \/ UNCHANGED vars
  PROVE  Inv'
<1>1. ASSUME NEW o \in Orders, ConfirmPayment(o) \/ MoveToManualReview(o) PROVE Inv'
  <2>1. /\ UNCHANGED <<attempt, fragment, money, refund, retried, task>>
        /\ status' = [status EXCEPT ![o] = status'[o]]
        /\ status'[o] = "manual_review" \/ status'[o] = "paid"
        /\ status'[o] = "paid" => status[o] = "payment_confirming"
    BY <1>1 DEF ConfirmPayment, MoveToManualReview, SetStatus, TypeOK
  <2>2. \A p \in Orders : p # o => status'[p] = status[p]
    BY <2>1 DEF TypeOK
  <2>3. StartInv'
    BY <2>1, <2>2 DEF Inv, StartInv, Untouched
  <2>4. OverInv'
    BY <2>1, <2>2 DEF Inv, OverInv, Over, Starter
  <2>5. MoneyInv' /\ TxInv'
    BY <2>1, <2>2 DEF Inv, MoneyInv, TxInv
  <2>6. FragmentInv' /\ ReferenceInv' /\ PostInv'
    BY <2>1 DEF Inv, FragmentInv, ReferenceInv, PostInv, Starter
  <2>7. QED BY <2>3, <2>4, <2>5, <2>6 DEF Inv
<1>2. ASSUME NEW o \in Orders, MarkRefunded(o) PROVE Inv'
  <2>1. /\ UNCHANGED <<attempt, fragment, refund, retried, task>>
        /\ status[o] = "refund_required" /\ status'[o] = "refunded" /\ money'[o] = "succeeded"
        /\ \A p \in Orders : p # o => status'[p] = status[p] /\ money'[p] = money[p]
    <3>1. CASE o \in YooKassa
      BY <1>2, <3>1 DEF MarkRefunded, SetStatus, TypeOK, Inv, MoneyInv
    <3>2. CASE o \notin YooKassa
      BY <1>2, <3>2 DEF MarkRefunded, SetStatus, TypeOK
    <3>3. QED BY <3>1, <3>2
  <2>2. StartInv'
    BY <2>1 DEF Inv, StartInv, Untouched
  <2>3. OverInv'
    BY <2>1 DEF Inv, OverInv, Over, Starter
  <2>4. MoneyInv'
    <3>1. \A p \in Orders : money[p] = "succeeded" => money'[p] = "succeeded"
      BY <2>1
    <3>2. \A u \in Tasks : task[u].pc \in {"refunded", "synced"} => task[u].order \in Orders
      BY DEF TypeOK, TaskOK
    <3>3. QED BY <2>1, <3>1, <3>2 DEF Inv, MoneyInv
  <2>5. TxInv'
    BY <2>1 DEF Inv, TxInv
  <2>6. FragmentInv' /\ ReferenceInv' /\ PostInv'
    BY <2>1 DEF Inv, FragmentInv, ReferenceInv, PostInv, Starter
  <2>7. QED BY <2>2, <2>3, <2>4, <2>5, <2>6 DEF Inv
<1>3. ASSUME NEW o \in Orders, MoneySettles(o) PROVE Inv'
  <2>1. /\ UNCHANGED <<status, attempt, fragment, refund, retried, task>>
        /\ money[o] = "pending"
        /\ \A p \in Orders : p # o => money'[p] = money[p]
    BY <1>3 DEF MoneySettles, TypeOK
  <2>2. OverInv'
    BY <2>1 DEF Inv, OverInv, Over, Starter
  <2>3. MoneyInv'
    <3>1. \A p \in Orders : money[p] = "succeeded" => money'[p] = "succeeded"
      BY <2>1
    <3>2. \A u \in Tasks : task[u].pc \in {"refunded", "synced"} => task[u].order \in Orders
      BY DEF TypeOK, TaskOK
    <3>3. QED BY <2>1, <3>1, <3>2 DEF Inv, MoneyInv
  <2>4. FragmentInv' /\ ReferenceInv' /\ PostInv' /\ StartInv' /\ TxInv'
    BY <2>1 DEF Inv, FragmentInv, ReferenceInv, PostInv, StartInv, TxInv, Untouched, Starter
  <2>5. QED BY <2>2, <2>3, <2>4 DEF Inv
<1>4. ASSUME NEW r \in Requests, FragmentAnswers(r) \/ FragmentSettles(r) PROVE Inv'
  <2>1. /\ UNCHANGED <<status, attempt, money, refund, retried, task>>
        /\ fragment[r].state \in {"sent", "queued"}
        /\ fragment'[r].order = fragment[r].order
        /\ fragment'[r].state \notin {"unused", "sent"}
        /\ fragment'[r].state = "completed" => fragment'[r].tx \in Txs
        /\ \A q \in Requests : q # r => fragment'[q] = fragment[q]
    BY <1>4 DEF FragmentAnswers, FragmentSettles, TypeOK, FragmentOK, Request
  <2>2. \A q \in Requests : fragment'[q].order = fragment[q].order
    BY <2>1
  <2>3. \A q \in Requests : fragment[q].state \in Dead \union {"completed"} =>
          fragment'[q] = fragment[q]
    BY <2>1 DEF Dead
  <2>4. FragmentInv'
    BY <2>1 DEF Inv, FragmentInv
  <2>5. ReferenceInv'
    BY <2>1, <2>2 DEF Inv, ReferenceInv, TypeOK, AttemptOK, Attempt, TaskOK, Task
  <2>6. StartInv' /\ PostInv'
    BY <2>1, <2>2 DEF Inv, StartInv, PostInv, Untouched, Starter
  <2>7. \A p \in Orders : Over(p) => Over(p)'
    BY <2>1, <2>2, <2>3 DEF Over, Starter
  <2>8. OverInv' /\ MoneyInv'
    BY <2>1, <2>7 DEF Inv, OverInv, MoneyInv
  <2>9. TxInv'
    <3>1. \A u \in Tasks : task[u].pc = "apply" /\ task[u].out = "succeeded" =>
            task[u].rid \in Requests
      BY DEF Inv, ReferenceInv, TypeOK, TaskOK, Task
    <3>2. QED BY <2>1, <2>3, <3>1 DEF Inv, TxInv
  <2>10. QED BY <2>4, <2>5, <2>6, <2>8, <2>9 DEF Inv
<1>5. ASSUME NEW p \in Processes, Crash(p) PROVE Inv'
  <2>1. /\ UNCHANGED <<status, attempt, fragment, money, refund, retried>>
        /\ \A u \in Tasks : \/ task'[u] = task[u]
                            \/ task'[u].pc = "idle" /\ task'[u].rid = NoRequest
    BY <1>5 DEF Crash, Idle
  <2>2. FragmentInv' /\ ReferenceInv' /\ StartInv'
    BY <2>1 DEF Inv, FragmentInv, ReferenceInv, StartInv, Untouched
  <2>3. PostInv' /\ MoneyInv' /\ TxInv'
    BY <2>1 DEF Inv, PostInv, MoneyInv, TxInv, Starter
  <2>4. OverInv'
    BY <2>1 DEF Inv, OverInv, Over, Starter
  <2>5. QED BY <2>2, <2>3, <2>4 DEF Inv
<1>6. ASSUME NEW t \in Tasks, NEW o \in Orders, PickRecoverable(t, o) PROVE Inv'
  <2> DEFINE new == [Idle EXCEPT !.pc = "deliver", !.order = o]
  <2>1. new.pc = "deliver" /\ new.rid = NoRequest
    BY DEF Idle
  <2>2. task'[t] = new /\ OthersKeep(t)
    BY <1>6, SetTaskMoves DEF PickRecoverable, TypeOK
  <2>3. /\ UNCHANGED <<status, attempt, fragment, money, refund, retried>>
        /\ task'[t].pc = "deliver" /\ task'[t].rid = NoRequest /\ OthersKeep(t)
    BY <1>6, <2>1, <2>2 DEF PickRecoverable
  <2>4. FragmentInv' /\ ReferenceInv' /\ StartInv'
    BY <2>3 DEF Inv, FragmentInv, ReferenceInv, StartInv, Untouched, OthersKeep
  <2>5. PostInv' /\ MoneyInv' /\ TxInv'
    BY <2>3 DEF Inv, PostInv, MoneyInv, TxInv, Starter, OthersKeep
  <2>6. OverInv'
    BY <2>3 DEF Inv, OverInv, Over, Starter, OthersKeep
  <2>7. QED BY <2>4, <2>5, <2>6 DEF Inv
<1>7. CASE SetPurchasesEnabled \/ UNCHANGED vars
  BY <1>7 DEF SetPurchasesEnabled, vars, Inv, FragmentInv, ReferenceInv, StartInv, PostInv,
              OverInv, MoneyInv, TxInv, Untouched, Over, Starter
<1>8. QED BY <1>1, <1>2, <1>3, <1>4, <1>5, <1>6, <1>7

LEMMA InitSafe == Init => Inv
BY SentinelAssumption
DEF Init, Inv, FragmentInv, ReferenceInv, StartInv, PostInv, OverInv, MoneyInv, TxInv,
    Untouched, Over, Starter, NoAttempt, Unused, Idle

LEMMA StepSafe == TypeOK /\ Inv /\ [Next]_vars => Inv'
<1> SUFFICES ASSUME TypeOK, Inv, [Next]_vars PROVE Inv'
  OBVIOUS
<1>1. ASSUME NEW t \in Tasks, Deliver(t) \/ Call(t) \/ Apply(t) \/ Admin(t) PROVE Inv'
  BY <1>1, DeliverSafe, CallSafe, ApplySafe, AdminSafe
<1>2. QED BY <1>1, RestSafe DEF Next

-----------------------------------------------------------------------------
(* The theorems *)

\* The inductive invariant holds in every reachable state.
THEOREM InvariantHolds == Spec => []Inv
BY InitType, StepType, InitSafe, StepSafe, PTL DEF Spec

\* Until an administrator approves a balance retry, an order is posted to
\* Fragment at most once.
THEOREM PostedOnce == Spec => []AtMostOnePost
<1>1. Inv => AtMostOnePost
  BY DEF Inv, PostInv, AtMostOnePost
<1>2. QED BY <1>1, InvariantHolds, PTL

\* Money is given back, or the purchase offered for a retry, only after
\* Fragment definitively refused or failed every request of the order.
THEOREM RefundAfterFailure == Spec => []RefundOnlyAfterFailure
<1>1. Inv => RefundOnlyAfterFailure
  BY DEF Inv, OverInv, Over, RefundOnlyAfterFailure
<1>2. QED BY <1>1, InvariantHolds, PTL

\* Nobody gets both the Stars and the money back.
THEOREM StarsOrRefund == Spec => []NeverStarsAndRefund
<1>1. Inv => NeverStarsAndRefund
  BY DEF Inv, OverInv, Over, Dead, NeverStarsAndRefund
<1>2. QED BY <1>1, InvariantHolds, PTL

\* REFUNDED is never a promise: the money went back.
THEOREM RefundedMeansReturned == Spec => []RefundedIsReturned
<1>1. Inv => RefundedIsReturned
  BY DEF Inv, MoneyInv, RefundedIsReturned
<1>2. QED BY <1>1, InvariantHolds, PTL

\* COMPLETED is backed by a completed request and by a transaction id of its own.
THEOREM CompletedBacked == Spec => []CompletedIsBacked
<1>1. Inv => CompletedIsBacked
  BY DEF Inv, TxInv, CompletedIsBacked
<1>2. QED BY <1>1, InvariantHolds, PTL

-----------------------------------------------------------------------------
(* The lock of a process *)

\* A task may take the lock if no other task of its process holds it.
LEMMA LockStep ==
  ASSUME LockInv, NEW t \in Tasks, OthersKeep(t), LockFact(task'[t]),
         task'[t].lock => \/ task[t].lock /\ task'[t].order = task[t].order
                          \/ LockFree(t, task'[t].order)
  PROVE  LockInv'
<1>1. \A u \in Tasks : LockFact(task'[u])
  BY DEF OthersKeep, LockInv
<1>2. ASSUME NEW u \in Tasks \ {t}, TaskProcess[u] = TaskProcess[t],
             task'[t].lock, task'[u].lock
      PROVE  task'[t].order # task'[u].order
  BY <1>2 DEF OthersKeep, LockInv, LockFree
<1>3. ASSUME NEW u \in Tasks \ {t}, NEW v \in Tasks \ {t}, u # v,
             TaskProcess[u] = TaskProcess[v], task'[u].lock, task'[v].lock
      PROVE  task'[u].order # task'[v].order
  BY <1>3 DEF OthersKeep, LockInv
<1>4. QED BY <1>1, <1>2, <1>3 DEF LockInv, LockFact

\* A task that lets the lock go, or never had it.
LEMMA Unlocked ==
  ASSUME TaskOK, LockInv, NEW t \in Tasks, NEW new, SetTask(t, new), ~new.lock,
         new.pc \notin {"start", "posting"}
  PROVE  LockInv'
BY SetTaskMoves, LockStep DEF LockFact

LEMMA FinishUnlocks ==
  ASSUME TaskOK, LockInv, NEW t \in Tasks, Finish(t)
  PROVE  LockInv'
BY Unlocked DEF Finish, Idle

LEMMA ResultLocks ==
  ASSUME TaskOK, LockInv, NEW t \in Tasks, NEW rid, NEW out, Result(t, rid, out)
  PROVE  LockInv'
<1> DEFINE new == [task[t] EXCEPT !.pc = "apply", !.rid = rid, !.out = out]
<1>1. task'[t] = new /\ OthersKeep(t)
  BY SetTaskMoves DEF Result
<1>2. new.lock = task[t].lock /\ new.pc = "apply" /\ new.order = task[t].order
  BY DEF TaskOK, Task
<1> HIDE DEF new
<1>3. QED BY <1>1, <1>2, LockStep DEF LockFact

LEMMA ContinueLocks ==
  ASSUME TaskOK, LockInv, NEW t \in Tasks, NEW a, NEW b, Continue(t, a, b),
         LockFree(t, task[t].order)
  PROVE  LockInv'
<1> DEFINE locked == [task[t] EXCEPT !.lock = TRUE]
<1>1. PICK new \in {[locked EXCEPT !.pc = "check", !.rid = a.rid],
                    [locked EXCEPT !.pc = "start"],
                    [locked EXCEPT !.pc = "apply", !.out = "uncertain"]} : SetTask(t, new)
  BY ZenonT(60) DEF Continue
<1>2. new.lock /\ new.order = task[t].order /\ new.pc \in {"check", "start", "apply"}
  BY <1>1 DEF TaskOK, Task
<1>3. task'[t] = new /\ OthersKeep(t)
  BY <1>1, SetTaskMoves
<1>4. QED BY <1>2, <1>3, LockStep DEF LockFact

\* A task that begins something has no lock yet.
LEMMA BeginsUnlocked ==
  ASSUME TaskOK, LockInv, NEW t \in Tasks, NEW pc, pc \notin {"start", "posting"}, NEW o, NEW x,
         \/ SetTask(t, [Idle EXCEPT !.pc = pc, !.order = o])
         \/ SetTask(t, [Idle EXCEPT !.pc = pc, !.order = o, !.rid = x])
         \/ SetTask(t, [Idle EXCEPT !.pc = pc, !.order = o, !.out = x])
  PROVE  LockInv'
<1> DEFINE b == [Idle EXCEPT !.pc = pc, !.order = o]
           r == [Idle EXCEPT !.pc = pc, !.order = o, !.rid = x]
           m == [Idle EXCEPT !.pc = pc, !.order = o, !.out = x]
<1>1. ~b.lock /\ b.pc = pc /\ ~r.lock /\ r.pc = pc /\ ~m.lock /\ m.pc = pc
  BY DEF Idle
<1>2. SetTask(t, b) \/ SetTask(t, r) \/ SetTask(t, m)
  OBVIOUS
<1> HIDE DEF b, r, m
<1>3. QED BY <1>1, <1>2, Unlocked

LEMMA DeliverLocks ==
  ASSUME TypeOK, LockInv, NEW t \in Tasks, Deliver(t)
  PROVE  LockInv'
BY FinishUnlocks, ContinueLocks
DEF Deliver, DeliverNothing, DeliverToReview, StartPurchase, ResumePurchase, Delivering, TypeOK

LEMMA CallLocks ==
  ASSUME TypeOK, LockInv, NEW t \in Tasks, Call(t)
  PROVE  LockInv'
<1> USE DEF TypeOK
<1>1. CASE SendPost(t)
  <2>1. PICK r \in Requests : SetTask(t, [task[t] EXCEPT !.pc = "posting", !.rid = r])
    BY <1>1 DEF SendPost
  <2> DEFINE new == [task[t] EXCEPT !.pc = "posting", !.rid = r]
  <2>2. new.lock = task[t].lock /\ new.pc = "posting" /\ new.order = task[t].order
    BY DEF TaskOK, Task
  <2>3. task[t].lock
    BY <1>1 DEF SendPost, LockInv, LockFact
  <2>4. task'[t] = new /\ OthersKeep(t)
    BY <2>1, SetTaskMoves
  <2> HIDE DEF new
  <2>5. QED BY <2>2, <2>3, <2>4, LockStep DEF LockFact
<1>2. CASE RefuseLocally(t) \/ PostReturns(t) \/ CheckReturns(t)
  BY <1>2, ResultLocks DEF RefuseLocally, PostReturns, CheckReturns
<1>3. QED BY <1>1, <1>2 DEF Call

\* What an administrator's task waits for is never the lock it holds.
LEMMA AdminLocks ==
  ASSUME TypeOK, LockInv, NEW t \in Tasks, Admin(t)
  PROVE  LockInv'
<1> USE DEF TypeOK
<1>1. CASE RefuseRetry(t) \/ StoreRefund(t)
  BY <1>1, FinishUnlocks DEF RefuseRetry, StoreRefund
<1>2. CASE ApproveRetry(t)
  <2> DEFINE new == [task[t] EXCEPT !.pc = "deliver"]
  <2>1. ~task[t].lock /\ SetTask(t, new)
    BY <1>2 DEF ApproveRetry, LockInv, LockFact
  <2>2. ~new.lock /\ new.pc = "deliver"
    BY <2>1 DEF TaskOK, Task
  <2> HIDE DEF new
  <2>3. QED BY <2>1, <2>2, Unlocked
<1>3. CASE RefundReturns(t)
  <2>1. CASE Finish(t)
    BY <2>1, FinishUnlocks
  <2>2. CASE ~Finish(t)
    <3>1. PICK m \in RefundStatus :
            SetTask(t, [task[t] EXCEPT !.pc = "refunded", !.out = m])
      BY <1>3, <2>2 DEF RefundReturns, Admin, TaskOK
    <3> DEFINE new == [task[t] EXCEPT !.pc = "refunded", !.out = m]
    <3>2. ~task[t].lock
      BY <1>3 DEF RefundReturns, LockInv, LockFact
    <3>3. ~new.lock /\ new.pc = "refunded"
      BY <3>2 DEF TaskOK, Task
    <3>4. SetTask(t, new)
      BY <3>1
    <3> HIDE DEF new
    <3>5. QED BY <3>3, <3>4, Unlocked
  <2>3. QED BY <2>1, <2>2
<1>4. ASSUME NEW o \in Orders, RetryRead(t, o) PROVE LockInv'
  <2>1. PICK pc \in {"reconcile", "deliver", "approve"} :
          SetTask(t, [Idle EXCEPT !.pc = pc, !.order = o])
    BY <1>4 DEF RetryRead
  <2>2. QED BY <2>1, BeginsUnlocked
<1>5. ASSUME NEW o \in Orders, Reconcile(t, o) PROVE LockInv'
  <2>1. CASE Finish(t)
    BY <2>1, FinishUnlocks
  <2>2. CASE SetTask(t, [Idle EXCEPT !.pc = "check", !.order = o, !.rid = attempt[o].rid])
    BY <2>2, BeginsUnlocked
  <2>3. QED BY <1>5, <2>1, <2>2 DEF Reconcile
<1>6. ASSUME NEW o \in Orders, RequestRefund(t, o) \/ RefundWebhook(t, o) PROVE LockInv'
  BY <1>6, BeginsUnlocked DEF RequestRefund, RefundWebhook
<1>7. QED BY <1>1, <1>2, <1>3, <1>4, <1>5, <1>6 DEF Admin

LEMMA LockKept ==
  ASSUME TypeOK, LockInv, [Next]_vars
  PROVE  LockInv'
<1>1. ASSUME NEW t \in Tasks, Apply(t) PROVE LockInv'
  BY <1>1, FinishUnlocks
  DEF Apply, ApplyPending, ApplySucceeded, ApplyNotSucceeded, ApplyDropped, TypeOK
<1>2. ASSUME NEW t \in Tasks, NEW o \in Orders, PickRecoverable(t, o) PROVE LockInv'
  BY <1>2, BeginsUnlocked DEF PickRecoverable, TypeOK
<1>3. ASSUME NEW p \in Processes, Crash(p) PROVE LockInv'
  <2>1. \A t \in Tasks : task'[t] = Idle \/ task'[t] = task[t]
    BY <1>3 DEF Crash
  <2>2. LockFact(Idle) /\ ~Idle.lock
    BY DEF LockFact, Idle
  <2>3. QED BY <2>1, <2>2 DEF LockInv
<1>4. CASE task' = task
  BY <1>4 DEF LockInv, LockFact
<1>5. ASSUME \/ \E o \in Orders : \/ ConfirmPayment(o) \/ MoveToManualReview(o)
                                  \/ MarkRefunded(o) \/ MoneySettles(o)
             \/ \E r \in Requests : FragmentAnswers(r) \/ FragmentSettles(r)
             \/ SetPurchasesEnabled \/ UNCHANGED vars
      PROVE  task' = task
  BY <1>5 DEF ConfirmPayment, MoveToManualReview, MarkRefunded, MoneySettles,
              FragmentAnswers, FragmentSettles, SetPurchasesEnabled, vars
<1>6. QED BY <1>1, <1>2, <1>3, <1>4, <1>5, DeliverLocks, CallLocks, AdminLocks DEF Next

\* The lock of a process is exclusive, and it covers the time from the transaction
\* that begins a purchase to the answer of its POST.
THEOREM OnePoster == Spec => []OnePosterPerProcess
<1>1. Init => LockInv
  BY DEF Init, LockInv, LockFact, Idle
<1>2. TypeOK /\ LockInv /\ [Next]_vars => LockInv'
  BY LockKept
<1>3. LockInv => OnePosterPerProcess
  BY DEF LockInv, LockFact, OnePosterPerProcess
<1>4. QED BY <1>1, <1>2, <1>3, TypeCorrect, PTL DEF Spec

-----------------------------------------------------------------------------
(* Action properties *)

\* The row and the attempt of a completed order are left alone by every step.
LEMMA CompletedStays ==
  ASSUME TypeOK, [Next]_vars, NEW o \in Orders, status[o] = "completed"
  PROVE  status'[o] = "completed" /\ attempt'[o] = attempt[o]
<1> USE DEF TypeOK, AttemptOK, TaskOK
<1>1. ASSUME NEW t \in Tasks, Deliver(t) PROVE status'[o] = "completed" /\ attempt'[o] = attempt[o]
  BY <1>1 DEF Deliver, Delivering, DeliverNothing, DeliverToReview, StartPurchase,
              ResumePurchase, Recoverable, SetStatus, SetAttempt
<1>2. ASSUME NEW t \in Tasks, Call(t) PROVE status'[o] = "completed" /\ attempt'[o] = attempt[o]
  BY <1>2 DEF Call, RefuseLocally, SendPost, PostReturns, CheckReturns
<1>3. ASSUME NEW t \in Tasks, Apply(t) PROVE status'[o] = "completed" /\ attempt'[o] = attempt[o]
  BY <1>3 DEF Apply, ApplyPending, ApplySucceeded, ApplyNotSucceeded, ApplyDropped,
              Applying, Persistable, SetStatus, SetAttempt
<1>4. ASSUME NEW t \in Tasks, Admin(t) PROVE status'[o] = "completed" /\ attempt'[o] = attempt[o]
  <2>1. CASE ApproveRetry(t)
    BY <2>1 DEF ApproveRetry, CanTransition, AllowedTargets, SetStatus, SetAttempt
  <2>2. CASE RefuseRetry(t) \/ RefundReturns(t)
    BY <2>2 DEF RefuseRetry, RefundReturns
  <2>3. CASE StoreRefund(t)
    BY <2>3 DEF StoreRefund, SetStatus
  <2>4. CASE \E p \in Orders :
               RetryRead(t, p) \/ Reconcile(t, p) \/ RequestRefund(t, p) \/ RefundWebhook(t, p)
    BY <2>4 DEF RetryRead, Reconcile, RequestRefund, RefundWebhook, SetStatus
  <2>5. QED BY <1>4, <2>1, <2>2, <2>3, <2>4 DEF Admin
<1>5. ASSUME NEW p \in Orders,
             ConfirmPayment(p) \/ MoveToManualReview(p) \/ MarkRefunded(p) \/ MoneySettles(p)
      PROVE  status'[o] = "completed" /\ attempt'[o] = attempt[o]
  BY <1>5 DEF ConfirmPayment, MoveToManualReview, MarkRefunded, MoneySettles, SetStatus
<1>6. ASSUME NEW t \in Tasks, NEW p \in Orders, PickRecoverable(t, p)
      PROVE  status'[o] = "completed" /\ attempt'[o] = attempt[o]
  BY <1>6 DEF PickRecoverable
<1>7. CASE \/ \E r \in Requests : FragmentAnswers(r) \/ FragmentSettles(r)
           \/ \E p \in Processes : Crash(p)
           \/ SetPurchasesEnabled \/ UNCHANGED vars
  BY <1>7 DEF FragmentAnswers, FragmentSettles, Crash, SetPurchasesEnabled, vars
<1>8. QED BY <1>1, <1>2, <1>3, <1>4, <1>5, <1>6, <1>7 DEF Next

\* A delivered order is never reopened.
THEOREM CompletedStaysCompleted == Spec => CompletedIsFinal
<1>1. TypeOK /\ [Next]_vars =>
        [\A o \in Orders : status[o] = "completed" =>
           status'[o] = "completed" /\ attempt'[o] = attempt[o]]_vars
  BY CompletedStays
<1>2. QED BY <1>1, TypeCorrect, PTL DEF Spec, CompletedIsFinal

\* A stored request id is overwritten only by the same id: while the order was
\* never retried, the id a task holds and the stored one are of one POST.
LEMMA RequestIdStays ==
  ASSUME TypeOK, Inv, [Next]_vars, NEW o \in Orders, attempt[o].rid # NoRequest,
         o \notin retried'
  PROVE  attempt'[o].rid = attempt[o].rid
<1> USE DEF TypeOK, AttemptOK, TaskOK, FragmentOK, Attempt, Task
<1>0. attempt[o] # NoAttempt
  BY DEF NoAttempt
<1>1. ASSUME NEW t \in Tasks, Deliver(t) PROVE attempt'[o].rid = attempt[o].rid
  BY <1>0, <1>1 DEF Deliver, Delivering, DeliverNothing, DeliverToReview, StartPurchase,
                    ResumePurchase, SetAttempt
<1>2. ASSUME NEW t \in Tasks, ApplyPending(t) PROVE attempt'[o].rid = attempt[o].rid
  <2>1. CASE task[t].order # o
    BY <1>2, <2>1 DEF ApplyPending, SetAttempt
  <2>2. CASE task[t].order = o
    <3>1. task[t].rid # NoRequest /\ fragment[task[t].rid].order = o
      BY <1>2, <2>2 DEF ApplyPending, Applying, Inv, ReferenceInv
    <3>2. fragment[attempt[o].rid].order = o
      BY DEF Inv, ReferenceInv
    <3>3. attempt[o].rid = task[t].rid
      BY <1>2, <3>1, <3>2 DEF ApplyPending, Inv, PostInv
    <3>4. \/ attempt'[o] = [attempt[o] EXCEPT !.rid = task[t].rid, !.status = "queued"]
          \/ attempt'[o] = [attempt[o] EXCEPT !.status = "processing"]
      BY <1>2, <2>2 DEF ApplyPending, SetAttempt
    <3>5. attempt[o] \in Attempt
      OBVIOUS
    <3>6. QED BY <3>3, <3>4, <3>5
  <2>3. QED BY <2>1, <2>2
<1>3. ASSUME NEW t \in Tasks, ApplySucceeded(t) \/ ApplyNotSucceeded(t) \/ ApplyDropped(t)
      PROVE  attempt'[o].rid = attempt[o].rid
  <2>1. CASE ApplySucceeded(t)
    BY <2>1 DEF ApplySucceeded, SetAttempt
  <2>2. CASE ApplyNotSucceeded(t)
    <3>1. PICK s : attempt' = [attempt EXCEPT ![task[t].order] =
                     [attempt[task[t].order] EXCEPT !.status = s, !.approved = FALSE]]
      BY <2>2 DEF ApplyNotSucceeded, SetAttempt
    <3>2. QED BY <3>1
  <2>3. CASE ApplyDropped(t)
    BY <2>3 DEF ApplyDropped
  <2>4. QED BY <1>3, <2>1, <2>2, <2>3
<1>4. ASSUME NEW t \in Tasks, Call(t) PROVE attempt'[o].rid = attempt[o].rid
  BY <1>4 DEF Call, RefuseLocally, SendPost, PostReturns, CheckReturns
<1>5. ASSUME NEW t \in Tasks, Admin(t) PROVE attempt'[o].rid = attempt[o].rid
  BY <1>5 DEF Admin, ApproveRetry, RefuseRetry, RefundReturns, StoreRefund, RetryRead,
              Reconcile, RequestRefund, RefundWebhook, SetAttempt
<1>6. CASE \/ \E p \in Orders : \/ ConfirmPayment(p) \/ MoveToManualReview(p)
                                \/ MarkRefunded(p) \/ MoneySettles(p)
                                \/ \E t \in Tasks : PickRecoverable(t, p)
           \/ \E r \in Requests : FragmentAnswers(r) \/ FragmentSettles(r)
           \/ \E p \in Processes : Crash(p)
           \/ SetPurchasesEnabled \/ UNCHANGED vars
  BY <1>6 DEF ConfirmPayment, MoveToManualReview, MarkRefunded, MoneySettles,
              PickRecoverable, FragmentAnswers, FragmentSettles, Crash,
              SetPurchasesEnabled, vars
<1>7. QED BY <1>1, <1>2, <1>3, <1>4, <1>5, <1>6 DEF Next, Apply

\* The request id of a purchase, once stored, is kept.
THEOREM RequestIdKept == Spec => RequestIdIsKept
<1>1. TypeOK /\ Inv /\ [Next]_vars =>
        [\A o \in Orders : attempt[o].rid # NoRequest /\ o \notin retried' =>
           attempt'[o].rid = attempt[o].rid]_vars
  BY RequestIdStays
<1>2. QED BY <1>1, TypeCorrect, InvariantHolds, PTL DEF Spec, RequestIdIsKept
=============================================================================
