------------------- MODULE PurchaseDeliveryPromiseProofs -------------------
(***************************************************************************)
(* PurchaseDelivery for every value of its constants, continued: what was  *)
(* accepted is tracked, and the whole implements OrderPromise.             *)
(***************************************************************************)
EXTENDS PurchaseDeliveryPromise, PurchaseDeliveryProofs

-----------------------------------------------------------------------------
(* What Fragment accepted is tracked *)

\* The part of TrackInv that is about one order.
Tracked(o) == attempt[o] # NoAttempt /\ attempt[o].rid = NoRequest => Open(o) \/ Refused(o)

\* What makes the purchase of o open or refused is left alone by a step that
\* changes neither its rows nor its requests and moves no task towards it.
LEMMA TrackedStays ==
  ASSUME NEW o \in Orders, Tracked(o),
         status'[o] = status[o] \/ status'[o] = "manual_review", attempt'[o] = attempt[o],
         \A r \in Requests : fragment'[r].order = o => fragment'[r] = fragment[r],
         \A t \in Tasks : \/ task'[t] = task[t] \/ task'[t].order # o
                          \/ task'[t].pc \notin {"start", "check", "apply"}
  PROVE  Tracked(o)'
BY DEF Tracked, Open, Refused, Starter

\* An approved retry is never forgotten.
LEMMA RetriedGrows == ASSUME [Next]_vars PROVE retried \subseteq retried'
<1>1. ASSUME NEW t \in Tasks, Deliver(t) \/ Call(t) \/ Apply(t) PROVE retried' = retried
  BY <1>1
  DEF Deliver, DeliverNothing, DeliverToReview, StartPurchase, ResumePurchase,
      Call, RefuseLocally, SendPost, PostReturns, CheckReturns,
      Apply, ApplyPending, ApplySucceeded, ApplyNotSucceeded, ApplyDropped
<1>2. ASSUME NEW t \in Tasks, Admin(t) PROVE retried \subseteq retried'
  BY <1>2 DEF Admin, ApproveRetry, RefuseRetry, RefundReturns, StoreRefund, RetryRead,
              Reconcile, RequestRefund, RefundWebhook
<1>3. QED
  BY <1>1, <1>2
  DEF Next, vars, PickRecoverable, ConfirmPayment, MoveToManualReview, MarkRefunded,
      MoneySettles, FragmentAnswers, FragmentSettles, Crash, SetPurchasesEnabled

LEMMA DeliverTrack ==
  ASSUME TypeOK, Inv, NEW t \in Tasks, Deliver(t), NEW o \in Orders \ retried, Tracked(o)
  PROVE  Tracked(o)'
<1> DEFINE q == task[t].order
<1>1. /\ fragment' = fragment /\ OthersKeep(t) /\ OtherOrdersKeep(q)
      /\ task'[t].pc \in {"start", "check", "apply"} => task'[t].order = q
  BY DeliverMoves DEF Inv
<1>2. CASE q # o
  BY <1>1, <1>2, TrackedStays DEF OthersKeep, OtherOrdersKeep
<1>3. CASE q = o
  <2>1. CASE /\ task'[t].pc = "idle" /\ attempt' = attempt
             /\ status'[o] = status[o] \/ status'[o] = "manual_review"
    BY <1>1, <2>1, TrackedStays DEF OthersKeep
  <2>2. CASE /\ status'[o] = "purchase_processing" /\ attempt[o] = NoAttempt
             /\ attempt'[o] = [NoAttempt EXCEPT !.status = "submitting"]
             /\ task'[t].pc = "start"
    <3>1. attempt'[o].status = "submitting"
      BY <2>2 DEF NoAttempt
    <3>2. Untouched(o)
      BY <2>2 DEF Inv, StartInv
    <3>3. Open(o)'
      BY <1>1, <2>2, <3>1, <3>2 DEF Open, Untouched, OthersKeep
    <3>4. QED BY <3>3 DEF Tracked
  <2>3. CASE /\ attempt' = attempt /\ attempt[o] # NoAttempt /\ status' = status
             /\ \/ task'[t].pc = "check" /\ attempt[o].rid # NoRequest
                \/ attempt[o].approved
                \/ task'[t].pc = "apply" /\ task'[t].out = "uncertain"
    <3>1. ~attempt[o].approved
      BY DEF Inv, PostInv
    <3>2. QED BY <1>1, <2>3, <3>1 DEF Tracked, Open, Refused, Starter, OthersKeep
  <2>4. QED BY <1>3, <2>1, <2>2, <2>3, DeliverMoves DEF Inv
<1>4. QED BY <1>2, <1>3

LEMMA CallTrack ==
  ASSUME TypeOK, Inv, NEW t \in Tasks, Call(t), NEW o \in Orders \ retried, Tracked(o)
  PROVE  Tracked(o)'
<1> DEFINE q == task[t].order
           r0 == task[t].rid
<1>1. /\ task'[t].order = q /\ OthersKeep(t) /\ UNCHANGED <<status, attempt>>
  BY CallMoves
<1>2. CASE fragment' = fragment /\ q # o
  BY <1>1, <1>2, TrackedStays DEF OthersKeep
<1>3. CASE fragment' = fragment /\ q = o /\ task'[t].pc = "apply"
           /\ task'[t].out \notin {"failed", "balance", "succeeded"}
  BY <1>1, <1>3 DEF Tracked, Open, Refused, Starter, OthersKeep
\* The starter gives up: nothing was posted.
<1>4. CASE task[t].pc = "start" /\ fragment' = fragment /\ q = o /\ task'[t].pc = "apply"
  <2>1. /\ \A r \in Requests : fragment[r].order # o
        /\ \A u \in Tasks : Starter(u, o) => u = t
    BY <1>4 DEF Inv, PostInv, Starter
  <2>2. Refused(o)'
    BY <1>1, <1>4, <2>1 DEF Refused, Starter, OthersKeep
  <2>3. QED BY <2>2 DEF Tracked
\* The only POST was refused.
<1>5. CASE /\ task[t].pc = "posting" /\ fragment' = fragment /\ q = o /\ task'[t].pc = "apply"
           /\ fragment[r0].state \in {"rejected", "rejected_balance"}
  <2>1. r0 \in Requests /\ fragment[r0].order = o
    BY <1>5 DEF Inv, ReferenceInv, TypeOK, TaskOK, Task
  <2>2. /\ \A r \in Requests : fragment[r].order = o => r = r0
        /\ \A u \in Tasks : ~Starter(u, o)
    BY <2>1 DEF Inv, PostInv
  <2>3. Refused(o)'
    BY <1>1, <1>5, <2>2 DEF Refused, Starter, OthersKeep
  <2>4. QED BY <2>3 DEF Tracked
\* Nothing is polled while the purchase is open.
<1>6. CASE task[t].pc = "check" /\ fragment' = fragment /\ q = o /\ task'[t].pc = "apply"
  BY <1>1, <1>6 DEF Tracked, Open, Refused, Starter, OthersKeep
<1>7. ASSUME NEW r \in Requests, fragment[r] = Unused, task[t].pc = "start",
             fragment' = [fragment EXCEPT
               ![r] = [state |-> "sent", order |-> q, tx |-> NoTx]],
             task'[t].pc = "posting"
      PROVE  Tracked(o)'
  <2>1. /\ fragment'[r].order = q
        /\ \A p \in Requests \ {r} : fragment'[p] = fragment[p]
    BY <1>7 DEF TypeOK, FragmentOK
  <2>2. CASE q # o
    BY <1>1, <1>7, <2>1, <2>2, TrackedStays DEF OthersKeep
  <2>3. CASE q = o
    BY <1>1, <1>7, <2>1, <2>3 DEF Tracked, Open, Refused, Starter, OthersKeep
  <2>4. QED BY <2>2, <2>3
<1>8. QED BY <1>2, <1>3, <1>4, <1>5, <1>6, <1>7, CallMoves

LEMMA ApplyTrack ==
  ASSUME TypeOK, Inv, NEW t \in Tasks, Apply(t), NEW o \in Orders \ retried, Tracked(o),
         attempt[o].rid = NoRequest, attempt'[o].rid = NoRequest
  PROVE  Tracked(o)'
<1> DEFINE q == task[t].order
           r0 == task[t].rid
<1>1. /\ task[t].pc = "apply" /\ task'[t].pc = "idle"
      /\ OthersKeep(t) /\ OtherOrdersKeep(q) /\ fragment' = fragment
      /\ \/ status' = status /\ attempt' = attempt
         \/ task[t].out = "pending" /\ status[q] \notin {"purchase_processing", "manual_review"}
         \/ /\ task[t].out = "pending"
            /\ attempt'[q] = [attempt[q] EXCEPT !.rid = r0, !.status = "queued"]
         \/ task[t].out \in {"failed", "balance", "succeeded"}
         \/ status'[q] = "manual_review" /\ attempt'[q].status = "uncertain"
  BY ZenonT(60), ApplyMoves
<1>2. CASE q # o \/ (status' = status /\ attempt' = attempt)
  BY <1>1, <1>2, TrackedStays DEF OthersKeep, OtherOrdersKeep
<1>3. CASE q = o /\ Refused(o)
  <2>1. Refused(o)'
    BY <1>1, <1>3 DEF Refused, Starter, OthersKeep
  <2>2. QED BY <2>1 DEF Tracked
<1>4. CASE q = o /\ Open(o)
  <2>1. attempt[o] \in Attempt /\ o \in Orders
    BY DEF TypeOK, AttemptOK
  \* An open purchase stores the request id it learns.
  <2>2. CASE /\ task[t].out = "pending"
             /\ attempt'[o] = [attempt[o] EXCEPT !.rid = r0, !.status = "queued"]
    <3>1. attempt'[o].rid = r0
      BY <2>1, <2>2 DEF Attempt
    <3>2. r0 # NoRequest
      BY <1>1, <2>2 DEF Inv, ReferenceInv
    <3>3. QED BY <3>1, <3>2
  <2>3. task[t].out \notin {"failed", "balance", "succeeded"}
    BY <1>1, <1>4 DEF Open
  <2>4. CASE status'[o] = "manual_review" /\ attempt'[o].status = "uncertain"
    <3>1. Open(o)'
      BY <1>1, <1>4, <2>4 DEF Open, OthersKeep
    <3>2. QED BY <3>1 DEF Tracked
  <2>5. status[o] \in {"purchase_processing", "manual_review"}
    BY <1>4 DEF Open
  <2>6. QED BY <1>1, <1>2, <1>4, <2>2, <2>3, <2>4, <2>5
<1>5. q = o => attempt[o] # NoAttempt
  BY <1>1 DEF Inv, StartInv, Untouched
<1>6. QED BY <1>2, <1>3, <1>4, <1>5 DEF Tracked

LEMMA AdminTrack ==
  ASSUME TypeOK, Inv, NEW t \in Tasks, Admin(t), NEW o \in Orders \ retried', Tracked(o),
         attempt[o].rid = NoRequest
  PROVE  Tracked(o)'
<1> USE DEF OthersKeep
<1>1. fragment' = fragment /\ OthersKeep(t)
  BY AdminMoves
\* Another order is retried.
<1>2. ASSUME NEW p \in Orders, retried' = retried \union {p}, task'[t].pc = "deliver",
             OtherOrdersKeep(p)
      PROVE  Tracked(o)'
  BY <1>1, <1>2, TrackedStays DEF OtherOrdersKeep
\* A reconciliation polls only a request id that is stored.
<1>3. ASSUME NEW p \in Orders, attempt' = attempt,
             \/ /\ status' = status /\ attempt[p].rid # NoRequest /\ task'[t].order = p
             \/ /\ status' = [status EXCEPT ![p] = "manual_review"] /\ task'[t].pc = "idle"
      PROVE  Tracked(o)'
  BY <1>1, <1>3, TrackedStays DEF TypeOK
\* An order whose money goes back is not open.
<1>4. ASSUME NEW p \in Orders, attempt' = attempt, status[p] = "refund_required",
             status' = [status EXCEPT ![p] = "refunded"], task'[t].pc = "idle"
      PROVE  Tracked(o)'
  BY <1>1, <1>4 DEF Tracked, Open, Refused, Starter, TypeOK
<1>5. CASE /\ UNCHANGED <<status, attempt>>
           /\ task'[t].pc \notin {"start", "check", "apply"}
  BY <1>1, <1>5, TrackedStays
<1>6. QED BY <1>1, <1>2, <1>3, <1>4, <1>5, AdminMoves

LEMMA RestTrack ==
  ASSUME TypeOK, Inv, NEW o \in Orders \ retried, Tracked(o),
         \/ \E p \in Orders :
              ConfirmPayment(p) \/ MoveToManualReview(p) \/ MarkRefunded(p) \/ MoneySettles(p)
         \/ \E r \in Requests : FragmentAnswers(r) \/ FragmentSettles(r)
         \/ \E p \in Processes : Crash(p)
         \/ \E t \in Tasks, p \in Orders : PickRecoverable(t, p)
         \/ SetPurchasesEnabled \/ UNCHANGED vars
  PROVE  Tracked(o)'
<1>1. ASSUME NEW p \in Orders, MoveToManualReview(p) \/ MoneySettles(p) PROVE Tracked(o)'
  BY <1>1, TrackedStays DEF MoveToManualReview, MoneySettles, SetStatus, TypeOK
<1>2. ASSUME NEW p \in Orders, ConfirmPayment(p) PROVE Tracked(o)'
  BY <1>2 DEF ConfirmPayment, SetStatus, TypeOK, Inv, StartInv, Tracked, Open, Refused, Starter
<1>3. ASSUME NEW p \in Orders, MarkRefunded(p) PROVE Tracked(o)'
  BY <1>3 DEF MarkRefunded, SetStatus, TypeOK, Tracked, Open, Refused, Starter
\* A refusal of Fragment is final.
<1>4. ASSUME NEW r \in Requests, FragmentAnswers(r) \/ FragmentSettles(r) PROVE Tracked(o)'
  <2>1. /\ UNCHANGED <<status, attempt, task>> /\ fragment[r].state \in {"sent", "queued"}
        /\ fragment'[r].order = fragment[r].order
        /\ \A q \in Requests : q # r => fragment'[q] = fragment[q]
    BY <1>4 DEF FragmentAnswers, FragmentSettles, TypeOK, FragmentOK, Request
  <2>2. QED BY <2>1 DEF Tracked, Open, Refused, Starter
<1>5. ASSUME NEW p \in Processes, Crash(p) PROVE Tracked(o)'
  BY <1>5, TrackedStays DEF Crash, Idle
<1>6. ASSUME NEW t \in Tasks, NEW p \in Orders, PickRecoverable(t, p) PROVE Tracked(o)'
  <2>1. [Idle EXCEPT !.pc = "deliver", !.order = p].pc = "deliver"
    BY DEF Idle
  <2>2. task'[t].pc = "deliver" /\ OthersKeep(t)
    BY <1>6, <2>1, SetTaskMoves DEF PickRecoverable, TypeOK
  <2>3. QED BY <1>6, <2>2, TrackedStays DEF PickRecoverable, OthersKeep
<1>7. CASE SetPurchasesEnabled \/ UNCHANGED vars
  BY <1>7, TrackedStays DEF SetPurchasesEnabled, vars
<1>8. QED BY <1>1, <1>2, <1>3, <1>4, <1>5, <1>6, <1>7

LEMMA InitTrack == Init => TrackInv
BY DEF Init, TrackInv

LEMMA StepTrack == TypeOK /\ Inv /\ TrackInv /\ [Next]_vars => TrackInv'
<1> SUFFICES ASSUME TypeOK, Inv, TrackInv, [Next]_vars,
                    NEW o \in Orders \ retried', attempt'[o].rid = NoRequest
             PROVE  Tracked(o)'
  BY DEF TrackInv, Tracked
<1>1. o \notin retried
  BY RetriedGrows
<1>2. Tracked(o) /\ attempt[o].rid = NoRequest
  BY <1>1, RequestIdStays DEF TrackInv, Tracked
<1>3. ASSUME NEW t \in Tasks, Deliver(t) \/ Call(t) \/ Apply(t) \/ Admin(t) PROVE Tracked(o)'
  BY <1>1, <1>2, <1>3, DeliverTrack, CallTrack, ApplyTrack, AdminTrack
<1>4. QED BY <1>1, <1>2, <1>3, RestTrack DEF Next

\* A request Fragment accepted is known to the database, or its order cannot be
\* refunded.
THEOREM AcceptedTracked == Spec => []AcceptedIsTracked
<1>1. Inv /\ TrackInv /\ TypeOK => AcceptedIsTracked
  <2> SUFFICES ASSUME Inv, TrackInv, TypeOK, NEW r \in Requests, NEW o, o = fragment[r].order,
                      fragment[r].state \in Accepted, o \notin retried
               PROVE  attempt[o].rid = r \/ attempt[o].status \in {"submitting", "uncertain"}
    BY DEF AcceptedIsTracked
  <2>1. o \in Orders
    BY DEF TypeOK, FragmentOK, Request, Inv, FragmentInv, Accepted
  <2>2. attempt[o] # NoAttempt
    BY <2>1 DEF Inv, StartInv, Untouched
  <2>3. CASE attempt[o].rid # NoRequest
    <3>1. attempt[o].rid \in Requests
      BY <2>1, <2>3 DEF TypeOK, AttemptOK, Attempt
    <3>2. fragment[attempt[o].rid].order = o
      BY <2>1, <2>3 DEF Inv, ReferenceInv
    <3>3. QED BY <2>1, <3>1, <3>2 DEF Inv, PostInv
  <2>4. CASE attempt[o].rid = NoRequest
    BY <2>1, <2>2, <2>4 DEF TrackInv, Open, Refused, Accepted
  <2>5. QED BY <2>3, <2>4
<1>2. QED BY <1>1, InitTrack, StepTrack, TypeCorrect, InvariantHolds, PTL DEF Spec

-----------------------------------------------------------------------------
(* OrderPromise is implemented *)

Mapped == [o \in Orders |-> PromiseOf(o)]

\* The rows of two final statuses are left alone.
LEMMA RefundedStays ==
  ASSUME TypeOK, [Next]_vars, NEW o \in Orders, status[o] = "refunded"
  PROVE  status'[o] = "refunded"
<1> USE DEF TypeOK, TaskOK
<1>1. ASSUME NEW t \in Tasks, Deliver(t) PROVE status'[o] = "refunded"
  BY <1>1 DEF Deliver, Delivering, DeliverNothing, DeliverToReview, StartPurchase,
              ResumePurchase, SetStatus
<1>2. ASSUME NEW t \in Tasks, Call(t) PROVE status'[o] = "refunded"
  BY <1>2 DEF Call, RefuseLocally, SendPost, PostReturns, CheckReturns
<1>3. ASSUME NEW t \in Tasks, Apply(t) PROVE status'[o] = "refunded"
  BY <1>3 DEF Apply, ApplyPending, ApplySucceeded, ApplyNotSucceeded, ApplyDropped,
              Persistable, Origin, CanTransition, AllowedTargets, SetStatus
<1>4. ASSUME NEW t \in Tasks, Admin(t) PROVE status'[o] = "refunded"
  <2>1. CASE ApproveRetry(t)
    BY <2>1 DEF ApproveRetry, CanTransition, AllowedTargets, SetStatus
  <2>2. CASE RefuseRetry(t) \/ RefundReturns(t) \/ StoreRefund(t)
    BY <2>2 DEF RefuseRetry, RefundReturns, StoreRefund, SetStatus
  <2>3. CASE \E p \in Orders :
               RetryRead(t, p) \/ Reconcile(t, p) \/ RequestRefund(t, p) \/ RefundWebhook(t, p)
    BY <2>3 DEF RetryRead, Reconcile, RequestRefund, RefundWebhook, CanTransition,
                AllowedTargets, SetStatus
  <2>4. QED BY <1>4, <2>1, <2>2, <2>3 DEF Admin
<1>5. CASE \/ \E p \in Orders : \/ ConfirmPayment(p) \/ MoveToManualReview(p)
                                \/ MarkRefunded(p) \/ MoneySettles(p)
                                \/ \E t \in Tasks : PickRecoverable(t, p)
           \/ \E r \in Requests : FragmentAnswers(r) \/ FragmentSettles(r)
           \/ \E p \in Processes : Crash(p)
           \/ SetPurchasesEnabled \/ UNCHANGED vars
  BY <1>5 DEF ConfirmPayment, MoveToManualReview, MarkRefunded, MoneySettles, SetStatus,
              PickRecoverable, FragmentAnswers, FragmentSettles, Crash,
              SetPurchasesEnabled, vars
<1>6. QED BY <1>1, <1>2, <1>3, <1>4, <1>5 DEF Next

\* An order says something new only when it is completed or refunded.
LEMMA SaysStays ==
  ASSUME TypeOK, [Next]_vars, NEW o \in Orders,
         status'[o] = status[o] \/ status'[o] \notin {"completed", "refunded"}
  PROVE  SaysOf(o)' = SaysOf(o)
BY CompletedStays, RefundedStays DEF SaysOf

\* The promise of an order depends on its own requests, money and status only.
LEMMA PromiseStays ==
  ASSUME NEW o \in Orders, o \in retried' <=> o \in retried,
         \A r \in Requests :
           /\ fragment'[r].order = o <=> fragment[r].order = o
           /\ fragment[r].order = o => fragment'[r].state = fragment[r].state,
         money'[o] = money[o], SaysOf(o)' = SaysOf(o)
  PROVE  PromiseOf(o)' = PromiseOf(o)
<1>1. Answers(o)' = Answers(o)
  BY DEF Answers
<1>2. CashOf(o)' = CashOf(o)
  BY DEF CashOf
<1>3. QED BY <1>1, <1>2 DEF PromiseOf, StarsOf

LEMMA TakenOverStays ==
  ASSUME NEW o \in retried, o \in retried' PROVE PromiseOf(o)' = PromiseOf(o)
BY DEF PromiseOf

\* A purchase that is over gives no Stars any more, and is not completed.
LEMMA OverPromise ==
  ASSUME Inv, NEW o \in Orders, Over(o)
  PROVE  StarsOf(o) \in {"none", "refused"} /\ status[o] # "completed"
<1>1. Answers(o) \subseteq Dead
  BY DEF Over, Answers
<1>2. status[o] # "completed"
  BY DEF Over, Dead, Inv, TxInv
<1>3. QED BY <1>1, <1>2 DEF StarsOf, StarsFrom, Dead

\* The steps of the promise, read off the values of one order.
LEMMA PromiseSteps ==
  ASSUME NEW o \in Orders, \A p \in Orders \ {o} : PromiseOf(p)' = PromiseOf(p),
         NEW old, old = PromiseOf(o), NEW new, new = PromiseOf(o)',
         \/ new = old
         \/ /\ old.stars = "none" /\ old.cash = "kept"
            /\ new = [old EXCEPT !.stars = "asked"]
         \/ /\ old.stars = "asked"
            /\ \E answer \in {"given", "refused"} : new = [old EXCEPT !.stars = answer]
         \/ /\ old.stars # "not promised" /\ old.says = "open"
            /\ \/ old.stars = "given" /\ new = [old EXCEPT !.says = "completed"]
               \/ old.cash = "returned" /\ new = [old EXCEPT !.says = "refunded"]
         \/ new = Promise!TakenOver
  PROVE  [Promise!Next]_Mapped
<1>1. CASE new = old
  BY <1>1 DEF Mapped
<1>2. CASE new # old
  <2> DEFINE f == [p \in Orders |-> PromiseOf(p)]
  <2>1. f' # f
    BY <1>2
  <2>2. f[o] = old /\ f' = [f EXCEPT ![o] = new]
    OBVIOUS
  <2>3. Promise!TakenOver.stars = "not promised"
    BY DEF Promise!TakenOver
  <2> HIDE DEF f
  <2>4. ASSUME old.stars # "not promised" PROVE Promise!Kept(o)
    BY <2>2, <2>3, <2>4 DEF Promise!Kept, f
  <2>5. CASE /\ old.stars = "none" /\ old.cash = "kept"
             /\ new = [old EXCEPT !.stars = "asked"]
    <3>1. f[o].stars = "none" /\ f[o].cash = "kept"
      BY <2>2, <2>5
    <3>2. f' = [f EXCEPT ![o] = [f[o] EXCEPT !.stars = "asked"]]
      BY <2>2, <2>5
    <3>3. Promise!AskForStars(o)
      BY <2>4, <2>5, <3>1, <3>2 DEF Promise!AskForStars, Promise!Becomes, f
    <3>4. QED BY <2>1, <3>3 DEF Promise!Next, Mapped, f
  <2>6. ASSUME NEW answer \in {"given", "refused"}, old.stars = "asked",
               new = [old EXCEPT !.stars = answer]
        PROVE  [Promise!Next]_Mapped
    <3>1. f[o].stars = "asked"
      BY <2>2, <2>6
    <3>2. f' = [f EXCEPT ![o] = [f[o] EXCEPT !.stars = answer]]
      BY <2>2, <2>6
    <3>3. Promise!StarsDecided(o)
      BY <2>4, <2>6, <3>1, <3>2 DEF Promise!StarsDecided, Promise!Becomes, f
    <3>4. QED BY <2>1, <3>3 DEF Promise!Next, Mapped, f
  <2>7. CASE old.stars = "given" /\ old.says = "open" /\ new = [old EXCEPT !.says = "completed"]
    <3>1. f[o].stars = "given" /\ f[o].says = "open"
      BY <2>2, <2>7
    <3>2. f' = [f EXCEPT ![o] = [f[o] EXCEPT !.says = "completed"]]
      BY <2>2, <2>7
    <3>3. Promise!Close(o)
      BY <2>4, <2>7, <3>1, <3>2 DEF Promise!Close, Promise!Becomes, f
    <3>4. QED BY <2>1, <3>3 DEF Promise!Next, Mapped, f
  <2>8. CASE /\ old.stars # "not promised" /\ old.says = "open"
             /\ old.cash = "returned" /\ new = [old EXCEPT !.says = "refunded"]
    <3>1. f[o].cash = "returned" /\ f[o].says = "open"
      BY <2>2, <2>8
    <3>2. f' = [f EXCEPT ![o] = [f[o] EXCEPT !.says = "refunded"]]
      BY <2>2, <2>8
    <3>3. Promise!Close(o)
      BY <2>4, <2>8, <3>1, <3>2 DEF Promise!Close, Promise!Becomes, f
    <3>4. QED BY <2>1, <3>3 DEF Promise!Next, Mapped, f
  <2>9. CASE new = Promise!TakenOver
    BY <2>1, <2>2, <2>9 DEF Promise!TakeOver, Promise!Becomes, Promise!Next, Mapped, f
  <2>10. QED BY <1>2, <2>5, <2>6, <2>7, <2>8, <2>9
<1>3. QED BY <1>1, <1>2

LEMMA NewlySaid ==
  ASSUME NEW stars, NEW cash, NEW says, NEW now,
         NEW old, old = [stars |-> stars, cash |-> cash, says |-> says],
         NEW new, new = [stars |-> stars, cash |-> cash, says |-> now]
  PROVE  new = [old EXCEPT !.says = now]
OBVIOUS

LEMMA ReturnStep ==
  ASSUME NEW o \in Orders, \A p \in Orders \ {o} : PromiseOf(p)' = PromiseOf(p),
         NEW stars \in {"none", "refused"},
         NEW old, PromiseOf(o) = [stars |-> stars, cash |-> old, says |-> "open"],
         NEW cash \in Promise!Cash, NEW says \in {"open", "refunded"},
         PromiseOf(o)' = [stars |-> stars, cash |-> cash, says |-> says],
         old # "returned", says = "refunded" => cash = "returned"
  PROVE  [Promise!Next]_Mapped
<1> DEFINE f == [p \in Orders |-> PromiseOf(p)]
<1>1. CASE PromiseOf(o)' = PromiseOf(o)
  BY <1>1 DEF Mapped
<1>2. CASE PromiseOf(o)' # PromiseOf(o)
  <2>1. f' # f
    BY <1>2
  <2>2. /\ f[o] = PromiseOf(o)
        /\ f' = [f EXCEPT ![o] = [stars |-> stars, cash |-> cash, says |-> says]]
    OBVIOUS
  <2>3. f[o].stars = stars /\ f[o].cash = old /\ f[o].says = "open"
    BY <2>2
  <2> HIDE DEF f
  <2>4. Promise!TakenOver.stars = "not promised"
    BY DEF Promise!TakenOver
  <2>5. Promise!ReturnMoney(o)
    BY <2>2, <2>3, <2>4 DEF Promise!ReturnMoney, Promise!Kept, Promise!Becomes, f
  <2>6. QED BY <2>1, <2>5 DEF Promise!Next, Mapped, f
<1>3. QED BY <1>1, <1>2

LEMMA DeliverKeeps ==
  ASSUME TypeOK, Inv, [Next]_vars, NEW t \in Tasks, Deliver(t) PROVE Mapped' = Mapped
<1>1. /\ UNCHANGED <<fragment, money, retried>>
      /\ \A p \in Orders : \/ status'[p] = status[p]
                           \/ status'[p] \in {"manual_review", "purchase_processing"}
  BY DeliverMoves DEF Inv, OtherOrdersKeep
<1>2. \A p \in Orders : PromiseOf(p)' = PromiseOf(p)
  BY <1>1, SaysStays, PromiseStays
<1>3. QED BY <1>2 DEF Mapped

\* The POST of a purchase that was not retried is its first, and no money is back.
LEMMA CallKeeps ==
  ASSUME TypeOK, Inv, [Next]_vars, NEW t \in Tasks, Call(t), NEW o, o = task[t].order
  PROVE  [Promise!Next]_Mapped
<1>1. o \in Orders /\ UNCHANGED <<status, attempt, money, retried>>
  BY CallMoves
<1>2. \A p \in Orders : SaysOf(p)' = SaysOf(p)
  BY <1>1 DEF SaysOf
<1>3. CASE fragment' = fragment
  <2>1. \A p \in Orders : PromiseOf(p)' = PromiseOf(p)
    BY <1>1, <1>2, <1>3, PromiseStays
  <2>2. QED BY <2>1 DEF Mapped
<1>4. ASSUME NEW r \in Requests, fragment[r] = Unused, task[t].pc = "start",
             fragment' = [fragment EXCEPT
               ![r] = [state |-> "sent", order |-> o, tx |-> NoTx]]
      PROVE  [Promise!Next]_Mapped
  <2>1. /\ fragment[r].order = NoOrder /\ fragment'[r].order = o /\ fragment'[r].state = "sent"
        /\ \A q \in Requests \ {r} : fragment'[q] = fragment[q]
    BY <1>4 DEF Unused, TypeOK, FragmentOK
  <2>2. \A p \in Orders \ {o} : PromiseOf(p)' = PromiseOf(p)
    BY <1>1, <1>2, <2>1, PromiseStays, SentinelAssumption
  <2>3. CASE o \in retried
    <3>1. PromiseOf(o)' = PromiseOf(o)
      BY <1>1, <2>3, TakenOverStays
    <3>2. QED BY <1>1, <2>2, <3>1 DEF Mapped
  <2>4. CASE o \notin retried
    <3>1. /\ \A q \in Requests : fragment[q].order # o
          /\ money[o] = "none"
      BY <1>1, <1>4, <2>4 DEF Inv, PostInv, OverInv, Over, Starter
    <3>2. StarsOf(o) = "none" /\ CashOf(o) = "kept"
      BY <3>1 DEF StarsOf, StarsFrom, Answers, CashOf
    <3>3. Answers(o)' = {"sent"}
      BY <2>1, <3>1 DEF Answers
    <3>4. StarsOf(o)' = "asked" /\ CashOf(o)' = "kept"
      BY <1>1, <3>1, <3>3 DEF StarsOf, StarsFrom, CashOf, Dead
    <3>5. /\ PromiseOf(o) = [stars |-> "none", cash |-> "kept", says |-> SaysOf(o)]
          /\ PromiseOf(o)' = [stars |-> "asked", cash |-> "kept", says |-> SaysOf(o)]
      BY <1>1, <1>2, <2>4, <3>2, <3>4 DEF PromiseOf
    <3>6. /\ PromiseOf(o).stars = "none" /\ PromiseOf(o).cash = "kept"
          /\ PromiseOf(o)' = [PromiseOf(o) EXCEPT !.stars = "asked"]
      BY <3>5
    <3>7. QED BY <1>1, <2>2, <3>6, PromiseSteps
  <2>5. QED BY <2>3, <2>4
<1>5. QED BY <1>3, <1>4, CallMoves

\* An order that becomes COMPLETED has its Stars.
LEMMA ApplyKeeps ==
  ASSUME TypeOK, Inv, [Next]_vars, NEW t \in Tasks, Apply(t), NEW o, o = task[t].order
  PROVE  [Promise!Next]_Mapped
<1> DEFINE r0 == task[t].rid
<1>1. /\ o \in Orders /\ OtherOrdersKeep(o) /\ UNCHANGED <<fragment, money, retried>>
      /\ task[t].pc = "apply"
      /\ \/ status'[o] = status[o]
         \/ status'[o] \notin {"completed", "refunded"}
         \/ task[t].out = "succeeded" /\ status[o] # "completed" /\ status'[o] = "completed"
  BY ApplyMoves
<1>2. \A p \in Orders \ {o} : PromiseOf(p)' = PromiseOf(p)
  BY <1>1, SaysStays, PromiseStays DEF OtherOrdersKeep
<1>3. CASE \/ status'[o] = status[o] \/ status'[o] \notin {"completed", "refunded"}
           \/ o \in retried
  <2>1. PromiseOf(o)' = PromiseOf(o)
    BY <1>1, <1>3, SaysStays, PromiseStays, TakenOverStays
  <2>2. QED BY <1>1, <1>2, <2>1 DEF Mapped
<1>4. CASE /\ task[t].out = "succeeded" /\ status[o] # "completed" /\ status'[o] = "completed"
           /\ o \notin retried
  <2>1. r0 \in Requests /\ fragment[r0].order = o /\ fragment[r0].state = "completed"
    BY <1>1, <1>4 DEF Inv, ReferenceInv, TxInv, TypeOK, TaskOK, Task
  <2>2. "completed" \in Answers(o) /\ Answers(o)' = Answers(o)
    BY <1>1, <2>1 DEF Answers
  <2>3. StarsOf(o) = "given" /\ StarsOf(o)' = "given" /\ CashOf(o)' = CashOf(o)
    BY <1>1, <2>2 DEF StarsOf, StarsFrom, CashOf
  <2>4. SaysOf(o) = "open" /\ SaysOf(o)' = "completed"
    BY <1>1, <1>4, RefundedStays DEF SaysOf
  <2>5. /\ PromiseOf(o) = [stars |-> "given", cash |-> CashOf(o), says |-> "open"]
        /\ PromiseOf(o)' = [stars |-> "given", cash |-> CashOf(o), says |-> "completed"]
    BY <1>1, <1>4, <2>3, <2>4 DEF PromiseOf
  <2>6. /\ PromiseOf(o).stars = "given" /\ PromiseOf(o).says = "open"
        /\ PromiseOf(o)' = [PromiseOf(o) EXCEPT !.says = "completed"]
    BY <2>5
  <2>7. QED BY <1>1, <1>2, <2>6, PromiseSteps
<1>5. QED BY <1>1, <1>3, <1>4

\* The money moves only for a purchase that is over, and an order that moved it
\* is not closed yet.
LEMMA MoneyKeeps ==
  ASSUME TypeOK, Inv, [Next]_vars, NEW o \in Orders, o \notin retried => Over(o),
         money[o] # "succeeded", NEW m \in RefundStatus,
         money' = [money EXCEPT ![o] = m], UNCHANGED <<fragment, retried>>,
         \A p \in Orders \ {o} : status'[p] = status[p],
         status'[o] = status[o] \/ (status'[o] = "refunded" /\ m = "succeeded")
  PROVE  [Promise!Next]_Mapped
<1>1. /\ money'[o] = m /\ \A p \in Orders \ {o} : money'[p] = money[p]
  BY DEF TypeOK
<1>2. \A p \in Orders \ {o} : PromiseOf(p)' = PromiseOf(p)
  BY <1>1, SaysStays, PromiseStays
<1>3. CASE o \in retried
  BY <1>2, <1>3, TakenOverStays DEF Mapped
<1>4. CASE o \notin retried
  <2>1. StarsOf(o) \in {"none", "refused"} /\ status[o] \notin {"completed", "refunded"}
    BY <1>4, OverPromise DEF Inv, MoneyInv
  <2>2. /\ CashOf(o) # "returned" /\ CashOf(o)' \in Promise!Cash
        /\ m = "succeeded" => CashOf(o)' = "returned"
    BY <1>1 DEF CashOf, Promise!Cash
  <2>3. /\ SaysOf(o) = "open" /\ SaysOf(o)' \in {"open", "refunded"}
        /\ SaysOf(o)' = "refunded" => CashOf(o)' = "returned"
    BY <2>1, <2>2 DEF SaysOf
  <2>4. StarsOf(o)' = StarsOf(o)
    BY DEF StarsOf, Answers
  <2>5. /\ PromiseOf(o) = [stars |-> StarsOf(o), cash |-> CashOf(o), says |-> SaysOf(o)]
        /\ PromiseOf(o)' = [stars |-> StarsOf(o), cash |-> CashOf(o)', says |-> SaysOf(o)']
    BY <1>4, <2>4 DEF PromiseOf
  <2>6. QED BY <1>2, <2>1, <2>2, <2>3, <2>5, ReturnStep
<1>5. QED BY <1>3, <1>4

\* An order that becomes REFUNDED has its money back.
LEMMA RefundedKeeps ==
  ASSUME TypeOK, Inv, [Next]_vars, NEW o \in Orders, status[o] = "refund_required",
         money[o] = "succeeded", status' = [status EXCEPT ![o] = "refunded"],
         UNCHANGED <<fragment, money, retried>>
  PROVE  [Promise!Next]_Mapped
<1>1. /\ status'[o] = "refunded" /\ \A p \in Orders \ {o} : status'[p] = status[p]
  BY DEF TypeOK
<1>2. \A p \in Orders \ {o} : PromiseOf(p)' = PromiseOf(p)
  BY <1>1, SaysStays, PromiseStays
<1>3. CASE o \in retried
  BY <1>2, <1>3, TakenOverStays DEF Mapped
<1>4. CASE o \notin retried
  <2>1. StarsOf(o) \in {"none", "asked", "given", "refused"} /\ StarsOf(o)' = StarsOf(o)
    BY DEF StarsOf, StarsFrom, Answers
  <2>2. /\ CashOf(o) = "returned" /\ CashOf(o)' = "returned"
        /\ SaysOf(o) = "open" /\ SaysOf(o)' = "refunded"
    BY <1>1 DEF CashOf, SaysOf
  <2>3. /\ PromiseOf(o) = [stars |-> StarsOf(o), cash |-> "returned", says |-> "open"]
        /\ PromiseOf(o)' = [stars |-> StarsOf(o), cash |-> "returned", says |-> "refunded"]
    BY <1>4, <2>1, <2>2 DEF PromiseOf
  <2>4. /\ PromiseOf(o).stars # "not promised" /\ PromiseOf(o).says = "open"
        /\ PromiseOf(o).cash = "returned"
        /\ PromiseOf(o)' = [PromiseOf(o) EXCEPT !.says = "refunded"]
    <3>1. PromiseOf(o)' = [PromiseOf(o) EXCEPT !.says = "refunded"]
      BY <2>3, NewlySaid
    <3>2. /\ PromiseOf(o).stars = StarsOf(o) /\ PromiseOf(o).says = "open"
          /\ PromiseOf(o).cash = "returned"
      BY <2>3
    <3>3. QED BY <2>1, <3>1, <3>2
  <2>5. QED BY <1>2, <2>4, PromiseSteps
<1>5. QED BY <1>3, <1>4

LEMMA AdminKeeps ==
  ASSUME TypeOK, Inv, [Next]_vars, NEW t \in Tasks, Admin(t) PROVE [Promise!Next]_Mapped
<1>1. fragment' = fragment
  BY AdminMoves
<1>2. CASE UNCHANGED <<status, money, retried>>
  <2>1. \A p \in Orders : PromiseOf(p)' = PromiseOf(p)
    BY <1>1, <1>2, SaysStays, PromiseStays
  <2>2. QED BY <2>1 DEF Mapped
\* The approved retry takes the promise over.
<1>3. ASSUME NEW o \in Orders, money' = money, retried' = retried \union {o},
             OtherOrdersKeep(o)
      PROVE  [Promise!Next]_Mapped
  <2>1. \A p \in Orders \ {o} : PromiseOf(p)' = PromiseOf(p)
    BY <1>1, <1>3, SaysStays, PromiseStays DEF OtherOrdersKeep
  <2>2. PromiseOf(o)' = Promise!TakenOver
    BY <1>3 DEF PromiseOf, Promise!TakenOver
  <2>3. QED BY <2>1, <2>2, PromiseSteps
<1>4. ASSUME NEW o \in Orders, UNCHANGED <<money, retried>>,
             status' = [status EXCEPT ![o] = "manual_review"]
      PROVE  [Promise!Next]_Mapped
  <2>1. \A p \in Orders : status'[p] \in {status[p], "manual_review"}
    BY <1>4 DEF TypeOK
  <2>2. \A p \in Orders : PromiseOf(p)' = PromiseOf(p)
    BY <1>1, <1>4, <2>1, SaysStays, PromiseStays
  <2>3. QED BY <2>2 DEF Mapped
\* YooKassa makes the refund, once.
<1>5. ASSUME NEW o \in Orders, NEW m \in RefundStatus \ {"none"}, UNCHANGED <<status, retried>>,
             task[t].order = o, task[t].pc = "refund", money[o] \in {"none", m},
             money' = [money EXCEPT ![o] = m]
      PROVE  [Promise!Next]_Mapped
  <2>1. o \notin retried => Over(o)
    BY <1>5 DEF Inv, OverInv
  <2>2. CASE money[o] = "none"
    BY <1>1, <1>5, <2>1, <2>2, MoneyKeeps
  <2>3. CASE money[o] = m
    <3>1. money' = money
      BY <1>5, <2>3 DEF TypeOK
    <3>2. QED BY <1>2, <1>5, <3>1
  <2>4. QED BY <1>5, <2>2, <2>3
<1>6. ASSUME NEW o \in Orders, UNCHANGED <<money, retried>>, task[t].order = o,
             task[t].pc \in {"refunded", "synced"}, task[t].out = "succeeded",
             status[o] = "refund_required", status' = [status EXCEPT ![o] = "refunded"]
      PROVE  [Promise!Next]_Mapped
  <2>1. money[o] = "succeeded"
    BY <1>6 DEF Inv, MoneyInv
  <2>2. QED BY <1>1, <1>6, <2>1, RefundedKeeps
<1>7. QED BY ZenonT(60), <1>1, <1>2, <1>3, <1>4, <1>5, <1>6, AdminMoves

\* Fragment's answer decides about the Stars of the one order it is about.
LEMMA FragmentKeeps ==
  ASSUME TypeOK, Inv, [Next]_vars, NEW r \in Requests, FragmentAnswers(r) \/ FragmentSettles(r)
  PROVE  [Promise!Next]_Mapped
<1>1. /\ UNCHANGED <<status, money, retried>> /\ fragment[r].state \in {"sent", "queued"}
      /\ fragment'[r].order = fragment[r].order
      /\ fragment'[r].state \in Accepted \union Dead
      /\ \A q \in Requests \ {r} : fragment'[q] = fragment[q]
  BY DEF FragmentAnswers, FragmentSettles, TypeOK, FragmentOK, Request, Accepted, Dead
<1>2. PICK o \in Orders : fragment[r].order = o
  BY <1>1 DEF TypeOK, FragmentOK, Request, Inv, FragmentInv
<1>3. \A p \in Orders \ {o} : PromiseOf(p)' = PromiseOf(p)
  BY <1>1, <1>2, SaysStays, PromiseStays
<1>4. CASE o \in retried
  BY <1>1, <1>3, <1>4, TakenOverStays DEF Mapped
<1>5. CASE o \notin retried
  <2> DEFINE s == fragment'[r].state
             stars == IF s = "completed" THEN "given" ELSE IF s \in Dead THEN "refused" ELSE "asked"
  <2>1. \A q \in Requests : fragment[q].order = o => q = r
    BY <1>2, <1>5 DEF Inv, PostInv
  <2>2. Answers(o) = {fragment[r].state} /\ Answers(o)' = {s}
    BY <1>1, <1>2, <2>1 DEF Answers
  <2>3. StarsOf(o) = "asked" /\ StarsOf(o)' = stars
    <3>1. StarsOf(o) = "asked"
      BY <1>1, <2>2 DEF StarsOf, StarsFrom, Dead
    <3>2. StarsOf(o)' = stars
      BY <2>2 DEF StarsOf, StarsFrom
    <3>3. QED BY <3>1, <3>2
  <2>4. SaysOf(o)' = SaysOf(o) /\ CashOf(o)' = CashOf(o)
    BY <1>1 DEF SaysOf, CashOf
  <2>5. /\ PromiseOf(o) = [stars |-> "asked", cash |-> CashOf(o), says |-> SaysOf(o)]
        /\ PromiseOf(o)' = [stars |-> stars, cash |-> CashOf(o), says |-> SaysOf(o)]
    BY <1>1, <1>5, <2>3, <2>4 DEF PromiseOf
  <2>6. stars \in {"asked", "given", "refused"}
    OBVIOUS
  <2> HIDE DEF stars
  <2>7. /\ PromiseOf(o).stars = "asked"
        /\ \/ PromiseOf(o)' = PromiseOf(o)
           \/ \E answer \in {"given", "refused"} :
                PromiseOf(o)' = [PromiseOf(o) EXCEPT !.stars = answer]
    BY <2>5, <2>6
  <2>8. QED BY <1>3, <2>7, PromiseSteps
<1>6. QED BY <1>4, <1>5

LEMMA RestKeeps ==
  ASSUME TypeOK, Inv, [Next]_vars,
         \/ \E o \in Orders :
              ConfirmPayment(o) \/ MoveToManualReview(o) \/ MarkRefunded(o) \/ MoneySettles(o)
         \/ \E r \in Requests : FragmentAnswers(r) \/ FragmentSettles(r)
         \/ \E p \in Processes : Crash(p)
         \/ \E t \in Tasks, o \in Orders : PickRecoverable(t, o)
         \/ SetPurchasesEnabled \/ UNCHANGED vars
  PROVE  [Promise!Next]_Mapped
<1>1. ASSUME NEW o \in Orders, ConfirmPayment(o) \/ MoveToManualReview(o)
      PROVE  [Promise!Next]_Mapped
  <2>1. /\ UNCHANGED <<fragment, money, retried>>
        /\ \A p \in Orders : status'[p] \in {status[p], "manual_review", "paid"}
    BY <1>1 DEF ConfirmPayment, MoveToManualReview, SetStatus, TypeOK
  <2>2. \A p \in Orders : PromiseOf(p)' = PromiseOf(p)
    BY <2>1, SaysStays, PromiseStays
  <2>3. QED BY <2>2 DEF Mapped
<1>2. ASSUME NEW o \in Orders, MarkRefunded(o) PROVE [Promise!Next]_Mapped
  <2>1. /\ UNCHANGED <<fragment, retried>> /\ status[o] = "refund_required"
        /\ status' = [status EXCEPT ![o] = "refunded"]
    BY <1>2 DEF MarkRefunded, SetStatus
  <2>2. CASE money[o] = "succeeded"
    <3>1. money' = money
      BY <1>2, <2>2 DEF MarkRefunded, TypeOK
    <3>2. QED BY <2>1, <2>2, <3>1, RefundedKeeps
  <2>3. CASE money[o] # "succeeded" /\ o \notin YooKassa
    <3>1. money' = [money EXCEPT ![o] = "succeeded"]
      BY <1>2, <2>3 DEF MarkRefunded
    <3>2. o \notin retried => Over(o)
      BY <2>1 DEF Inv, OverInv
    <3>3. status'[o] = "refunded" /\ \A p \in Orders \ {o} : status'[p] = status[p]
      BY <2>1 DEF TypeOK
    <3>4. QED BY <2>1, <2>3, <3>1, <3>2, <3>3, MoneyKeeps DEF RefundStatus
  <2>4. CASE money[o] # "succeeded" /\ o \in YooKassa
    BY <1>2, <2>4 DEF MarkRefunded, Inv, MoneyInv
  <2>5. QED BY <2>2, <2>3, <2>4
<1>3. ASSUME NEW o \in Orders, MoneySettles(o) PROVE [Promise!Next]_Mapped
  <2>1. PICK m \in {"succeeded", "canceled"} : money' = [money EXCEPT ![o] = m]
    BY <1>3 DEF MoneySettles
  <2>2. o \notin retried => Over(o)
    BY <1>3 DEF MoneySettles, Inv, OverInv
  <2>3. QED BY <1>3, <2>1, <2>2, MoneyKeeps DEF MoneySettles, RefundStatus
<1>4. CASE \/ \E p \in Processes : Crash(p)
           \/ \E t \in Tasks, o \in Orders : PickRecoverable(t, o)
           \/ SetPurchasesEnabled \/ UNCHANGED vars
  <2>1. UNCHANGED <<status, fragment, money, retried>>
    BY <1>4 DEF Crash, PickRecoverable, SetPurchasesEnabled, vars
  <2>2. \A p \in Orders : PromiseOf(p)' = PromiseOf(p)
    BY <2>1, SaysStays, PromiseStays
  <2>3. QED BY <2>2 DEF Mapped
<1>5. QED BY <1>1, <1>2, <1>3, <1>4, FragmentKeeps

LEMMA StepKeeps == TypeOK /\ Inv /\ [Next]_vars => [Promise!Next]_Mapped
<1> SUFFICES ASSUME TypeOK, Inv, [Next]_vars PROVE [Promise!Next]_Mapped
  OBVIOUS
<1>1. ASSUME NEW t \in Tasks, Deliver(t) \/ Call(t) \/ Apply(t) \/ Admin(t)
      PROVE  [Promise!Next]_Mapped
  BY <1>1, DeliverKeeps, CallKeeps, ApplyKeeps, AdminKeeps
<1>2. QED BY <1>1, RestKeeps DEF Next

\* Whatever happens, an order is posted once at most, is refunded only without
\* Stars and says only what is true, until a balance retry is approved.
THEOREM PromiseKept == Spec => KeepsPromise
<1>1. Init => Promise!Init
  <2> SUFFICES ASSUME Init, NEW o \in Orders PROVE PromiseOf(o) = Promise!NewPromise
    BY DEF Promise!Init
  <2>1. Answers(o) = {}
    BY SentinelAssumption DEF Init, Answers, Unused
  <2>2. CashOf(o) = "kept" /\ SaysOf(o) = "open" /\ StarsOf(o) = "none" /\ o \notin retried
    BY <2>1 DEF Init, CashOf, SaysOf, StarsOf, StarsFrom
  <2>3. QED BY <2>2 DEF PromiseOf, Promise!NewPromise
<1>2. QED
  BY <1>1, StepKeeps, TypeCorrect, InvariantHolds, PTL
  DEF Spec, KeepsPromise, Promise!Spec, Mapped
=============================================================================
