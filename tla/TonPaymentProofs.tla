------------------------- MODULE TonPaymentProofs -------------------------
(***************************************************************************)
(* Proofs that the safety properties of TonPayment hold for every set of   *)
(* orders, transfers and hashes, and for any number of scans at once.      *)
(*                                                                         *)
(* A step reads and writes the rows whatever the monitor's batch holds, so *)
(* only the types of queue and batch depend on what the monitor lists: the *)
(* queue stays an arrangement of the orders, and no page of it is longer   *)
(* than a batch.                                                           *)
(***************************************************************************)
EXTENDS TonPayment, FiniteSetTheorems, SequenceTheorems, WellFoundedInduction, TLAPS

USE DEF Awaiting, Closed

-----------------------------------------------------------------------------
(* Types *)

LEMMA IdleType == Idle \in Task /\ Idle.pc = "idle"
  BY DEF Idle, Task

LEMMA TypeInit == Init => RowsOK
<1> SUFFICES ASSUME Init PROVE RowsOK
  OBVIOUS
<1>1. Unsent \in Transfer /\ NoPayment \in Payment
  BY TimeAssumption DEF Unsent, Transfer, NoPayment, Payment, PaymentStatus
<1>2. TaskOK
  BY IdleType DEF Init, TaskOK
<1> QED
  BY <1>1, <1>2, TimeAssumption DEF Init, RowsOK, OrderStatus, Reason

\* Whatever a task becomes, if it is well formed the tasks are.
LEMMA TaskSet ==
  ASSUME TaskOK, NEW t \in Tasks, NEW new \in Task, SetTask(t, new),
         new.pc # "idle" => new.order \in Orders,
         new.pc = "record" => new.seen \in Transfers
  PROVE  TaskOK'
  BY DEF TaskOK, SetTask

LEMMA TaskEnds ==
  ASSUME TaskOK, NEW t \in Tasks, SetTask(t, Idle)
  PROVE  TaskOK'
  BY IdleType, TaskSet

\* What a scan begins and goes on with.
LEMMA BegunType ==
  ASSUME NEW o \in Orders
  PROVE  /\ [Idle EXCEPT !.pc = "find", !.order = o] \in Task
         /\ [Idle EXCEPT !.pc = "find", !.order = o].order = o
         /\ [Idle EXCEPT !.pc = "find", !.order = o].pc = "find"
  BY DEF Idle, Task

LEMMA SeesType ==
  ASSUME NEW old \in Task, NEW x \in Transfers
  PROVE  LET new == [old EXCEPT !.pc = "record", !.seen = x]
         IN new \in Task /\ new.order = old.order /\ new.seen = x /\ new.pc = "record"
  BY DEF Task

LEMMA SeesNoneType ==
  ASSUME NEW old \in Task
  PROVE  LET new == [old EXCEPT !.pc = "expire"]
         IN new \in Task /\ new.order = old.order /\ new.pc = "expire"
  BY DEF Task

\* A step on the rows of one order keeps their types.
LEMMA MoveType ==
  ASSUME RowsOK, NEW o \in Orders, NEW s \in OrderStatus, Move(o, s)
  PROVE  status' \in [Orders -> OrderStatus]
  BY DEF RowsOK, Move

LEMMA ReviewType ==
  ASSUME RowsOK, NEW o \in Orders, NEW why \in Reason, Review(o, why)
  PROVE  status' \in [Orders -> OrderStatus] /\ reason' \in [Orders -> Reason]
<1>1. "manual_review" \in OrderStatus
  BY DEF OrderStatus
<1> QED
  BY <1>1, MoveType DEF RowsOK, Review

LEMMA AttachType ==
  ASSUME RowsOK, NEW o \in Orders, NEW x \in Transfers, NEW s \in PaymentStatus,
         Attach(o, x, s)
  PROVE  payment' \in [Orders -> Payment]
<1>1. payment[o] \in Payment /\ ledger[x] \in Transfer
  BY DEF RowsOK
<1>2. [status |-> s, hash |-> ledger[x].hash, exact |-> ledger[x].exact] \in Payment
  BY <1>1 DEF Payment, Transfer
<1>3. [payment[o] EXCEPT !.status = s] \in Payment
  BY <1>1 DEF Payment
<1> QED
  BY <1>2, <1>3 DEF RowsOK, Attach, SetPayment

LEMMA VerdictType ==
  ASSUME NEW o \in Orders, NEW x \in Transfers
  PROVE  Verdict(o, x) \in Reason
  BY DEF Verdict, Reason

LEMMA AdvancedType ==
  ASSUME NEW o \in Orders, NEW x \in Transfers
  PROVE  Advanced(o, x) \in OrderStatus /\ PaymentAfter(Advanced(o, x)) \in PaymentStatus
  BY DEF Advanced, PaymentAfter, OrderStatus, PaymentStatus

\* The steps of the buyer, the administrator and the worker.
LEMMA OrderStepType ==
  ASSUME RowsOK, NEW o \in Orders,
         Initiate(o) \/ Cancel(o) \/ MoveToManualReview(o) \/ TakeUp(o)
  PROVE  RowsOK'
<1>1. CASE Initiate(o)
  <2>1. "waiting_for_payment" \in OrderStatus
    BY DEF OrderStatus
  <2>2. [NoPayment EXCEPT !.status = "created"] \in Payment
    BY DEF NoPayment, Payment, PaymentStatus
  <2>3. now + Ttl \in 0..MaxTime
    BY <1>1, TimeAssumption DEF Initiate, RowsOK
  <2>4. expires' \in [Orders -> 0..MaxTime] /\ payment' \in [Orders -> Payment]
    BY <1>1, <2>2, <2>3 DEF Initiate, RowsOK, SetPayment
  <2>5. status' \in [Orders -> OrderStatus]
    BY <1>1, <2>1, MoveType DEF Initiate
  <2> QED
    BY <1>1, <2>4, <2>5 DEF Initiate, RowsOK, TaskOK
<1>2. CASE Cancel(o)
  <2>1. "cancelled" \in OrderStatus
    BY DEF OrderStatus
  <2>2. status' \in [Orders -> OrderStatus]
    BY <1>2, <2>1, MoveType DEF Cancel
  <2> QED
    BY <1>2, <2>2 DEF Cancel, RowsOK, TaskOK
<1>3. CASE MoveToManualReview(o)
  <2>1. "admin" \in Reason
    BY DEF Reason
  <2>2. status' \in [Orders -> OrderStatus] /\ reason' \in [Orders -> Reason]
    BY <1>3, <2>1, ReviewType DEF MoveToManualReview
  <2> QED
    BY <1>3, <2>2 DEF MoveToManualReview, RowsOK, TaskOK
<1>4. CASE TakeUp(o)
  <2>1. "unconfirmed" \in Reason /\ "purchase_processing" \in OrderStatus
    BY DEF Reason, OrderStatus
  <2>2. status' \in [Orders -> OrderStatus] /\ reason' \in [Orders -> Reason]
    BY <1>4, <2>1, ReviewType, MoveType DEF TakeUp, RowsOK
  <2> QED
    BY <1>4, <2>2 DEF TakeUp, RowsOK, TaskOK
<1> QED
  BY <1>1, <1>2, <1>3, <1>4

\* The steps that change no row of an order.
LEMMA ScanType ==
  ASSUME RowsOK, NEW t \in Tasks,
         Find(t) \/ ExpireNothing(t) \/ RecordNothing(t) \/ Stops(t)
           \/ \E o \in Orders : BeginCheck(t, o)
  PROVE  RowsOK'
<1>1. TaskOK /\ task[t] \in Task
  BY DEF RowsOK, TaskOK
<1>2. CASE FindSees(t)
  <2>1. PICK x \in Transfers : SetTask(t, [task[t] EXCEPT !.pc = "record", !.seen = x])
    BY <1>2 DEF FindSees
  <2>2. task[t].order \in Orders
    BY <1>1, <1>2 DEF FindSees, TaskOK
  <2> DEFINE new == [task[t] EXCEPT !.pc = "record", !.seen = x]
  <2>3. new \in Task /\ new.order = task[t].order /\ new.seen = x
    BY <1>1, SeesType
  <2>4. SetTask(t, new)
    BY <2>1
  <2> HIDE DEF new
  <2>5. TaskOK'
    BY <1>1, <2>2, <2>3, <2>4, TaskSet
  <2> QED
    BY <1>2, <2>5 DEF FindSees, RowsOK
<1>3. CASE FindSeesNone(t)
  <2>1. task[t].order \in Orders
    BY <1>1, <1>3 DEF FindSeesNone, TaskOK
  <2> DEFINE new == [task[t] EXCEPT !.pc = "expire"]
  <2>2. new \in Task /\ new.order = task[t].order /\ new.pc = "expire"
    BY <1>1, SeesNoneType
  <2>3. SetTask(t, new)
    BY <1>3 DEF FindSeesNone
  <2> HIDE DEF new
  <2>4. TaskOK'
    BY <1>1, <2>1, <2>2, <2>3, TaskSet
  <2> QED
    BY <1>3, <2>4 DEF FindSeesNone, RowsOK
<1>4. CASE ExpireNothing(t) \/ RecordNothing(t) \/ Stops(t)
  <2>1. TaskOK'
    BY <1>1, <1>4, TaskEnds DEF ExpireNothing, RecordNothing, Stops
  <2> QED
    BY <1>4, <2>1 DEF ExpireNothing, RecordNothing, Stops, RowsOK
<1>5. CASE \E o \in Orders : BeginCheck(t, o)
  <2>1. PICK o \in Orders : BeginCheck(t, o)
    BY <1>5
  <2>2. TaskOK'
    BY <1>1, <2>1, BegunType, TaskSet DEF BeginCheck
  <2> QED
    BY <2>1, <2>2 DEF BeginCheck, RowsOK
<1> QED
  BY <1>2, <1>3, <1>4, <1>5 DEF Find

\* The steps of a scan that end in the rows of its order.
LEMMA OutcomeType ==
  ASSUME RowsOK, NEW t \in Tasks,
         Expire(t) \/ RecordConflict(t) \/ RecordReview(t) \/ RecordProgress(t)
  PROVE  RowsOK'
<1> DEFINE o == task[t].order
           x == task[t].seen
<1>1. TaskOK /\ o \in Orders
  BY DEF RowsOK, TaskOK, Expire, RecordConflict, RecordReview, RecordProgress, Recording
<1>2. TaskOK'
  BY <1>1, TaskEnds DEF Expire, RecordConflict, RecordReview, RecordProgress
<1>3. {"lost", "multiple", "duplicate"} \subseteq Reason
  BY DEF Reason
<1>4. {"expired", "manual_review"} \subseteq PaymentStatus /\ "payment_expired" \in OrderStatus
  BY DEF PaymentStatus, OrderStatus
<1>5. CASE Expire(t)
  <2>1. payment' \in [Orders -> Payment]
    <3>1. \A s \in PaymentStatus : [payment[o] EXCEPT !.status = s] \in Payment
      BY <1>1 DEF RowsOK, Payment
    <3> QED
      BY <1>1, <1>4, <1>5, <3>1 DEF Expire, RowsOK, SetPayment
  <2>2. CASE status[o] = "waiting_for_payment"
    <3>1. status' \in [Orders -> OrderStatus] /\ UNCHANGED reason
      BY <1>1, <1>4, <1>5, <2>2, MoveType DEF Expire
    <3> QED
      BY <1>2, <1>5, <2>1, <3>1 DEF Expire, RowsOK
  <2>3. CASE status[o] # "waiting_for_payment"
    <3>1. Review(o, "lost")
      BY <1>5, <2>3 DEF Expire
    <3>2. status' \in [Orders -> OrderStatus] /\ reason' \in [Orders -> Reason]
      BY <1>1, <1>3, <3>1, ReviewType
    <3> QED
      BY <1>2, <1>5, <2>1, <3>2 DEF Expire, RowsOK
  <2> QED
    BY <2>2, <2>3
<1>6. CASE RecordConflict(t)
  <2>1. Review(o, "multiple") \/ Review(o, "duplicate")
    BY <1>6 DEF RecordConflict
  <2>2. status' \in [Orders -> OrderStatus] /\ reason' \in [Orders -> Reason]
    BY <1>1, <1>3, <2>1, ReviewType
  <2> QED
    BY <1>2, <1>6, <2>2 DEF RecordConflict, RowsOK
<1>7. CASE RecordReview(t)
  <2>1. x \in Transfers
    BY <1>1, <1>7 DEF RecordReview, Recording, TaskOK
  <2>2. Review(o, Verdict(o, x)) /\ Attach(o, x, "manual_review")
    BY <1>7 DEF RecordReview
  <2>3. Verdict(o, x) \in Reason
    BY <1>1, <2>1, VerdictType
  <2>4. status' \in [Orders -> OrderStatus] /\ reason' \in [Orders -> Reason]
    BY <1>1, <2>2, <2>3, ReviewType
  <2>5. payment' \in [Orders -> Payment]
    BY <1>1, <1>4, <2>1, <2>2, AttachType
  <2> QED
    BY <1>2, <1>7, <2>4, <2>5 DEF RecordReview, RowsOK
<1>8. CASE RecordProgress(t)
  <2>1. x \in Transfers
    BY <1>1, <1>8 DEF RecordProgress, Recording, TaskOK
  <2>2. Move(o, Advanced(o, x)) /\ Attach(o, x, PaymentAfter(Advanced(o, x)))
    BY <1>8 DEF RecordProgress
  <2>3. Advanced(o, x) \in OrderStatus /\ PaymentAfter(Advanced(o, x)) \in PaymentStatus
    BY <1>1, <2>1, AdvancedType
  <2>4. status' \in [Orders -> OrderStatus]
    BY <1>1, <2>2, <2>3, MoveType
  <2>5. payment' \in [Orders -> Payment]
    BY <1>1, <2>1, <2>2, <2>3, AttachType
  <2> QED
    BY <1>2, <1>8, <2>4, <2>5 DEF RecordProgress, RowsOK
<1> QED
  BY <1>5, <1>6, <1>7, <1>8

LEMMA OutsideType ==
  ASSUME RowsOK,
         ListOrders \/ (\E o \in Orders : BeginScan(o)) \/ (\E x \in Transfers : Send(x)) \/ Tick
  PROVE  RowsOK'
<1>1. CASE ListOrders
  BY <1>1 DEF ListOrders, RowsOK, TaskOK
<1>2. CASE \E o \in Orders : BeginScan(o)
  <2>1. PICK o \in Orders : BeginScan(o)
    BY <1>2
  <2>2. TaskOK'
    <3>1. CASE status[o] \in Scanned /\ expires[o] # 0
      BY <2>1, <3>1, BegunType, TaskSet, MonitorAssumption DEF BeginScan, RowsOK
    <3>2. CASE ~(status[o] \in Scanned /\ expires[o] # 0)
      BY <2>1, <3>2, TaskEnds, MonitorAssumption DEF BeginScan, RowsOK
    <3> QED
      BY <3>1, <3>2
  <2> QED
    BY <2>1, <2>2 DEF BeginScan, RowsOK
<1>3. CASE \E x \in Transfers : Send(x)
  <2>1. PICK x \in Transfers, o \in Orders, h \in Hashes, e \in BOOLEAN :
          /\ ledger' = [ledger EXCEPT ![x] =
                          [order |-> o, hash |-> h, exact |-> e, at |-> now]]
          /\ UNCHANGED <<now, status, reason, payment, expires, task>>
    BY ZenonT(60), <1>3 DEF Send
  <2>2. [order |-> o, hash |-> h, exact |-> e, at |-> now] \in Transfer
    BY DEF RowsOK, Transfer
  <2> QED
    BY <2>1, <2>2 DEF RowsOK, TaskOK
<1>4. CASE Tick
  BY <1>4, TimeAssumption DEF Tick, RowsOK, TaskOK
<1> QED
  BY <1>1, <1>2, <1>3, <1>4

LEMMA TypeStep == RowsOK /\ [Next]_vars => RowsOK'
<1> SUFFICES ASSUME RowsOK, [Next]_vars PROVE RowsOK'
  OBVIOUS
<1>1. CASE UNCHANGED vars
  BY <1>1 DEF vars, RowsOK, TaskOK
<1>2. CASE Next
  <2>1. ASSUME NEW t \in Tasks,
               Find(t) \/ ExpireIfNeeded(t) \/ Record(t) \/ Stops(t)
                 \/ \E o \in Orders : BeginCheck(t, o)
        PROVE  RowsOK'
    BY <2>1, ScanType, OutcomeType DEF ExpireIfNeeded, Record
  <2>2. ASSUME NEW o \in Orders,
               Initiate(o) \/ Cancel(o) \/ MoveToManualReview(o) \/ TakeUp(o)
        PROVE  RowsOK'
    BY <2>2, OrderStepType
  <2> QED
    BY <1>2, <2>1, <2>2, OutsideType DEF Next
<1> QED
  BY <1>1, <1>2

LEMMA RowsCorrect == Spec => []RowsOK
  BY TypeInit, TypeStep, PTL DEF Spec

-----------------------------------------------------------------------------
(* The queue and the batch *)

LEMMA FunctionIsSeq ==
  ASSUME NEW n \in Nat, NEW S, NEW q \in [1..n -> S]
  PROVE  q \in Seq(S) /\ Len(q) = n /\ DOMAIN q = 1..n
  OBVIOUS

LEMMA RemoveAtSeq ==
  ASSUME NEW n \in Nat, NEW S, NEW q \in [1..n -> S], NEW i \in 1..n
  PROVE  /\ RemoveAt(q, i) \in Seq(S)
         /\ Len(RemoveAt(q, i)) = n - 1
         /\ \A j \in 1..(n - 1) : RemoveAt(q, i)[j] = q[IF j < i THEN j ELSE j + 1]
<1>1. q \in Seq(S) /\ Len(q) = n
  BY FunctionIsSeq
<1>2. /\ SubSeq(q, 1, i - 1) \in Seq(S) /\ Len(SubSeq(q, 1, i - 1)) = i - 1
      /\ \A j \in 1..(i - 1) : SubSeq(q, 1, i - 1)[j] = q[j]
  BY <1>1
<1>3. /\ SubSeq(q, i + 1, n) \in Seq(S) /\ Len(SubSeq(q, i + 1, n)) = n - i
      /\ \A j \in 1..(n - i) : SubSeq(q, i + 1, n)[j] = q[j + i]
  BY <1>1
<1> DEFINE a == SubSeq(q, 1, i - 1)  b == SubSeq(q, i + 1, n)
<1>4. RemoveAt(q, i) = a \o b
  BY <1>1 DEF RemoveAt
<1> HIDE DEF a, b
<1>5. a \in Seq(S) /\ b \in Seq(S) /\ Len(a) = i - 1 /\ Len(b) = n - i
  BY <1>2, <1>3 DEF a, b
<1>6. /\ a \o b \in Seq(S) /\ Len(a \o b) = n - 1
      /\ \A j \in 1..(n - 1) : (a \o b)[j] = IF j < i THEN a[j] ELSE b[j - (i - 1)]
  <2>1. a \o b \in Seq(S) /\ Len(a \o b) = Len(a) + Len(b)
    BY <1>5, ConcatProperties
  <2>2. \A j \in 1..(Len(a) + Len(b)) :
          (a \o b)[j] = IF j <= Len(a) THEN a[j] ELSE b[j - Len(a)]
    BY <1>5, ConcatProperties
  <2> QED
    BY <2>1, <2>2, <1>5
<1>7. \A j \in 1..(n - 1) : (a \o b)[j] = q[IF j < i THEN j ELSE j + 1]
  <2> TAKE j \in 1..(n - 1)
  <2>1. CASE j < i
    BY <2>1, <1>6, <1>2 DEF a
  <2>2. CASE ~(j < i)
    <3>1. j - (i - 1) \in 1..(n - i)
      BY <2>2
    <3>2. b[j - (i - 1)] = q[j - (i - 1) + i]
      BY <3>1, <1>3 DEF b
    <3>3. j - (i - 1) + i = j + 1
      OBVIOUS
    <3> QED
      BY <2>2, <3>2, <3>3, <1>6
  <2> QED
    BY <2>1, <2>2
<1> QED
  BY <1>4, <1>6, <1>7

LEMMA PlaceType ==
  ASSUME queue \in SetToSeqs(Orders), NEW o \in Orders
  PROVE  Place(o) \in 1..Cardinality(Orders) /\ queue[Place(o)] = o
<1> DEFINE n == Cardinality(Orders)
<1>1. /\ n \in Nat /\ queue \in [1..n -> Orders]
      /\ \A i, j \in 1..n : i # j => queue[i] # queue[j]
  BY FS_CardinalityType, OrdersAssumption DEF SetToSeqs
<1>2. queue \in Injection(1..n, Orders)
  BY <1>1 DEF Injection, IsInjective
<1>3. IsFiniteSet(1..n) /\ Cardinality(1..n) = n
  BY <1>1, FS_Interval
<1>4. queue \in Surjection(1..n, Orders)
  BY <1>2, <1>3, FS_Injection, OrdersAssumption
<1>5. \E i \in DOMAIN queue : queue[i] = o
  BY <1>1, <1>4 DEF Surjection
<1> QED
  BY <1>1, <1>5 DEF Place

LEMMA QueueMoves ==
  ASSUME queue \in SetToSeqs(Orders), NEW o \in Orders
  PROVE  Append(RemoveAt(queue, Place(o)), o) \in SetToSeqs(Orders)
<1> DEFINE n == Cardinality(Orders)
           r == RemoveAt(queue, Place(o))
<1>1. /\ n \in Nat /\ queue \in [1..n -> Orders]
      /\ \A i, j \in 1..n : i # j => queue[i] # queue[j]
  BY FS_CardinalityType, OrdersAssumption DEF SetToSeqs
<1>2. PICK k \in 1..n : k = Place(o) /\ queue[k] = o
  BY PlaceType
<1>3. /\ r \in Seq(Orders) /\ Len(r) = n - 1
      /\ \A j \in 1..(n - 1) : r[j] = queue[IF j < k THEN j ELSE j + 1]
  <2> HIDE DEF n
  <2>1. /\ RemoveAt(queue, k) \in Seq(Orders) /\ Len(RemoveAt(queue, k)) = n - 1
        /\ \A j \in 1..(n - 1) : RemoveAt(queue, k)[j] = queue[IF j < k THEN j ELSE j + 1]
    BY <1>1, RemoveAtSeq, ZenonT(60)
  <2> QED
    BY <2>1, <1>2
<1> HIDE DEF r, n
<1>4. /\ Append(r, o) \in [1..n -> Orders]
      /\ \A j \in 1..(n - 1) : Append(r, o)[j] = r[j]
      /\ Append(r, o)[n] = o
  <2>1. /\ Append(r, o) \in Seq(Orders) /\ Len(Append(r, o)) = n
        /\ \A j \in 1..(n - 1) : Append(r, o)[j] = r[j]
        /\ Append(r, o)[n] = o
    BY <1>1, <1>3, AppendProperties
  <2>2. Append(r, o) \in [1..Len(Append(r, o)) -> Orders]
    BY <2>1, LenProperties, ElementOfSeq
  <2> QED
    BY <2>1, <2>2
<1>9. ASSUME NEW i \in 1..n, NEW j \in 1..n, i < j
      PROVE  Append(r, o)[i] # Append(r, o)[j]
  <2>5. i \in 1..(n - 1) /\ Append(r, o)[i] = queue[IF i < k THEN i ELSE i + 1]
    BY <1>9, <1>3, <1>4, <1>1
  <2>6. (IF i < k THEN i ELSE i + 1) \in 1..n /\ (IF i < k THEN i ELSE i + 1) # k
    BY <2>5, <1>2, <1>1
  <2>7. CASE j = n
    BY <2>7, <1>4, <2>5, <2>6, <1>1, <1>2
  <2>8. CASE j # n
    <3>1. j \in 1..(n - 1) /\ Append(r, o)[j] = queue[IF j < k THEN j ELSE j + 1]
      BY <2>8, <1>9, <1>3, <1>4, <1>1
    <3>2. (IF j < k THEN j ELSE j + 1) \in 1..n
          /\ (IF j < k THEN j ELSE j + 1) # (IF i < k THEN i ELSE i + 1)
      BY <3>1, <1>9, <2>5, <1>2, <1>1
    <3> QED
      BY <3>1, <3>2, <2>5, <2>6, <1>1
  <2> QED
    BY <2>7, <2>8
<1>10. \A i, j \in 1..n : i # j => Append(r, o)[i] # Append(r, o)[j]
  <2> SUFFICES ASSUME NEW i \in 1..n, NEW j \in 1..n, i # j
               PROVE  Append(r, o)[i] # Append(r, o)[j]
    OBVIOUS
  <2>1. i < j \/ j < i
    BY <1>1
  <2> QED
    BY <2>1, <1>9
<1>11. Append(r, o) \in SetToSeqs(Orders)
  BY <1>4, <1>10 DEF SetToSeqs, n
<1> QED
  BY <1>11 DEF r

\* Of finitely many elements that are ranked, one is ranked highest.
LEMMA HighestExists ==
  ASSUME NEW S, IsFiniteSet(S), S # {}, NEW rank \in [S -> Int]
  PROVE  \E m \in S : \A x \in S : rank[x] <= rank[m]
<1> DEFINE Above(x) == {y \in S : rank[y] > rank[x]}
           T == {Above(x) : x \in S}
<1> SUFFICES ASSUME \A m \in S : \E x \in S : ~ (rank[x] <= rank[m]) PROVE FALSE
  OBVIOUS
<1>1. T # {} /\ T \subseteq FiniteSubsetsOf(S)
  <2>1. \A x \in S : Above(x) \in SUBSET S /\ IsFiniteSet(Above(x))
    BY FS_Subset
  <2>2. \A x \in S : Above(x) \in FiniteSubsetsOf(S)
    BY <2>1 DEF FiniteSubsetsOf
  <2> HIDE DEF Above
  <2> QED
    BY <2>2
<1>2. IsWellFoundedOn(StrictSubsetOrdering(S), FiniteSubsetsOf(S))
  BY FS_StrictSubsetOrderingWellFounded
<1>3. PICK t \in T : \A u \in T : ~ (<<u, t>> \in StrictSubsetOrdering(S))
  BY <1>1, <1>2, WFMin
<1>4. PICK m \in S : t = Above(m)
  OBVIOUS
<1>5. PICK x \in S : ~ (rank[x] <= rank[m])
  OBVIOUS
<1>6. rank[x] > rank[m] /\ rank[x] \in Int /\ rank[m] \in Int
  BY <1>5
<1>7. Above(x) \subseteq Above(m) /\ x \in Above(m) /\ x \notin Above(x)
  BY <1>6
<1>8. Above(x) \in T /\ <<Above(x), Above(m)>> \in StrictSubsetOrdering(S)
  BY <1>7 DEF StrictSubsetOrdering
<1> QED
  BY <1>3, <1>4, <1>8

\* No more than k elements have less than k before them.
LEMMA FirstFew ==
  ASSUME NEW S, IsFiniteSet(S), NEW rank \in [S -> Int], NEW k \in Nat,
         \A x, y \in S : rank[x] = rank[y] => x = y
  PROVE  Cardinality({x \in S : Cardinality({y \in S : rank[y] < rank[x]}) < k}) <= k
<1> DEFINE Below(x) == {y \in S : rank[y] < rank[x]}
           P == {x \in S : Cardinality(Below(x)) < k}
<1>1. P \subseteq S /\ IsFiniteSet(P) /\ Cardinality(P) \in Nat
  BY FS_Subset, FS_CardinalityType
<1>2. CASE P = {}
  <2>1. Cardinality(P) = 0
    BY <1>2, FS_EmptySet
  <2> QED
    BY <2>1
<1>3. CASE P # {}
  <2>1. [x \in P |-> rank[x]] \in [P -> Int]
    BY <1>1
  <2>2. PICK m \in P : \A x \in P : [y \in P |-> rank[y]][x] <= [y \in P |-> rank[y]][m]
    BY <2>1, <1>1, <1>3, HighestExists
  <2>3. \A x \in P : rank[x] <= rank[m]
    BY <2>2
  <2>4. P \ {m} \subseteq Below(m)
    BY <2>3, <1>1
  <2>5. IsFiniteSet(Below(m)) /\ Cardinality(Below(m)) \in Nat /\ Cardinality(Below(m)) < k
    BY FS_Subset, FS_CardinalityType
  <2>6. Cardinality(P \ {m}) <= Cardinality(Below(m))
    BY <2>4, <2>5, FS_Subset
  <2>7. Cardinality(P \ {m}) = Cardinality(P) - 1
    BY <1>1, FS_RemoveElement
  <2> QED
    BY <2>5, <2>6, <2>7, <1>1
<1> QED
  BY <1>2, <1>3

\* A page holds no more orders than a batch.
LEMMA PageSize ==
  ASSUME queue \in SetToSeqs(Orders)
  PROVE  IsFiniteSet(Page) /\ Cardinality(Page) <= BatchSize
<1> DEFINE S == {p \in Orders : status[p] \in Scanned}
           rank == [p \in S |-> Place(p)]
<1>1. S \subseteq Orders /\ IsFiniteSet(S)
  BY OrdersAssumption, FS_Subset
<1>2. Cardinality(Orders) \in Nat
  BY OrdersAssumption, FS_CardinalityType
<1>3. \A p \in Orders : Place(p) \in Int /\ queue[Place(p)] = p
  BY <1>2, PlaceType
<1>4. rank \in [S -> Int] /\ \A x, y \in S : rank[x] = rank[y] => x = y
  BY <1>1, <1>3
<1>5. \A x \in S : {y \in S : rank[y] < rank[x]} = Before(x)
  BY <1>1 DEF Before
<1>6. Page = {x \in S : Cardinality({y \in S : rank[y] < rank[x]}) < BatchSize}
  BY <1>5, <1>1 DEF Page
<1> HIDE DEF S, rank
<1>7. BatchSize \in Nat
  BY BatchAssumption
<1>8. Cardinality({x \in S : Cardinality({y \in S : rank[y] < rank[x]}) < BatchSize}) <= BatchSize
  BY <1>1, <1>4, <1>7, FirstFew
<1>9. Page \subseteq S
  BY <1>6
<1> QED
  BY <1>1, <1>6, <1>8, <1>9, FS_Subset

LEMMA ListedType ==
  ASSUME queue \in SetToSeqs(Orders), NEW s \in Listed
  PROVE  s \in Seq(Orders) /\ Len(s) <= BatchSize
<1> DEFINE S == {o \in Page : InWindow(o)}
           n == Cardinality(S)
<1>1. S \subseteq Page /\ S \subseteq Orders
  BY DEF Page
<1>2. IsFiniteSet(S) /\ n \in Nat /\ n <= Cardinality(Page)
  BY <1>1, PageSize, FS_Subset, FS_CardinalityType
<1>3. s \in [1..n -> S]
  BY DEF Listed, SetToSeqs
<1> HIDE DEF S, n
<1>4. s \in Seq(S) /\ Len(s) = n
  BY <1>2, <1>3, FunctionIsSeq
<1>5. s \in Seq(Orders)
  BY <1>4, <1>1
<1>6. Cardinality(Page) <= BatchSize /\ Cardinality(Page) \in Nat
  BY PageSize, FS_CardinalityType
<1> QED
  BY <1>2, <1>4, <1>5, <1>6, BatchAssumption

\* What a step does to the queue and to the batch.
LEMMA QueueSteps ==
  ASSUME RowsOK, [Next]_vars
  PROVE  /\ queue' = queue \/ \E o \in Orders : queue' = Append(RemoveAt(queue, Place(o)), o)
         /\ \/ batch' \in {batch, <<>>} \/ batch' \in Listed
            \/ batch # <<>> /\ batch' = Tail(batch)
<1>1. CASE UNCHANGED vars
  BY <1>1 DEF vars
<1>2. ASSUME NEW t \in Tasks, Recording(t) \/ task[t].pc = "expire"
      PROVE  task[t].order \in Orders
  BY <1>2 DEF Recording, RowsOK, TaskOK
<1>3. ASSUME NEW t \in Tasks, ExpireIfNeeded(t) \/ Record(t)
      PROVE  batch' = batch /\ \/ queue' = queue
                               \/ \E o \in Orders : queue' = Append(RemoveAt(queue, Place(o)), o)
  BY <1>2, <1>3 DEF ExpireIfNeeded, Expire, ExpireNothing, Record, RecordNothing,
                    RecordConflict, RecordReview, RecordProgress, Review, Move
<1>4. ASSUME NEW t \in Tasks, Find(t) \/ Stops(t) \/ \E o \in Orders : BeginCheck(t, o)
      PROVE  queue' = queue /\ batch' \in {batch, <<>>}
  BY <1>4 DEF Find, FindSees, FindSeesNone, Stops, BeginCheck
<1>5. ASSUME NEW o \in Orders,
             Initiate(o) \/ Cancel(o) \/ MoveToManualReview(o) \/ TakeUp(o)
      PROVE  batch' = batch /\ (queue' = queue \/ queue' = Append(RemoveAt(queue, Place(o)), o))
  BY <1>5 DEF Initiate, Cancel, MoveToManualReview, TakeUp, Review, Move
<1>6. ASSUME ListOrders PROVE queue' = queue /\ batch' \in Listed
  BY <1>6 DEF ListOrders
<1>7. ASSUME NEW o \in Orders, BeginScan(o)
      PROVE  queue' = queue /\ batch # <<>> /\ batch' = Tail(batch)
  BY <1>7 DEF BeginScan
<1>8. ASSUME Tick \/ \E x \in Transfers : Send(x) PROVE queue' = queue /\ batch' = batch
  BY <1>8 DEF Tick, Send
<1> QED
  BY <1>1, <1>3, <1>4, <1>5, <1>6, <1>7, <1>8 DEF Next

LEMMA QueueStep ==
  ASSUME RowsOK, QueueOK, [Next]_vars
  PROVE  QueueOK'
<1>1. queue' \in SetToSeqs(Orders)
  BY QueueSteps, QueueMoves DEF QueueOK
<1>2. CASE batch' \in {batch, <<>>}
  <2>1. CASE batch' = batch
    BY <1>1, <2>1 DEF QueueOK
  <2>2. CASE batch' = <<>>
    <3>1. <<>> \in Seq(Orders) /\ Len(<<>>) = 0
      BY EmptySeq
    <3>2. 0 <= BatchSize
      BY BatchAssumption
    <3> QED
      BY <1>1, <2>2, <3>1, <3>2 DEF QueueOK
  <2> QED
    BY <1>2, <2>1, <2>2
<1>3. CASE batch' \in Listed
  BY <1>1, <1>3, ListedType DEF QueueOK
<1>4. CASE batch # <<>> /\ batch' = Tail(batch)
  <2>1. Tail(batch) \in Seq(Orders) /\ Len(Tail(batch)) <= BatchSize
    BY <1>4, BatchAssumption, HeadTailProperties DEF QueueOK
  <2> QED
    BY <1>1, <1>4, <2>1 DEF QueueOK
<1> QED
  BY <1>2, <1>3, <1>4, QueueSteps

\* Every variable keeps its type: in particular the queue stays an arrangement of
\* the orders, and the monitor never holds more of them than a batch
\* (OrderRepository.list_by_status, PaymentMonitor.tick).
THEOREM TypeCorrect == Spec => []TypeOK
<1>1. Init => TypeOK
  BY TypeInit, BatchAssumption DEF Init, TypeOK, QueueOK
<1>2. TypeOK /\ [Next]_vars => TypeOK'
  BY TypeStep, QueueStep DEF TypeOK
<1> QED
  BY <1>1, <1>2, PTL DEF Spec

-----------------------------------------------------------------------------
(* The inductive invariant *)

LEMMA InvInit == Init => Inv
  BY SentinelAssumption
  DEF Init, Inv, SeenInv, RowInv, RowFits, HashInv, PaidInv, Unsent, NoPayment, Idle

\* A step that leaves the rows alone, while time goes on.
LEMMA RowsKept ==
  ASSUME RowsOK, Inv, UNCHANGED <<status, payment, expires, ledger>>,
         now' \in Nat, now <= now'
  PROVE  RowInv' /\ HashInv' /\ PaidInv'
<1>1. RowInv' /\ HashInv'
  BY DEF Inv, RowInv, RowFits, Confirmed, HashInv
<1>2. PaidInv'
  <2> SUFFICES ASSUME NEW o \in Orders, status[o] \in {"paid", "purchase_processing"}
               PROVE  \E x \in Transfers : PaidBy(o, x)'
    BY DEF PaidInv
  <2>1. PICK x \in Transfers : PaidBy(o, x)
    BY DEF Inv, PaidInv
  <2>2. ledger[x].at \in Nat /\ now \in Nat
    BY DEF RowsOK, Transfer
  <2> QED
    BY <2>1, <2>2, TimeAssumption DEF PaidBy
<1> QED
  BY <1>1, <1>2

\* A step on the rows of one order, which may attach a transaction nobody has.
LEMMA OneOrder ==
  ASSUME RowsOK, Inv, NEW o \in Orders, UNCHANGED <<now, ledger>>,
         \A p \in Orders \ {o} :
           status'[p] = status[p] /\ payment'[p] = payment[p] /\ expires'[p] = expires[p],
         \/ payment'[o].hash \in {payment[o].hash, NoHash}
         \/ ~Taken(o, payment'[o].hash),
         RowFits(o)',
         status'[o] \in {"paid", "purchase_processing"} =>
           \E x \in Transfers : PaidBy(o, x)'
  PROVE  RowInv' /\ HashInv' /\ PaidInv'
<1>1. RowInv'
  <2> SUFFICES ASSUME NEW p \in Orders \ {o} PROVE RowFits(p)'
    BY DEF RowInv
  <2> QED
    BY DEF Inv, RowInv, RowFits, Confirmed
<1>2. HashInv'
  BY DEF Inv, HashInv, Taken
<1>3. PaidInv'
  <2> SUFFICES ASSUME NEW p \in Orders \ {o},
                      status'[p] \in {"paid", "purchase_processing"}
               PROVE  \E x \in Transfers : PaidBy(p, x)'
    BY DEF PaidInv
  <2>1. PICK x \in Transfers : PaidBy(p, x)
    BY DEF Inv, PaidInv
  <2> QED
    BY <2>1 DEF PaidBy
<1> QED
  BY <1>1, <1>2, <1>3

\* A scan that ends, or goes on with a transfer to its order.
LEMMA SeenSet ==
  ASSUME RowsOK, Inv, UNCHANGED ledger, NEW t \in Tasks, NEW new \in Task, SetTask(t, new),
         new.pc = "record" => ledger[new.seen].order = new.order
  PROVE  SeenInv'
  BY DEF RowsOK, TaskOK, Inv, SeenInv, SetTask

LEMMA SeenKept ==
  ASSUME Inv, UNCHANGED <<ledger, task>>
  PROVE  SeenInv'
  BY DEF Inv, SeenInv

LEMMA SeenEnds ==
  ASSUME RowsOK, Inv, UNCHANGED ledger, NEW t \in Tasks, SetTask(t, Idle)
  PROVE  SeenInv'
  BY SeenSet, IdleType

\* Nothing is known of an order before its payment is initiated, and an order with
\* a transaction cannot be cancelled.
LEMMA OrderStepInv ==
  ASSUME RowsOK, Inv, NEW o \in Orders,
         Initiate(o) \/ Cancel(o) \/ MoveToManualReview(o) \/ TakeUp(o)
  PROVE  Inv'
<1>1. SeenInv'
  BY SeenKept DEF Initiate, Cancel, MoveToManualReview, TakeUp
<1>2. status \in [Orders -> OrderStatus] /\ payment \in [Orders -> Payment]
       /\ expires \in [Orders -> 0..MaxTime]
  BY DEF RowsOK
<1>3. CASE Initiate(o)
  <2>1. status'[o] = "waiting_for_payment" /\ payment'[o].hash = NoHash
    BY <1>2, <1>3 DEF Initiate, Move, SetPayment, NoPayment
  <2>2. \A p \in Orders \ {o} :
          status'[p] = status[p] /\ payment'[p] = payment[p] /\ expires'[p] = expires[p]
    BY <1>2, <1>3 DEF Initiate, Move, SetPayment
  <2>3. RowFits(o)'
    BY <2>1 DEF RowFits
  <2>4. RowInv' /\ HashInv' /\ PaidInv'
    BY <1>3, <2>1, <2>2, <2>3, OneOrder DEF Initiate
  <2> QED
    BY <1>1, <2>4 DEF Inv
<1>4. CASE Cancel(o)
  <2>1. status'[o] = "cancelled" /\ payment'[o].hash = NoHash
    BY <1>2, <1>4 DEF Cancel, Move
  <2>2. RowFits(o)'
    BY <2>1 DEF RowFits
  <2>3. RowInv' /\ HashInv' /\ PaidInv'
    BY <1>2, <1>4, <2>1, <2>2, OneOrder DEF Cancel, Move
  <2> QED
    BY <1>1, <2>3 DEF Inv
<1>5. CASE Review(o, "admin") \/ Review(o, "unconfirmed")
  <2>1. status'[o] = "manual_review" /\ UNCHANGED <<now, payment, expires, ledger>>
    BY <1>2, <1>5 DEF Initiate, Cancel, MoveToManualReview, TakeUp, Review, Move
  <2>2. RowFits(o)'
    BY <2>1 DEF RowFits
  <2>3. RowInv' /\ HashInv' /\ PaidInv'
    BY <1>2, <1>5, <2>1, <2>2, OneOrder DEF Review, Move
  <2> QED
    BY <1>1, <2>3 DEF Inv
<1>6. CASE TakeUp(o) /\ Confirmed(o)
  <2>1. status'[o] = "purchase_processing" /\ UNCHANGED <<now, payment, expires, ledger>>
    BY <1>2, <1>6 DEF TakeUp, Move
  <2>2. PICK x \in Transfers : PaidBy(o, x)
    BY <1>6 DEF Inv, PaidInv, TakeUp
  <2>3. RowFits(o)' /\ PaidBy(o, x)'
    BY <1>6, <2>1, <2>2 DEF RowFits, Confirmed, PaidBy
  <2>4. RowInv' /\ HashInv' /\ PaidInv'
    BY <1>2, <1>6, <2>1, <2>3, OneOrder DEF TakeUp, Move
  <2> QED
    BY <1>1, <2>4 DEF Inv
<1> QED
  BY <1>3, <1>4, <1>5, <1>6 DEF MoveToManualReview, TakeUp

LEMMA ScanInv ==
  ASSUME RowsOK, Inv, NEW t \in Tasks,
         Find(t) \/ ExpireNothing(t) \/ RecordNothing(t) \/ Stops(t)
           \/ \E o \in Orders : BeginCheck(t, o)
  PROVE  Inv'
<1>1. task[t] \in Task /\ now \in Nat
  BY TimeAssumption DEF RowsOK, TaskOK
<1>2. SeenInv'
  <2>1. CASE FindSees(t)
    <3>1. PICK x \in Transfers :
            /\ ledger[x].order = task[t].order
            /\ SetTask(t, [task[t] EXCEPT !.pc = "record", !.seen = x])
      BY <2>1 DEF FindSees
    <3> DEFINE new == [task[t] EXCEPT !.pc = "record", !.seen = x]
    <3>2. new \in Task /\ new.order = task[t].order /\ new.seen = x
      BY <1>1, SeesType
    <3>3. SetTask(t, new) /\ UNCHANGED ledger
      BY <2>1, <3>1 DEF FindSees
    <3> HIDE DEF new
    <3> QED
      BY <3>1, <3>2, <3>3, SeenSet
  <2>2. CASE FindSeesNone(t)
    <3> DEFINE new == [task[t] EXCEPT !.pc = "expire"]
    <3>1. new \in Task /\ new.pc = "expire"
      BY <1>1, SeesNoneType
    <3>2. SetTask(t, new) /\ UNCHANGED ledger
      BY <2>2 DEF FindSeesNone
    <3> HIDE DEF new
    <3> QED
      BY <3>1, <3>2, SeenSet
  <2>3. CASE ExpireNothing(t) \/ RecordNothing(t) \/ Stops(t)
    BY <2>3, SeenEnds DEF ExpireNothing, RecordNothing, Stops
  <2>4. CASE \E o \in Orders : BeginCheck(t, o)
    BY <2>4, SeenSet, BegunType DEF BeginCheck
  <2> QED
    BY <2>1, <2>2, <2>3, <2>4 DEF Find
<1>3. RowInv' /\ HashInv' /\ PaidInv'
  <2>1. UNCHANGED <<now, status, payment, expires, ledger>>
    BY DEF Find, FindSees, FindSeesNone, ExpireNothing, RecordNothing, Stops, BeginCheck
  <2> QED
    BY <1>1, <2>1, RowsKept
<1> QED
  BY <1>2, <1>3 DEF Inv

\* An order that waits has no transaction, so its expiry loses none; one that has
\* detected a transfer is reviewed.
LEMMA ExpireInv ==
  ASSUME RowsOK, Inv, NEW t \in Tasks, Expire(t)
  PROVE  Inv'
<1>1. PICK o \in Orders : o = task[t].order
  BY DEF RowsOK, TaskOK, Expire
<1>2. status \in [Orders -> OrderStatus] /\ payment \in [Orders -> Payment]
  BY DEF RowsOK
<1>3. payment'[o].hash = payment[o].hash
  <2>1. PICK s \in PaymentStatus : payment'[o] = [payment[o] EXCEPT !.status = s]
    BY <1>1, <1>2 DEF Expire, SetPayment, PaymentStatus
  <2> QED
    BY <1>2, <2>1 DEF Payment
<1>4. status'[o] = IF status[o] = "waiting_for_payment" THEN "payment_expired" ELSE "manual_review"
  BY <1>1, <1>2 DEF Expire, Review, Move
<1>5. RowFits(o)'
  BY <1>3, <1>4 DEF RowFits, Inv, RowInv
<1>6. \A p \in Orders \ {o} : status'[p] = status[p] /\ payment'[p] = payment[p]
  BY <1>1, <1>2 DEF Expire, Review, Move, SetPayment
<1>7. RowInv' /\ HashInv' /\ PaidInv'
  BY <1>3, <1>4, <1>5, <1>6, OneOrder DEF Expire
<1>8. SeenInv'
  BY SeenEnds DEF Expire
<1> QED
  BY <1>7, <1>8 DEF Inv

\* The transfer a scan attaches is to its order, and no other order has it.
LEMMA Attached ==
  ASSUME RowsOK, Inv, NEW t \in Tasks, NEW o \in Orders, NEW x \in Transfers,
         NEW s \in PaymentStatus,
         o = task[t].order, x = task[t].seen, task[t].pc = "record",
         Fits(o, x), payment[o].hash # NoHash \/ New(o, x), Attach(o, x, s)
  PROVE  /\ payment'[o].status = s
         /\ payment'[o].hash = ledger[x].hash /\ ledger[x].hash # NoHash
         /\ payment'[o].exact = IF payment[o].hash = NoHash THEN ledger[x].exact
                                                            ELSE payment[o].exact
         /\ payment'[o].hash = payment[o].hash \/ ~Taken(o, payment'[o].hash)
         /\ \A p \in Orders \ {o} : payment'[p] = payment[p]
<1>1. payment \in [Orders -> Payment] /\ payment[o] \in Payment
  BY DEF RowsOK
<1>2. ledger[x].order = o /\ ledger[x].hash # NoHash
  BY SentinelAssumption DEF Inv, SeenInv
<1>3. \A p \in Orders \ {o} : payment'[p] = payment[p]
  BY <1>1 DEF Attach, SetPayment
<1>4. CASE payment[o].hash = NoHash
  <2>1. payment'[o] = [status |-> s, hash |-> ledger[x].hash, exact |-> ledger[x].exact]
    BY <1>1, <1>4 DEF Attach, SetPayment
  <2> QED
    BY <1>2, <1>3, <1>4, <2>1 DEF New
<1>5. CASE payment[o].hash # NoHash
  <2>1. payment'[o] = [payment[o] EXCEPT !.status = s]
    BY <1>1, <1>5 DEF Attach, SetPayment
  <2>2. /\ payment'[o].status = s /\ payment'[o].hash = payment[o].hash
        /\ payment'[o].exact = payment[o].exact
    BY <1>1, <2>1 DEF Payment
  <2>3. payment[o].hash = ledger[x].hash
    BY <1>5 DEF Fits
  <2> QED
    BY <1>2, <1>3, <1>5, <2>2, <2>3
<1> QED
  BY <1>4, <1>5

LEMMA ConflictInv ==
  ASSUME RowsOK, Inv, NEW t \in Tasks, RecordConflict(t)
  PROVE  Inv'
<1>1. PICK o \in Orders : o = task[t].order
  BY DEF RowsOK, TaskOK, RecordConflict, Recording
<1>2. status'[o] = "manual_review" /\ \A p \in Orders \ {o} : status'[p] = status[p]
  BY <1>1 DEF RecordConflict, Review, Move, RowsOK
<1>3. RowFits(o)'
  BY <1>2 DEF RowFits
<1>4. RowInv' /\ HashInv' /\ PaidInv'
  BY <1>2, <1>3, OneOrder DEF RecordConflict
<1>5. SeenInv'
  BY SeenEnds DEF RecordConflict
<1> QED
  BY <1>4, <1>5 DEF Inv

LEMMA ReviewInv ==
  ASSUME RowsOK, Inv, NEW t \in Tasks, RecordReview(t)
  PROVE  Inv'
<1>1. PICK o \in Orders, x \in Transfers : o = task[t].order /\ x = task[t].seen
  BY DEF RowsOK, TaskOK, RecordReview, Recording
<1>2. status'[o] = "manual_review" /\ \A p \in Orders \ {o} : status'[p] = status[p]
  BY <1>1 DEF RecordReview, Review, Move, RowsOK
<1>3. RowFits(o)'
  BY <1>2 DEF RowFits
<1>4. /\ payment'[o].hash = payment[o].hash \/ ~Taken(o, payment'[o].hash)
      /\ \A p \in Orders \ {o} : payment'[p] = payment[p]
  <2>1. "manual_review" \in PaymentStatus
    BY DEF PaymentStatus
  <2> QED
    BY <1>1, <2>1, Attached DEF RecordReview, Recording
<1>5. RowInv' /\ HashInv' /\ PaidInv'
  BY <1>2, <1>3, <1>4, OneOrder DEF RecordReview
<1>6. SeenInv'
  BY SeenEnds DEF RecordReview
<1> QED
  BY <1>5, <1>6 DEF Inv

\* An order that is closed does not go on, an order that waits has no transaction
\* yet, and the transfer that makes an order PAID is the one that was attached.
LEMMA ProgressInv ==
  ASSUME RowsOK, Inv, NEW t \in Tasks, RecordProgress(t)
  PROVE  Inv'
<1>1. PICK o \in Orders, x \in Transfers : o = task[t].order /\ x = task[t].seen
  BY DEF RowsOK, TaskOK, RecordProgress, Recording
<1>2. /\ ledger[x] \in Transfer /\ payment[o] \in Payment
      /\ expires[o] \in Nat /\ ledger[x].at \in Nat /\ now \in Nat
  BY DEF RowsOK, Transfer
<1>3. /\ status[o] \in Awaiting /\ ledger[x].exact
      /\ ledger[x].at <= expires[o] /\ ledger[x].order = o
  <2>1. status[o] \in Awaiting \union Closed /\ Verdict(o, x) = "none"
    BY <1>1 DEF RecordProgress, Recording, Scanned
  <2>2. ledger[x].order = o
    BY <1>1 DEF RecordProgress, Recording, Inv, SeenInv
  <2> QED
    BY <1>2, <2>1, <2>2 DEF Verdict
<1> DEFINE s == Advanced(o, x)
<1>4. s \in OrderStatus /\ PaymentAfter(s) \in PaymentStatus
  BY AdvancedType
<1>5. status'[o] = s /\ \A p \in Orders \ {o} : status'[p] = status[p]
  BY <1>1 DEF RecordProgress, Move, RowsOK
<1>6. /\ payment'[o].status = PaymentAfter(s)
      /\ payment'[o].hash = ledger[x].hash /\ ledger[x].hash # NoHash
      /\ payment'[o].exact
      /\ payment'[o].hash = payment[o].hash \/ ~Taken(o, payment'[o].hash)
      /\ \A p \in Orders \ {o} : payment'[p] = payment[p]
  <2>1. Attach(o, x, PaymentAfter(s))
    BY <1>1 DEF RecordProgress
  <2>2. Fits(o, x) /\ (payment[o].hash # NoHash \/ New(o, x)) /\ task[t].pc = "record"
    BY <1>1 DEF RecordProgress, Recording
  <2>3. payment[o].hash # NoHash => payment[o].exact
    BY <1>3 DEF Inv, RowInv, RowFits
  <2> HIDE DEF s
  <2> QED
    BY <1>1, <1>3, <1>4, <2>1, <2>2, <2>3, Attached
<1>7. RowFits(o)'
  BY <1>3, <1>5, <1>6 DEF RowFits, Confirmed, Advanced, PaymentAfter
<1>8. ASSUME status'[o] \in {"paid", "purchase_processing"}
      PROVE  PaidBy(o, x)'
  <2>1. s = "paid" /\ now >= ledger[x].at + Confirm
    BY <1>3, <1>5, <1>8 DEF Advanced
  <2> QED
    BY <1>2, <1>3, <1>6, <2>1, TimeAssumption DEF PaidBy, RecordProgress
<1>9. RowInv' /\ HashInv' /\ PaidInv'
  <2>1. UNCHANGED <<now, ledger, expires>>
    BY DEF RecordProgress
  <2> HIDE DEF s
  <2> QED
    BY <1>5, <1>6, <1>7, <1>8, <2>1, OneOrder
<1>10. SeenInv'
  BY SeenEnds DEF RecordProgress
<1> QED
  BY <1>9, <1>10 DEF Inv

\* A transfer that was sent stays what it is.
LEMMA SendInv ==
  ASSUME RowsOK, Inv, NEW x \in Transfers, Send(x)
  PROVE  Inv'
<1>1. /\ ledger[x].order = NoOrder
      /\ UNCHANGED <<now, status, payment, expires, task>>
      /\ \A y \in Transfers \ {x} : ledger'[y] = ledger[y]
      /\ ledger'[x].hash \in Hashes
  BY DEF RowsOK, Send, Unsent
<1>2. SeenInv'
  <2>1. \A y \in Transfers : ledger'[y].order # NoOrder => ledger'[y].hash # NoHash
    BY <1>1, SentinelAssumption DEF Inv, SeenInv
  <2>2. ASSUME NEW t \in Tasks, task[t].pc = "record"
        PROVE  ledger'[task[t].seen].order = task[t].order
    <3>1. task[t].seen \in Transfers /\ task[t].order \in Orders
      BY <2>2 DEF RowsOK, TaskOK
    <3>2. ledger[task[t].seen].order = task[t].order
      BY <2>2 DEF Inv, SeenInv
    <3> QED
      BY <1>1, <3>1, <3>2, SentinelAssumption
  <2> QED
    BY <1>1, <2>1, <2>2 DEF SeenInv
<1>3. RowInv' /\ HashInv'
  BY <1>1 DEF Inv, RowInv, RowFits, Confirmed, HashInv
<1>4. PaidInv'
  <2> SUFFICES ASSUME NEW o \in Orders, status[o] \in {"paid", "purchase_processing"}
               PROVE  \E y \in Transfers : PaidBy(o, y)'
    BY <1>1 DEF PaidInv
  <2>1. PICK y \in Transfers : PaidBy(o, y)
    BY DEF Inv, PaidInv
  <2> QED
    BY <1>1, <2>1, SentinelAssumption DEF PaidBy
<1> QED
  BY <1>2, <1>3, <1>4 DEF Inv

LEMMA OutsideInv ==
  ASSUME RowsOK, Inv, ListOrders \/ (\E o \in Orders : BeginScan(o)) \/ Tick
  PROVE  Inv'
<1>1. now \in Nat
  BY DEF RowsOK
<1>2. RowInv' /\ HashInv' /\ PaidInv'
  <2>1. UNCHANGED <<status, payment, expires, ledger>> /\ now' \in {now, now + 1}
    BY DEF ListOrders, BeginScan, Tick
  <2> QED
    BY <1>1, <2>1, RowsKept
<1>3. SeenInv'
  <2>1. CASE \E o \in Orders : BeginScan(o)
    <3>1. PICK o \in Orders : BeginScan(o)
      BY <2>1
    <3> QED
      BY <3>1, SeenSet, SeenEnds, BegunType, MonitorAssumption DEF BeginScan
  <2> QED
    BY <2>1, SeenKept DEF ListOrders, Tick
<1> QED
  BY <1>2, <1>3 DEF Inv

LEMMA InvStep == RowsOK /\ Inv /\ [Next]_vars => Inv'
<1> SUFFICES ASSUME RowsOK, Inv, [Next]_vars PROVE Inv'
  OBVIOUS
<1>1. CASE UNCHANGED vars
  <2>1. now \in Nat
    BY DEF RowsOK
  <2> QED
    BY <1>1, <2>1, RowsKept, SeenKept DEF vars, Inv
<1>2. CASE Next
  <2>1. ASSUME NEW t \in Tasks,
               Find(t) \/ ExpireIfNeeded(t) \/ Record(t) \/ Stops(t)
                 \/ \E o \in Orders : BeginCheck(t, o)
        PROVE  Inv'
    BY <2>1, ScanInv, ExpireInv, ConflictInv, ReviewInv, ProgressInv
    DEF ExpireIfNeeded, Record
  <2>2. ASSUME NEW o \in Orders,
               Initiate(o) \/ Cancel(o) \/ MoveToManualReview(o) \/ TakeUp(o)
        PROVE  Inv'
    BY <2>2, OrderStepInv
  <2> QED
    BY <1>2, <2>1, <2>2, OutsideInv, SendInv DEF Next
<1> QED
  BY <1>1, <1>2

-----------------------------------------------------------------------------
(* Theorems *)

\* The inductive invariant of TonPayment holds in every reachable state.
THEOREM InvariantHolds == Spec => []Inv
  BY RowsCorrect, InvInit, InvStep, PTL DEF Spec

\* Stars are bought only for an exact transfer in time that pays no other order
\* (record_ton_observation).
THEOREM PaidMeansPaidFor == Spec => []PaidIsPaidFor
<1>1. Inv => PaidIsPaidFor
  BY DEF Inv, PaidIsPaidFor, PaidInv, HashInv, RowInv, RowFits, Confirmed
<1> QED
  BY <1>1, InvariantHolds, PTL

\* A paid order passes the payment checks of its delivery
\* (_purchase_validation_error).
THEOREM PaidMeansConfirmed == Spec => []PaidIsConfirmed
<1>1. Inv => PaidIsConfirmed
  BY DEF Inv, PaidIsConfirmed, RowInv, RowFits
<1> QED
  BY <1>1, InvariantHolds, PTL

\* No order is closed over a transfer that was recorded for it (cancel_order,
\* expire_if_needed).
THEOREM ClosedMeansNoTransfer == Spec => []ClosedHasNoTransfer
<1>1. Inv => ClosedHasNoTransfer
  BY DEF Inv, ClosedHasNoTransfer, RowInv, RowFits
<1> QED
  BY <1>1, InvariantHolds, PTL

LEMMA AttachedStays ==
  ASSUME RowsOK, Inv, [Next]_vars, NEW o \in Orders, payment[o].hash # NoHash
  PROVE  payment'[o].hash = payment[o].hash
<1>1. payment \in [Orders -> Payment] /\ payment[o] \in Payment
  BY DEF RowsOK
<1>2. CASE UNCHANGED payment
  BY <1>2
<1>3. ASSUME NEW p \in Orders, Initiate(p) PROVE payment'[o].hash = payment[o].hash
  <2>1. payment[p].hash = NoHash
    BY <1>3 DEF Initiate, Inv, RowInv, RowFits
  <2> QED
    BY <1>1, <1>3, <2>1 DEF Initiate, SetPayment
<1>4. ASSUME NEW t \in Tasks, Expire(t) PROVE payment'[o].hash = payment[o].hash
  BY <1>1, <1>4 DEF Expire, SetPayment, Payment
<1>5. ASSUME NEW t \in Tasks, RecordReview(t) \/ RecordProgress(t)
      PROVE  payment'[o].hash = payment[o].hash
  <2>1. PICK p \in Orders, x \in Transfers : p = task[t].order /\ x = task[t].seen
    BY <1>5 DEF RowsOK, TaskOK, RecordReview, RecordProgress, Recording
  <2>2. PICK s : Attach(p, x, s)
    BY <1>5, <2>1 DEF RecordReview, RecordProgress
  <2> QED
    BY <1>1, <2>2 DEF Attach, SetPayment, Payment
<1> QED
  BY <1>2, <1>3, <1>4, <1>5
  DEF Next, vars, Find, FindSees, FindSeesNone, ExpireIfNeeded, ExpireNothing, Record,
      RecordNothing, RecordConflict, Stops, BeginCheck, Cancel, MoveToManualReview, TakeUp,
      Review, ListOrders, BeginScan, Tick, Send

\* A recorded transaction is neither detached nor exchanged.
THEOREM AttachedStaysAttached == Spec => AttachedIsKept
<1>1. RowsOK /\ Inv /\ [Next]_vars =>
        [\A o \in Orders : payment[o].hash # NoHash => payment'[o].hash = payment[o].hash]_vars
  BY AttachedStays
<1> QED
  BY <1>1, RowsCorrect, InvariantHolds, PTL DEF Spec, AttachedIsKept

-----------------------------------------------------------------------------
(* How the status of an order moves *)

\* What a step may make of the status of o.
Proceeds(o, s) ==
  \/ status[o] = "created" /\ s \in {"waiting_for_payment", "cancelled"}
  \/ /\ status[o] = "waiting_for_payment"
     /\ s \in {"payment_detected", "payment_expired", "cancelled"}
  \/ status[o] = "payment_detected" /\ s = "payment_confirming"
  \/ status[o] = "payment_confirming" /\ s = "payment_confirming"
  \/ status[o] = "payment_confirming" /\ s = "paid" /\ PaidInTime(o)
  \/ status[o] = "paid" /\ s = "purchase_processing"
  \/ CanTransition(status[o], "manual_review") /\ s = "manual_review"

\* No order; one order, whose invoice is written only when it was not yet; or a
\* transfer for an order that has its invoice.
Stays == UNCHANGED <<status, expires, ledger>>
Proceeding(o) ==
  /\ \E s \in OrderStatus : Proceeds(o, s) /\ status' = [status EXCEPT ![o] = s]
  /\ UNCHANGED ledger
  /\ \/ UNCHANGED expires
     \/ status[o] = "created" /\ \E e \in 0..MaxTime : expires' = [expires EXCEPT ![o] = e]
Sending ==
  /\ UNCHANGED <<status, expires>>
  /\ \E x \in Transfers, o \in Orders, r \in Transfer :
       /\ ledger[x] = Unsent /\ ledger' = [ledger EXCEPT ![x] = r]
       /\ r.order = o /\ expires[o] # 0

LEMMA StatusNames ==
  {"waiting_for_payment", "cancelled", "manual_review", "payment_expired", "payment_detected",
   "payment_confirming", "paid", "purchase_processing"} \subseteq OrderStatus
  BY DEF OrderStatus

LEMMA MayReview ==
  ASSUME NEW s, s \in Scanned \/ s = "paid"
  PROVE  CanTransition(s, "manual_review")
<1>1. s \in {"waiting_for_payment", "payment_detected", "payment_confirming", "paid"} =>
        "manual_review" \in AllowedTargets(s)
  BY DEF AllowedTargets
<1>2. s \in {"payment_expired", "cancelled"} => "manual_review" \in AllowedTargets(s)
  BY DEF AllowedTargets
<1> QED
  BY <1>1, <1>2 DEF Scanned, CanTransition

LEMMA ReviewProceeds ==
  ASSUME NEW o \in Orders, NEW why, Review(o, why),
         status[o] \in Scanned \/ status[o] = "paid" \/ CanTransition(status[o], "manual_review"),
         UNCHANGED <<expires, ledger>>
  PROVE  Proceeding(o)
<1>1. CanTransition(status[o], "manual_review")
  BY MayReview
<1>2. Proceeds(o, "manual_review") /\ status' = [status EXCEPT ![o] = "manual_review"]
  BY <1>1 DEF Proceeds, Review, Move
<1> QED
  BY <1>2, StatusNames DEF Proceeding

LEMMA OrderStepProceeds ==
  ASSUME RowsOK, NEW o \in Orders,
         Initiate(o) \/ Cancel(o) \/ MoveToManualReview(o) \/ TakeUp(o)
  PROVE  Proceeding(o)
<1>1. CASE Initiate(o)
  <2>1. now + Ttl \in 0..MaxTime
    BY <1>1, TimeAssumption DEF Initiate, RowsOK
  <2> QED
    BY <1>1, <2>1, StatusNames DEF Initiate, Move, Proceeding, Proceeds
<1>2. CASE Cancel(o)
  BY <1>2, StatusNames DEF Cancel, Move, Proceeding, Proceeds
<1>3. CASE MoveToManualReview(o)
  BY <1>3, ReviewProceeds DEF MoveToManualReview
<1>4. CASE TakeUp(o)
  <2>1. CASE Confirmed(o)
    BY <1>4, <2>1, StatusNames DEF TakeUp, Move, Proceeding, Proceeds
  <2>2. CASE ~Confirmed(o)
    BY <1>4, <2>2, ReviewProceeds DEF TakeUp
  <2> QED
    BY <2>1, <2>2
<1> QED
  BY <1>1, <1>2, <1>3, <1>4

LEMMA OutcomeProceeds ==
  ASSUME RowsOK, Inv, NEW t \in Tasks,
         Expire(t) \/ RecordConflict(t) \/ RecordReview(t) \/ RecordProgress(t)
  PROVE  task[t].order \in Orders /\ Proceeding(task[t].order)
<1> DEFINE o == task[t].order
           x == task[t].seen
<1>1. o \in Orders
  BY DEF RowsOK, TaskOK, Expire, RecordConflict, RecordReview, RecordProgress, Recording
<1>2. CASE Expire(t)
  <2>1. CASE status[o] = "waiting_for_payment"
    <3>1. status' = [status EXCEPT ![o] = "payment_expired"] /\ UNCHANGED <<expires, ledger>>
      BY <1>2, <2>1 DEF Expire, Move
    <3>2. Proceeds(o, "payment_expired")
      BY <2>1 DEF Proceeds
    <3> QED
      BY <1>1, <3>1, <3>2, StatusNames DEF Proceeding
  <2>2. CASE status[o] # "waiting_for_payment"
    <3>1. Review(o, "lost") /\ status[o] \in Scanned
      BY <1>2, <2>2 DEF Expire, Scanned
    <3> QED
      BY <1>1, <1>2, <3>1, ReviewProceeds DEF Expire
  <2> QED
    BY <1>1, <2>1, <2>2
<1>3. CASE RecordConflict(t)
  BY <1>1, <1>3, ReviewProceeds DEF RecordConflict, Recording
<1>4. CASE RecordReview(t)
  BY <1>1, <1>4, ReviewProceeds DEF RecordReview, Recording
<1>5. CASE RecordProgress(t)
  <2>1. x \in Transfers /\ ledger[x].order = o
    BY <1>5 DEF RecordProgress, Recording, RowsOK, TaskOK, Inv, SeenInv
  <2>2. ledger[x].exact /\ ~(ledger[x].at > expires[o]) /\ status[o] \notin Closed
    BY <1>5 DEF RecordProgress, Verdict
  <2>3. ledger[x].at <= expires[o]
    BY <1>1, <2>1, <2>2, TimeAssumption DEF RowsOK, Transfer
  <2>4. PaidInTime(o)
    BY <2>1, <2>2, <2>3 DEF PaidInTime
  <2>5. status[o] \in Awaiting
    BY <1>5, <2>2 DEF RecordProgress, Recording, Scanned
  <2>6. Proceeds(o, Advanced(o, x))
    <3>1. CASE status[o] = "waiting_for_payment" \/ status[o] = "payment_detected"
      BY <3>1 DEF Proceeds, Advanced
    <3>2. CASE status[o] = "payment_confirming"
      <4>1. Advanced(o, x) \in {"paid", "payment_confirming"}
        BY <3>2 DEF Advanced
      <4> QED
        BY <2>4, <3>2, <4>1 DEF Proceeds
    <3> QED
      BY <2>5, <3>1, <3>2
  <2>7. status' = [status EXCEPT ![o] = Advanced(o, x)] /\ UNCHANGED <<expires, ledger>>
    BY <1>5 DEF RecordProgress, Move
  <2> QED
    BY <1>1, <2>1, <2>6, <2>7, AdvancedType DEF Proceeding
<1> QED
  BY <1>2, <1>3, <1>4, <1>5

LEMMA SendSends ==
  ASSUME RowsOK, NEW x \in Transfers, Send(x)
  PROVE  Sending
<1>1. PICK o \in Orders, h \in Hashes, e \in BOOLEAN :
        /\ expires[o] # 0
        /\ ledger' = [ledger EXCEPT ![x] = [order |-> o, hash |-> h, exact |-> e, at |-> now]]
  BY ZenonT(60) DEF Send
<1> DEFINE r == [order |-> o, hash |-> h, exact |-> e, at |-> now]
<1>2. r \in Transfer /\ r.order = o
  BY DEF RowsOK, Transfer
<1>3. ledger[x] = Unsent /\ UNCHANGED <<status, expires>>
  BY DEF Send
<1> HIDE DEF r
<1>4. ledger' = [ledger EXCEPT ![x] = r]
  BY <1>1 DEF r
<1> QED
  BY <1>1, <1>2, <1>3, <1>4 DEF Sending

LEMMA StepProceeds ==
  ASSUME RowsOK, Inv, [Next]_vars
  PROVE  Stays \/ Sending \/ \E o \in Orders : Proceeding(o)
<1>1. CASE UNCHANGED vars
  BY <1>1 DEF vars, Stays
<1>2. ASSUME NEW t \in Tasks,
             Find(t) \/ ExpireNothing(t) \/ RecordNothing(t) \/ Stops(t)
               \/ \E o \in Orders : BeginCheck(t, o)
      PROVE  Stays
  BY <1>2 DEF Find, FindSees, FindSeesNone, ExpireNothing, RecordNothing, Stops, BeginCheck,
              Stays
<1>3. ASSUME ListOrders \/ Tick \/ \E o \in Orders : BeginScan(o) PROVE Stays
  BY <1>3 DEF ListOrders, Tick, BeginScan, Stays
<1> QED
  BY <1>1, <1>2, <1>3, OrderStepProceeds, OutcomeProceeds, SendSends
  DEF Next, ExpireIfNeeded, Record

LEMMA ProceedsListed ==
  ASSUME NEW o \in Orders, NEW s, Proceeds(o, s)
  PROVE  CanTransition(status[o], s)
  BY DEF Proceeds, CanTransition, AllowedTargets

\* Whatever a scan carries, the table lists the status its order goes to
\* (OrderRepository.transition).
THEOREM NeverRefused == Spec => NothingIsRefused
<1>1. ASSUME RowsOK, Inv, [Next]_vars, NEW o \in Orders
      PROVE  CanTransition(status[o], status'[o])
  <2>1. CASE status' = status
    BY <2>1 DEF CanTransition
  <2>2. CASE \E p \in Orders : Proceeding(p)
    <3>1. PICK p \in Orders, s \in OrderStatus :
            Proceeds(p, s) /\ status' = [status EXCEPT ![p] = s]
      BY <2>2 DEF Proceeding
    <3>2. CASE p = o
      <4>1. status'[o] = s
        BY <1>1, <3>1, <3>2 DEF RowsOK
      <4> QED
        BY <3>1, <3>2, <4>1, ProceedsListed
    <3>3. CASE p # o
      <4>1. status'[o] = status[o]
        BY <1>1, <3>1, <3>3 DEF RowsOK
      <4> QED
        BY <4>1 DEF CanTransition
    <3> QED
      BY <3>2, <3>3
  <2> QED
    BY <1>1, <2>1, <2>2, StepProceeds DEF Stays, Sending
<1>2. RowsOK /\ Inv /\ [Next]_vars =>
        [\A o \in Orders : CanTransition(status[o], status'[o])]_vars
  BY <1>1
<1> QED
  BY <1>2, RowsCorrect, InvariantHolds, PTL DEF Spec, NothingIsRefused

-----------------------------------------------------------------------------
(* TonPayment implements PaymentPromise *)

LEMMA FreshInit == Init => FreshInv
  BY SentinelAssumption DEF Init, FreshInv, Unsent

LEMMA FreshStep ==
  ASSUME RowsOK, Inv, FreshInv, [Next]_vars
  PROVE  FreshInv'
<1> SUFFICES ASSUME NEW q \in Orders, status'[q] = "created"
             PROVE  expires'[q] = 0 /\ \A y \in Transfers : ledger'[y].order # q
  BY DEF FreshInv
<1>1. CASE Stays
  BY <1>1 DEF Stays, FreshInv
<1>2. CASE Sending
  <2>1. PICK x \in Transfers, o \in Orders, r \in Transfer :
          ledger' = [ledger EXCEPT ![x] = r] /\ r.order = o /\ expires[o] # 0
    BY <1>2 DEF Sending
  <2>2. status' = status /\ expires' = expires
    BY <1>2 DEF Sending
  <2>3. expires[q] = 0 /\ \A y \in Transfers : ledger[y].order # q
    BY <2>2 DEF FreshInv
  <2>4. o # q
    BY <2>1, <2>3
  <2> QED
    BY <2>1, <2>2, <2>3, <2>4 DEF RowsOK
<1>3. CASE \E o \in Orders : Proceeding(o)
  <2>1. PICK o \in Orders : Proceeding(o)
    BY <1>3
  <2>2. PICK s \in OrderStatus : Proceeds(o, s) /\ status' = [status EXCEPT ![o] = s]
    BY <2>1 DEF Proceeding
  <2>3. s # "created"
    BY <2>2 DEF Proceeds
  <2>4. o # q /\ status[q] = "created"
    BY <2>2, <2>3 DEF RowsOK
  <2>5. expires'[q] = expires[q] /\ ledger' = ledger
    BY <2>1, <2>4 DEF Proceeding, RowsOK
  <2> QED
    BY <2>4, <2>5 DEF FreshInv
<1> QED
  BY <1>1, <1>2, <1>3, StepProceeds

\* The abstract state.
Mapped == <<[o \in Orders |-> StageOf(status[o])], [o \in Orders |-> MoneyOf(o)]>>

LEMMA MapsInit == Init => Promise!Init
<1> SUFFICES ASSUME Init PROVE Promise!Init
  OBVIOUS
<1>1. \A o \in Orders : MoneyOf(o) = "none"
  BY SentinelAssumption DEF Init, MoneyOf, PaidInTime, Unsent
<1>2. \A o \in Orders : StageOf(status[o]) = "open"
  BY DEF Init, StageOf
<1> QED
  BY <1>1, <1>2 DEF Promise!Init

LEMMA Stages ==
  ASSUME NEW o \in Orders, status[o] \in OrderStatus, NEW s, Proceeds(o, s)
  PROVE  LET from == StageOf(status[o])
             to == StageOf(s)
         IN \/ to = from
            \/ from = "open" /\ to = "closed"
            \/ from = "open" /\ to = "paid" /\ PaidInTime(o)
            \/ from = "paid" /\ to = "taken up"
            \/ from \in {"open", "closed", "paid", "taken up"} /\ to = "review"
<1>1. CASE status[o] \in {"created", "waiting_for_payment", "payment_detected",
                          "payment_confirming", "paid"} /\ s # "manual_review"
  BY <1>1 DEF Proceeds, StageOf
<1>2. CASE s = "manual_review" /\ CanTransition(status[o], "manual_review")
  <2>1. status[o] # "payment_failed"
    BY <1>2 DEF CanTransition, AllowedTargets
  <2>2. StageOf(status[o]) \in {"open", "closed", "paid", "taken up", "review"}
    BY <2>1 DEF StageOf
  <2>3. StageOf(s) = "review"
    BY <1>2 DEF StageOf
  <2> QED
    BY <2>2, <2>3
<1> QED
  BY <1>1, <1>2 DEF Proceeds

LEMMA StepMaps ==
  ASSUME RowsOK, Inv, FreshInv, [Next]_vars
  PROVE  [Promise!Next]_Mapped
<1> DEFINE st == [o \in Orders |-> StageOf(status[o])]
           mo == [o \in Orders |-> MoneyOf(o)]
<1>1. CASE Stays
  <2>1. \A o \in Orders : MoneyOf(o)' = MoneyOf(o)
    BY <1>1 DEF Stays, MoneyOf, PaidInTime
  <2> QED
    BY <1>1, <2>1 DEF Stays, Mapped
<1>2. CASE Sending
  <2>1. PICK x \in Transfers, o \in Orders, r \in Transfer :
          /\ ledger[x] = Unsent /\ ledger' = [ledger EXCEPT ![x] = r]
          /\ r.order = o /\ expires[o] # 0
    BY <1>2 DEF Sending
  <2>2. status' = status /\ expires' = expires
    BY <1>2 DEF Sending
  <2>3. \A y \in Transfers : ledger'[y] = IF y = x THEN r ELSE ledger[y]
    BY <2>1 DEF RowsOK
  <2>4. ledger[x].order \notin Orders
    BY <2>1, SentinelAssumption DEF Unsent
  <2>5. \A q \in Orders \ {o} : MoneyOf(q)' = MoneyOf(q)
    BY <2>1, <2>2, <2>3, <2>4 DEF MoneyOf, PaidInTime
  <2>6. PaidInTime(o) => PaidInTime(o)'
    BY <2>2, <2>3, <2>4 DEF PaidInTime
  <2>7. MoneyOf(o)' = MoneyOf(o) \/ (MoneyOf(o) = "none" /\ MoneyOf(o)' = "received")
    BY <2>6 DEF MoneyOf
  <2>8. st' = st
    BY <2>2
  <2>9. CASE MoneyOf(o)' = MoneyOf(o)
    BY <2>5, <2>8, <2>9 DEF Mapped
  <2>10. CASE MoneyOf(o) = "none" /\ MoneyOf(o)' = "received"
    <3>1. mo[o] = "none" /\ mo' = [mo EXCEPT ![o] = "received"] /\ mo' # mo
      BY <2>5, <2>10
    <3> HIDE DEF st, mo
    <3>2. Promise!MoneyDecided(o)
      BY <2>8, <3>1 DEF Promise!MoneyDecided, st, mo
    <3> QED
      BY <3>1, <3>2 DEF Promise!Next, Mapped, st, mo
  <2> QED
    BY <2>7, <2>9, <2>10
<1>3. CASE \E o \in Orders : Proceeding(o)
  <2>1. PICK o \in Orders : Proceeding(o)
    BY <1>3
  <2>2. PICK s \in OrderStatus : Proceeds(o, s) /\ status' = [status EXCEPT ![o] = s]
    BY <2>1 DEF Proceeding
  <2>3. ledger' = ledger /\ \A q \in Orders \ {o} : expires'[q] = expires[q]
    BY <2>1 DEF Proceeding, RowsOK
  <2>4. expires'[o] = expires[o] \/ \A x \in Transfers : ledger[x].order # o
    BY <2>1 DEF Proceeding, FreshInv
  <2>5. \A q \in Orders : PaidInTime(q)' <=> PaidInTime(q)
    BY <2>3, <2>4 DEF PaidInTime
  <2>6. mo' = mo
    BY <2>5 DEF MoneyOf
  <2>7. st[o] = StageOf(status[o]) /\ st' = [st EXCEPT ![o] = StageOf(s)]
    BY <2>2 DEF RowsOK
  <2>8. PaidInTime(o) => mo[o] = "received"
    BY DEF MoneyOf
  <2>9. PICK from, to : from = StageOf(status[o]) /\ to = StageOf(s)
    OBVIOUS
  <2>10. \/ to = from
         \/ from = "open" /\ to = "closed"
         \/ from = "open" /\ to = "paid" /\ mo[o] = "received"
         \/ from = "paid" /\ to = "taken up"
         \/ from \in {"open", "closed", "paid", "taken up"} /\ to = "review"
    BY <2>2, <2>8, <2>9, Stages DEF RowsOK
  <2>11. st[o] = from /\ st' = [st EXCEPT ![o] = to] /\ st'[o] = to
    BY <2>7, <2>9
  <2> HIDE DEF st, mo
  <2>12. CASE to = from
    BY <2>6, <2>11, <2>12 DEF Mapped, st, mo
  <2>13. CASE to # from
    <3>1. \/ Promise!Close(o) \/ Promise!Pay(o) \/ Promise!TakeUp(o) \/ Promise!Review(o)
      BY <2>6, <2>10, <2>11, <2>13
      DEF Promise!Close, Promise!Pay, Promise!TakeUp, Promise!Review, Promise!Goes, st, mo
    <3>2. st' # st
      BY <2>11, <2>13
    <3> QED
      BY <3>1, <3>2 DEF Promise!Next, Mapped, st, mo
  <2> QED
    BY <2>12, <2>13
<1> QED
  BY <1>1, <1>2, <1>3, StepProceeds

\* The rows and the blockchain implement PaymentPromise: an order becomes paid once
\* and for its money only, whatever the scans were shown (record_ton_observation).
THEOREM PromiseKept == Spec => KeepsPayment
<1>1. Init => Promise!Init
  BY MapsInit
<1>2. RowsOK /\ Inv /\ FreshInv /\ [Next]_vars => FreshInv'
  BY FreshStep
<1>3. RowsOK /\ Inv /\ FreshInv /\ [Next]_vars =>
        [Promise!Next]_<<[o \in Orders |-> StageOf(status[o])], [o \in Orders |-> MoneyOf(o)]>>
  BY StepMaps DEF Mapped
<1> QED
  BY <1>1, <1>2, <1>3, FreshInit, RowsCorrect, InvariantHolds, PTL
  DEF Spec, KeepsPayment, Promise!Spec
=============================================================================
