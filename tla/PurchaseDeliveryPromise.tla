----------------------- MODULE PurchaseDeliveryPromise -----------------------
(***************************************************************************)
(* PurchaseDelivery keeps the promise of OrderPromise: what the buyer gets *)
(* is read off Fragment and the payment side, never off the database that  *)
(* may not know yet.                                                       *)
(***************************************************************************)
EXTENDS PurchaseDelivery

Answers(o) == {fragment[r].state : r \in {q \in Requests : fragment[q].order = o}}

StarsFrom(answers) ==
  IF answers = {} THEN "none"
  ELSE IF "completed" \in answers THEN "given"
  ELSE IF answers \subseteq Dead THEN "refused"
  ELSE "asked"

StarsOf(o) == StarsFrom(Answers(o))

CashOf(o) ==
  IF money[o] = "pending" THEN "returning"
  ELSE IF money[o] = "succeeded" THEN "returned"
  ELSE "kept"

SaysOf(o) == IF status[o] \in {"completed", "refunded"} THEN status[o] ELSE "open"

PromiseOf(o) ==
  IF o \in retried THEN [stars |-> "not promised", cash |-> "kept", says |-> "open"]
  ELSE [stars |-> StarsOf(o), cash |-> CashOf(o), says |-> SaysOf(o)]

Promise == INSTANCE OrderPromise WITH promise <- [o \in Orders |-> PromiseOf(o)]

\* Whatever crashes, restarts, stale answers and impatient administrators do, every
\* order is posted once at most, is refunded only without Stars and is called
\* completed or refunded only when it is, until a balance retry is approved
\* (deliver_paid_order, _apply_purchase_result, request_yookassa_refund).
KeepsPromise == Promise!Spec
=============================================================================
