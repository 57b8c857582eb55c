--------------------------- MODULE PaymentPromise ---------------------------
(***************************************************************************)
(* What a buyer who is asked to pay is promised, whichever way he pays: an *)
(* order counts as paid only when its money is there, and it becomes paid  *)
(* once; it failed only when the money will not come; and an order that    *)
(* was closed or is reviewed is no longer paid by the program itself,      *)
(* whatever arrives late.                                                  *)
(***************************************************************************)
CONSTANT Orders

VARIABLES
  stage,   \* how far the payment of each order has come
  money    \* what became of the buyer's money

Stage == {"open", "paid", "taken up", "failed", "closed", "review"}
Money == {"none", "received", "declined"}

TypeOK == stage \in [Orders -> Stage] /\ money \in [Orders -> Money]

\* The buyer pays, or it is settled that he will not; neither is taken back.
MoneyDecided(o) ==
  /\ money[o] = "none"
  /\ \E m \in {"received", "declined"} : money' = [money EXCEPT ![o] = m]
  /\ UNCHANGED stage

Goes(o, from, to) ==
  /\ stage[o] \in from
  /\ stage' = [stage EXCEPT ![o] = to]
  /\ UNCHANGED money

Pay(o) == money[o] = "received" /\ Goes(o, {"open"}, "paid")
Fail(o) == money[o] = "declined" /\ Goes(o, {"open"}, "failed")
Close(o) == Goes(o, {"open"}, "closed")
TakeUp(o) == Goes(o, {"paid"}, "taken up")
Review(o) == Goes(o, {"open", "closed", "paid", "taken up"}, "review")

Init ==
  /\ stage = [o \in Orders |-> "open"]
  /\ money = [o \in Orders |-> "none"]

\* A step that changes nothing is a stutter.
Next ==
  /\ <<stage, money>>' # <<stage, money>>
  /\ \E o \in Orders :
       MoneyDecided(o) \/ Pay(o) \/ Fail(o) \/ Close(o) \/ TakeUp(o) \/ Review(o)

Spec == Init /\ [][Next]_<<stage, money>>
=============================================================================
