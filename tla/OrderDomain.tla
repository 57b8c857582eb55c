---------------------------- MODULE OrderDomain ----------------------------
(***************************************************************************)
(* The vocabulary of app/domain.py that every other module shares: the     *)
(* statuses of an order and the transition table the repository consults   *)
(* before it changes one (OrderRepository.transition).                     *)
(***************************************************************************)

OrderStatus ==
  { "created", "waiting_for_payment", "payment_detected", "payment_confirming",
    "paid", "purchase_processing", "stars_sending", "completed",
    "payment_expired", "payment_failed", "purchase_failed", "refund_required",
    "refunded", "cancelled", "manual_review", "waiting_for_merchant_balance" }

\* ALLOWED_ORDER_TRANSITIONS; a status the table does not list has no exit.
AllowedTargets(from) ==
  CASE from = "created" ->
         {"waiting_for_payment", "cancelled", "manual_review"}
    [] from = "waiting_for_payment" ->
         {"payment_detected", "payment_expired", "payment_failed", "cancelled",
          "manual_review"}
    [] from = "payment_detected" -> {"payment_confirming", "manual_review"}
    [] from = "payment_confirming" -> {"paid", "payment_failed", "manual_review"}
    [] from = "paid" ->
         {"purchase_processing", "refund_required", "manual_review"}
    [] from = "purchase_processing" ->
         {"stars_sending", "purchase_failed", "refund_required", "manual_review",
          "waiting_for_merchant_balance"}
    [] from = "stars_sending" ->
         {"completed", "purchase_failed", "refund_required", "manual_review",
          "waiting_for_merchant_balance"}
    [] from = "purchase_failed" -> {"refund_required", "manual_review"}
    [] from = "refund_required" -> {"refunded", "manual_review"}
    [] from \in {"payment_expired", "cancelled"} -> {"manual_review"}
    [] from = "manual_review" ->
         {"paid", "purchase_processing", "stars_sending", "completed",
          "refund_required", "refunded", "cancelled"}
    [] from = "waiting_for_merchant_balance" ->
         {"purchase_processing", "manual_review", "refund_required"}
    [] OTHER -> {}

\* transition() returns early when nothing changes and raises ValueError when
\* the table does not list the target: the surrounding transaction rolls back.
CanTransition(from, to) == from = to \/ to \in AllowedTargets(from)

\* How far the payment of an order with this status has come (PaymentPromise).
StageOf(s) ==
  CASE s \in {"created", "waiting_for_payment", "payment_detected", "payment_confirming"} ->
         "open"
    [] s \in {"payment_expired", "cancelled"} -> "closed"
    [] s = "payment_failed" -> "failed"
    [] s = "manual_review" -> "review"
    [] s = "paid" -> "paid"
    [] OTHER -> "taken up"
=============================================================================
