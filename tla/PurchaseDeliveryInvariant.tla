--------------------- MODULE PurchaseDeliveryInvariant ---------------------
(***************************************************************************)
(* The inductive invariant behind the safety properties of                 *)
(* PurchaseDelivery.  None of them is inductive: each depends on what the  *)
(* tasks that still hold an answer of Fragment or of YooKassa may do next. *)
(***************************************************************************)
EXTENDS PurchaseDelivery

\* A task between its transaction and the POST.
Starter(t, o) == task[t].pc = "start" /\ task[t].order = o

\* The purchase of o cannot cost anything any more: nobody will POST, and
\* whatever was posted is dead.
Over(o) ==
  /\ attempt[o] # NoAttempt
  /\ \A t \in Tasks : ~Starter(t, o)
  /\ \A r \in Requests : fragment[r].order = o => fragment[r].state \in Dead

\* Before the attempt row exists, no task and no request is about the purchase.
Untouched(o) ==
  /\ \A t \in Tasks :
       task[t].order = o => task[t].pc \notin {"start", "posting", "check", "apply"}
  /\ \A r \in Requests : fragment[r].order # o

FragmentInv ==
  \A r \in Requests :
    /\ fragment[r].order = NoOrder <=> fragment[r].state = "unused"
    /\ fragment[r].state = "completed" => fragment[r].tx \in Txs

\* A request id, stored or held, is one of the order it is stored or held for.
ReferenceInv ==
  /\ \A o \in Orders : attempt[o].rid # NoRequest => fragment[attempt[o].rid].order = o
  /\ \A t \in Tasks :
       /\ task[t].rid # NoRequest =>
            task[t].pc # "idle" /\ fragment[task[t].rid].order = task[t].order
       /\ \/ task[t].pc \in {"posting", "check"}
          \/ task[t].pc = "apply" /\ task[t].out \in {"pending", "succeeded"}
          => task[t].rid # NoRequest

\* An order has no attempt until the delivery starts, and nothing came before.
StartInv ==
  \A o \in Orders :
    /\ status[o] \in {"payment_confirming", "paid"} => attempt[o] = NoAttempt
    /\ attempt[o] = NoAttempt => Untouched(o)

\* Unless a balance retry was approved, one task POSTs once.
PostInv ==
  \A o \in Orders \ retried :
    /\ ~attempt[o].approved
    /\ \A t \in Tasks : Starter(t, o) => \A r \in Requests : fragment[r].order # o
    /\ \A t, u \in Tasks : Starter(t, o) /\ Starter(u, o) => t = u
    /\ \A r1, r2 \in Requests : fragment[r1].order = o /\ fragment[r2].order = o => r1 = r2

\* Whoever is about to give up on the purchase or to return the money, and
\* every trace of it in the database, knows that it is over.
OverInv ==
  \A o \in Orders \ retried :
    /\ \/ status[o] \in {"refund_required", "refunded", "waiting_for_merchant_balance"}
       \/ money[o] # "none"
       => Over(o)
    /\ \A t \in Tasks :
         /\ task[t].order = o
         /\ \/ task[t].pc = "apply" /\ task[t].out \in {"failed", "balance"}
            \/ task[t].pc \in {"refund", "refunded", "synced"}
         => Over(o)

\* What the database and the tasks say about a refund is what happened.
MoneyInv ==
  /\ \A o \in Orders :
       status[o] = "refunded" \/ refund[o] = "succeeded" => money[o] = "succeeded"
  /\ \A t \in Tasks :
       task[t].pc \in {"refunded", "synced"} /\ task[t].out = "succeeded" =>
         money[task[t].order] = "succeeded"

\* A transaction id is stored for one order, and comes from a request of it
\* that Fragment completed.
TxInv ==
  /\ \A t \in Tasks :
       task[t].pc = "apply" /\ task[t].out = "succeeded" =>
         fragment[task[t].rid].state = "completed"
  /\ \A o \in Orders :
       /\ attempt[o].tx # NoTx =>
            /\ \E r \in Requests :
                 /\ fragment[r].order = o /\ fragment[r].state = "completed"
                 /\ fragment[r].tx = attempt[o].tx
            /\ \A p \in Orders \ {o} : attempt[p].tx # attempt[o].tx
       /\ status[o] = "completed" => attempt[o].status = "succeeded" /\ attempt[o].tx # NoTx

\* While no request id is stored for a purchase that began, either everything is
\* open, the attempt and the order say so and nobody holds an answer that would
\* settle it, or Fragment refused all that was posted.
Open(o) ==
  /\ attempt[o].status \in {"submitting", "uncertain"}
  /\ status[o] \in {"purchase_processing", "manual_review"}
  /\ \A t \in Tasks : task[t].order = o =>
       /\ task[t].pc # "check"
       /\ task[t].pc = "apply" => task[t].out \notin {"failed", "balance", "succeeded"}
Refused(o) ==
  /\ \A t \in Tasks : ~Starter(t, o)
  /\ \A r \in Requests :
       fragment[r].order = o => fragment[r].state \in {"rejected", "rejected_balance"}
TrackInv ==
  \A o \in Orders \ retried :
    attempt[o] # NoAttempt /\ attempt[o].rid = NoRequest => Open(o) \/ Refused(o)

\* Whoever may POST holds the lock of its process, who holds it never waits for it,
\* and no two tasks hold the same one.
LockFact(x) ==
  /\ x.pc \in {"start", "posting"} => x.lock
  /\ x.lock => x.pc \in {"start", "posting", "check", "apply"}
LockInv ==
  /\ \A t \in Tasks : LockFact(task[t])
  /\ \A t, u \in Tasks :
       t # u /\ TaskProcess[t] = TaskProcess[u] /\ task[t].lock /\ task[u].lock =>
         task[t].order # task[u].order

Inv ==
  /\ FragmentInv /\ ReferenceInv /\ StartInv
  /\ PostInv /\ OverInv /\ MoneyInv /\ TxInv
=============================================================================
