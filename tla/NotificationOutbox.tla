------------------------- MODULE NotificationOutbox -------------------------
(***************************************************************************)
(* How a buyer and the administrators hear of an order: every change of    *)
(* orders.status stores rows of order_notifications in its transaction,    *)
(* and the OrderWorker of the bot process claims them in batches, talks to *)
(* Telegram and stores the outcome.                                        *)
(*                                                                         *)
(* Processes come and go under the polling lock, which is lost with its    *)
(* connection; a claim goes stale after five minutes.  Telegram may show a *)
(* message and the call fail all the same.                                 *)
(***************************************************************************)
EXTENDS OrderDomain, Naturals, Sequences, FiniteSets

CONSTANTS
  Orders,
  Large,         \* the orders of 1000 Stars and more
  Statuses,      \* the statuses the instance explores; bounds the model
  Processes,     \* the bot process and the one that replaces it
  Nobody,
  Batch,         \* worker_batch_size
  RetryLimit,    \* notification_retry_limit
  MaxRows,       \* bounds the outbox
  MaxFaults      \* bounds the stops of processes and the lost connections

ASSUME SubsetAssumption == Large \subseteq Orders /\ Statuses \subseteq OrderStatus
ASSUME NobodyAssumption == Nobody \notin Processes /\ Processes # {}
ASSUME BoundsAssumption ==
  Batch \in Nat \ {0} /\ RetryLimit \in Nat \ {0} /\ MaxRows \in Nat /\ MaxFaults \in Nat

VARIABLES
  status,    \* orders.status
  outbox,    \* order_notifications, in the order of their ids
  stored,    \* the orders whose customer_message_id is known
  message,   \* what the customer message of an order shows, at Telegram
  told,      \* history: the rows Telegram took
  troubled,  \* history: the rows with a failed attempt or a claim that went stale
  repeated,  \* history: the rows Telegram took again that had no trouble before
  lock,      \* the holder of the advisory lock
  poller,    \* the local state of each bot process
  faults

vars == <<status, outbox, stored, message, told, troubled, repeated, lock, poller, faults>>

-----------------------------------------------------------------------------
(* Types *)

Row ==
  [order: Orders, status: OrderStatus, audience: {"user", "admin"},
   attempts: 0..RetryLimit, claim: Processes \union {Nobody},
   stale: BOOLEAN,      \* claimed_at is older than five minutes
   due: BOOLEAN,        \* next_attempt_at has come
   delivered: BOOLEAN, abandoned: BOOLEAN]

\* edit: the customer message was known when the row was claimed.
Claimed == [id: 1..MaxRows, edit: BOOLEAN]

\* ok: what the call to Telegram reported.
Poller ==
  [pc: {"down", "idle", "send", "finish"}, batch: SUBSET Claimed, ok: BOOLEAN]
Down == [pc |-> "down", batch |-> {}, ok |-> FALSE]
Waiting == [Down EXCEPT !.pc = "idle"]

\* format_status_message: statuses with the same text.
Text(s) ==
  IF s \in {"paid", "purchase_processing", "stars_sending"} THEN "received"
  ELSE IF s \in {"manual_review", "refund_required", "waiting_for_merchant_balance"}
    THEN "delayed"
  ELSE s
Texts == {"none", "invoice"} \union {Text(s) : s \in OrderStatus}

Ids == 1..Len(outbox)

TypeOK ==
  /\ status \in [Orders -> OrderStatus]
  /\ outbox \in Seq(Row) /\ Len(outbox) <= MaxRows
  /\ stored \subseteq Orders
  /\ message \in [Orders -> Texts]
  /\ told \subseteq 1..MaxRows /\ troubled \subseteq 1..MaxRows
  /\ repeated \subseteq 1..MaxRows
  /\ lock \in Processes \union {Nobody}
  /\ poller \in [Processes -> Poller]
  /\ faults \in 0..MaxFaults

-----------------------------------------------------------------------------
(* Orders *)

UserStatuses ==
  {"paid", "completed", "payment_expired", "payment_failed", "refund_required",
   "refunded", "cancelled", "manual_review", "waiting_for_merchant_balance"}
AdminStatuses ==
  {"manual_review", "refund_required", "waiting_for_merchant_balance", "paid"}

NewRow(o, s, audience) ==
  [order |-> o, status |-> s, audience |-> audience, attempts |-> 0, claim |-> Nobody,
   stale |-> FALSE, due |-> TRUE, delivered |-> FALSE, abandoned |-> FALSE]

\* enqueue_status_notifications
RowsOf(o, s) ==
  (IF s \in UserStatuses THEN <<NewRow(o, s, "user")>> ELSE << >>)
  \o (IF s \in AdminStatuses \/ (s = "completed" /\ o \in Large)
        THEN <<NewRow(o, s, "admin")>> ELSE << >>)

\* OrderRepository.transition, from any operation.
Transition(o) ==
  \E s \in Statuses \ {status[o]} :
    /\ CanTransition(status[o], s)
    /\ Len(outbox \o RowsOf(o, s)) <= MaxRows
    /\ status' = [status EXCEPT ![o] = s]
    /\ outbox' = outbox \o RowsOf(o, s)
    /\ UNCHANGED <<stored, message, told, troubled, repeated, lock, poller, faults>>

\* admin_resend_notification
Resend(o) ==
  /\ Len(outbox) < MaxRows
  /\ outbox' = Append(outbox, NewRow(o, status[o], "user"))
  /\ UNCHANGED <<status, stored, message, told, troubled, repeated, lock, poller, faults>>

\* confirm_order shows the invoice and then stores which message it is.
StoreMessage(o) ==
  /\ o \notin stored
  /\ stored' = stored \union {o}
  /\ message' = [message EXCEPT ![o] = "invoice"]
  /\ UNCHANGED <<status, outbox, told, troubled, repeated, lock, poller, faults>>

-----------------------------------------------------------------------------
(* The clock *)

\* Five minutes after the claim; next_attempt_at.
ClaimLapses(n) ==
  /\ n \in Ids
  /\ outbox[n].claim # Nobody /\ ~outbox[n].stale
  /\ outbox' = [outbox EXCEPT ![n].stale = TRUE]
  /\ troubled' = troubled \union {n}
  /\ UNCHANGED <<status, stored, message, told, repeated, lock, poller, faults>>

BackoffEnds(n) ==
  /\ n \in Ids
  /\ ~outbox[n].due
  /\ outbox' = [outbox EXCEPT ![n].due = TRUE]
  /\ UNCHANGED <<status, stored, message, told, troubled, repeated, lock, poller, faults>>

-----------------------------------------------------------------------------
(* Processes *)

Set(p, new) == poller' = [poller EXCEPT ![p] = new]

\* main, after ProcessLock.acquire; a second process does not get past it.
Start(p) ==
  /\ poller[p] = Down /\ lock = Nobody
  /\ lock' = p
  /\ Set(p, Waiting)
  /\ UNCHANGED <<status, outbox, stored, message, told, troubled, repeated, faults>>

Fault ==
  /\ faults < MaxFaults
  /\ faults' = faults + 1

\* The process stops wherever it is; its connection and its lock go with it.
Stops(p) ==
  /\ poller[p] # Down
  /\ Set(p, Down)
  /\ lock' = IF lock = p THEN Nobody ELSE lock
  /\ Fault
  /\ UNCHANGED <<status, outbox, stored, message, told, troubled, repeated>>

\* The connection that holds the lock breaks, and nobody looks at it again.
LockIsLost ==
  /\ lock # Nobody
  /\ lock' = Nobody
  /\ Fault
  /\ UNCHANGED <<status, outbox, stored, message, told, troubled, repeated, poller>>

-----------------------------------------------------------------------------
(* Delivery *)

\* Not the code: a claim is for ever; or it protects nothing.
MutantClaimable(n) ==
  LET r == outbox[n] IN
  ~r.delivered /\ ~r.abandoned /\ r.due /\ r.claim = Nobody
MutantClaimableAgain(n) ==
  LET r == outbox[n] IN ~r.delivered /\ ~r.abandoned /\ r.due
MutantClaimableDelivered(n) ==
  LET r == outbox[n] IN ~r.abandoned /\ r.due /\ (r.claim = Nobody \/ r.stale)
\* The condition of claim_notifications.
Claimable(n) ==
  LET r == outbox[n] IN
  ~r.delivered /\ ~r.abandoned /\ r.due /\ (r.claim = Nobody \/ r.stale)

\* The first worker_batch_size rows by id.
Oldest(ids) == {n \in ids : Cardinality({k \in ids : k < n}) < Batch}

\* claim_notifications, with what a ClaimedNotification remembers. The token of a claim is a
\* uuid that a process draws when it starts; the process stands for it, since a process that
\* was started again has no batch and so stores no outcome for a claim of its former life.
Claim(p) ==
  LET ids == Oldest({n \in Ids : Claimable(n)}) IN
  /\ poller[p] = Waiting /\ ids # {}
  /\ outbox' = [n \in Ids |->
       IF n \in ids THEN [outbox[n] EXCEPT !.claim = p, !.stale = FALSE] ELSE outbox[n]]
  /\ Set(p, [pc |-> "send", ok |-> FALSE,
             batch |-> {[id |-> n, edit |-> outbox[n].order \in stored] : n \in ids}])
  /\ UNCHANGED <<status, stored, message, told, troubled, repeated, lock, faults>>

\* Not the code: the newest row first.
MutantTurn(p, c) == c \in poller[p].batch /\ \A d \in poller[p].batch : d.id <= c.id
\* The batch is worked off by id.
Turn(p, c) == c \in poller[p].batch /\ \A d \in poller[p].batch : c.id <= d.id

\* Not the code: every refusal of an edit is taken for `not modified'.
MutantAnswers(reaches, ok) == TRUE
\* Telegram may take a message and the call fail, never the other way round, as long
\* as there is an administrator who is not the buyer.
Answers(reaches, ok) == ok => reaches

\* _deliver_notification, up to the answer of Telegram: an edit of the customer
\* message, a new message, or a message to the administrators.
Send(p) ==
  /\ poller[p].pc = "send"
  /\ \E c \in poller[p].batch, reaches \in BOOLEAN, ok \in BOOLEAN :
       LET r == outbox[c.id] IN
       /\ Turn(p, c)
       /\ Answers(reaches, ok)
       /\ told' = IF reaches THEN told \union {c.id} ELSE told
       /\ repeated' = IF reaches /\ c.id \in told \ troubled
                        THEN repeated \union {c.id} ELSE repeated
       /\ message' = IF reaches /\ r.audience = "user" /\ c.edit
                       THEN [message EXCEPT ![r.order] = Text(r.status)] ELSE message
       /\ Set(p, [poller[p] EXCEPT !.pc = "finish", !.ok = ok])
  /\ UNCHANGED <<status, outbox, stored, troubled, lock, faults>>

\* finish_notification on the row it finds.
Finished(r, ok) ==
  LET free == [r EXCEPT !.claim = Nobody, !.stale = FALSE] IN
  IF ok THEN [free EXCEPT !.delivered = TRUE]
  ELSE IF r.attempts + 1 >= RetryLimit
    THEN [free EXCEPT !.attempts = r.attempts + 1, !.abandoned = TRUE]
  ELSE [free EXCEPT !.attempts = r.attempts + 1, !.due = FALSE]

\* The claim is still the one of this process.
Holds(p, n) == outbox[n].claim = p

\* What is left of the batch.
Rest(p, c) ==
  IF poller[p].batch = {c} THEN Waiting
  ELSE [pc |-> "send", ok |-> FALSE, batch |-> poller[p].batch \ {c}]

Finish(p) ==
  /\ poller[p].pc = "finish"
  /\ \E c \in poller[p].batch :
       /\ Turn(p, c)
       /\ outbox' = IF Holds(p, c.id)
                      THEN [outbox EXCEPT ![c.id] = Finished(outbox[c.id], poller[p].ok)]
                      ELSE outbox
       /\ troubled' = IF Holds(p, c.id) /\ ~poller[p].ok
                        THEN troubled \union {c.id} ELSE troubled
       /\ Set(p, Rest(p, c))
  /\ UNCHANGED <<status, stored, message, told, repeated, lock, faults>>

\* The transaction fails: the tick ends and the rest of the batch stays claimed.
FinishFails(p) ==
  /\ poller[p].pc = "finish"
  /\ Set(p, Waiting)
  /\ Fault
  /\ UNCHANGED <<status, outbox, stored, message, told, troubled, repeated, lock>>

-----------------------------------------------------------------------------
\* The bot process that runs when the orders are made.
First == CHOOSE p \in Processes : TRUE

Init ==
  /\ status = [o \in Orders |-> "created"]
  /\ outbox = << >>
  /\ stored = {}
  /\ message = [o \in Orders |-> "none"]
  /\ told = {} /\ troubled = {} /\ repeated = {}
  /\ lock = First
  /\ poller = [p \in Processes |-> IF p = First THEN Waiting ELSE Down]
  /\ faults = 0

Next ==
  \/ \E o \in Orders : Transition(o) \/ Resend(o) \/ StoreMessage(o)
  \/ \E n \in 1..MaxRows : ClaimLapses(n) \/ BackoffEnds(n)
  \/ \E p \in Processes :
       Start(p) \/ Stops(p) \/ Claim(p) \/ Send(p) \/ Finish(p) \/ FinishFails(p)
  \/ LockIsLost

Spec == Init /\ [][Next]_vars

-----------------------------------------------------------------------------
(* Safety *)

\* Nobody is told the same thing twice unless an attempt failed or a claim went
\* stale, not even by two processes that both believe they hold the polling lock
\* (claim_notifications, ProcessLock).
RepeatedOnlyAfterFault == repeated = {}

\* A row that is called delivered was told and was not given up, and a row is given
\* up only after all its attempts, also when the process that lost its claim stores
\* its outcome last (finish_notification).
OutcomeIsEarned ==
  \A n \in Ids :
    /\ outbox[n].delivered => n \in told /\ ~outbox[n].abandoned
    /\ outbox[n].abandoned => outbox[n].attempts = RetryLimit

\* The rows that tell the buyer of an order.
Mine(o) == {n \in Ids : outbox[n].order = o /\ outbox[n].audience = "user"}

\* While nothing fails, the customer message shows the last status of its order once
\* all its rows are delivered, however the invoice, the changes of the order and two
\* processes overlap (claim_notifications orders by id).  After a failed edit it may
\* not: the retry of an older row comes after the newer one.
MessageIsCurrent ==
  \A o \in stored :
    /\ faults = 0 /\ message[o] # "invoice"
    /\ \A n \in Mine(o) : outbox[n].delivered /\ n \notin troubled
    => \E n \in Mine(o) :
         (\A k \in Mine(o) : k <= n) /\ message[o] = Text(outbox[n].status)

\* The outcome of a row never changes and a told row is not taken up again
\* (finish_notification, claim_notifications).
OutcomeIsFinal ==
  [][\A n \in Ids : outbox[n].delivered \/ outbox[n].abandoned =>
       outbox'[n] = outbox[n]]_vars

-----------------------------------------------------------------------------
(* The inductive invariant *)

\* A row that is claimed has no outcome; one with an outcome earned it.  Only trouble
\* leaves a row that was told without an outcome and without a claim.
RowFits(n) ==
  LET r == outbox[n] IN
  /\ r.claim # Nobody \/ r.delivered \/ r.abandoned => r.due
  /\ r.claim # Nobody => ~r.delivered /\ ~r.abandoned
  /\ r.delivered => n \in told /\ ~r.abandoned
  /\ IF r.abandoned THEN r.attempts = RetryLimit ELSE r.attempts < RetryLimit
  /\ r.stale => n \in troubled
  /\ r.claim = Nobody /\ n \in told => r.delivered \/ n \in troubled

\* A process works off each row once, and its rows are its own and not yet told,
\* except those whose claim went stale and the one it is about to finish.
BatchFits(p) ==
  /\ \A c, d \in poller[p].batch : c.id = d.id => c = d
  /\ \A c \in poller[p].batch :
       /\ c.id \in Ids
       /\ c.id \notin troubled => outbox[c.id].claim = p
       /\ c.id \in told => c.id \in troubled \/ (poller[p].pc = "finish" /\ Turn(p, c))
       /\ poller[p].pc = "finish" /\ poller[p].ok /\ Turn(p, c) => c.id \in told

Inv ==
  /\ told \subseteq Ids /\ troubled \subseteq Ids /\ repeated = {}
  /\ \A n \in Ids : RowFits(n)
  /\ \A p \in Processes : BatchFits(p)

\* What the customer message of an order depends on while nothing fails.  The claims
\* are those of the one process that polls ...
Batched == {c.id : c \in poller[First].batch}
OnlyFirst ==
  /\ lock = First /\ \A p \in Processes \ {First} : poller[p] = Down
  /\ \A n \in Ids \ troubled :
       IF outbox[n].claim = Nobody THEN outbox[n].due /\ ~outbox[n].abandoned
                                   ELSE n \in Batched

\* ... a batch edits all the rows of an order or none of them ...
EditsFit ==
  \A c \in poller[First].batch : LET o == outbox[c.id].order IN
    /\ \A d \in poller[First].batch : outbox[d.id].order = o => c.edit = d.edit
    /\ o \in stored /\ message[o] # "invoice" => c.edit

\* ... and the rows of an order without trouble are told one after the other, so that
\* its message shows the last one told.
ToldInOrder(o) ==
  /\ \A n \in Mine(o), k \in Mine(o) : k < n =>
       /\ n \in told => k \in told
       /\ n \in Batched => k \in told \union Batched
  /\ o \in stored /\ message[o] # "invoice" =>
       \E n \in Mine(o) \intersect told :
         (\A k \in Mine(o) \intersect told : k <= n) /\ message[o] = Text(outbox[n].status)

CurrentInv ==
  faults = 0 =>
    /\ OnlyFirst /\ EditsFit
    /\ \A o \in Orders : Mine(o) \intersect troubled = {} => ToldInOrder(o)

-----------------------------------------------------------------------------
(* Liveness *)

\* The container is restarted when it stops, the worker's loop goes on, its calls
\* end, and time passes.
Fairness ==
  /\ \A p \in Processes : WF_vars(Start(p) \/ Claim(p) \/ Send(p) \/ Finish(p))
  /\ \A n \in 1..MaxRows : WF_vars(ClaimLapses(n) \/ BackoffEnds(n))

FairSpec == Spec /\ Fairness

OnePoller == \A p, q \in Processes : poller[p] # Down /\ poller[q] # Down => p = q

\* Whom enqueue_status_notifications has to tell of a status.
Concerned(s) ==
  {audience \in {"user", "admin"} :
     s \in IF audience = "user" THEN UserStatuses ELSE AdminStatuses}

\* Whatever status an order takes that concerns its buyer or the administrators, they
\* are told or the row is given up, as long as in the end one process polls: neither a
\* stopped process nor a failed transaction keeps a row for ever (claim_notifications,
\* stale claims, retries).
StatusIsTold ==
  <>[]OnePoller =>
    \A o \in Orders, s \in Statuses : \A audience \in Concerned(s) :
      status[o] = s ~>
        \E n \in Ids : /\ outbox[n].order = o /\ outbox[n].status = s
                       /\ outbox[n].audience = audience
                       /\ outbox[n].delivered \/ outbox[n].abandoned
=============================================================================
